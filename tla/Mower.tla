-------------------------------- MODULE Mower --------------------------------
(***************************************************************************)
(* The controller as a whole: raspberry_pi/poller.c, sensor_range.c,       *)
(* sensor_bwf.c, mow.c and communicator.c, joined by the POSIX queues of   *)
(* messages.c.                                                             *)
(*                                                                         *)
(*   poller of s --read--> comm --value--> queue of s --> sensor thread s  *)
(*        ^ Q_COMMUNICATOR                                      |          *)
(*   mow thread <------------- Q_MAIN <----decision-------------+          *)
(*                                                                         *)
(* The four kinds of threads send with mq_send, which blocks while the     *)
(* queue is full.  The communicator carries a motor request out in one     *)
(* step here, as Drive promises; CommunicatorProofs shows that it may.     *)
(***************************************************************************)
EXTENDS Requests, Sequences

CONSTANTS
  Readings,      \* Readings[s]: the values sensor s may have
  FailedReads,   \* what a read gives when the transport fails unnoticed
  Capacity,      \* Capacity[q]: messages queue q holds before mq_send blocks
  CliRequests,   \* the motor requests an operator may type
  MaxEvents,     \* bound: how often something happens outside the controller
  MaxCrashes     \* bound: how often the process dies

Sensors == {"range", "bwf"}
\* Q_MAIN, Q_COMMUNICATOR and one dynamic queue for each sensor.
Queues == {"main", "comm"} \cup Sensors

ASSUME MowerAssumption ==
  /\ ReplyQueues = Sensors
  /\ Readings \in [Sensors -> SUBSET Int]
  /\ \A s \in Sensors : Readings[s] # {}
  /\ FailedReads \subseteq Int
  /\ Capacity \in [Queues -> Nat \ {0}]
  /\ CliRequests \subseteq Moves \cup Turns \cup Stops
  /\ MaxEvents \in Nat
  /\ MaxCrashes \in Nat

VARIABLES
  queue,      \* the queues' contents, kept by the kernel
  world,      \* world[s]: what sensor s measures
  state,      \* state[s]: struct sensor_range / sensor_bwf
  sending,    \* sending[s]: the decision thread s is blocked on, or "none"
  mowState,   \* this.current_state of mow.c
  todo,       \* the requests the mow thread has still to send for a decision
  handling,   \* the decision it is handling, or "none"
  heading, motor,  \* struct communicator
  reply,      \* the value the communicator has still to send, or NoReply
  motion,     \* what the wheels do: the board outlives the process
  told,       \* history: the last decision of each sensor that mow took
  events, crashes  \* counters of the bounds

sensing == <<state, sending>>
mowing == <<mowState, todo, handling, told>>
driving == <<heading, motor, reply, motion>>
bounds == <<events, crashes>>
vars == <<queue, world, sensing, mowing, driving, bounds>>

Decisions == {"ok", "too_close"}
Other(d) == IF d = "ok" THEN "too_close" ELSE "ok"
DecisionMessages == [sensor : Sensors, decision : Decisions]
NoReply == [sensor |-> "none", value |-> 0]

Values(s) == Readings[s] \cup FailedReads

Init ==
  /\ queue = [q \in Queues |-> << >>]
  /\ world \in {w \in [Sensors -> UNION {Readings[s] : s \in Sensors}] :
                  \A s \in Sensors : w[s] \in Readings[s]}
  /\ state = [s \in Sensors |-> "too_close"]
  /\ sending = [s \in Sensors |-> "none"]
  /\ mowState = "stopped" /\ todo = << >> /\ handling = "none"
  /\ heading = "undefined" /\ motor = "stop" /\ reply = NoReply
  /\ motion = "stopped"
  /\ told = [s \in Sensors |-> "too_close"]
  /\ events = 0 /\ crashes = 0

-----------------------------------------------------------------------------
\* messages.c: blocking send, FIFO receive (every message has PRIO_NORMAL).

\* Mutant: one message too many.
HasRoomOffByOne(q) == Len(queue[q]) <= Capacity[q]

HasRoom(q) == Len(queue[q]) < Capacity[q]
Sent(q, m) == [queue EXCEPT ![q] = Append(@, m)]
Received(q) == [queue EXCEPT ![q] = Tail(@)]

-----------------------------------------------------------------------------
\* poller.c: ask for a reading, sleep, ask again.

ReadRequest(s) == [op |-> "sensor", queue |-> s]

Poll(s) ==
  /\ HasRoom("comm")
  /\ queue' = Sent("comm", ReadRequest(s))
  /\ UNCHANGED <<world, sensing, mowing, driving, bounds>>

-----------------------------------------------------------------------------
\* communicator.c: one request at a time.

Event == events < MaxEvents /\ events' = events + 1

\* What the wheels do after a motor request, seen from the drive's new state:
\* a turn without a direction resumes with this.motor, that is to say it stops.
MotionAfter(c) ==
  IF MotorAfter(c, motor) = "stop" THEN "stopped" ELSE HeadingAfter(c, heading)

CommDrive ==
  /\ reply = NoReply
  /\ queue["comm"] # << >>
  /\ LET c == Head(queue["comm"])
     IN /\ Drives(c)
        /\ heading' = HeadingAfter(c, heading)
        /\ motor' = MotorAfter(c, motor)
        /\ motion' = MotionAfter(c)
  /\ queue' = Received("comm")
  /\ UNCHANGED <<world, sensing, mowing, reply, bounds>>

CommRead ==
  /\ reply = NoReply
  /\ queue["comm"] # << >>
  /\ LET c == Head(queue["comm"])
     IN /\ c.op = "sensor"
        /\ \/ /\ reply' = [sensor |-> c.queue, value |-> world[c.queue]]
              /\ UNCHANGED events
           \/ /\ Event
              /\ \E v \in FailedReads : reply' = [sensor |-> c.queue, value |-> v]
  /\ queue' = Received("comm")
  /\ UNCHANGED <<world, sensing, mowing, heading, motor, motion, crashes>>

CommReply ==
  /\ reply # NoReply
  /\ HasRoom(reply.sensor)
  /\ queue' = Sent(reply.sensor, reply.value)
  /\ reply' = NoReply
  /\ UNCHANGED <<world, sensing, mowing, heading, motor, motion, bounds>>

-----------------------------------------------------------------------------
\* sensor_range.c and sensor_bwf.c: hysteresis around a threshold.  The range
\* sensor reads high, the wire reads low when it is near.

RANGE_TOO_CLOSE == 380
RANGE_HYSTERESIS == 100
BWF_TOO_CLOSE == 902
BWF_HYSTERESIS == 42

IsClose(s, v) == IF s = "range" THEN v >= RANGE_TOO_CLOSE ELSE v <= BWF_TOO_CLOSE
IsClear(s, v) == IF s = "range" THEN v < RANGE_TOO_CLOSE - RANGE_HYSTERESIS
                                ELSE v > BWF_TOO_CLOSE + BWF_HYSTERESIS

\* The decision a value calls for in a state of the sensor, or "none".
Decision(s, st, v) ==
  IF st = "too_close" /\ IsClear(s, v) THEN "ok"
  ELSE IF st = "ok" /\ IsClose(s, v) THEN "too_close" ELSE "none"

SensorTake(s) ==
  /\ sending[s] = "none"
  /\ queue[s] # << >>
  /\ sending' = [sending EXCEPT ![s] = Decision(s, state[s], Head(queue[s]))]
  /\ queue' = Received(s)
  /\ UNCHANGED <<world, state, mowing, driving, bounds>>

\* Mutant: the state is not changed.
SensorDecideForgetful(s) ==
  /\ sending[s] # "none"
  /\ HasRoom("main")
  /\ queue' = Sent("main", [sensor |-> s, decision |-> sending[s]])
  /\ sending' = [sending EXCEPT ![s] = "none"]
  /\ UNCHANGED <<world, state, mowing, driving, bounds>>

\* Mutant: a send that does not wait, and whose failure is ignored.
SensorDecideDropping(s) ==
  /\ sending[s] # "none"
  /\ IF HasRoom("main")
       THEN queue' = Sent("main", [sensor |-> s, decision |-> sending[s]])
       ELSE UNCHANGED queue
  /\ state' = [state EXCEPT ![s] = sending[s]]
  /\ sending' = [sending EXCEPT ![s] = "none"]
  /\ UNCHANGED <<world, mowing, driving, bounds>>

\* The state changes after the send: while it blocks, the old one stands.
SensorDecide(s) ==
  /\ sending[s] # "none"
  /\ HasRoom("main")
  /\ queue' = Sent("main", [sensor |-> s, decision |-> sending[s]])
  /\ state' = [state EXCEPT ![s] = sending[s]]
  /\ sending' = [sending EXCEPT ![s] = "none"]
  /\ UNCHANGED <<world, mowing, driving, bounds>>

-----------------------------------------------------------------------------
\* mow.c: every state has the same handlers.

\* Mutant: the turn is not followed by a move.
PlansTurnOnly(d) ==
  IF d = "too_close" THEN {<<[op |-> "backward"]>>}
  ELSE {<<[op |-> side]>> : side \in Sides}

Plans(d) ==
  IF d = "too_close" THEN {<<[op |-> "backward"]>>}
  ELSE {<<[op |-> side], [op |-> "forward"]>> : side \in Sides}

StateAfter(d) == IF d = "too_close" THEN "obstacle" ELSE "idle"

\* Mutant: a decision is taken only when its first request can be sent.
MowTakeReserving ==
  /\ handling = "none"
  /\ queue["main"] # << >>
  /\ HasRoom("comm")
  /\ LET m == Head(queue["main"])
     IN /\ handling' = m.decision
        /\ todo' \in Plans(m.decision)
        /\ told' = [told EXCEPT ![m.sensor] = m.decision]
  /\ queue' = Received("main")
  /\ UNCHANGED <<world, sensing, mowState, driving, bounds>>

MowTake ==
  /\ handling = "none"
  /\ queue["main"] # << >>
  /\ LET m == Head(queue["main"])
     IN /\ handling' = m.decision
        /\ todo' \in Plans(m.decision)
        /\ told' = [told EXCEPT ![m.sensor] = m.decision]
  /\ queue' = Received("main")
  /\ UNCHANGED <<world, sensing, mowState, driving, bounds>>

\* Mutant: a send that wants one place more than it needs.
MowSendOneShort ==
  /\ handling # "none"
  /\ Len(queue["comm"]) + 1 < Capacity["comm"]
  /\ queue' = Sent("comm", Head(todo))
  /\ todo' = Tail(todo)
  /\ IF Len(todo) = 1
       THEN mowState' = StateAfter(handling) /\ handling' = "none"
       ELSE UNCHANGED <<mowState, handling>>
  /\ UNCHANGED <<world, sensing, told, driving, bounds>>

\* The state changes once the last request of the plan has been sent.
MowSend ==
  /\ handling # "none"
  /\ HasRoom("comm")
  /\ queue' = Sent("comm", Head(todo))
  /\ todo' = Tail(todo)
  /\ IF Len(todo) = 1
       THEN mowState' = StateAfter(handling) /\ handling' = "none"
       ELSE UNCHANGED <<mowState, handling>>
  /\ UNCHANGED <<world, sensing, told, driving, bounds>>

-----------------------------------------------------------------------------
\* The environment.

CliMove(c) ==
  /\ HasRoom("comm")
  /\ Event
  /\ queue' = Sent("comm", c)
  /\ UNCHANGED <<world, sensing, mowing, driving, crashes>>

WorldChange(s) ==
  /\ Event
  /\ \E v \in Readings[s] \ {world[s]} : world' = [world EXCEPT ![s] = v]
  /\ UNCHANGED <<queue, sensing, mowing, driving, crashes>>

\* What the board may be left doing when the process dies in a motor request.
Motions == {"stopped", "turning"} \cup Headings

CutShort ==
  /\ reply = NoReply
  /\ queue["comm"] # << >>
  /\ Drives(Head(queue["comm"]))
  /\ queue' = Received("comm")
  /\ motion' \in Motions

\* The process dies and starts again.  The queues are kept, the board may be,
\* and what a thread was blocked on is gone.
Crash ==
  /\ crashes < MaxCrashes
  /\ crashes' = crashes + 1
  /\ state' = [s \in Sensors |-> "too_close"]
  /\ sending' = [s \in Sensors |-> "none"]
  /\ mowState' = "stopped" /\ todo' = << >> /\ handling' = "none"
  /\ told' = [s \in Sensors |-> "too_close"]
  /\ heading' = "undefined" /\ motor' = "stop" /\ reply' = NoReply
  /\ \/ CutShort
     \/ motion' \in {motion, "stopped"} /\ UNCHANGED queue
  /\ UNCHANGED <<world, events>>

CommThread == CommDrive \/ CommRead \/ CommReply
MowThread == MowTake \/ MowSend
SensorThread(s) == SensorTake(s) \/ SensorDecide(s)

Controller ==
  \/ CommThread
  \/ MowThread
  \/ \E s \in Sensors : Poll(s) \/ SensorThread(s)

Next ==
  \/ Controller
  \/ \E s \in Sensors : WorldChange(s)
  \/ \E c \in CliRequests : CliMove(c)
  \/ Crash

Spec == Init /\ [][Next]_vars

\* The kernel runs every thread, and wakes the sender that has waited longest
\* for room in a queue: no thread is passed over for ever where others send.
Fairness ==
  /\ WF_vars(CommThread)
  /\ SF_vars(MowThread)
  /\ \A s \in Sensors : SF_vars(Poll(s)) /\ SF_vars(SensorThread(s))

FairSpec == Spec /\ Fairness

-----------------------------------------------------------------------------
(***************************************************************************)
(* Properties.                                                             *)
(***************************************************************************)

Messages(q) ==
  CASE q = "main" -> DecisionMessages
    [] q = "comm" -> Commands
    [] q \in Sensors -> Values(q)

\* The type of every variable; no queue ever holds more than it has room for.
TypeOK ==
  /\ DOMAIN queue = Queues
  /\ \A q \in Queues : /\ queue[q] \in Seq(Messages(q))
                       /\ Len(queue[q]) <= Capacity[q]
  /\ DOMAIN world = Sensors /\ \A s \in Sensors : world[s] \in Readings[s]
  /\ state \in [Sensors -> Decisions]
  /\ sending \in [Sensors -> Decisions \cup {"none"}]
  /\ mowState \in {"stopped", "idle", "obstacle"}
  /\ handling \in Decisions \cup {"none"}
  /\ todo \in Seq(Moves \cup Turns) /\ Len(todo) <= 2
  /\ (handling = "none") <=> (todo = << >>)
  /\ told \in [Sensors -> Decisions]
  /\ heading \in Headings \cup {"undefined"}
  /\ motor \in MotorCommands
  /\ motion \in Motions
  /\ \/ reply = NoReply
     \/ /\ DOMAIN reply = {"sensor", "value"}
        /\ reply.sensor \in Sensors
        /\ reply.value \in Values(reply.sensor)
  /\ events \in 0..MaxEvents /\ crashes \in 0..MaxCrashes

\* The places of Q_MAIN that hold a decision of s.
From(s) == {i \in 1..Len(queue["main"]) : queue["main"][i].sensor = s}

\* The decisions of a sensor reach the mow thread one after the other, ok and
\* too_close in turn, none skipped and none twice, and the last one sent is the
\* sensor's state: the two threads agree on what the mower was told, however
\* many decisions of both sensors wait in Q_MAIN.  (Until a crash: the states
\* are then set back while the queue is not.)
InStep(s) ==
  /\ \A i \in From(s) :
       LET before == {j \in From(s) : j < i}
           after == {j \in From(s) : j > i}
           d == queue["main"][i].decision
       IN /\ before = {} => d = Other(told[s])
          /\ after = {} => d = state[s]
          /\ \A j \in after : (\A k \in after : j <= k)
                                => queue["main"][j].decision = Other(d)
  /\ From(s) = {} => told[s] = state[s]
  /\ sending[s] \in {"none", Other(state[s])}

DecisionsAlternate == crashes = 0 => \A s \in Sensors : InStep(s)

\* The moves waiting in Q_COMMUNICATOR, and the heading they will leave.
MovesWaiting ==
  {i \in 1..Len(queue["comm"]) : queue["comm"][i].op \in Headings}

FinalHeading ==
  IF MovesWaiting = {} THEN heading
  ELSE LET last == CHOOSE i \in MovesWaiting : \A j \in MovesWaiting : j <= i
       IN queue["comm"][last].op

\* Between two decisions the state of the mow thread is where the drive is
\* going once it has worked off its queue: obstacle is backward, idle is
\* forward, stopped is not yet anywhere.  (Until a crash, for the same reason.)
DriveFollowsMow ==
  crashes = 0 /\ handling = "none" =>
    FinalHeading = CASE mowState = "obstacle" -> "backward"
                     [] mowState = "idle"     -> "forward"
                     [] mowState = "stopped"  -> "undefined"

\* The communicator waits for a sensor thread, the sensor thread for the mow
\* thread, and the mow thread for the communicator.
Cycle ==
  \E s \in Sensors :
    /\ reply.sensor = s /\ ~HasRoom(s)
    /\ sending[s] # "none" /\ ~HasRoom("main")
    /\ handling # "none" /\ ~HasRoom("comm")

\* A thread has what it waits for: room in a queue, or a message in its own.
CanGoOn ==
  \/ IF reply = NoReply THEN queue["comm"] # << >> ELSE HasRoom(reply.sensor)
  \/ IF handling = "none" THEN queue["main"] # << >> ELSE HasRoom("comm")
  \/ \E s \in Sensors : IF sending[s] = "none" THEN queue[s] # << >> ELSE HasRoom("main")
  \/ HasRoom("comm")

\* The controller comes to a stand in one way only, that cycle: with any other
\* full or empty queues there is a thread that can go on, and does.
StuckOnlyInCycle == Cycle \/ (CanGoOn /\ ENABLED Controller)

\* A decision that the mow thread takes up is carried out: "Handles incoming
\* messages and takes decisions depending on them".
DecisionsCarriedOut == []<>(handling = "none")

\* Nothing but the ring of sends keeps a decision from being carried out: not
\* the pollers, who fill Q_COMMUNICATOR again and again, nor failed reads, an
\* operator or a restart over old queues.
CarriedOutUnlessStuck == []<>(handling = "none" \/ Cycle)

\* When both sensors stay too close the mower does not go on forward, and when
\* both stay clear it does, unless the operator has stopped it: no decision is
\* lost on the way through four threads and four queues, as long as these do
\* not block each other in the ring.  (Until a crash: the board goes on with
\* what it did, and the sensors are too close from the start.)
FollowsTheWorld ==
  LET undisturbed == crashes = 0 /\ ~Cycle
      close == \A s \in Sensors : IsClose(s, world[s])
      clear == \A s \in Sensors : IsClear(s, world[s])
      stopped == heading = "forward" /\ motor = "stop"
  IN <>[](undisturbed /\ (close \/ clear)) =>
       <>[](/\ close => motion # "forward"
            /\ clear => motion = "forward" \/ stopped)

=============================================================================
