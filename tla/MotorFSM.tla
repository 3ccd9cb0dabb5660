------------------------------ MODULE MotorFSM ------------------------------
(***************************************************************************)
(* android/core: MotorFSM.java with MotorController.java, over the stream  *)
(* UsbComStream.java that it shares with SensorReader.java, and            *)
(* CoreControllerImpl.shutdown, which another thread calls.                *)
(*                                                                         *)
(* Two threads command the motors: "fsm" handles the events of its queue,  *)
(* "service" stops the motors when the service is destroyed.  A step is    *)
(* one sendCommand, since the stream's monitor is held for one command at  *)
(* a time and any of them may throw.  The sensor reader holds the same     *)
(* monitor while it waits for the board's answer.                          *)
(***************************************************************************)
EXTENDS CoreBus

CONSTANTS
  Requests,     \* the events other parts of the program fire at this one
  MaxEvents,    \* bound: how many of them
  MaxLate,      \* bound: timers that expire before the queue has drained
  MaxFailures   \* bound: commands that throw, answers lost, cables pulled

ASSUME MotorAssumption ==
  /\ Requests \subseteq MotorEvents
  /\ MaxEvents \in Nat /\ MaxLate \in Nat
  /\ MaxFailures \in Nat

VARIABLES
  inbox,                  \* the queue of the subscriber
  timers,                 \* events on a Timer of their own
  subscribed, isRunning,  \* CoreBusSubscriberThread
  state, currentMovementSpeed, currentCutterSpeed,   \* MotorFSM
  moving,                 \* MotorController
  job,                    \* job[t]: the handler thread t is in
  reader, readerRunning,  \* SensorReader
  owed,                   \* has the board a request to answer?
  link,                   \* the stream: up, unplugged or closed
  board,                  \* the outputs of the Arduino
  events, late, failures  \* counters of the bounds

bus == <<inbox, timers, subscribed, isRunning>>
fields == <<state, currentMovementSpeed, currentCutterSpeed, moving>>
sensing == <<reader, readerRunning, owed>>
bounds == <<events, late, failures>>
vars == <<bus, fields, job, sensing, link, board, bounds>>

Threads == {"fsm", "service"}

Motors == {"motorRight", "motorLeft"}
Relays == {"relayRight", "relayLeft"}
Outputs == Motors \cup Relays \cup {"cutter"}
Released == 2   \* a relay with both of its lines low

\* What the board sets at its start, and again while no phone is attached.
AtRest == [o \in Outputs |-> IF o \in Relays THEN Released ELSE 0]

-----------------------------------------------------------------------------
\* The commands of MotorController: right before left for the direction, left
\* before right for the speed.

Command(output, value) == [output |-> output, value |-> value]

DirectionCommands(d) ==
  <<Command("relayRight", IF d \in {"BACKWARD", "RIGHT"} THEN 1 ELSE 0),
    Command("relayLeft", IF d \in {"BACKWARD", "LEFT"} THEN 1 ELSE 0)>>
SpeedCommands(right, left) ==
  <<Command("motorLeft", left), Command("motorRight", right)>>

\* UsbComStream.sendCommand limits the value and sends its low byte.
Byte(v) == IF v > 255 THEN 255 ELSE v % 256

Larger(a, b) == IF a > b THEN a ELSE b
Smaller(a, b) == IF a < b THEN a ELSE b

\* A handler: what it does, the commands it has still to send, and what it
\* stores when they are sent.
Job(does, commands, goal, speed) ==
  [does |-> does, commands |-> commands, goal |-> goal, speed |-> speed]
At(place) == Job(place, << >>, "STOPPED", 0)

MoveJob(m) ==
  Job("move", DirectionCommands(m.direction) \o SpeedCommands(m.right, m.left),
      Towards(m.direction), Larger(m.right, m.left))

\* Mutant: the left motor twice.
StopJobLeftTwice ==
  Job("stop", <<Command("motorLeft", 0), Command("motorLeft", 0)>>, "STOPPED", 0)

StopJob == Job("stop", SpeedCommands(0, 0), "STOPPED", 0)

ShutdownJob == [StopJob EXCEPT !.does = "shutdown"]
CutterJob(speed) == Job("cutter", <<Command("cutter", speed)>>, "STOPPED", speed)

\* Back in the loop of CoreBusSubscriberThread.run.
NextRound == At(IF isRunning THEN "take" ELSE "exited")

Init ==
  /\ inbox = <<Straight(FullSpeed, "FORWARD")>>   \* MainService.setupContext
  /\ timers = << >> /\ subscribed = TRUE /\ isRunning = TRUE
  /\ state = "STOPPED" /\ moving = FALSE
  /\ currentMovementSpeed = 0 /\ currentCutterSpeed = 0
  /\ job = [t \in Threads |-> At(IF t = "fsm" THEN "take" ELSE "alive")]
  /\ reader = "request" /\ readerRunning = TRUE /\ owed = FALSE
  /\ link = "up" /\ board = AtRest
  /\ events = 0 /\ late = 0 /\ failures = 0

-----------------------------------------------------------------------------
\* Events in, from other threads and from timers.  CoreBus knows this
\* subscriber until it unsubscribes; a Timer holds on to it for ever.

Posted(q, e) == IF subscribed THEN Append(q, e) ELSE q

Fire ==
  /\ events < MaxEvents /\ events' = events + 1
  /\ \E e \in Requests : inbox' = Posted(inbox, e)
  /\ UNCHANGED <<timers, subscribed, isRunning, fields, job, sensing, link,
                 board, late, failures>>

\* Within 500 ms a thread that runs drains its queue; one that waits for the
\* monitor of the stream may be late.
Punctual ==
  job["fsm"].does = "exited" \/ (job["fsm"].does = "take" /\ inbox = << >>)

Expire ==
  /\ \/ Punctual /\ UNCHANGED late
     \/ ~Punctual /\ late < MaxLate /\ late' = late + 1
  /\ \E i \in DOMAIN timers :
       /\ inbox' = Append(inbox, timers[i])
       /\ timers' = Without(timers, i)
  /\ UNCHANGED <<subscribed, isRunning, fields, job, sensing, link, board,
                 events, failures>>

-----------------------------------------------------------------------------
\* The handlers, up to the first command.

Taking(types) ==
  /\ job["fsm"].does = "take"
  /\ inbox # << >>
  /\ Head(inbox).type \in types

Begins(j) ==
  /\ inbox' = Taken(inbox)
  /\ job' = [job EXCEPT !["fsm"] = j]
  /\ UNCHANGED <<timers, subscribed, isRunning, fields, sensing, link, board,
                 bounds>>

STEP == 85

\* onIncrementMovementSpeed: faster in the same direction, else from the start.
Incremented(d) ==
  IF state = Towards(d) THEN Smaller(currentMovementSpeed + STEP, FullSpeed)
  ELSE STEP

Wanted(e) ==
  IF e.type = "move" THEN e ELSE Straight(Incremented(e.direction), e.direction)

\* Mutant: a move from one direction into another one.
BeginMoveAtOnce ==
  /\ Taking({"move", "increment"})
  /\ Begins(MoveJob(Wanted(Head(inbox))))

BeginMove ==
  /\ Taking({"move", "increment"})
  /\ Accepts(state, Head(inbox).direction)
  /\ Begins(MoveJob(Wanted(Head(inbox))))

\* Mutant: nothing stops the motion that is in the way.
PostponeMoveOnly ==
  /\ Taking({"move", "increment"})
  /\ ~Accepts(state, Head(inbox).direction)
  /\ inbox' = Taken(inbox)
  /\ timers' = IF subscribed THEN Append(timers, Wanted(Head(inbox))) ELSE timers
  /\ job' = [job EXCEPT !["fsm"] = NextRound]
  /\ UNCHANGED <<subscribed, isRunning, fields, sensing, link, board, bounds>>

PostponeMove ==
  /\ Taking({"move", "increment"})
  /\ ~Accepts(state, Head(inbox).direction)
  /\ inbox' = Posted(Taken(inbox), StopEvent)
  /\ timers' = IF subscribed THEN Append(timers, Wanted(Head(inbox))) ELSE timers
  /\ job' = [job EXCEPT !["fsm"] = NextRound]
  /\ UNCHANGED <<subscribed, isRunning, fields, sensing, link, board, bounds>>

BeginStop == Taking({"stop"}) /\ Begins(StopJob)

CutterFaster == Smaller(currentCutterSpeed + STEP, FullSpeed)

\* Mutant: no limit.
CutterSlowerUnlimited == currentCutterSpeed - STEP
CutterSlower == Larger(currentCutterSpeed - STEP, 0)

BeginCutter ==
  \/ Taking({"cutterUp"}) /\ Begins(CutterJob(CutterFaster))
  \/ Taking({"cutterDown"}) /\ Begins(CutterJob(CutterSlower))

-----------------------------------------------------------------------------
\* sendCommand, which waits for the monitor of the stream.

MonitorFree == reader # "reading"

Send(t) ==
  /\ job[t].commands # << >> /\ MonitorFree /\ link = "up"
  /\ LET c == Head(job[t].commands)
     IN board' = [board EXCEPT ![c.output] = Byte(c.value)]
  /\ job' = [job EXCEPT ![t].commands = Tail(@)]
  /\ UNCHANGED <<bus, fields, sensing, link, bounds>>

\* A command throws on a broken stream always, and on a good one now and then.
Failing ==
  \/ link # "up" /\ UNCHANGED failures
  \/ link = "up" /\ failures < MaxFailures /\ failures' = failures + 1

\* Mutant: a shutdown that throws is begun again.
ThrowAgain(t) ==
  /\ job[t].commands # << >> /\ MonitorFree /\ Failing
  /\ job' = [job EXCEPT ![t] = ShutdownJob]
  /\ UNCHANGED <<bus, fields, sensing, link, board, events, late>>

\* handleIOException shuts the FSM down; an exception in there is logged.
Throw(t) ==
  /\ job[t].commands # << >> /\ MonitorFree /\ Failing
  /\ job' = [job EXCEPT ![t] = IF job[t].does = "shutdown" THEN At("unsubscribe")
                               ELSE ShutdownJob]
  /\ UNCHANGED <<bus, fields, sensing, link, board, events, late>>

-----------------------------------------------------------------------------
\* What a handler stores when its commands are sent.

Sent(t, types) == job[t].does \in types /\ job[t].commands = << >>

\* Mutant: the speed is not remembered.
FinishMoveForgetful ==
  /\ Sent("fsm", {"move"})
  /\ moving' = (job["fsm"].speed > 0)
  /\ state' = job["fsm"].goal
  /\ job' = [job EXCEPT !["fsm"] = NextRound]
  /\ UNCHANGED <<bus, currentMovementSpeed, currentCutterSpeed, sensing, link,
                 board, bounds>>

\* MainFSM learns of a move forward by an event, see MainFSM.tla.
FinishMove ==
  /\ Sent("fsm", {"move"})
  /\ moving' = (job["fsm"].speed > 0)
  /\ currentMovementSpeed' = job["fsm"].speed
  /\ state' = job["fsm"].goal
  /\ job' = [job EXCEPT !["fsm"] = NextRound]
  /\ UNCHANGED <<bus, currentCutterSpeed, sensing, link, board, bounds>>

FinishStop(t) ==
  /\ Sent(t, {"stop", "shutdown"})
  /\ moving' = FALSE
  /\ state' = "STOPPED"
  /\ job' = [job EXCEPT ![t] = IF job[t].does = "stop" THEN NextRound
                               ELSE At("unsubscribe")]
  /\ UNCHANGED <<bus, currentMovementSpeed, currentCutterSpeed, sensing, link,
                 board, bounds>>

FinishCutter ==
  /\ Sent("fsm", {"cutter"})
  /\ currentCutterSpeed' = job["fsm"].speed
  /\ job' = [job EXCEPT !["fsm"] = NextRound]
  /\ UNCHANGED <<bus, state, currentMovementSpeed, moving, sensing, link, board,
                 bounds>>

\* CoreBusSubscriberThread.shutdown: the loop of "fsm" ends, while "service"
\* goes on to stop the reader and then to close the stream.
Unsubscribe(t) ==
  /\ Sent(t, {"unsubscribe"})
  /\ subscribed' = FALSE /\ isRunning' = FALSE
  /\ readerRunning' = (readerRunning /\ t = "fsm")
  /\ job' = [job EXCEPT ![t] = At(IF t = "fsm" THEN "exited" ELSE "close")]
  /\ UNCHANGED <<inbox, timers, fields, reader, owed, link, board, bounds>>

BeginShutdown ==
  /\ job["service"].does = "alive"
  /\ job' = [job EXCEPT !["service"] = ShutdownJob]
  /\ UNCHANGED <<bus, fields, sensing, link, board, bounds>>

Close ==
  /\ Sent("service", {"close"}) /\ MonitorFree
  /\ link' = IF link = "up" THEN "closed" ELSE link
  /\ job' = [job EXCEPT !["service"] = At("gone")]
  /\ UNCHANGED <<bus, fields, sensing, board, bounds>>

Fsm ==
  \/ BeginMove \/ PostponeMove \/ BeginStop \/ BeginCutter
  \/ Send("fsm") \/ Throw("fsm")
  \/ FinishMove \/ FinishStop("fsm") \/ FinishCutter \/ Unsubscribe("fsm")

Service ==
  \/ Send("service") \/ Throw("service")
  \/ FinishStop("service") \/ Unsubscribe("service") \/ Close

-----------------------------------------------------------------------------
\* SensorReader: ask, read the answer under the monitor, sleep, ask again.  A
\* request that throws is logged and the answer awaited all the same.

ReaderRequest ==
  /\ reader = "request"
  /\ \/ link = "up" /\ owed' = TRUE /\ UNCHANGED failures
     \/ Failing /\ UNCHANGED owed
  /\ reader' = "read"
  /\ UNCHANGED <<bus, fields, job, readerRunning, link, board, events,
                 late>>

ReaderEnter ==
  /\ reader = "read" /\ link = "up"
  /\ reader' = "reading"
  /\ UNCHANGED <<bus, fields, job, readerRunning, owed, link, board, bounds>>

ReaderReceive ==
  /\ reader = "reading" /\ owed
  /\ owed' = FALSE
  /\ reader' = "sleep"
  /\ UNCHANGED <<bus, fields, job, readerRunning, link, board, bounds>>

ReaderWake ==
  /\ reader = "sleep"
  /\ reader' = IF readerRunning THEN "request" ELSE "stopped"
  /\ UNCHANGED <<bus, fields, job, readerRunning, owed, link, board, bounds>>

\* handleIOException of the reader stops it.
ReaderThrow ==
  /\ reader \in {"read", "reading"} /\ link # "up"
  /\ reader' = "stopped" /\ readerRunning' = FALSE
  /\ UNCHANGED <<bus, fields, job, owed, link, board, bounds>>

Reader ==
  ReaderRequest \/ ReaderEnter \/ ReaderReceive \/ ReaderWake \/ ReaderThrow

\* Outside: the board does not answer, the cable is pulled, and then the loop
\* of the firmware resets the outputs.
LoseAnswer ==
  /\ owed /\ failures < MaxFailures
  /\ owed' = FALSE /\ failures' = failures + 1
  /\ UNCHANGED <<bus, fields, job, reader, readerRunning, link, board, events,
                 late>>

Unplug ==
  /\ link # "unplugged" /\ failures < MaxFailures
  /\ link' = "unplugged" /\ owed' = FALSE /\ failures' = failures + 1
  /\ UNCHANGED <<bus, fields, job, reader, readerRunning, board, events, late>>

ResetOutputs ==
  /\ link = "unplugged" /\ board # AtRest
  /\ board' = AtRest
  /\ UNCHANGED <<bus, fields, job, sensing, link, bounds>>

Next ==
  \/ Fire \/ Expire \/ Fsm \/ BeginShutdown \/ Service \/ Reader
  \/ LoseAnswer \/ Unplug \/ ResetOutputs

\* The threads run, timers expire, a detached cable ends the service
\* (MainService.usbDetachedReceiver).
Fairness ==
  /\ WF_vars(Fsm) /\ WF_vars(Service) /\ WF_vars(Expire) /\ WF_vars(ResetOutputs)
  /\ SF_vars(Send("fsm")) /\ SF_vars(Send("service")) /\ SF_vars(Close)
  /\ WF_vars(Reader)
  /\ WF_vars(link = "unplugged" /\ BeginShutdown)

Spec == Init /\ [][Next]_vars /\ Fairness

-----------------------------------------------------------------------------
\* Properties.

JobType == [does : {"take", "exited", "alive", "close", "gone", "unsubscribe",
                    "move", "stop", "shutdown", "cutter"},
            commands : Seq([output : Outputs, value : 0 .. FullSpeed]),
            goal : MotorStates, speed : 0 .. FullSpeed]

\* The fields' types; the motors and the cutter never get more than
\* Constants.getFullSpeed, and a relay is switched or released.
TypeOK ==
  /\ inbox \in Seq(MotorEvents)
  /\ timers \in Seq(MotorEvents)
  /\ subscribed \in BOOLEAN /\ isRunning \in BOOLEAN /\ moving \in BOOLEAN
  /\ state \in MotorStates
  /\ currentMovementSpeed \in 0 .. FullSpeed
  /\ currentCutterSpeed \in 0 .. FullSpeed
  /\ \A t \in Threads : job[t] \in JobType
  /\ reader \in {"request", "read", "reading", "sleep", "stopped"}
  /\ readerRunning \in BOOLEAN /\ owed \in BOOLEAN
  /\ link \in {"up", "unplugged", "closed"}
  /\ \A o \in Outputs : board[o] \in IF o \in Relays THEN 0 .. 2 ELSE 0 .. FullSpeed
  /\ events \in 0 .. MaxEvents /\ late \in 0 .. MaxLate
  /\ failures \in 0 .. MaxFailures

WheelsRest == \A o \in Motors : board[o] = 0
ShuttingDown == job["service"].does # "alive"

\* A relay switches only while both motors are off, through every order of
\* events, postponed moves and commands that throw.  The shutdown is left out:
\* there two threads command the motors at a time.
SwitchedAtRest ==
  [][(\E o \in Relays : board'[o] # board[o]) =>
       ShuttingDown \/ \A o \in Motors : board'[o] = 0]_vars

\* Between two events, and while nothing has failed, the state of MotorFSM is
\* what the wheels do: stopped is stopped, and in a motion the relays stand for
\* the direction and the faster wheel has the remembered speed.
StateIsTheMotion ==
  job["fsm"].does = "take" /\ failures = 0 /\ ~ShuttingDown =>
    IF state = "STOPPED" THEN WheelsRest
    ELSE /\ \A d \in Directions : state = Towards(d) =>
              \A i \in 1 .. 2 : LET c == DirectionCommands(d)[i]
                                IN board[c.output] = c.value
         /\ Byte(currentMovementSpeed)
              = Larger(board["motorLeft"], board["motorRight"])

\* The reader waits, under the monitor, for an answer that will not come: no
\* command passes it any more, and the close neither.
Wedged == reader = "reading" /\ ~owed /\ link = "up"

\* A stop that waits in the queue stops the wheels, or the FSM gives up,
\* although the sensor reader takes the stream's monitor again and again.  The
\* one thing that prevents it is an answer the board never gives.
StopIsCarriedOut ==
  (\E i \in DOMAIN inbox : inbox[i] = StopEvent)
    ~> (WheelsRest \/ job["fsm"].does = "exited" \/ Wedged)

\* Moves that are postponed, each behind a stop that undoes another move, come
\* to an end when nobody asks for more.
PostponedMovesSettle ==
  <>(ShuttingDown \/ Wedged \/ job["fsm"].does = "exited"
      \/ [](timers = << >> /\ inbox = << >>))

\* The shutdown gets the monitor for each of its commands and for the close,
\* and a command that throws does not keep it from going on.
ShutdownEnds == ShuttingDown ~> (job["service"].does = "gone" \/ Wedged)
=============================================================================
