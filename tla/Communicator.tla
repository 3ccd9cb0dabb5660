---------------------------- MODULE Communicator ----------------------------
(***************************************************************************)
(* raspberry_pi/communicator.c: the one thread that talks to the I/O       *)
(* board.  It takes requests from the queue Q_COMMUNICATOR one at a time   *)
(* and turns each into a sequence of io_command_* calls, with sleeps in    *)
(* between.  Every io call is one step here, because the board's outputs   *)
(* are visible between two calls and because the process may die there.    *)
(*                                                                         *)
(* A call is made for the left side and then for the right one, except     *)
(* where turn() switches a single relay: `pc' names the pair of calls and  *)
(* `side' the one of the two that comes next.                              *)
(***************************************************************************)
EXTENDS Requests, Sequences

CONSTANTS
  Readings,     \* the values io_command_read may give, the failed one included
  Capacity,     \* messages a POSIX queue holds before mq_send blocks
  Lossy         \* may a write to the board be lost unnoticed?

ASSUME CommunicatorAssumption ==
  /\ Capacity \in Nat \ {0}
  /\ Lossy \in BOOLEAN

VARIABLES
  inbox,        \* Q_COMMUNICATOR: kept by the kernel, not by the process
  outbox,       \* the reply queues, kept by the kernel too
  pc, side,     \* where the thread is
  current,      \* the request being carried out
  value,        \* the local variable of sensor()
  direction, motor, speed,   \* struct communicator
  board,        \* the outputs of the I/O board
  link          \* history: what became of the last write to each output

request == <<pc, side, current>>
this == <<direction, motor, speed>>
hardware == <<board, link>>
vars == <<inbox, outbox, request, value, this, hardware>>

Paired == {"move_stop", "move_relay", "move_start", "turn_stop", "turn_start",
           "turn_halt", "turn_reset", "turn_resume", "stop"}
Locations == Paired \cup
  {"idle", "turn_relay", "set_speed", "sensor_read", "sensor_reply"}

\* Since the process started an output was not written, or its last write
\* reached the board, or it was lost.
LinkStates == {"unwritten", "delivered", "lost"}

NothingWritten == [k \in Kinds |-> [s \in Sides |-> "unwritten"]]

Init ==
  /\ inbox = << >>
  /\ outbox = [q \in ReplyQueues |-> << >>]
  /\ board = PoweredUp
  /\ pc = "idle" /\ side = "left" /\ current = NoCommand /\ value = 0
  /\ direction = "undefined" /\ motor = "stop" /\ speed = 255
  /\ link = NothingWritten

-----------------------------------------------------------------------------
\* The calls of io.c.  The result of the transport is ignored all the way up.

Write(kind, s, newBoard) ==
  \E delivered \in {TRUE} \cup {~Lossy} :
    /\ board' = IF delivered THEN newBoard ELSE board
    /\ link' = [link EXCEPT ![kind] =
                 [@ EXCEPT ![s] = IF delivered THEN "delivered" ELSE "lost"]]

Motor(s, command) == Write("motor", s, MotorWritten(board, s, command, speed))

Relay(s, heading) ==
  IF RelayAccepts(heading)
    THEN Write("relay", s, RelayWritten(board, s, heading))
    ELSE UNCHANGED hardware

\* The same call for left and then for right.
Both(here, next) ==
  /\ pc = here
  /\ IF side = "left" THEN /\ side' = "right"
                           /\ UNCHANGED <<pc, current>>
                      ELSE /\ side' = "left"
                           /\ pc' = next
                           /\ current' = IF next = "idle" THEN NoCommand
                                                          ELSE current
  /\ UNCHANGED <<inbox, outbox, value, speed>>

Done == /\ pc' = "idle"
        /\ side' = "left"
        /\ current' = NoCommand

-----------------------------------------------------------------------------
\* communicator_worker: receive a request and dispatch on it.

\* Mutant: the two stops are skipped when the fields say the motors are off.
FirstCallTrustingMotor(c) ==
  CASE c.op \in Headings /\ c.op # direction ->
         IF motor = "stop" THEN "move_relay" ELSE "move_stop"
    [] c.op \in Headings /\ c.op = direction -> "move_start"
    [] c.op \in Sides    -> "turn_stop"
    [] c.op = "stop"     -> "stop"
    [] c.op = "speed"    -> "set_speed"
    [] c.op = "sensor"   -> "sensor_read"

FirstCall(c) ==
  CASE c.op \in Headings -> IF c.op # direction THEN "move_stop" ELSE "move_start"
    [] c.op \in Sides    -> "turn_stop"
    [] c.op = "stop"     -> "stop"
    [] c.op = "speed"    -> "set_speed"
    [] c.op = "sensor"   -> "sensor_read"

Receive ==
  /\ pc = "idle"
  /\ inbox # << >>
  /\ current' = Head(inbox)
  /\ inbox' = Tail(inbox)
  /\ pc' = FirstCall(Head(inbox))
  /\ UNCHANGED <<outbox, side, value, this, hardware>>

\* Mutant: the left motor is stopped twice, the right one not at all.
MoveStopLeftTwice ==
  /\ Both("move_stop", "move_relay")
  /\ Motor("left", "stop")
  /\ UNCHANGED <<direction, motor>>

\* move(): stop, switch both relays, remember the direction, start.
MoveStop ==
  /\ Both("move_stop", "move_relay")
  /\ Motor(side, "stop")
  /\ UNCHANGED <<direction, motor>>

MoveRelay ==
  /\ Both("move_relay", "move_start")
  /\ Relay(side, current.op)
  /\ direction' = IF side = "right" THEN current.op ELSE direction
  /\ UNCHANGED motor

MoveStart ==
  /\ Both("move_start", "idle")
  /\ Motor(side, "start")
  /\ motor' = IF side = "right" THEN "start" ELSE motor
  /\ UNCHANGED direction

\* stop()
Stop ==
  /\ Both("stop", "idle")
  /\ Motor(side, "stop")
  /\ motor' = IF side = "right" THEN "stop" ELSE motor
  /\ UNCHANGED direction

\* turn(): stop, reverse one wheel, start, and after two seconds stop, put
\* the relays back and resume what the drive was doing.
TurnStop ==
  /\ Both("turn_stop", "turn_relay")
  /\ Motor(side, "stop")
  /\ UNCHANGED <<direction, motor>>

Opposite(s) == IF s = "left" THEN "right" ELSE "left"

\* Mutant: the two sides of the second case are swapped.
TurnRelaySwapped ==
  /\ pc = "turn_relay"
  /\ pc' = "turn_start"
  /\ \/ direction = "forward" /\ Relay(current.op, "backward")
     \/ direction = "backward" /\ Relay(current.op, "forward")
     \/ direction = "undefined" /\ UNCHANGED hardware
  /\ UNCHANGED <<inbox, outbox, side, current, value, this>>

TurnRelay ==
  /\ pc = "turn_relay"
  /\ pc' = "turn_start"
  /\ \/ direction = "forward" /\ Relay(current.op, "backward")
     \/ direction = "backward" /\ Relay(Opposite(current.op), "forward")
     \/ direction = "undefined" /\ UNCHANGED hardware
  /\ UNCHANGED <<inbox, outbox, side, current, value, this>>

TurnStart ==
  /\ Both("turn_start", "turn_halt")
  /\ Motor(side, "start")
  /\ UNCHANGED <<direction, motor>>

TurnHalt ==
  /\ Both("turn_halt", "turn_reset")
  /\ Motor(side, "stop")
  /\ UNCHANGED <<direction, motor>>

\* Mutant: the relays are always put back to forward.
TurnResetForward ==
  /\ Both("turn_reset", "turn_resume")
  /\ Relay(side, "forward")
  /\ UNCHANGED <<direction, motor>>

TurnReset ==
  /\ Both("turn_reset", "turn_resume")
  /\ Relay(side, direction)
  /\ UNCHANGED <<direction, motor>>

\* Mutant: the turn always goes on driving.
TurnResumeStarting ==
  /\ Both("turn_resume", "idle")
  /\ Motor(side, "start")
  /\ UNCHANGED <<direction, motor>>

TurnResume ==
  /\ Both("turn_resume", "idle")
  /\ Motor(side, motor)
  /\ UNCHANGED <<direction, motor>>

\* Mutant: no clamp.
SetSpeedUnclamped ==
  /\ pc = "set_speed"
  /\ speed' = current.data
  /\ Done
  /\ UNCHANGED <<inbox, outbox, value, direction, motor, hardware>>

\* set_speed() clamps above only; the motors keep their old duty.
SetSpeed ==
  /\ pc = "set_speed"
  /\ speed' = Clamp(current.data)
  /\ Done
  /\ UNCHANGED <<inbox, outbox, value, direction, motor, hardware>>

\* sensor(): read the board, then a send that blocks while the queue is full.
SensorRead ==
  /\ pc = "sensor_read"
  /\ pc' = "sensor_reply"
  /\ value' \in Readings
  /\ UNCHANGED <<inbox, outbox, side, current, this, hardware>>

\* Mutant: the send waits for one place more than it needs.
SensorReplyOneShort ==
  /\ pc = "sensor_reply"
  /\ Len(outbox[current.queue]) + 1 < Capacity
  /\ outbox' = [outbox EXCEPT ![current.queue] = Append(@, value)]
  /\ value' = 0
  /\ Done
  /\ UNCHANGED <<inbox, this, hardware>>

SensorReply ==
  /\ pc = "sensor_reply"
  /\ Len(outbox[current.queue]) < Capacity
  /\ outbox' = [outbox EXCEPT ![current.queue] = Append(@, value)]
  /\ value' = 0
  /\ Done
  /\ UNCHANGED <<inbox, this, hardware>>

Thread ==
  \/ Receive
  \/ MoveStop \/ MoveRelay \/ MoveStart
  \/ Stop
  \/ TurnStop \/ TurnRelay \/ TurnStart \/ TurnHalt \/ TurnReset \/ TurnResume
  \/ SetSpeed
  \/ SensorRead \/ SensorReply

-----------------------------------------------------------------------------
\* The other threads: the pollers, the mow thread and the CLI call the
\* communicator_* functions, the sensor threads empty the reply queues.

Send(c) ==
  /\ Len(inbox) < Capacity
  /\ inbox' = Append(inbox, c)
  /\ UNCHANGED <<outbox, request, value, this, hardware>>

Consume(q) ==
  /\ outbox[q] # << >>
  /\ outbox' = [outbox EXCEPT ![q] = Tail(@)]
  /\ UNCHANGED <<inbox, request, value, this, hardware>>

\* The process dies anywhere and is started again: communicator_init() sets
\* the fields, mq_open finds the old queues.  The I2C board is not told and
\* keeps its outputs; a simulated mower is set up anew for each connection.
Crash ==
  /\ Done
  /\ value' = 0
  /\ direction' = "undefined" /\ motor' = "stop" /\ speed' = 255
  /\ board' \in {board, PoweredUp}
  /\ link' = NothingWritten
  /\ UNCHANGED <<inbox, outbox>>

Environment ==
  \/ \E c \in Commands : Send(c)
  \/ \E q \in ReplyQueues : Consume(q)
  \/ Crash

Next == Thread \/ Environment

Spec == Init /\ [][Next]_vars

\* The kernel schedules the thread, and the sensor threads keep reading.
Fairness == WF_vars(Thread) /\ \A q \in ReplyQueues : WF_vars(Consume(q))

FairSpec == Spec /\ Fairness

-----------------------------------------------------------------------------
(***************************************************************************)
(* Properties.                                                             *)
(***************************************************************************)

\* The type of every variable (struct communicator, the thread's locals, the
\* two bounded queues).
TypeOK ==
  /\ inbox \in Seq(Commands) /\ Len(inbox) <= Capacity
  /\ outbox \in [ReplyQueues -> Seq(Readings)]
  /\ \A q \in ReplyQueues : Len(outbox[q]) <= Capacity
  /\ pc \in Locations
  /\ side \in Sides
  /\ current \in Commands \cup {NoCommand}
  /\ value \in Readings \cup {0}
  /\ direction \in Headings \cup {"undefined"}
  /\ motor \in MotorCommands
  /\ speed \in Int /\ speed <= 255
  /\ board \in Boards
  /\ link \in [Kinds -> [Sides -> LinkStates]]

Unpowered(s) == board.pwm[s] = 0
Trusted(kind, s) == link[kind][s] = "delivered"

\* A relay never switches while a motor is powered, whatever the order of the
\* requests and wherever a crash falls between them; only a stop the transport
\* lost unnoticed can break it.  (move and turn stop both motors first, even
\* when this.motor says they are stopped: after a restart that is not known.
\* A reset of the board itself cuts the power with the relays.)
RelaySwitchedUnpowered ==
  [][board'.relay # board.relay /\ board' # PoweredUp =>
       \A s \in Sides : Unpowered(s) \/ link.motor[s] = "lost"]_vars

\* Between two requests each relay that was last written with success points
\* in this.direction: a turn puts back what it switched, and a relay is never
\* believed to follow a direction that is undefined.
WheelsFollowDirection ==
  pc = "idle" =>
    \A s \in Sides : Trusted("relay", s) =>
      /\ direction # "undefined"
      /\ board.relay[s] = Level(direction)

\* Between two requests the motors do what this.motor says: stopped means no
\* power, started means the same power on both, so that the mower does not
\* keep turning after a turn.
MotorsFollowOrder ==
  pc = "idle" /\ (\A s \in Sides : Trusted("motor", s)) =>
    /\ motor = "stop" => \A s \in Sides : Unpowered(s)
    /\ board.pwm["left"] = board.pwm["right"]

\* The two seconds of a turn: both motors have been started.
Turning == pc = "turn_halt" /\ side = "left"

\* In a turn the wheel on the inside runs backward and the other one forward,
\* when the drive has a direction, however the previous requests left it.
TurnsTheRightWay ==
  Turning /\ direction # "undefined" /\ (\A s \in Sides : Trusted("relay", s)) =>
    /\ board.relay[current.op] = Level("backward")
    /\ board.relay[Opposite(current.op)] = Level("forward")

\* A full request queue does not stay full: no request keeps the thread for
\* ever, so the threads blocked in message_send go on.
InboxDrains == Len(inbox) = Capacity ~> Len(inbox) < Capacity

-----------------------------------------------------------------------------
(***************************************************************************)
(* The refinement: a request takes effect on the drive's state when it is  *)
(* received, and is over when the thread is idle again.                    *)
(***************************************************************************)
Promise == INSTANCE Drive WITH
  busy    <- current,
  heading <- HeadingAfter(current, direction),
  motor   <- MotorAfter(current, motor),
  speed   <- SpeedAfter(current, speed)

\* The board has got the last write to each of its outputs.
Arrived == \A k \in Kinds, s \in Sides : link[k][s] # "lost"

\* The io calls of every request add up to what the drive promises, as long as
\* the last write to each output arrives: whatever was lost before, the next
\* writes make good.
ImplementsDrive ==
  Promise!Init /\ [][Arrived /\ Arrived' => Promise!Next]_(Promise!vars)

=============================================================================
