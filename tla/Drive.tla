------------------------------- MODULE Drive --------------------------------
(***************************************************************************)
(* What the communicator promises to the threads that send it requests,    *)
(* without saying in which io calls: requests are served one at a time and *)
(* in the order of the queue, each has its whole effect or (after a crash) *)
(* an unfinished one, a relay is switched only while the motors are off,   *)
(* and when a request ends the board is as the drive's state says.         *)
(* Communicator implements this specification while the last write to each *)
(* output has reached the board.                                           *)
(***************************************************************************)
EXTENDS Requests, Sequences

CONSTANTS Readings, Capacity

VARIABLES
  inbox, outbox,            \* the queues
  busy,                     \* the request being served, NoCommand between two
  heading, motor, speed,    \* the drive's state once `busy' is served
  board

queues == <<inbox, outbox>>
drive == <<heading, motor, speed>>
vars == <<queues, busy, drive, board>>

Init ==
  /\ inbox = << >>
  /\ outbox = [q \in ReplyQueues |-> << >>]
  /\ busy = NoCommand
  /\ heading = "undefined" /\ motor = "stop" /\ speed = 255
  /\ board = PoweredUp

Accept ==
  /\ busy = NoCommand
  /\ inbox # << >>
  /\ LET c == Head(inbox)
     IN /\ busy' = c
        /\ heading' = HeadingAfter(c, heading)
        /\ motor' = MotorAfter(c, motor)
        /\ speed' = SpeedAfter(c, speed)
  /\ inbox' = Tail(inbox)
  /\ UNCHANGED <<outbox, board>>

\* A change of the outputs that spares the relays' contacts.
SafeSwitch ==
  /\ board' \in Boards
  /\ board'.relay # board.relay => \A s \in Sides : board.pwm[s] = 0

\* The board does what the drive's state says.
Conforms(b) ==
  /\ \A s \in Sides : b.pwm[s] = Duty(motor, speed)
  /\ heading # "undefined" => \A s \in Sides : b.relay[s] = Level(heading)

Work ==
  /\ Drives(busy)
  /\ SafeSwitch
  /\ UNCHANGED <<queues, busy, drive>>

FinishDrive ==
  /\ Drives(busy)
  /\ SafeSwitch
  /\ Conforms(board')
  /\ busy' = NoCommand
  /\ UNCHANGED <<queues, drive>>

FinishSpeed ==
  /\ busy.op = "speed"
  /\ busy' = NoCommand
  /\ UNCHANGED <<queues, drive, board>>

FinishRead ==
  /\ busy.op = "sensor"
  /\ Len(outbox[busy.queue]) < Capacity
  /\ \E v \in Readings :
       outbox' = [outbox EXCEPT ![busy.queue] = Append(@, v)]
  /\ busy' = NoCommand
  /\ UNCHANGED <<inbox, drive, board>>

Finish == FinishDrive \/ FinishSpeed \/ FinishRead

Send(c) ==
  /\ Len(inbox) < Capacity
  /\ inbox' = Append(inbox, c)
  /\ UNCHANGED <<outbox, busy, drive, board>>

Consume(q) ==
  /\ outbox[q] # << >>
  /\ outbox' = [outbox EXCEPT ![q] = Tail(@)]
  /\ UNCHANGED <<inbox, busy, drive, board>>

Crash ==
  /\ busy' = NoCommand
  /\ heading' = "undefined" /\ motor' = "stop" /\ speed' = 255
  /\ board' \in {board, PoweredUp}
  /\ UNCHANGED queues

Next ==
  \/ Accept
  \/ Work
  \/ Finish
  \/ \E c \in Commands : Send(c)
  \/ \E q \in ReplyQueues : Consume(q)
  \/ Crash

Spec == Init /\ [][Next]_vars

=============================================================================
