------------------------------- MODULE CoreBus -------------------------------
(***************************************************************************)
(* android/core bus and events: what the subscribers of                    *)
(* CoreBusSubscriberThread.java put into their queues and take out again.  *)
(***************************************************************************)
EXTENDS Integers, Sequences

CONSTANT FullSpeed   \* Constants.getFullSpeed()

ASSUME CoreBusAssumption == FullSpeed \in Nat

Directions == {"FORWARD", "BACKWARD", "LEFT", "RIGHT"}

\* The speeds of the two sides and the direction, where the event has them.
Event(type, right, left, direction) ==
  [type |-> type, right |-> right, left |-> left, direction |-> direction]

MoveEvent(right, left, direction) == Event("move", right, left, direction)
Straight(speed, direction) == MoveEvent(speed, speed, direction)
IncrementEvent(direction) == Event("increment", 0, 0, direction)
StopEvent == Event("stop", 0, 0, "NONE")
CutterUp == Event("cutterUp", 0, 0, "NONE")
CutterDown == Event("cutterDown", 0, 0, "NONE")

MotorEvents ==
  [type : {"move", "increment"}, right : 0 .. FullSpeed, left : 0 .. FullSpeed,
   direction : Directions] \cup {StopEvent, CutterUp, CutterDown}

\* The state of MotorFSM in which the mower moves in direction d.
Towards(d) ==
  CASE d = "FORWARD" -> "MOVING_FWD"
    [] d = "BACKWARD" -> "BACKING_UP"
    [] d = "LEFT" -> "TURNING_LEFT"
    [] d = "RIGHT" -> "TURNING_RIGHT"

MotorStates == {"STOPPED"} \cup {Towards(d) : d \in Directions}

\* moveForward, backUp, turnLeft and turnRight act in these states only; in any
\* other one they fire a stop, and the same move again after 500 ms.
Accepts(state, d) == state \in {"STOPPED", Towards(d)}

-----------------------------------------------------------------------------
\* java.util.concurrent.PriorityBlockingQueue over events that all compare as
\* equal: a binary heap in an array.  add puts an event at the end; take gives
\* the first, and the last one moves to its place.  Two waiting events keep
\* their order, three do not.

Taken(q) ==
  IF Len(q) < 2 THEN << >> ELSE <<q[Len(q)]>> \o SubSeq(q, 2, Len(q) - 1)

Without(s, i) == SubSeq(s, 1, i - 1) \o SubSeq(s, i + 1, Len(s))
=============================================================================
