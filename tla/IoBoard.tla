------------------------------- MODULE IoBoard -------------------------------
(***************************************************************************)
(* The motor and relay outputs of the I/O board, and what the two writing  *)
(* calls of raspberry_pi/io.c do to them.  The board (the Arduino firmware *)
(* or the simulator's mower_net.c) keeps the last value written to each    *)
(* output; it does not depend on the controller process, so its state      *)
(* survives a crash of the controller.                                     *)
(***************************************************************************)
EXTENDS Integers

Sides == {"left", "right"}

Kinds == {"motor", "relay"}

\* enum command and the part of enum direction that a drive can be in.
MotorCommands == {"start", "stop"}
Headings == {"forward", "backward"}

Boards == [pwm : [Sides -> 0..255], relay : [Sides -> {0, 1}]]

\* What the board is in when it has just been powered: motors off, relays
\* forward (the simulator's init_mower; the firmware leaves both pins low,
\* which drives nothing either).
PoweredUp == [pwm |-> [s \in Sides |-> 0], relay |-> [s \in Sides |-> 1]]

\* The signed speed of a call becomes a byte: the upper bound is clamped, a
\* negative value wraps.
Byte(n) == n % 256
Clamp(speed) == IF speed > 255 THEN 255 ELSE speed
Duty(command, speed) == IF command = "start" THEN Byte(Clamp(speed)) ELSE 0

Level(heading) == IF heading = "forward" THEN 1 ELSE 0

\* io_command_motor
MotorWritten(board, side, command, speed) ==
  [board EXCEPT !.pwm = [@ EXCEPT ![side] = Duty(command, speed)]]

\* io_command_relay sends nothing for a heading it does not know, such as
\* direction_undefined.
RelayAccepts(heading) == heading \in Headings

RelayWritten(board, side, heading) ==
  [board EXCEPT !.relay = [@ EXCEPT ![side] = Level(heading)]]

=============================================================================
