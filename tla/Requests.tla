------------------------------ MODULE Requests ------------------------------
(***************************************************************************)
(* The requests of the queue Q_COMMUNICATOR (struct message_communicator)  *)
(* and what each of them asks of the drive.                                *)
(***************************************************************************)
EXTENDS IoBoard

CONSTANTS
  Speeds,       \* the speeds a request may ask for
  ReplyQueues   \* the queues a sensor value may be sent to

ASSUME SpeedsAssumption == Speeds \subseteq Int

Moves == [op : Headings]
Turns == [op : Sides]
Stops == [op : {"stop"}]
SetSpeeds == [op : {"speed"}, data : Speeds]
Reads == [op : {"sensor"}, queue : ReplyQueues]
Commands == Moves \cup Turns \cup Stops \cup SetSpeeds \cup Reads

NoCommand == [op |-> "none"]

\* The requests that touch the motors.
Drives(c) == c.op \in Headings \cup Sides \cup {"stop"}

\* struct communicator once a request has been carried out.
HeadingAfter(c, heading) == IF c.op \in Headings THEN c.op ELSE heading
MotorAfter(c, motor) ==
  IF c.op \in Headings THEN "start" ELSE IF c.op = "stop" THEN "stop" ELSE motor
SpeedAfter(c, speed) == IF c.op = "speed" THEN Clamp(c.data) ELSE speed

=============================================================================
