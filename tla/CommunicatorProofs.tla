------------------------- MODULE CommunicatorProofs -------------------------
(***************************************************************************)
(* Theorems about Communicator, for every set of speeds, readings and      *)
(* reply queues, every capacity, and a transport that loses writes or not, *)
(* and that it implements Drive when no write to the board is lost.        *)
(***************************************************************************)
EXTENDS Communicator, TLAPS

-----------------------------------------------------------------------------
(***************************************************************************)
(* The inductive invariant.                                                *)
(***************************************************************************)

\* What the thread is doing fits the request it is doing it for.
RequestInv ==
  /\ pc = "idle" => current = NoCommand
  /\ pc \in {"move_stop", "move_relay", "move_start"} => current \in Moves
  /\ pc \in {"turn_stop", "turn_relay", "turn_start",
             "turn_halt", "turn_reset", "turn_resume"} => current \in Turns
  /\ pc = "stop" => current \in Stops
  /\ pc = "set_speed" => current \in SetSpeeds
  /\ pc \in {"sensor_read", "sensor_reply"} => current \in Reads
  /\ pc = "sensor_reply" => value \in Readings
  /\ pc \notin Paired => side = "left"

\* The last write to an output was lost, or the output is as it asked for.
Runs(s, duty) == link.motor[s] = "lost" \/ board.pwm[s] = duty
Points(s, heading) ==
  link.relay[s] = "lost" \/ board.relay[s] = Level(heading)

\* Where the motors' power is known.
MotorInv ==
  /\ pc \in {"move_stop", "turn_stop", "turn_halt", "stop"} /\ side = "right"
       => Runs("left", 0)
  /\ pc \in {"move_relay", "turn_relay", "turn_reset"}
       => \A s \in Sides : Runs(s, 0)
  /\ pc \in {"move_start", "turn_start"} /\ side = "right"
       => Runs("left", Duty("start", speed))
  /\ pc = "turn_resume" /\ side = "right" => Runs("left", Duty(motor, speed))
  /\ pc \in {"idle", "set_speed", "sensor_read", "sensor_reply"}
     /\ (\A s \in Sides : Trusted("motor", s)) =>
         /\ motor = "stop" => \A s \in Sides : board.pwm[s] = 0
         /\ board.pwm["left"] = board.pwm["right"]

\* Where the relays' direction is known.
RelayInv ==
  /\ direction = "undefined" /\ pc # "move_relay"
       => \A s \in Sides : ~Trusted("relay", s)
  /\ pc \notin {"move_relay", "turn_start", "turn_halt", "turn_reset"}
     /\ direction # "undefined"
       => \A s \in Sides : Points(s, direction)
  /\ pc = "move_relay" /\ side = "right" => Points("left", current.op)
  /\ pc = "move_start" => direction = current.op
  /\ pc \in {"turn_start", "turn_halt"} /\ direction # "undefined"
       => /\ Points(current.op, "backward")
          /\ Points(Opposite(current.op), "forward")
  /\ pc = "turn_reset" /\ side = "right" /\ direction # "undefined"
       => Points("left", direction)

IInv == TypeOK /\ RequestInv /\ MotorInv /\ RelayInv

-----------------------------------------------------------------------------
(***************************************************************************)
(* What one call of io.c does.                                             *)
(***************************************************************************)

\* A speed that obeys the clamp gives a byte, and so does no speed.
LEMMA DutyIsByte ==
  ASSUME NEW c, NEW v \in Int, v <= 255
  PROVE  Duty(c, v) \in 0..255 /\ Duty("stop", v) = 0
  BY DEF Duty, Byte, Clamp

\* io_command_motor changes one motor, to the duty asked for unless the write
\* is lost, and no relay.
LEMMA MotorEffect ==
  ASSUME TypeOK, NEW s \in Sides, NEW c, Motor(s, c)
  PROVE  /\ board' \in Boards
         /\ link' \in [Kinds -> [Sides -> LinkStates]]
         /\ board'.relay = board.relay
         /\ link'["relay"] = link["relay"]
         /\ link'["motor"][s] \in {"delivered", "lost"}
         /\ link'["motor"][s] = "lost" \/ board'.pwm[s] = Duty(c, speed)
         /\ \A t \in Sides \ {s} : /\ board'.pwm[t] = board.pwm[t]
                                   /\ link'["motor"][t] = link["motor"][t]
  <1> DEFINE nb == MotorWritten(board, s, c, speed)
  <1>1. Duty(c, speed) \in 0..255
    BY DutyIsByte DEF TypeOK
  <1>2. /\ nb \in Boards
        /\ nb.relay = board.relay
        /\ nb.pwm = [board.pwm EXCEPT ![s] = Duty(c, speed)]
    BY <1>1 DEF TypeOK, MotorWritten, Boards
  <1>3. PICK delivered \in {TRUE} \cup {~Lossy} :
          /\ board' = IF delivered THEN nb ELSE board
          /\ link' = [link EXCEPT !["motor"] =
                 [@ EXCEPT ![s] = IF delivered THEN "delivered" ELSE "lost"]]
    BY DEF Motor, Write
  <1> HIDE DEF nb
  <1>4. /\ link' \in [Kinds -> [Sides -> LinkStates]]
        /\ link'["relay"] = link["relay"]
        /\ link'["motor"][s] = IF delivered THEN "delivered" ELSE "lost"
        /\ \A t \in Sides \ {s} : link'["motor"][t] = link["motor"][t]
    BY <1>3 DEF TypeOK, Kinds, LinkStates
  <1>5. /\ board' \in Boards
        /\ board'.relay = board.relay
        /\ \A t \in Sides \ {s} : board'.pwm[t] = board.pwm[t]
        /\ delivered => board'.pwm[s] = Duty(c, speed)
    BY <1>2, <1>3 DEF TypeOK, Boards
  <1>6. QED
    BY <1>4, <1>5

\* io_command_relay changes one relay, to the heading asked for unless the
\* write is lost, and no motor; a heading it does not know changes nothing.
LEMMA RelayEffect ==
  ASSUME TypeOK, NEW s \in Sides, NEW h, Relay(s, h)
  PROVE  /\ board' \in Boards
         /\ link' \in [Kinds -> [Sides -> LinkStates]]
         /\ board'.pwm = board.pwm
         /\ link'["motor"] = link["motor"]
         /\ \A t \in Sides \ {s} : /\ board'.relay[t] = board.relay[t]
                                   /\ link'["relay"][t] = link["relay"][t]
         /\ h \in Headings =>
              \/ link'["relay"][s] = "lost"
              \/ board'.relay[s] = Level(h)
         /\ h \notin Headings => link' = link /\ board' = board
  <1>1. CASE h \in Headings
    <2> DEFINE nb == RelayWritten(board, s, h)
    <2>1. Level(h) \in {0, 1}
      BY DEF Level
    <2>2. /\ nb \in Boards
          /\ nb.pwm = board.pwm
          /\ nb.relay = [board.relay EXCEPT ![s] = Level(h)]
      BY <2>1 DEF TypeOK, RelayWritten, Boards
    <2>3. PICK delivered \in {TRUE} \cup {~Lossy} :
            /\ board' = IF delivered THEN nb ELSE board
            /\ link' = [link EXCEPT !["relay"] =
                 [@ EXCEPT ![s] = IF delivered THEN "delivered" ELSE "lost"]]
      BY <1>1 DEF Relay, RelayAccepts, Write
    <2> HIDE DEF nb
    <2>4. /\ link' \in [Kinds -> [Sides -> LinkStates]]
          /\ link'["motor"] = link["motor"]
          /\ link'["relay"][s] = IF delivered THEN "delivered" ELSE "lost"
          /\ \A t \in Sides \ {s} : link'["relay"][t] = link["relay"][t]
      BY <2>3 DEF TypeOK, Kinds, LinkStates
    <2>5. /\ board' \in Boards
          /\ board'.pwm = board.pwm
          /\ \A t \in Sides \ {s} : board'.relay[t] = board.relay[t]
          /\ delivered => board'.relay[s] = Level(h)
      BY <2>2, <2>3 DEF TypeOK, Boards
    <2>6. QED
      BY <1>1, <2>4, <2>5
  <1>2. CASE h \notin Headings
    BY <1>2 DEF Relay, RelayAccepts, hardware, TypeOK
  <1>3. QED
    BY <1>1, <1>2

-----------------------------------------------------------------------------
(***************************************************************************)
(* Every step keeps the invariant.                                         *)
(***************************************************************************)

LEMMA InitIInv == Init => IInv
  <1> SUFFICES ASSUME Init PROVE IInv
    OBVIOUS
  <1>1. TypeOK
    <2>1. board \in Boards
      BY DEF Init, PoweredUp, Boards
    <2>2. link \in [Kinds -> [Sides -> LinkStates]]
      BY DEF Init, NothingWritten, LinkStates
    <2>3. QED
      BY <2>1, <2>2, CommunicatorAssumption
         DEF Init, TypeOK, Locations, Sides, MotorCommands
  <1>2. RequestInv
    BY DEF Init, RequestInv
  <1>3. MotorInv
    BY DEF Init, MotorInv, NothingWritten, Trusted, Kinds, Sides, PoweredUp
  <1>4. RelayInv
    BY DEF Init, RelayInv, NothingWritten, Trusted, Kinds, Sides
  <1>5. QED
    BY <1>1, <1>2, <1>3, <1>4 DEF IInv

LEMMA MoveStopKeeps == IInv /\ MoveStop => IInv'
  <1> SUFFICES ASSUME IInv, MoveStop PROVE IInv'
    OBVIOUS
  <1> USE DEF IInv
  <1>1. Motor(side, "stop") /\ side \in Sides
    BY DEF MoveStop, TypeOK
  <1>2. TypeOK'
    BY <1>1, MotorEffect DEF TypeOK, MoveStop, Both, Paired, Locations, Sides, MotorCommands, RequestInv, Moves
  <1>3. RequestInv'
    BY DEF TypeOK, RequestInv, MoveStop, Both, Paired, Sides
  <1>4. MotorInv'
    BY <1>1, MotorEffect, DutyIsByte DEF TypeOK, RequestInv, MotorInv, MoveStop, Both, Sides, Runs, Trusted, MotorCommands
  <1>5. RelayInv'
    BY <1>1, MotorEffect DEF TypeOK, RequestInv, RelayInv, MoveStop, Both, Sides, Points, Trusted, Opposite, Turns, Moves, Headings
  <1>6. QED
    BY <1>2, <1>3, <1>4, <1>5

LEMMA MoveStartKeeps == IInv /\ MoveStart => IInv'
  <1> SUFFICES ASSUME IInv, MoveStart PROVE IInv'
    OBVIOUS
  <1> USE DEF IInv
  <1>1. Motor(side, "start") /\ side \in Sides
    BY DEF MoveStart, TypeOK
  <1>2. TypeOK'
    BY <1>1, MotorEffect DEF TypeOK, MoveStart, Both, Paired, Locations, Sides, MotorCommands, RequestInv, Moves
  <1>3. RequestInv'
    BY DEF TypeOK, RequestInv, MoveStart, Both, Paired, Sides
  <1>4. MotorInv'
    BY <1>1, MotorEffect, DutyIsByte DEF TypeOK, RequestInv, MotorInv, MoveStart, Both, Sides, Runs, Trusted, MotorCommands
  <1>5. RelayInv'
    BY <1>1, MotorEffect DEF TypeOK, RequestInv, RelayInv, MoveStart, Both, Sides, Points, Trusted, Opposite, Turns, Moves, Headings
  <1>6. QED
    BY <1>2, <1>3, <1>4, <1>5

LEMMA StopKeeps == IInv /\ Stop => IInv'
  <1> SUFFICES ASSUME IInv, Stop PROVE IInv'
    OBVIOUS
  <1> USE DEF IInv
  <1>1. Motor(side, "stop") /\ side \in Sides
    BY DEF Stop, TypeOK
  <1>2. TypeOK'
    BY <1>1, MotorEffect DEF TypeOK, Stop, Both, Paired, Locations, Sides, MotorCommands, RequestInv, Moves
  <1>3. RequestInv'
    BY DEF TypeOK, RequestInv, Stop, Both, Paired, Sides
  <1>4. MotorInv'
    BY <1>1, MotorEffect, DutyIsByte DEF TypeOK, RequestInv, MotorInv, Stop, Both, Sides, Runs, Trusted, MotorCommands
  <1>5. RelayInv'
    BY <1>1, MotorEffect DEF TypeOK, RequestInv, RelayInv, Stop, Both, Sides, Points, Trusted, Opposite, Turns, Moves, Headings
  <1>6. QED
    BY <1>2, <1>3, <1>4, <1>5

LEMMA TurnStopKeeps == IInv /\ TurnStop => IInv'
  <1> SUFFICES ASSUME IInv, TurnStop PROVE IInv'
    OBVIOUS
  <1> USE DEF IInv
  <1>1. Motor(side, "stop") /\ side \in Sides
    BY DEF TurnStop, TypeOK
  <1>2. TypeOK'
    BY <1>1, MotorEffect DEF TypeOK, TurnStop, Both, Paired, Locations, Sides, MotorCommands, RequestInv, Moves
  <1>3. RequestInv'
    BY DEF TypeOK, RequestInv, TurnStop, Both, Paired, Sides
  <1>4. MotorInv'
    BY <1>1, MotorEffect, DutyIsByte DEF TypeOK, RequestInv, MotorInv, TurnStop, Both, Sides, Runs, Trusted, MotorCommands
  <1>5. RelayInv'
    BY <1>1, MotorEffect DEF TypeOK, RequestInv, RelayInv, TurnStop, Both, Sides, Points, Trusted, Opposite, Turns, Moves, Headings
  <1>6. QED
    BY <1>2, <1>3, <1>4, <1>5

LEMMA TurnStartKeeps == IInv /\ TurnStart => IInv'
  <1> SUFFICES ASSUME IInv, TurnStart PROVE IInv'
    OBVIOUS
  <1> USE DEF IInv
  <1>1. Motor(side, "start") /\ side \in Sides
    BY DEF TurnStart, TypeOK
  <1>2. TypeOK'
    BY <1>1, MotorEffect DEF TypeOK, TurnStart, Both, Paired, Locations, Sides, MotorCommands, RequestInv, Moves
  <1>3. RequestInv'
    BY DEF TypeOK, RequestInv, TurnStart, Both, Paired, Sides
  <1>4. MotorInv'
    BY <1>1, MotorEffect, DutyIsByte DEF TypeOK, RequestInv, MotorInv, TurnStart, Both, Sides, Runs, Trusted, MotorCommands
  <1>5. RelayInv'
    BY <1>1, MotorEffect DEF TypeOK, RequestInv, RelayInv, TurnStart, Both, Sides, Points, Trusted, Opposite, Turns, Moves, Headings
  <1>6. QED
    BY <1>2, <1>3, <1>4, <1>5

LEMMA TurnHaltKeeps == IInv /\ TurnHalt => IInv'
  <1> SUFFICES ASSUME IInv, TurnHalt PROVE IInv'
    OBVIOUS
  <1> USE DEF IInv
  <1>1. Motor(side, "stop") /\ side \in Sides
    BY DEF TurnHalt, TypeOK
  <1>2. TypeOK'
    BY <1>1, MotorEffect DEF TypeOK, TurnHalt, Both, Paired, Locations, Sides, MotorCommands, RequestInv, Moves
  <1>3. RequestInv'
    BY DEF TypeOK, RequestInv, TurnHalt, Both, Paired, Sides
  <1>4. MotorInv'
    BY <1>1, MotorEffect, DutyIsByte DEF TypeOK, RequestInv, MotorInv, TurnHalt, Both, Sides, Runs, Trusted, MotorCommands
  <1>5. RelayInv'
    BY <1>1, MotorEffect DEF TypeOK, RequestInv, RelayInv, TurnHalt, Both, Sides, Points, Trusted, Opposite, Turns, Moves, Headings
  <1>6. QED
    BY <1>2, <1>3, <1>4, <1>5

LEMMA TurnResumeKeeps == IInv /\ TurnResume => IInv'
  <1> SUFFICES ASSUME IInv, TurnResume PROVE IInv'
    OBVIOUS
  <1> USE DEF IInv
  <1>1. Motor(side, motor) /\ side \in Sides
    BY DEF TurnResume, TypeOK
  <1>2. TypeOK'
    BY <1>1, MotorEffect DEF TypeOK, TurnResume, Both, Paired, Locations, Sides, MotorCommands, RequestInv, Moves
  <1>3. RequestInv'
    BY DEF TypeOK, RequestInv, TurnResume, Both, Paired, Sides
  <1>4. MotorInv'
    BY <1>1, MotorEffect, DutyIsByte DEF TypeOK, RequestInv, MotorInv, TurnResume, Both, Sides, Runs, Trusted, MotorCommands
  <1>5. RelayInv'
    BY <1>1, MotorEffect DEF TypeOK, RequestInv, RelayInv, TurnResume, Both, Sides, Points, Trusted, Opposite, Turns, Moves, Headings
  <1>6. QED
    BY <1>2, <1>3, <1>4, <1>5

LEMMA MoveRelayKeeps == IInv /\ MoveRelay => IInv'
  <1> SUFFICES ASSUME IInv, MoveRelay PROVE IInv'
    OBVIOUS
  <1> USE DEF IInv
  <1>1. Relay(side, current.op) /\ side \in Sides
    BY DEF MoveRelay, TypeOK
  <1>2. TypeOK'
    BY <1>1, RelayEffect DEF TypeOK, MoveRelay, Both, Paired, Locations, Sides, MotorCommands, RequestInv, Moves
  <1>3. RequestInv'
    BY DEF TypeOK, RequestInv, MoveRelay, Both, Paired, Sides
  <1>4. MotorInv'
    BY <1>1, RelayEffect, DutyIsByte DEF TypeOK, RequestInv, MotorInv, MoveRelay, Both, Sides, Runs, Trusted, MotorCommands
  <1>5. RelayInv'
    BY <1>1, RelayEffect DEF TypeOK, RequestInv, RelayInv, MoveRelay, Both, Sides, Points, Trusted, Opposite, Turns, Moves, Headings
  <1>6. QED
    BY <1>2, <1>3, <1>4, <1>5

LEMMA TurnResetKeeps == IInv /\ TurnReset => IInv'
  <1> SUFFICES ASSUME IInv, TurnReset PROVE IInv'
    OBVIOUS
  <1> USE DEF IInv
  <1>1. Relay(side, direction) /\ side \in Sides
    BY DEF TurnReset, TypeOK
  <1>2. TypeOK'
    BY <1>1, RelayEffect DEF TypeOK, TurnReset, Both, Paired, Locations, Sides, MotorCommands, RequestInv, Moves
  <1>3. RequestInv'
    BY DEF TypeOK, RequestInv, TurnReset, Both, Paired, Sides
  <1>4. MotorInv'
    BY <1>1, RelayEffect, DutyIsByte DEF TypeOK, RequestInv, MotorInv, TurnReset, Both, Sides, Runs, Trusted, MotorCommands
  <1>5. RelayInv'
    BY <1>1, RelayEffect DEF TypeOK, RequestInv, RelayInv, TurnReset, Both, Sides, Points, Trusted, Opposite, Turns, Moves, Headings
  <1>6. QED
    BY <1>2, <1>3, <1>4, <1>5

LEMMA TurnRelayKeeps == IInv /\ TurnRelay => IInv'
  <1> SUFFICES ASSUME IInv, TurnRelay PROVE IInv'
    OBVIOUS
  <1> USE DEF IInv
  <1>1. current.op \in Sides /\ Opposite(current.op) \in Sides
    BY DEF TurnRelay, RequestInv, Turns, Sides, Opposite
  <1>2. CASE direction = "forward"
    <2>1. Relay(current.op, "backward")
      BY <1>2 DEF TurnRelay
    <2>2. TypeOK'
      BY <1>1, <2>1, RelayEffect DEF TurnRelay, TypeOK, Locations, Paired, this
    <2>3. RequestInv'
      BY DEF TurnRelay, RequestInv, Paired
    <2>4. MotorInv'
      BY <1>1, <2>1, RelayEffect
         DEF TurnRelay, TypeOK, RequestInv, MotorInv, Paired, Runs, Trusted
    <2>5. RelayInv'
      BY <1>1, <1>2, <2>1, RelayEffect
         DEF TurnRelay, TypeOK, RequestInv, RelayInv, Points, Trusted, Opposite,
             Sides, Headings, Turns, this
    <2>6. QED
      BY <2>2, <2>3, <2>4, <2>5
  <1>3. CASE direction = "backward"
    <2>1. Relay(Opposite(current.op), "forward")
      BY <1>3 DEF TurnRelay
    <2>2. TypeOK'
      BY <1>1, <2>1, RelayEffect DEF TurnRelay, TypeOK, Locations, Paired, this
    <2>3. RequestInv'
      BY DEF TurnRelay, RequestInv, Paired
    <2>4. MotorInv'
      BY <1>1, <2>1, RelayEffect
         DEF TurnRelay, TypeOK, RequestInv, MotorInv, Paired, Runs, Trusted
    <2>5. RelayInv'
      BY <1>1, <1>3, <2>1, RelayEffect
         DEF TurnRelay, TypeOK, RequestInv, RelayInv, Points, Trusted, Opposite,
             Sides, Headings, Turns, this
    <2>6. QED
      BY <2>2, <2>3, <2>4, <2>5
  <1>4. CASE direction \notin Headings
    <2>1. UNCHANGED hardware /\ direction = "undefined"
      BY <1>4 DEF TurnRelay, Headings, TypeOK
    <2>2. TypeOK'
      BY <2>1 DEF TurnRelay, TypeOK, Locations, Paired, this, hardware
    <2>3. RequestInv'
      BY DEF TurnRelay, RequestInv, Paired
    <2>4. MotorInv' /\ RelayInv'
      BY <2>1 DEF TurnRelay, TypeOK, RequestInv, MotorInv, RelayInv, Runs,
                  Points, Trusted, Paired, hardware, this
    <2>5. QED
      BY <2>2, <2>3, <2>4
  <1>5. QED
    BY <1>2, <1>3, <1>4 DEF Headings

LEMMA ReceiveKeeps == IInv /\ Receive => IInv'
  <1> SUFFICES ASSUME IInv, Receive PROVE IInv'
    OBVIOUS
  <1> USE DEF IInv
  <1>1. Head(inbox) \in Commands /\ Tail(inbox) \in Seq(Commands)
        /\ Len(Tail(inbox)) <= Capacity
    BY CommunicatorAssumption DEF Receive, TypeOK
  <1>2. /\ Head(inbox) \in Moves => pc' \in {"move_stop", "move_start"}
        /\ Head(inbox) \in Moves /\ pc' = "move_start" => direction = Head(inbox).op
        /\ Head(inbox) \in Turns => pc' = "turn_stop"
        /\ Head(inbox) \in Stops => pc' = "stop"
        /\ Head(inbox) \in SetSpeeds => pc' = "set_speed"
        /\ Head(inbox) \in Reads => pc' = "sensor_read"
    BY DEF Receive, FirstCall, Moves, Turns, Stops, SetSpeeds, Reads, Headings, Sides
  <1>3. TypeOK'
    BY <1>1, <1>2 DEF Receive, TypeOK, Commands, Locations, Paired, this, hardware
  <1>4. RequestInv'
    BY <1>1, <1>2 DEF Receive, RequestInv, Commands, Paired
  <1>5. side = "left" /\ side' = "left"
    BY DEF Receive, RequestInv, Paired
  <1>6. pc' \in {"move_stop", "move_start", "turn_stop", "stop", "set_speed",
                 "sensor_read"}
    BY <1>1, <1>2 DEF Commands
  <1>7. MotorInv'
    BY <1>5, <1>6 DEF Receive, MotorInv, Trusted, Runs, this, hardware
  <1>8. RelayInv'
    BY <1>1, <1>2, <1>5, <1>6 DEF Commands, Receive, RelayInv, Trusted, Points, this, hardware
  <1>9. QED
    BY <1>3, <1>4, <1>7, <1>8

LEMMA SetSpeedKeeps == IInv /\ SetSpeed => IInv'
  <1> SUFFICES ASSUME IInv, SetSpeed PROVE IInv'
    OBVIOUS
  <1> USE DEF IInv
  <1>1. speed' \in Int /\ speed' <= 255
    BY SpeedsAssumption DEF SetSpeed, RequestInv, SetSpeeds, Clamp
  <1>2. TypeOK'
    BY <1>1 DEF SetSpeed, TypeOK, Done, Locations, Sides, hardware
  <1>3. RequestInv' /\ MotorInv' /\ RelayInv'
    BY DEF SetSpeed, Done, RequestInv, MotorInv, RelayInv, Trusted, Runs, Points,
           hardware
  <1>4. QED
    BY <1>2, <1>3

LEMMA SensorReadKeeps == IInv /\ SensorRead => IInv'
  <1> SUFFICES ASSUME IInv, SensorRead PROVE IInv'
    OBVIOUS
  <1> USE DEF IInv
  <1>1. TypeOK'
    BY DEF SensorRead, TypeOK, Locations, this, hardware
  <1>2. RequestInv' /\ MotorInv' /\ RelayInv'
    BY DEF SensorRead, RequestInv, MotorInv, RelayInv, Trusted, Runs, Points,
           Paired, this, hardware
  <1>3. QED
    BY <1>1, <1>2

LEMMA SensorReplyKeeps == IInv /\ SensorReply => IInv'
  <1> SUFFICES ASSUME IInv, SensorReply PROVE IInv'
    OBVIOUS
  <1> USE DEF IInv
  <1>1. outbox' \in [ReplyQueues -> Seq(Readings)]
        /\ \A q \in ReplyQueues : Len(outbox'[q]) <= Capacity
    BY CommunicatorAssumption DEF SensorReply, TypeOK, RequestInv, Reads
  <1>2. TypeOK'
    BY <1>1 DEF SensorReply, TypeOK, Done, Locations, Sides, this, hardware
  <1>3. RequestInv' /\ MotorInv' /\ RelayInv'
    BY DEF SensorReply, Done, RequestInv, MotorInv, RelayInv, Trusted, Runs,
           Points, this, hardware
  <1>4. QED
    BY <1>2, <1>3

\* The environment's steps: a request or a value more or less in a queue, and
\* the crash, after which nothing is claimed of the board.
LEMMA EnvironmentKeeps == IInv /\ Environment => IInv'
  <1> SUFFICES ASSUME IInv, Environment PROVE IInv'
    OBVIOUS
  <1> USE DEF IInv
  <1>1. ASSUME NEW c \in Commands, Send(c) PROVE IInv'
    <2>1. TypeOK'
      BY <1>1, CommunicatorAssumption
         DEF Send, TypeOK, request, this, hardware
    <2>2. RequestInv' /\ MotorInv' /\ RelayInv'
      BY <1>1 DEF Send, RequestInv, MotorInv, RelayInv, Trusted, Runs, Points,
                  request, this, hardware
    <2>3. QED
      BY <2>1, <2>2
  <1>2. ASSUME NEW q \in ReplyQueues, Consume(q) PROVE IInv'
    <2>1. outbox' \in [ReplyQueues -> Seq(Readings)]
          /\ \A r \in ReplyQueues : Len(outbox'[r]) <= Capacity
      BY <1>2, CommunicatorAssumption DEF Consume, TypeOK
    <2>2. TypeOK'
      BY <1>2, <2>1 DEF Consume, TypeOK, request, this, hardware
    <2>3. RequestInv' /\ MotorInv' /\ RelayInv'
      BY <1>2 DEF Consume, RequestInv, MotorInv, RelayInv, Trusted, Runs, Points,
                  request, this, hardware
    <2>4. QED
      BY <2>2, <2>3
  <1>3. CASE Crash
    <2>1. /\ pc' = "idle" /\ side' = "left" /\ current' = NoCommand
          /\ direction' = "undefined"
          /\ \A k \in Kinds, s \in Sides : link'[k][s] = "unwritten"
      BY <1>3 DEF Crash, Done, NothingWritten
    <2>2. link' \in [Kinds -> [Sides -> LinkStates]]
      BY <1>3 DEF Crash, NothingWritten, LinkStates
    <2>3. board' \in Boards
      <3>1. PoweredUp \in Boards
        BY DEF PoweredUp, Boards
      <3>2. QED
        BY <1>3, <3>1 DEF Crash, TypeOK
    <2>4. TypeOK'
      BY <1>3, <2>1, <2>2, <2>3
         DEF Crash, TypeOK, Locations, Sides, MotorCommands
    <2>5. RequestInv' /\ MotorInv' /\ RelayInv'
      BY <2>1 DEF RequestInv, MotorInv, RelayInv, Trusted, Kinds, Sides
    <2>6. QED
      BY <2>4, <2>5
  <1>4. QED
    BY <1>1, <1>2, <1>3 DEF Environment

LEMMA StepIInv == IInv /\ [Next]_vars => IInv'
  <1> SUFFICES ASSUME IInv, [Next]_vars PROVE IInv'
    OBVIOUS
  <1>1. CASE Thread
    BY <1>1, ReceiveKeeps, MoveStopKeeps, MoveRelayKeeps, MoveStartKeeps,
       StopKeeps, TurnStopKeeps, TurnRelayKeeps, TurnStartKeeps, TurnHaltKeeps,
       TurnResetKeeps, TurnResumeKeeps, SetSpeedKeeps, SensorReadKeeps,
       SensorReplyKeeps DEF Thread
  <1>2. CASE Environment
    BY <1>2, EnvironmentKeeps
  <1>3. CASE UNCHANGED vars
    BY <1>3 DEF vars, request, this, hardware, IInv, TypeOK, RequestInv,
                MotorInv, RelayInv, Trusted, Runs, Points
  <1>4. QED
    BY <1>1, <1>2, <1>3 DEF Next

\* What the thread does, what it has told the board and what it believes of
\* the drive always fit together.
THEOREM Invariance == Spec => []IInv
  BY InitIInv, StepIInv, PTL DEF Spec

-----------------------------------------------------------------------------
(***************************************************************************)
(* What follows from it.                                                   *)
(***************************************************************************)

\* The types of all variables, for every value of the constants.
THEOREM TypeCorrect == Spec => []TypeOK
  BY Invariance, PTL DEF IInv

\* Between two requests the relays that can be trusted point in
\* this.direction.
THEOREM WheelsCorrect == Spec => []WheelsFollowDirection
  <1>1. IInv => WheelsFollowDirection
    BY DEF IInv, TypeOK, RelayInv, WheelsFollowDirection, Points, Trusted
  <1>2. QED
    BY <1>1, Invariance, PTL

\* Between two requests the motors that can be trusted obey this.motor.
THEOREM MotorsCorrect == Spec => []MotorsFollowOrder
  <1>1. IInv => MotorsFollowOrder
    BY DEF IInv, MotorInv, MotorsFollowOrder, Unpowered
  <1>2. QED
    BY <1>1, Invariance, PTL

\* A turn from a known direction reverses the wheel on the inside of it.
THEOREM TurnsCorrect == Spec => []TurnsTheRightWay
  <1>1. IInv => TurnsTheRightWay
    BY DEF IInv, RequestInv, RelayInv, TurnsTheRightWay, Turning, Points,
           Trusted, Turns, Opposite, Sides
  <1>2. QED
    BY <1>1, Invariance, PTL

\* No relay switches under power, through any crash and any order of
\* requests, unless a stop was lost: the relays switch only at three places
\* of the code, and MotorInv knows the power at each.
THEOREM RelaySafety == Spec => RelaySwitchedUnpowered
  <1> DEFINE Safe == board'.relay # board.relay /\ board' # PoweredUp =>
                       \A s \in Sides : Unpowered(s) \/ link.motor[s] = "lost"
  <1>1. IInv /\ [Next]_vars => [Safe]_vars
    <2> SUFFICES ASSUME IInv, Next PROVE Safe
      BY DEF RelaySwitchedUnpowered
    <2>1. pc \in {"move_relay", "turn_relay", "turn_reset"} => Safe
      BY DEF IInv, MotorInv, Runs, Unpowered
    <2>2. CASE MoveRelay \/ TurnRelay \/ TurnReset
      BY <2>1, <2>2 DEF MoveRelay, TurnRelay, TurnReset, Both
    <2>3. ASSUME NEW c, Motor(side, c) PROVE Safe
      BY <2>3, MotorEffect DEF IInv, TypeOK
    <2>4. CASE MoveStop \/ MoveStart \/ Stop \/ TurnStop \/ TurnStart
               \/ TurnHalt \/ TurnResume
      BY <2>3, <2>4 DEF MoveStop, MoveStart, Stop, TurnStop, TurnStart, TurnHalt,
                        TurnResume
    <2>5. CASE Receive \/ SetSpeed \/ SensorRead \/ SensorReply \/ Environment
      BY <2>5 DEF Receive, SetSpeed, SensorRead, SensorReply, Environment, Send,
                  Consume, Crash, hardware
    <2>6. QED
      BY <2>2, <2>4, <2>5 DEF Next, Thread
  <1>2. QED
    BY <1>1, Invariance, PTL DEF Spec, RelaySwitchedUnpowered

-----------------------------------------------------------------------------
(***************************************************************************)
(* The refinement of Drive, while the writes arrive.                       *)
(***************************************************************************)

\* The instance of Drive speaks of the same requests and the same board.
LEMMA SameVocabulary ==
  /\ Promise!Sides = Sides
  /\ Promise!Boards = Boards
  /\ Promise!PoweredUp = PoweredUp
  /\ Promise!NoCommand = NoCommand
  /\ Promise!Commands = Commands
  /\ \A c : Promise!Drives(c) <=> Drives(c)
  /\ \A c, h : Promise!HeadingAfter(c, h) = HeadingAfter(c, h)
  /\ \A c, m : Promise!MotorAfter(c, m) = MotorAfter(c, m)
  /\ \A c, v : Promise!SpeedAfter(c, v) = SpeedAfter(c, v)
  /\ \A c, v : Promise!Duty(c, v) = Duty(c, v)
  /\ \A h : Promise!Level(h) = Level(h)
  <1>1. Promise!Sides = Sides /\ Promise!Headings = Headings
    BY DEF Promise!Sides, Sides, Promise!Headings, Headings
  <1>2. Promise!Boards = Boards /\ Promise!PoweredUp = PoweredUp
    BY <1>1 DEF Promise!Boards, Boards, Promise!PoweredUp, PoweredUp
  <1>3. Promise!NoCommand = NoCommand /\ Promise!Commands = Commands
    BY <1>1 DEF Promise!NoCommand, NoCommand, Promise!Commands, Commands,
                Promise!Moves, Promise!Turns, Promise!Stops, Promise!SetSpeeds,
                Promise!Reads, Moves, Turns, Stops, SetSpeeds, Reads
  <1>4. \A c : Promise!Drives(c) <=> Drives(c)
    BY <1>1 DEF Promise!Drives, Drives
  <1>5. /\ \A c, h : Promise!HeadingAfter(c, h) = HeadingAfter(c, h)
        /\ \A c, m : Promise!MotorAfter(c, m) = MotorAfter(c, m)
        /\ \A c, v : Promise!SpeedAfter(c, v) = SpeedAfter(c, v)
    BY <1>1 DEF Promise!HeadingAfter, HeadingAfter, Promise!MotorAfter,
                MotorAfter, Promise!SpeedAfter, SpeedAfter, Promise!Clamp, Clamp
  <1>6. /\ \A c, v : Promise!Duty(c, v) = Duty(c, v)
        /\ \A h : Promise!Level(h) = Level(h)
    BY DEF Promise!Duty, Duty, Promise!Byte, Byte, Promise!Clamp, Clamp,
           Promise!Level, Level
  <1>7. QED
    BY <1>1, <1>2, <1>3, <1>4, <1>5, <1>6

\* A call that switches one relay, or changes motors only, is safe for the
\* contacts, since every relay is switched with the motors off.
LEMMA CallIsSafe ==
  ASSUME IInv, Arrived, Arrived',
         \/ MoveStop \/ MoveRelay \/ MoveStart \/ Stop \/ TurnStop \/ TurnRelay
         \/ TurnStart \/ TurnHalt \/ TurnReset \/ TurnResume
  PROVE  Promise!SafeSwitch /\ board' \in Boards
  <1> USE DEF IInv
  <1>1. ASSUME NEW c, Motor(side, c)
        PROVE  board' \in Boards /\ board'.relay = board.relay
    BY <1>1, MotorEffect DEF TypeOK
  <1>2. ASSUME NEW s \in Sides, NEW h, Relay(s, h) PROVE board' \in Boards
    BY <1>2, RelayEffect
  <1>3. CASE MoveStop \/ MoveStart \/ Stop \/ TurnStop \/ TurnStart
             \/ TurnHalt \/ TurnResume
    BY <1>1, <1>3, SameVocabulary
       DEF MoveStop, MoveStart, Stop, TurnStop, TurnStart, TurnHalt, TurnResume,
           Promise!SafeSwitch
  <1>4. CASE MoveRelay \/ TurnRelay \/ TurnReset
    <2>1. \A s \in Sides : board.pwm[s] = 0
      BY <1>4 DEF MoveRelay, TurnRelay, TurnReset, Both, MotorInv, Runs,
                  Arrived, Kinds
    <2>2. side \in Sides /\ (TurnRelay => current.op \in Sides
                                          /\ Opposite(current.op) \in Sides)
      BY DEF TypeOK, TurnRelay, RequestInv, Turns, Opposite, Sides
    <2>3. board' \in Boards
      BY <1>2, <1>4, <2>2
         DEF MoveRelay, TurnRelay, TurnReset, hardware, TypeOK
    <2>4. QED
      BY <2>1, <2>3, SameVocabulary DEF Promise!SafeSwitch
  <1>5. QED
    BY <1>3, <1>4

\* A call that does not end a request is a step of Promise!Work.
LEMMA CallIsWork ==
  ASSUME IInv, Arrived, Arrived', pc' # "idle",
         \/ MoveStop \/ MoveRelay \/ MoveStart \/ Stop \/ TurnStop \/ TurnRelay
         \/ TurnStart \/ TurnHalt \/ TurnReset \/ TurnResume
  PROVE  Promise!Work
  <1> USE DEF IInv
  <1>1. Promise!SafeSwitch
    BY CallIsSafe
  <1>2. UNCHANGED <<inbox, outbox, current, speed>>
    BY DEF MoveStop, MoveRelay, MoveStart, Stop, TurnStop, TurnRelay, TurnStart,
           TurnHalt, TurnReset, TurnResume, Both, this
  <1>3. current \in Moves \cup Turns \cup Stops
    BY DEF MoveStop, MoveRelay, MoveStart, Stop, TurnStop, TurnRelay, TurnStart,
           TurnHalt, TurnReset, TurnResume, Both, RequestInv
  <1>4. Promise!Drives(current)
    BY <1>3, SameVocabulary DEF Drives, Moves, Turns, Stops
  <1>5. HeadingAfter(current, direction') = HeadingAfter(current, direction)
    BY <1>3 DEF MoveStop, MoveRelay, MoveStart, Stop, TurnStop, TurnRelay,
           TurnStart, TurnHalt, TurnReset, TurnResume, this, HeadingAfter,
           RequestInv, Both, Moves, Headings
  <1>6. MotorAfter(current, motor') = MotorAfter(current, motor)
    BY <1>3 DEF MoveStop, MoveRelay, MoveStart, Stop, TurnStop, TurnRelay,
           TurnStart, TurnHalt, TurnReset, TurnResume, this, MotorAfter,
           RequestInv, Both, Moves, Stops, Headings
  <1>7. QED
    BY <1>1, <1>2, <1>4, <1>5, <1>6
       DEF Promise!Work, Promise!queues, Promise!drive

\* The call that ends a move, a stop or a turn leaves the board as promised.
LEMMA LastCallFinishes ==
  ASSUME IInv, Arrived, Arrived', pc' = "idle", MoveStart \/ Stop \/ TurnResume
  PROVE  Promise!FinishDrive
  <1> USE DEF IInv
  <1> DEFINE order == MotorAfter(current, motor)
             h == HeadingAfter(current, direction)
  <1>0. IInv'
    BY ReceiveKeeps, MoveStartKeeps, StopKeeps, TurnResumeKeeps
  <1>1. Promise!SafeSwitch
    BY CallIsSafe
  <1>2. /\ side = "right" /\ current' = NoCommand
        /\ UNCHANGED <<inbox, outbox, speed, direction>>
    BY DEF MoveStart, Stop, TurnResume, Both, Sides, TypeOK
  <1>3. current \in Moves \cup Turns \cup Stops
    BY DEF MoveStart, Stop, TurnResume, Both, RequestInv
  <1>4. /\ Drives(current)
        /\ SpeedAfter(current, speed) = speed
        /\ \A v : SpeedAfter(NoCommand, v) = v /\ HeadingAfter(NoCommand, v) = v
        /\ \A m : MotorAfter(NoCommand, m) = m
    BY <1>3 DEF Drives, Moves, Turns, Stops, SpeedAfter, HeadingAfter,
                MotorAfter, NoCommand, Headings, Sides
  <1>5. motor' = order
    BY <1>2 DEF MoveStart, Stop, TurnResume, Both, RequestInv, MotorAfter,
                Moves, Turns, Stops, Headings, Sides
  <1>6. direction = h
    <2>1. CASE MoveStart
      BY <2>1 DEF MoveStart, Both, RelayInv, RequestInv, HeadingAfter
    <2>2. CASE Stop \/ TurnResume
      BY <2>2 DEF Stop, TurnResume, Both, RequestInv, Turns, Stops, Sides,
                  HeadingAfter, Headings
    <2>3. QED
      BY <2>1, <2>2
  <1>7. \A s \in Sides : board'.pwm[s] = Duty(order, speed)
    <2>1. Motor("right", order)
      BY <1>2 DEF MoveStart, Stop, TurnResume, Both, RequestInv, MotorAfter,
                  Moves, Turns, Stops, Headings, Sides
    <2>2. board.pwm["left"] = Duty(order, speed)
      BY <1>2, DutyIsByte
         DEF MoveStart, Stop, TurnResume, Both, RequestInv, MotorAfter, MotorInv,
             Runs, Arrived, Kinds, Moves, Turns, Stops, Headings, Sides, TypeOK
    <2>3. /\ board'.pwm["left"] = board.pwm["left"]
          /\ link'["motor"]["right"] = "lost"
             \/ board'.pwm["right"] = Duty(order, speed)
      BY <2>1, MotorEffect DEF Sides
    <2>4. link'["motor"]["right"] # "lost"
      BY DEF Arrived, Kinds, Sides
    <2>5. QED
      BY <2>2, <2>3, <2>4 DEF Sides
  <1>8. h # "undefined" => \A s \in Sides : board'.relay[s] = Level(h)
    <2>1. board'.relay = board.relay
      BY MotorEffect DEF MoveStart, Stop, TurnResume, TypeOK
    <2>2. pc \in {"move_start", "stop", "turn_resume"}
      BY DEF MoveStart, Stop, TurnResume, Both
    <2>3. QED
      BY <1>6, <2>1, <2>2 DEF RelayInv, Points, Arrived, Kinds
  <1>9. Promise!Conforms(board')
    BY <1>4, <1>7, <1>8, SameVocabulary DEF Promise!Conforms
  <1> HIDE DEF order, h
  <1>10. QED
    BY <1>1, <1>2, <1>4, <1>5, <1>6, <1>9, SameVocabulary
       DEF order, h, Promise!FinishDrive, Promise!queues, Promise!drive

LEMMA StepSimulation ==
  ASSUME IInv, Arrived, Arrived', [Next]_vars
  PROVE  [Promise!Next]_(Promise!vars)
  <1> USE DEF IInv
  <1>a. /\ \A v : SpeedAfter(NoCommand, v) = v /\ HeadingAfter(NoCommand, v) = v
        /\ \A m : MotorAfter(NoCommand, m) = m
    BY DEF SpeedAfter, HeadingAfter, MotorAfter, NoCommand, Headings
  <1>1. CASE Receive
    <2>1. current = NoCommand
      BY <1>1 DEF Receive, RequestInv
    <2>2. Promise!Accept
      BY <1>1, <1>a, <2>1, SameVocabulary
         DEF Receive, Promise!Accept, this, hardware
    <2>3. QED
      BY <2>2 DEF Promise!Next
  <1>2. CASE \/ MoveStop \/ MoveRelay \/ MoveStart \/ Stop \/ TurnStop
             \/ TurnRelay \/ TurnStart \/ TurnHalt \/ TurnReset \/ TurnResume
    <2>1. CASE pc' # "idle"
      BY <1>2, <2>1, CallIsWork DEF Promise!Next
    <2>2. CASE pc' = "idle"
      <3>1. MoveStart \/ Stop \/ TurnResume
        BY <1>2, <2>2 DEF MoveStop, MoveRelay, TurnStop, TurnRelay, TurnStart,
                          TurnHalt, TurnReset, Both
      <3>2. QED
        BY <2>2, <3>1, LastCallFinishes DEF Promise!Next, Promise!Finish
    <2>3. QED
      BY <2>1, <2>2
  <1>3. CASE SetSpeed
    <2>1. current.op = "speed" /\ current' = NoCommand
      BY <1>3 DEF SetSpeed, Done, RequestInv, SetSpeeds
    <2>2. /\ HeadingAfter(current, direction) = direction
          /\ MotorAfter(current, motor) = motor
          /\ SpeedAfter(current, speed) = speed'
      BY <1>3, <2>1 DEF SetSpeed, HeadingAfter, MotorAfter, SpeedAfter, Headings
    <2>3. Promise!FinishSpeed
      BY <1>3, <1>a, <2>1, <2>2, SameVocabulary
         DEF SetSpeed, Promise!FinishSpeed, Promise!queues, Promise!drive,
             hardware
    <2>4. QED
      BY <2>3 DEF Promise!Next, Promise!Finish
  <1>4. CASE SensorRead
    BY <1>4 DEF SensorRead, this, hardware, Promise!vars, Promise!queues,
                Promise!drive
  <1>5. CASE SensorReply
    <2>1. /\ current.op = "sensor" /\ current' = NoCommand
          /\ value \in Readings
      BY <1>5 DEF SensorReply, Done, RequestInv, Reads
    <2>2. /\ HeadingAfter(current, direction) = direction
          /\ MotorAfter(current, motor) = motor
          /\ SpeedAfter(current, speed) = speed
      BY <2>1 DEF HeadingAfter, MotorAfter, SpeedAfter, Headings
    <2>3. Promise!FinishRead
      BY <1>5, <1>a, <2>1, <2>2, SameVocabulary
         DEF SensorReply, Promise!FinishRead, Promise!drive, this, hardware
    <2>4. QED
      BY <2>3 DEF Promise!Next, Promise!Finish
  <1>6. ASSUME NEW c \in Commands, Send(c) PROVE Promise!Next
    <2>1. Promise!Send(c)
      BY <1>6 DEF Send, Promise!Send, request, this, hardware, Promise!drive
    <2>2. QED
      BY <2>1, SameVocabulary DEF Promise!Next
  <1>7. ASSUME NEW q \in ReplyQueues, Consume(q) PROVE Promise!Next
    <2>1. Promise!Consume(q)
      BY <1>7 DEF Consume, Promise!Consume, request, this, hardware, Promise!drive
    <2>2. QED
      BY <2>1 DEF Promise!Next
  <1>8. CASE Crash
    <2>1. Promise!Crash
      BY <1>8, <1>a, SameVocabulary DEF Crash, Done, Promise!Crash, Promise!queues
    <2>2. QED
      BY <2>1 DEF Promise!Next
  <1>9. CASE UNCHANGED vars
    BY <1>9 DEF vars, request, this, hardware, Promise!vars, Promise!queues,
                Promise!drive
  <1>10. QED
    BY <1>1, <1>2, <1>3, <1>4, <1>5, <1>6, <1>7, <1>8, <1>9
       DEF Next, Thread, Environment

\* While the last write to each output has arrived, the io calls of every
\* request add up to what Drive promises, from any state that a crash, a lost
\* write or an earlier request leaves behind.
THEOREM Refinement == Spec => ImplementsDrive
  <1>1. Init => Promise!Init
    BY SameVocabulary
       DEF Init, Promise!Init, SpeedAfter, HeadingAfter, MotorAfter, NoCommand,
           Headings
  <1>2. IInv /\ [Next]_vars => [Arrived /\ Arrived' => Promise!Next]_(Promise!vars)
    BY StepSimulation
  <1>3. QED
    BY <1>1, <1>2, Invariance, PTL DEF Spec, ImplementsDrive

=============================================================================
