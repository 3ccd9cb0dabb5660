---------------------------- MODULE MowerProofs ----------------------------
(***************************************************************************)
(* Theorems about Mower, for all readings a sensor may have, queues of any *)
(* capacity, and any number of changes of the world and crashes.           *)
(***************************************************************************)
EXTENDS Mower, SequenceTheorems, TLAPS

-----------------------------------------------------------------------------
(***************************************************************************)
(* The queues.                                                             *)
(***************************************************************************)

QueuesOK ==
  /\ DOMAIN queue = Queues
  /\ \A q \in Queues : /\ queue[q] \in Seq(Messages(q))
                       /\ Len(queue[q]) <= Capacity[q]

\* A send adds a message at the end of one queue and leaves the others alone.
LEMMA SendEffect ==
  ASSUME QueuesOK, NEW q \in Queues, NEW m \in Messages(q), HasRoom(q),
         queue' = Sent(q, m)
  PROVE  /\ QueuesOK'
         /\ queue'[q] = Append(queue[q], m)
         /\ \A r \in Queues \ {q} : queue'[r] = queue[r]
<1>1. /\ DOMAIN queue' = Queues
      /\ queue'[q] = Append(queue[q], m)
      /\ \A r \in Queues \ {q} : queue'[r] = queue[r]
  BY DEF Sent, QueuesOK
<1>2. queue[q] \in Seq(Messages(q)) /\ Len(queue[q]) < Capacity[q] /\ Capacity[q] \in Nat
  BY MowerAssumption DEF QueuesOK, HasRoom
<1>3. /\ Append(queue[q], m) \in Seq(Messages(q))
      /\ Len(Append(queue[q], m)) = Len(queue[q]) + 1
      /\ Len(queue[q]) \in Nat
  BY <1>2, AppendProperties, LenProperties
<1>4. Len(queue'[q]) <= Capacity[q]
  BY <1>1, <1>2, <1>3
<1>5. Messages(q)' = Messages(q) /\ \A r \in Queues : Messages(r)' = Messages(r)
  BY DEF Messages
<1>6. ASSUME NEW r \in Queues
      PROVE  queue'[r] \in Seq(Messages(r)) /\ Len(queue'[r]) <= Capacity[r]
  BY <1>1, <1>3, <1>4 DEF QueuesOK
<1> QED BY <1>1, <1>5, <1>6 DEF QueuesOK

\* A receive takes the first message of one queue and leaves the others alone.
LEMMA ReceiveEffect ==
  ASSUME QueuesOK, NEW q \in Queues, queue[q] # << >>, queue' = Received(q)
  PROVE  /\ QueuesOK'
         /\ Head(queue[q]) \in Messages(q)
         /\ queue'[q] = Tail(queue[q])
         /\ \A r \in Queues \ {q} : queue'[r] = queue[r]
<1>1. /\ DOMAIN queue' = Queues
      /\ queue'[q] = Tail(queue[q])
      /\ \A r \in Queues \ {q} : queue'[r] = queue[r]
  BY DEF Received, QueuesOK
<1>2. queue[q] \in Seq(Messages(q)) /\ Len(queue[q]) <= Capacity[q] /\ Capacity[q] \in Nat
  BY MowerAssumption DEF QueuesOK
<1>3. /\ Tail(queue[q]) \in Seq(Messages(q))
      /\ Head(queue[q]) \in Messages(q)
      /\ Len(Tail(queue[q])) = Len(queue[q]) - 1
      /\ Len(queue[q]) \in Nat
  BY <1>2, HeadTailProperties, LenProperties
<1>4. Len(queue'[q]) <= Capacity[q]
  BY <1>1, <1>2, <1>3
<1>5. ASSUME NEW r \in Queues
      PROVE  queue'[r] \in Seq(Messages(r)) /\ Len(queue'[r]) <= Capacity[r]
  BY <1>1, <1>3, <1>4 DEF QueuesOK
<1> QED BY <1>1, <1>3, <1>5 DEF QueuesOK, Messages

\* What the queues hold, one by one.
LEMMA MessageTypes ==
  /\ "main" \in Queues /\ "comm" \in Queues /\ Sensors \subseteq Queues
  /\ Messages("main") = DecisionMessages
  /\ Messages("comm") = Commands
  /\ \A s \in Sensors : Messages(s) = Values(s)
BY DEF Queues, Sensors, Messages

-----------------------------------------------------------------------------
(***************************************************************************)
(* Types.                                                                  *)
(***************************************************************************)

\* A motor that has been started has a heading.
HasHeading == motor = "start" => heading \in Headings

\* The requests the mow thread has still to send for a decision: perhaps a
\* turn, and the move that stands for the decision.
Aim(mow) == CASE mow = "obstacle" -> "backward"
              [] mow = "idle"     -> "forward"
              [] mow = "stopped"  -> "undefined"

PlanInv ==
  handling # "none" =>
    \/ todo = <<[op |-> Aim(StateAfter(handling))]>>
    \/ \E turn \in Turns : todo = <<turn, [op |-> Aim(StateAfter(handling))]>>

TypeInv == TypeOK /\ HasHeading /\ PlanInv

\* At the start the queues are empty and no decision is being handled.
LEMMA InitTypes == Init => TypeInv
<1> SUFFICES ASSUME Init PROVE TypeInv
  OBVIOUS
<1>1. DOMAIN queue = Queues /\ \A q \in Queues : queue[q] = << >>
  BY DEF Init
<1>2. \A q \in Queues : queue[q] \in Seq(Messages(q)) /\ Len(queue[q]) <= Capacity[q]
  <2> TAKE q \in Queues
  <2>1. Capacity[q] \in Nat
    BY MowerAssumption
  <2>2. queue[q] = << >> /\ << >> \in Seq(Messages(q)) /\ Len(<< >>) = 0
    BY <1>1, EmptySeq
  <2>3. Len(queue[q]) = 0 /\ queue[q] \in Seq(Messages(q))
    BY <2>2, Zenon
  <2> QED BY <2>1, <2>3
<1>3. todo \in Seq(Moves \cup Turns) /\ Len(todo) <= 2
  BY EmptySeq DEF Init
<1>4. events \in 0..MaxEvents /\ crashes \in 0..MaxCrashes
  BY MowerAssumption DEF Init
<1>5. DOMAIN world = Sensors /\ \A s \in Sensors : world[s] \in Readings[s]
  BY DEF Init
<1>6. /\ state \in [Sensors -> Decisions] /\ sending \in [Sensors -> Decisions \cup {"none"}]
      /\ told \in [Sensors -> Decisions]
  BY DEF Init, Decisions
<1>7. /\ mowState = "stopped" /\ handling = "none" /\ todo = << >>
      /\ heading = "undefined" /\ motor = "stop" /\ motion = "stopped" /\ reply = NoReply
  BY DEF Init
<1>8. HasHeading /\ PlanInv
  BY <1>7 DEF HasHeading, PlanInv
<1>9. TypeOK
  BY <1>1, <1>2, <1>3, <1>4, <1>5, <1>6, <1>7
  DEF TypeOK, MotorCommands, Motions
<1> QED BY <1>8, <1>9 DEF TypeInv

\* The plans of a decision.
LEMMA PlanTypes ==
  ASSUME NEW d \in Decisions, NEW plan \in Plans(d)
  PROVE  /\ plan \in Seq(Moves \cup Turns) /\ Len(plan) <= 2 /\ plan # << >>
         /\ \/ plan = <<[op |-> Aim(StateAfter(d))]>>
            \/ \E turn \in Turns : plan = <<turn, [op |-> Aim(StateAfter(d))]>>
<1>1. CASE d = "too_close"
  <2>1. plan = <<[op |-> "backward"]>>
    BY <1>1 DEF Plans
  <2>2. [op |-> "backward"] \in Moves
    BY DEF Moves, Headings
  <2>3. Aim(StateAfter(d)) = "backward"
    BY <1>1 DEF Aim, StateAfter
  <2> QED BY <2>1, <2>2, <2>3
<1>2. CASE d = "ok"
  <2>1. PICK side \in Sides : plan = <<[op |-> side], [op |-> "forward"]>>
    BY <1>2 DEF Plans
  <2>2. [op |-> side] \in Turns /\ [op |-> "forward"] \in Moves
    BY DEF Moves, Turns, Headings
  <2>3. Aim(StateAfter(d)) = "forward"
    BY <1>2 DEF Aim, StateAfter
  <2> QED BY <2>1, <2>2, <2>3
<1> QED BY <1>1, <1>2 DEF Decisions

\* The types of the sensors' threads, of the mow thread, of the drive, and of
\* the rest.
SensingOK ==
  /\ state \in [Sensors -> Decisions]
  /\ sending \in [Sensors -> Decisions \cup {"none"}]

MowingOK ==
  /\ mowState \in {"stopped", "idle", "obstacle"}
  /\ handling \in Decisions \cup {"none"}
  /\ todo \in Seq(Moves \cup Turns) /\ Len(todo) <= 2
  /\ (handling = "none") <=> (todo = << >>)
  /\ told \in [Sensors -> Decisions]
  /\ PlanInv

DrivingOK ==
  /\ heading \in Headings \cup {"undefined"}
  /\ motor \in MotorCommands
  /\ motion \in Motions
  /\ HasHeading
  /\ \/ reply = NoReply
     \/ /\ DOMAIN reply = {"sensor", "value"}
        /\ reply.sensor \in Sensors
        /\ reply.value \in Values(reply.sensor)

WorldOK ==
  /\ DOMAIN world = Sensors /\ \A s \in Sensors : world[s] \in Readings[s]
  /\ events \in 0..MaxEvents /\ crashes \in 0..MaxCrashes

\* The type invariant consists of these.
LEMMA TypeParts ==
  TypeInv <=> QueuesOK /\ SensingOK /\ MowingOK /\ DrivingOK /\ WorldOK
BY DEF TypeInv, TypeOK, QueuesOK, SensingOK, MowingOK, DrivingOK, WorldOK

\* A motor request leaves a heading, a motor and a motion.
LEMMA DriveTypes ==
  ASSUME TypeInv, NEW c, Drives(c)
  PROVE  /\ HeadingAfter(c, heading) \in Headings \cup {"undefined"}
         /\ MotorAfter(c, motor) \in MotorCommands
         /\ MotionAfter(c) \in Motions
         /\ MotorAfter(c, motor) = "start" => HeadingAfter(c, heading) \in Headings
<1>1. /\ heading \in Headings \cup {"undefined"} /\ motor \in MotorCommands
      /\ motor = "start" => heading \in Headings
  BY TypeParts DEF DrivingOK, HasHeading
<1> QED
  BY <1>1 DEF HeadingAfter, MotorAfter, MotionAfter, Motions, MotorCommands

\* The mow thread's requests are requests of the communicator.
LEMMA RequestTypes ==
  /\ Moves \subseteq Commands /\ Turns \subseteq Commands
  /\ \A s \in Sensors : ReadRequest(s) \in Commands
  /\ CliRequests \subseteq Commands
BY MowerAssumption DEF Commands, ReadRequest, Reads

\* An event counts.
LEMMA EventTypes ==
  ASSUME WorldOK, Event
  PROVE  events' \in 0..MaxEvents
BY MowerAssumption DEF WorldOK, Event

\* One step of the mow thread's plan.
LEMMA MowSendTypes ==
  ASSUME TypeInv, MowSend
  PROVE  /\ Head(todo) \in Moves \cup Turns
         /\ MowingOK'
         /\ Len(todo) = 1 <=> handling' = "none"
         /\ Len(todo) = 1 => Head(todo) = [op |-> Aim(mowState')]
         /\ Len(todo) # 1 => Head(todo) \in Turns
<1>1. MowingOK
  BY TypeParts
<1>2. handling \in Decisions /\ handling # "none"
  BY <1>1 DEF MowingOK, MowSend
<1> DEFINE move == [op |-> Aim(StateAfter(handling))]
<1>3. move \in Moves /\ StateAfter(handling) \in {"idle", "obstacle"}
  BY <1>2 DEF Moves, Headings, Aim, StateAfter, Decisions
<1>4. todo' = Tail(todo) /\ told' = told
  BY DEF MowSend
<1>5. IF Len(todo) = 1 THEN mowState' = StateAfter(handling) /\ handling' = "none"
                       ELSE mowState' = mowState /\ handling' = handling
  BY DEF MowSend
<1>6. todo = <<move>> \/ \E turn \in Turns : todo = <<turn, move>>
  BY <1>1, <1>2 DEF MowingOK, PlanInv
<1> HIDE DEF move
<1>7. CASE todo = <<move>>
  <2>1. Len(todo) = 1 /\ Head(todo) = move /\ Tail(todo) = << >>
    BY <1>7
  <2>2. << >> \in Seq(Moves \cup Turns) /\ Len(<< >>) = 0
    BY EmptySeq
  <2>3. todo' = << >> /\ handling' = "none" /\ mowState' \in {"idle", "obstacle"}
    BY <1>3, <1>4, <1>5, <2>1
  <2>4. todo' \in Seq(Moves \cup Turns) /\ Len(todo') = 0
    BY <2>2, <2>3, Zenon
  <2>5. PlanInv'
    BY <2>3 DEF PlanInv
  <2>6. MowingOK'
    BY <1>1, <1>4, <2>3, <2>4, <2>5 DEF MowingOK
  <2> QED BY <1>3, <1>5, <2>1, <2>6 DEF move
<1>8. ASSUME NEW turn \in Turns, todo = <<turn, move>>
      PROVE  /\ Len(todo) = 2 /\ Head(todo) = turn
             /\ MowingOK' /\ handling' = handling
  <2>1. Len(todo) = 2 /\ Head(todo) = turn /\ Tail(todo) = <<move>>
    BY <1>8
  <2>2. <<move>> \in Seq(Moves \cup Turns) /\ Len(<<move>>) = 1 /\ <<move>> # << >>
    BY <1>3
  <2>3. PlanInv'
    BY <1>4, <1>5, <2>1 DEF PlanInv, move
  <2> QED BY <1>1, <1>2, <1>4, <1>5, <2>1, <2>2, <2>3 DEF MowingOK
<1> QED BY <1>2, <1>6, <1>7, <1>8

\* Every action keeps the types.
LEMMA TypeStep == TypeInv /\ [Next]_vars => TypeInv'
<1> SUFFICES ASSUME TypeInv, [Next]_vars PROVE TypeInv'
  OBVIOUS
<1>1. QueuesOK /\ SensingOK /\ MowingOK /\ DrivingOK /\ WorldOK
  BY TypeParts
<1>2. ASSUME QueuesOK', SensingOK', MowingOK', DrivingOK', WorldOK'
      PROVE  TypeInv'
  BY <1>2, TypeParts, PTL
<1>3. UNCHANGED sensing => SensingOK'
  BY <1>1 DEF sensing, SensingOK
<1>4. UNCHANGED mowing => MowingOK'
  BY <1>1 DEF mowing, MowingOK, PlanInv
<1>5. UNCHANGED driving => DrivingOK'
  BY <1>1 DEF driving, DrivingOK, HasHeading
<1>6. UNCHANGED <<world, bounds>> => WorldOK'
  BY <1>1 DEF bounds, WorldOK
<1>7. UNCHANGED queue => QueuesOK'
  BY <1>1 DEF QueuesOK, Messages
<1>8. ASSUME NEW s \in Sensors, Poll(s)
      PROVE  TypeInv'
  <2>1. ReadRequest(s) \in Messages("comm")
    BY MessageTypes, RequestTypes
  <2>2. QueuesOK'
    BY <1>1, <1>8, <2>1, SendEffect, MessageTypes DEF Poll
  <2> QED BY <1>2, <1>3, <1>4, <1>5, <1>6, <1>8, <2>2 DEF Poll
<1>9. CASE CommDrive
  <2>1. QueuesOK'
    BY <1>1, <1>9, ReceiveEffect, MessageTypes DEF CommDrive
  <2> DEFINE c == Head(queue["comm"])
  <2>2. /\ Drives(c) /\ heading' = HeadingAfter(c, heading)
        /\ motor' = MotorAfter(c, motor) /\ motion' = MotionAfter(c) /\ reply' = reply
    BY <1>9 DEF CommDrive
  <2> HIDE DEF c
  <2>3. DrivingOK'
    BY <1>1, <2>2, DriveTypes DEF DrivingOK, HasHeading
  <2> QED BY <1>2, <1>3, <1>4, <1>6, <1>9, <2>1, <2>3 DEF CommDrive
<1>10. CASE CommRead
  <2> DEFINE c == Head(queue["comm"])
  <2>1. QueuesOK' /\ c \in Commands
    BY <1>1, <1>10, ReceiveEffect, MessageTypes DEF CommRead
  <2>2. c.op = "sensor"
    BY <1>10 DEF CommRead
  <2>3. c.queue \in Sensors
    BY <2>1, <2>2, MowerAssumption
    DEF Commands, Moves, Turns, Stops, SetSpeeds, Reads, Headings, Sides
  <2>4. \/ reply' = [sensor |-> c.queue, value |-> world[c.queue]] /\ events' = events
        \/ Event /\ \E v \in FailedReads : reply' = [sensor |-> c.queue, value |-> v]
    BY <1>10 DEF CommRead
  <2>5. \E v \in Values(c.queue) : reply' = [sensor |-> c.queue, value |-> v]
    BY <1>1, <2>3, <2>4 DEF Values, WorldOK
  <2>6. UNCHANGED <<world, sensing, mowing, heading, motor, motion, crashes>>
    BY <1>10 DEF CommRead
  <2>7. events' \in 0..MaxEvents
    BY <1>1, <2>4, EventTypes DEF WorldOK
  <2> HIDE DEF c
  <2>8. DrivingOK'
    BY <1>1, <2>3, <2>5, <2>6 DEF DrivingOK, HasHeading
  <2>9. WorldOK'
    BY <1>1, <2>6, <2>7 DEF WorldOK
  <2> QED BY <1>2, <1>3, <1>4, <2>1, <2>6, <2>8, <2>9
<1>11. CASE CommReply
  <2>1. /\ reply # NoReply /\ HasRoom(reply.sensor)
        /\ queue' = Sent(reply.sensor, reply.value) /\ reply' = NoReply
        /\ UNCHANGED <<world, sensing, mowing, heading, motor, motion, bounds>>
    BY <1>11 DEF CommReply
  <2>2. reply.sensor \in Queues /\ reply.value \in Messages(reply.sensor)
    BY <1>1, <2>1, MessageTypes DEF DrivingOK
  <2>3. QueuesOK'
    BY <1>1, <2>1, <2>2, SendEffect
  <2>4. DrivingOK'
    BY <1>1, <2>1 DEF DrivingOK, HasHeading
  <2> QED BY <1>2, <1>3, <1>4, <1>6, <2>1, <2>3, <2>4
<1>12. ASSUME NEW s \in Sensors, SensorTake(s)
       PROVE  TypeInv'
  <2>1. QueuesOK'
    BY <1>1, <1>12, ReceiveEffect, MessageTypes DEF SensorTake
  <2>2. Decision(s, state[s], Head(queue[s])) \in Decisions \cup {"none"}
    BY DEF Decision, Decisions
  <2>3. SensingOK'
    BY <1>1, <1>12, <2>2 DEF SensorTake, SensingOK
  <2> QED BY <1>2, <1>4, <1>5, <1>6, <1>12, <2>1, <2>3 DEF SensorTake
<1>13. ASSUME NEW s \in Sensors, SensorDecide(s)
       PROVE  TypeInv'
  <2>1. sending[s] \in Decisions
    BY <1>1, <1>13 DEF SensorDecide, SensingOK
  <2>2. [sensor |-> s, decision |-> sending[s]] \in Messages("main")
    BY <2>1, MessageTypes DEF DecisionMessages
  <2>3. QueuesOK'
    BY <1>1, <1>13, <2>2, SendEffect, MessageTypes DEF SensorDecide
  <2>4. SensingOK'
    BY <1>1, <1>13, <2>1 DEF SensorDecide, SensingOK
  <2> QED BY <1>2, <1>4, <1>5, <1>6, <1>13, <2>3, <2>4 DEF SensorDecide
<1>14. CASE MowTake
  <2> DEFINE m == Head(queue["main"])
  <2>1. QueuesOK' /\ m \in DecisionMessages
    BY <1>1, <1>14, ReceiveEffect, MessageTypes DEF MowTake
  <2>2. m.sensor \in Sensors /\ m.decision \in Decisions
    BY <2>1 DEF DecisionMessages
  <2>3. /\ handling' = m.decision /\ todo' \in Plans(m.decision)
        /\ told' = [told EXCEPT ![m.sensor] = m.decision] /\ mowState' = mowState
    BY <1>14 DEF MowTake
  <2> HIDE DEF m
  <2>4. todo' \in Seq(Moves \cup Turns) /\ Len(todo') <= 2 /\ todo' # << >>
    BY <2>2, <2>3, PlanTypes
  <2>5. PlanInv'
    BY <2>2, <2>3, PlanTypes DEF PlanInv
  <2>6. handling' # "none"
    BY <2>2, <2>3 DEF Decisions
  <2>7. told' \in [Sensors -> Decisions]
    BY <1>1, <2>2, <2>3 DEF MowingOK
  <2>8. mowState' \in {"stopped", "idle", "obstacle"} /\ handling' \in Decisions
    BY <1>1, <2>2, <2>3 DEF MowingOK
  <2>9. MowingOK'
    <3>1. handling' \in Decisions \cup {"none"}
      BY <2>8
    <3>2. (handling' = "none") <=> (todo' = << >>)
      BY <2>4, <2>6, Zenon
    <3> QED BY <2>4, <2>5, <2>7, <2>8, <3>1, <3>2, Zenon DEF MowingOK
  <2> QED BY <1>2, <1>3, <1>5, <1>6, <1>14, <2>1, <2>9 DEF MowTake
<1>15. CASE MowSend
  <2>1. MowingOK' /\ Head(todo) \in Messages("comm")
    BY <1>15, MowSendTypes, MessageTypes, RequestTypes
  <2>2. QueuesOK'
    BY <1>1, <1>15, <2>1, SendEffect, MessageTypes DEF MowSend
  <2> QED BY <1>2, <1>3, <1>5, <1>6, <1>15, <2>1, <2>2 DEF MowSend
<1>16. ASSUME NEW s \in Sensors, WorldChange(s)
       PROVE  TypeInv'
  <2>1. events' \in 0..MaxEvents
    BY <1>1, <1>16, EventTypes DEF WorldChange
  <2>2. WorldOK'
    BY <1>1, <1>16, <2>1 DEF WorldChange, WorldOK
  <2> QED BY <1>2, <1>3, <1>4, <1>5, <1>7, <1>16, <2>2 DEF WorldChange
<1>17. ASSUME NEW c \in CliRequests, CliMove(c)
       PROVE  TypeInv'
  <2>1. c \in Messages("comm")
    BY MessageTypes, RequestTypes
  <2>2. QueuesOK'
    BY <1>1, <1>17, <2>1, SendEffect, MessageTypes DEF CliMove
  <2>3. events' \in 0..MaxEvents
    BY <1>1, <1>17, EventTypes DEF CliMove
  <2>4. WorldOK'
    BY <1>1, <1>17, <2>3 DEF CliMove, WorldOK
  <2> QED BY <1>2, <1>3, <1>4, <1>5, <1>17, <2>2, <2>4 DEF CliMove
<1>18. CASE Crash
  <2>1. QueuesOK' /\ motion' \in Motions
    <3>1. CASE CutShort
      BY <1>1, <3>1, ReceiveEffect, MessageTypes DEF CutShort
    <3>2. CASE motion' \in {motion, "stopped"} /\ UNCHANGED queue
      BY <1>1, <1>7, <3>2 DEF DrivingOK, Motions
    <3> QED BY <1>18, <3>1, <3>2 DEF Crash
  <2>2. SensingOK'
    BY <1>18 DEF Crash, SensingOK, Decisions
  <2>3. todo' \in Seq(Moves \cup Turns) /\ Len(todo') = 0
    <3>1. todo' = << >>
      BY <1>18 DEF Crash
    <3>2. << >> \in Seq(Moves \cup Turns) /\ Len(<< >>) = 0
      BY EmptySeq
    <3> QED BY <3>1, <3>2, Zenon
  <2>4. MowingOK'
    BY <1>18, <2>3 DEF Crash, MowingOK, PlanInv, Decisions
  <2>5. DrivingOK'
    BY <1>18, <2>1 DEF Crash, DrivingOK, HasHeading, MotorCommands
  <2>6. events' \in 0..MaxEvents /\ crashes' \in 0..MaxCrashes
    BY <1>1, <1>18, EventTypes, MowerAssumption DEF Crash, WorldOK
  <2>7. WorldOK'
    BY <1>1, <1>18, <2>6 DEF Crash, WorldOK
  <2> QED BY <1>2, <2>1, <2>2, <2>4, <2>5, <2>7
<1>19. CASE UNCHANGED vars
  BY <1>2, <1>3, <1>4, <1>5, <1>6, <1>7, <1>19 DEF vars
<1> QED
  BY <1>8, <1>9, <1>10, <1>11, <1>12, <1>13, <1>14, <1>15, <1>16, <1>17, <1>18, <1>19
  DEF Next, Controller, CommThread, MowThread, SensorThread

\* Every variable keeps its type, and no queue ever holds more than it has room
\* for.
THEOREM TypeCorrect == Spec => []TypeOK
<1>1. TypeInv => TypeOK
  BY DEF TypeInv
<1> QED BY <1>1, InitTypes, TypeStep, PTL DEF Spec

-----------------------------------------------------------------------------
(***************************************************************************)
(* The drive follows the mow thread.                                       *)
(***************************************************************************)

\* The drive will have this heading when its queue is empty.
Leaves(x) ==
  \/ MovesWaiting = {} /\ heading = x
  \/ \E i \in MovesWaiting : /\ \A j \in MovesWaiting : j <= i
                             /\ queue["comm"][i].op = x

DriveInv == crashes = 0 /\ handling = "none" => Leaves(Aim(mowState))

\* There is only one last move.
LEMMA LeavesFinal ==
  ASSUME TypeInv, NEW x, Leaves(x)
  PROVE  FinalHeading = x
<1>1. CASE MovesWaiting = {}
  BY <1>1 DEF Leaves, FinalHeading
<1>2. ASSUME NEW i \in MovesWaiting, \A j \in MovesWaiting : j <= i,
             queue["comm"][i].op = x
      PROVE  FinalHeading = x
  <2> DEFINE last == CHOOSE k \in MovesWaiting : \A j \in MovesWaiting : j <= k
  <2>1. last \in MovesWaiting /\ \A j \in MovesWaiting : j <= last
    BY <1>2
  <2>2. MovesWaiting \subseteq Int
    <3>1. queue["comm"] \in Seq(Commands)
      BY TypeParts, MessageTypes DEF QueuesOK
    <3>2. Len(queue["comm"]) \in Nat
      BY <3>1, LenProperties
    <3> QED BY <3>2 DEF MovesWaiting
  <2>3. FinalHeading = queue["comm"][last].op
    BY <1>2 DEF FinalHeading
  <2> HIDE DEF last
  <2>4. last = i
    <3>1. last <= i /\ i <= last /\ last \in Int /\ i \in Int
      BY <1>2, <2>1, <2>2
    <3> QED BY <3>1
  <2> QED BY <1>2, <2>3, <2>4
<1> QED BY <1>1, <1>2 DEF Leaves

\* What a request at the end of the queue does to it: a move is the last one
\* from now on, any other request leaves the last one as it was.
LEMMA LeavesSend ==
  ASSUME TypeInv, NEW c \in Commands,
         queue'["comm"] = Append(queue["comm"], c), heading' = heading
  PROVE  /\ c.op \in Headings => Leaves(c.op)'
         /\ c.op \notin Headings => \A x : Leaves(x) => Leaves(x)'
<1> DEFINE q == queue["comm"]
           n == Len(q)
           r == queue'["comm"]
<1>1. q \in Seq(Commands)
  BY TypeParts, MessageTypes DEF QueuesOK
<1>2. /\ n \in Nat /\ Len(r) = n + 1
      /\ \A i \in 1..n : r[i] = q[i]
      /\ r[n + 1] = c
  BY <1>1, AppendProperties, LenProperties
<1>3. /\ MovesWaiting = {i \in 1..n : q[i].op \in Headings}
      /\ MovesWaiting' = {i \in 1..Len(r) : r[i].op \in Headings}
  BY DEF MovesWaiting
<1>4. CASE c.op \in Headings
  <2>1. n + 1 \in MovesWaiting' /\ \A j \in MovesWaiting' : j <= n + 1
    BY <1>2, <1>3, <1>4
  <2>2. Leaves(c.op)'
    BY <1>2, <2>1 DEF Leaves
  <2> QED BY <1>4, <2>2
<1>5. CASE c.op \notin Headings
  <2>1. MovesWaiting' = MovesWaiting
    <3>1. \A i : i \in 1..(n + 1) <=> i \in 1..n \/ i = n + 1
      BY <1>2
    <3> QED BY <1>2, <1>3, <1>5, <3>1
  <2>2. \A i \in MovesWaiting : r[i] = q[i]
    BY <1>2, <1>3
  <2>3. ASSUME NEW x, Leaves(x)
        PROVE  Leaves(x)'
    BY <2>1, <2>2, <2>3 DEF Leaves
  <2> QED BY <1>5, <2>3
<1> QED BY <1>4, <1>5

\* A request that is carried out leaves what the whole queue would have left.
LEMMA LeavesReceive ==
  ASSUME TypeInv, queue["comm"] # << >>, queue'["comm"] = Tail(queue["comm"]),
         heading' = HeadingAfter(Head(queue["comm"]), heading),
         NEW x, Leaves(x)
  PROVE  Leaves(x)'
<1> DEFINE q == queue["comm"]
           n == Len(q)
           r == queue'["comm"]
<1>1. q \in Seq(Commands)
  BY TypeParts, MessageTypes DEF QueuesOK
<1>2. /\ n \in Nat \ {0} /\ Len(r) = n - 1
      /\ \A i \in 1..(n - 1) : r[i] = q[i + 1]
      /\ Head(q) = q[1]
  BY <1>1, HeadTailProperties, LenProperties, EmptySeq
<1>3. /\ MovesWaiting = {i \in 1..n : q[i].op \in Headings}
      /\ MovesWaiting' = {i \in 1..(n - 1) : r[i].op \in Headings}
  BY <1>2 DEF MovesWaiting
<1>4. /\ \A i \in MovesWaiting' : i + 1 \in MovesWaiting /\ r[i] = q[i + 1]
      /\ \A i \in MovesWaiting : i # 1 => i - 1 \in MovesWaiting' /\ r[i - 1] = q[i]
  <2>1. ASSUME NEW i \in MovesWaiting'
        PROVE  i + 1 \in MovesWaiting /\ r[i] = q[i + 1]
    BY <1>2, <1>3
  <2>2. ASSUME NEW i \in MovesWaiting, i # 1
        PROVE  i - 1 \in MovesWaiting' /\ r[i - 1] = q[i]
    <3>1. i - 1 \in 1..(n - 1) /\ (i - 1) + 1 = i
      BY <1>2, <1>3, <2>2
    <3>2. r[i - 1] = q[i]
      BY <1>2, <3>1
    <3> QED BY <1>3, <3>1, <3>2
  <2> QED BY <2>1, <2>2
<1>5. MovesWaiting \subseteq Int /\ MovesWaiting' \subseteq Int
  BY <1>2, <1>3
<1>6. heading' = IF q[1].op \in Headings THEN q[1].op ELSE heading
  BY <1>2 DEF HeadingAfter
<1>7. CASE MovesWaiting = {} /\ heading = x
  <2>1. MovesWaiting' = {}
    BY <1>4, <1>7
  <2>2. q[1].op \notin Headings
    BY <1>2, <1>3, <1>7
  <2> QED BY <1>6, <1>7, <2>1, <2>2 DEF Leaves
<1>8. ASSUME NEW i \in MovesWaiting, \A j \in MovesWaiting : j <= i, q[i].op = x
      PROVE  Leaves(x)'
  <2>1. CASE i = 1
    <3>1. MovesWaiting' = {}
      <4> SUFFICES ASSUME NEW j \in MovesWaiting' PROVE FALSE
        OBVIOUS
      <4>1. j + 1 <= 1 /\ j >= 1
        BY <1>2, <1>3, <1>4, <1>8, <2>1
      <4> QED BY <1>5, <4>1
    <3>2. heading' = x
      BY <1>3, <1>6, <1>8, <2>1
    <3> QED BY <3>1, <3>2 DEF Leaves
  <2>2. CASE i # 1
    <3>1. i - 1 \in MovesWaiting' /\ r[i - 1].op = x
      BY <1>4, <1>8, <2>2
    <3>2. \A j \in MovesWaiting' : j <= i - 1
      BY <1>4, <1>5, <1>8
    <3> QED BY <3>1, <3>2 DEF Leaves
  <2> QED BY <2>1, <2>2
<1> QED BY <1>7, <1>8 DEF Leaves

\* Whatever leaves the drive's queue and heading alone.
LEMMA LeavesFrame ==
  ASSUME queue'["comm"] = queue["comm"], heading' = heading, NEW x, Leaves(x)
  PROVE  Leaves(x)'
BY DEF Leaves, MovesWaiting

\* Nothing has been decided at first.
LEMMA DriveInit == Init => DriveInv
<1> SUFFICES ASSUME Init PROVE Leaves(Aim(mowState))
  BY DEF DriveInv
<1>1. queue["comm"] = << >>
  BY MessageTypes DEF Init
<1>2. Len(<< >>) = 0
  BY EmptySeq
<1>3. MovesWaiting = {}
  <2>1. MovesWaiting = {i \in 1..0 : queue["comm"][i].op \in Headings}
    BY <1>1, <1>2 DEF MovesWaiting
  <2> QED BY <2>1
<1>4. heading = Aim(mowState)
  BY DEF Init, Aim
<1> QED BY <1>3, <1>4 DEF Leaves

\* A step keeps the drive on the heading of the mow state, as long as no
\* operator types a move.
LEMMA DriveStep ==
  ASSUME CliRequests \cap Moves = {}
  PROVE  TypeInv /\ DriveInv /\ [Next]_vars => DriveInv'
<1> SUFFICES ASSUME TypeInv, DriveInv, [Next]_vars, crashes' = 0, handling' = "none"
             PROVE  Leaves(Aim(mowState))'
  BY DEF DriveInv
<1>1. QueuesOK /\ SensingOK /\ MowingOK /\ DrivingOK /\ WorldOK
  BY TypeParts
<1> DEFINE Kept == crashes = 0 /\ handling = "none" /\ mowState' = mowState
<1>2. ASSUME Kept, \A x : Leaves(x) => Leaves(x)'
      PROVE  Leaves(Aim(mowState))'
  <2>1. PICK x : x = Aim(mowState)
    OBVIOUS
  <2>2. Leaves(x)
    BY <1>2, <2>1 DEF DriveInv
  <2>3. Leaves(x)'
    BY <1>2, <2>2
  <2>4. Aim(mowState') = x
    BY <1>2, <2>1
  <2> QED BY <2>3, <2>4 DEF Leaves
<1>3. UNCHANGED <<mowing, bounds>> => Kept
  BY DEF mowing, bounds
<1>4. ASSUME NEW q \in Queues \ {"comm"}, NEW m \in Messages(q), HasRoom(q),
             queue' = Sent(q, m), heading' = heading
      PROVE  \A x : Leaves(x) => Leaves(x)'
  <2>1. queue'["comm"] = queue["comm"]
    BY <1>1, <1>4, SendEffect, MessageTypes
  <2> QED BY <1>4, <2>1, LeavesFrame
<1>5. ASSUME NEW q \in Queues \ {"comm"}, queue[q] # << >>,
             queue' = Received(q), heading' = heading
      PROVE  \A x : Leaves(x) => Leaves(x)'
  <2>1. queue'["comm"] = queue["comm"]
    BY <1>1, <1>5, ReceiveEffect, MessageTypes
  <2> QED BY <1>5, <2>1, LeavesFrame
<1>6. ASSUME NEW c \in Commands, HasRoom("comm"), queue' = Sent("comm", c),
             heading' = heading
      PROVE  /\ c.op \in Headings => Leaves(c.op)'
             /\ c.op \notin Headings => \A x : Leaves(x) => Leaves(x)'
  <2>1. queue'["comm"] = Append(queue["comm"], c)
    BY <1>1, <1>6, SendEffect, MessageTypes
  <2> QED BY <1>6, <2>1, LeavesSend
<1>7. ASSUME queue["comm"] # << >>, queue' = Received("comm"),
             heading' = HeadingAfter(Head(queue["comm"]), heading)
      PROVE  \A x : Leaves(x) => Leaves(x)'
  <2>1. queue'["comm"] = Tail(queue["comm"])
    BY <1>1, <1>7, ReceiveEffect, MessageTypes
  <2> QED BY <1>7, <2>1, LeavesReceive
<1>8. ASSUME NEW s \in Sensors, Poll(s)
      PROVE  Leaves(Aim(mowState))'
  <2>1. /\ HasRoom("comm") /\ queue' = Sent("comm", ReadRequest(s)) /\ heading' = heading
        /\ UNCHANGED <<mowing, bounds>>
    BY <1>8 DEF Poll, driving
  <2>2. ReadRequest(s) \in Commands /\ ReadRequest(s).op \notin Headings
    BY RequestTypes DEF ReadRequest, Headings
  <2> QED BY <1>2, <1>3, <1>6, <2>1, <2>2
<1>9. CASE CommDrive
  <2>1. /\ queue["comm"] # << >> /\ queue' = Received("comm")
        /\ heading' = HeadingAfter(Head(queue["comm"]), heading)
        /\ UNCHANGED <<mowing, bounds>>
    BY <1>9 DEF CommDrive
  <2> QED BY <1>2, <1>3, <1>7, <2>1
<1>10. CASE CommRead
  <2>1. /\ queue["comm"] # << >> /\ queue' = Received("comm") /\ heading' = heading
        /\ Head(queue["comm"]).op = "sensor"
        /\ UNCHANGED <<mowing, crashes>>
    BY <1>10 DEF CommRead
  <2>2. heading' = HeadingAfter(Head(queue["comm"]), heading)
    BY <2>1 DEF HeadingAfter, Headings
  <2>3. Kept
    BY <2>1 DEF mowing
  <2> QED BY <1>2, <1>7, <2>1, <2>2, <2>3
<1>11. CASE CommReply
  <2>1. /\ reply # NoReply /\ HasRoom(reply.sensor)
        /\ queue' = Sent(reply.sensor, reply.value) /\ heading' = heading
        /\ UNCHANGED <<mowing, bounds>>
    BY <1>11 DEF CommReply
  <2>2. reply.sensor \in Queues \ {"comm"} /\ reply.value \in Messages(reply.sensor)
    BY <1>1, <2>1, MessageTypes DEF DrivingOK, Sensors
  <2> QED BY <1>2, <1>3, <1>4, <2>1, <2>2
<1>12. ASSUME NEW s \in Sensors, SensorTake(s)
       PROVE  Leaves(Aim(mowState))'
  <2>1. /\ queue[s] # << >> /\ queue' = Received(s) /\ heading' = heading
        /\ UNCHANGED <<mowing, bounds>>
    BY <1>12 DEF SensorTake, driving
  <2>2. s \in Queues \ {"comm"}
    BY MessageTypes DEF Sensors
  <2> QED BY <1>2, <1>3, <1>5, <2>1, <2>2
<1>13. ASSUME NEW s \in Sensors, SensorDecide(s)
       PROVE  Leaves(Aim(mowState))'
  <2>1. /\ HasRoom("main") /\ heading' = heading
        /\ queue' = Sent("main", [sensor |-> s, decision |-> sending[s]])
        /\ sending[s] # "none"
        /\ UNCHANGED <<mowing, bounds>>
    BY <1>13 DEF SensorDecide, driving
  <2>2. [sensor |-> s, decision |-> sending[s]] \in Messages("main")
    BY <1>1, <2>1, MessageTypes DEF DecisionMessages, SensingOK
  <2> QED BY <1>2, <1>3, <1>4, <2>1, <2>2, MessageTypes
<1>14. CASE MowTake
  <2>1. queue["main"] # << >> /\ queue' = Received("main")
    BY <1>14 DEF MowTake
  <2>2. Head(queue["main"]) \in DecisionMessages
    BY <1>1, <2>1, ReceiveEffect, MessageTypes
  <2>3. handling' # "none"
    BY <1>14, <2>2 DEF MowTake, DecisionMessages, Decisions
  <2> QED BY <2>3
<1>15. CASE MowSend
  <2>1. HasRoom("comm") /\ queue' = Sent("comm", Head(todo)) /\ heading' = heading
    BY <1>15 DEF MowSend, driving
  <2>2. Head(todo) = [op |-> Aim(mowState')] /\ MowingOK'
    BY <1>15, MowSendTypes
  <2>3. Aim(mowState') \in Headings
    <3>1. handling \in Decisions /\ mowState' = StateAfter(handling)
      <4>1. Len(todo) = 1
        BY <1>15, MowSendTypes
      <4> QED BY <1>1, <1>15, <4>1 DEF MowSend, MowingOK
    <3> QED BY <3>1 DEF Aim, StateAfter, Decisions, Headings
  <2>4. Head(todo) \in Commands /\ Head(todo).op = Aim(mowState')
    BY <1>15, <2>2, MowSendTypes, RequestTypes
  <2>5. PICK c : c = Head(todo)
    OBVIOUS
  <2>6. Leaves(c.op)'
    BY <1>6, <2>1, <2>3, <2>4, <2>5
  <2> QED BY <2>4, <2>5, <2>6 DEF Leaves
<1>16. ASSUME NEW s \in Sensors, WorldChange(s)
       PROVE  Leaves(Aim(mowState))'
  <2>1. Kept /\ queue' = queue /\ heading' = heading
    BY <1>16 DEF WorldChange, mowing, driving
  <2> QED BY <1>2, <2>1, LeavesFrame
<1>17. ASSUME NEW c \in CliRequests, CliMove(c)
       PROVE  Leaves(Aim(mowState))'
  <2>1. Kept /\ HasRoom("comm") /\ queue' = Sent("comm", c) /\ heading' = heading
    BY <1>17 DEF CliMove, mowing, driving
  <2>2. c \in Commands /\ c.op \notin Headings
    BY MowerAssumption, RequestTypes DEF Moves, Turns, Stops, Headings, Sides
  <2> QED BY <1>2, <1>6, <2>1, <2>2
<1>18. CASE Crash
  <2>1. crashes \in Nat /\ crashes' = crashes + 1
    BY <1>1, <1>18, MowerAssumption DEF Crash, WorldOK
  <2> QED BY <2>1
<1>19. CASE UNCHANGED vars
  <2>1. Kept /\ queue' = queue /\ heading' = heading
    BY <1>19 DEF vars, mowing, driving, bounds
  <2> QED BY <1>2, <2>1, LeavesFrame
<1> QED
  BY <1>8, <1>9, <1>10, <1>11, <1>12, <1>13, <1>14, <1>15, <1>16, <1>17, <1>18, <1>19
  DEF Next, Controller, CommThread, MowThread, SensorThread

\* Between two decisions, and before any crash, the drive ends where the mow
\* state says once it has worked off its queue: for queues of any capacity and
\* an operator who types no move of his own.
THEOREM DriveCorrect ==
  ASSUME CliRequests \cap Moves = {}
  PROVE  Spec => []DriveFollowsMow
<1>1. TypeInv /\ DriveInv => DriveFollowsMow
  <2> SUFFICES ASSUME TypeInv, DriveInv, crashes = 0, handling = "none"
               PROVE  FinalHeading = Aim(mowState)
    BY DEF DriveFollowsMow, Aim
  <2>1. Leaves(Aim(mowState))
    BY DEF DriveInv
  <2> QED BY <2>1, LeavesFinal
<1> QED BY <1>1, InitTypes, TypeStep, DriveInit, DriveStep, PTL DEF Spec

-----------------------------------------------------------------------------
(***************************************************************************)
(* The decisions of a sensor reach the mow thread in turn.                 *)
(***************************************************************************)

\* The places of a sequence of decisions that are of s, and what InStep says of
\* them: the first one differs from what was told before, the last one is the
\* state, and two that follow each other differ.
Places(q, s) == {i \in 1..Len(q) : q[i].sensor = s}

Alternates(q, s, before, latest) ==
  /\ \A i \in Places(q, s) :
       (\A j \in Places(q, s) : ~(j < i)) => q[i].decision = Other(before)
  /\ \A i \in Places(q, s) :
       (\A j \in Places(q, s) : ~(j > i)) => q[i].decision = latest
  /\ \A i, j \in Places(q, s) :
       i < j /\ (\A k \in Places(q, s) : k > i => j <= k)
         => q[j].decision = Other(q[i].decision)
  /\ Places(q, s) = {} => before = latest

\* InStep is that, and a decision that is being sent differs from the state.
LEMMA InStepIs ==
  ASSUME NEW s \in Sensors
  PROVE  InStep(s) <=> /\ Alternates(queue["main"], s, told[s], state[s])
                       /\ sending[s] \in {"none", Other(state[s])}
<1>1. From(s) = Places(queue["main"], s)
  BY DEF From, Places
<1> QED BY <1>1 DEF InStep, Alternates

\* A decision that differs from the last one may be added at the end, and so
\* may any decision of another sensor.
LEMMA AlternatesAppend ==
  ASSUME NEW q \in Seq(DecisionMessages), NEW m \in DecisionMessages, NEW s,
         NEW before, NEW latest, Alternates(q, s, before, latest)
  PROVE  /\ m.sensor # s => Alternates(Append(q, m), s, before, latest)
         /\ m.sensor = s /\ m.decision = Other(latest)
              => Alternates(Append(q, m), s, before, m.decision)
<1> DEFINE n == Len(q)
           r == Append(q, m)
           F == Places(q, s)
           G == Places(r, s)
<1>1. /\ n \in Nat /\ Len(r) = n + 1
      /\ \A i \in 1..n : r[i] = q[i]
      /\ r[n + 1] = m
  BY AppendProperties, LenProperties
<1> HIDE DEF n, r
<1>2. F = {i \in 1..n : q[i].sensor = s} /\ G = {i \in 1..Len(r) : r[i].sensor = s}
  BY DEF Places, n
<1>3. \A i : i \in 1..Len(r) <=> i \in 1..n \/ i = n + 1
  BY <1>1
<1>4. /\ \A i \in F : r[i] = q[i] /\ i < n + 1 /\ i \in Int
      /\ n + 1 \notin F
  BY <1>1, <1>2
<1>5. /\ \A i \in F : (\A j \in F : ~(j < i)) => q[i].decision = Other(before)
      /\ \A i \in F : (\A j \in F : ~(j > i)) => q[i].decision = latest
      /\ \A i, j \in F : i < j /\ (\A k \in F : k > i => j <= k)
                           => q[j].decision = Other(q[i].decision)
      /\ F = {} => before = latest
  BY DEF Alternates
<1>6. CASE m.sensor # s
  <2>1. G = F
    BY <1>1, <1>2, <1>3, <1>6
  <2> HIDE DEF F, G
  <2>2. /\ \A i \in G : (\A j \in G : ~(j < i)) => r[i].decision = Other(before)
        /\ \A i \in G : (\A j \in G : ~(j > i)) => r[i].decision = latest
        /\ \A i, j \in G : i < j /\ (\A k \in G : k > i => j <= k)
                             => r[j].decision = Other(r[i].decision)
        /\ G = {} => before = latest
    BY <1>4, <1>5, <2>1
  <2>3. Alternates(r, s, before, latest)
    BY <2>2 DEF Alternates, G
  <2> QED BY <1>6, <2>3 DEF r
<1>7. CASE m.sensor = s /\ m.decision = Other(latest)
  <2>1. \A i : i \in G <=> i \in F \/ i = n + 1
    BY <1>1, <1>2, <1>3, <1>7
  <2>2. n + 1 \in G /\ n + 1 \in Int
    BY <1>1, <2>1
  <2> HIDE DEF F, G
  <2>3. \A i \in G : (\A j \in G : ~(j < i)) => r[i].decision = Other(before)
    <3> SUFFICES ASSUME NEW i \in G, \A j \in G : ~(j < i)
                 PROVE  r[i].decision = Other(before)
      OBVIOUS
    <3>1. CASE i \in F
      BY <1>4, <1>5, <2>1, <3>1
    <3>2. CASE i = n + 1
      <4>1. F = {}
        BY <1>4, <2>1, <3>2
      <4> QED BY <1>1, <1>5, <1>7, <3>2, <4>1
    <3> QED BY <2>1, <3>1, <3>2
  <2>4. \A i \in G : (\A j \in G : ~(j > i)) => r[i].decision = m.decision
    BY <1>1, <1>4, <2>1, <2>2
  <2>5. \A i, j \in G : i < j /\ (\A k \in G : k > i => j <= k)
                          => r[j].decision = Other(r[i].decision)
    <3> SUFFICES ASSUME NEW i \in G, NEW j \in G, i < j, \A k \in G : k > i => j <= k
                 PROVE  r[j].decision = Other(r[i].decision)
      OBVIOUS
    <3>1. i \in F
      BY <1>1, <1>4, <2>1
    <3>2. CASE j \in F
      BY <1>4, <1>5, <2>1, <3>1, <3>2
    <3>3. CASE j = n + 1
      <4>1. \A k \in F : ~(k > i)
        BY <1>1, <1>4, <2>1, <3>1, <3>3
      <4>2. q[i].decision = latest
        BY <1>5, <3>1, <4>1
      <4> QED BY <1>1, <1>4, <1>7, <3>1, <3>3, <4>2
    <3> QED BY <2>1, <3>2, <3>3
  <2>6. Alternates(r, s, before, m.decision)
    BY <2>2, <2>3, <2>4, <2>5 DEF Alternates, G
  <2> QED BY <1>7, <2>6 DEF r
<1> QED BY <1>6, <1>7 DEF r

\* The first decision may be taken out, and is then what was told.
LEMMA AlternatesTail ==
  ASSUME NEW q \in Seq(DecisionMessages), q # << >>, NEW s,
         NEW before, NEW latest, Alternates(q, s, before, latest)
  PROVE  /\ Head(q).sensor # s => Alternates(Tail(q), s, before, latest)
         /\ Head(q).sensor = s => Alternates(Tail(q), s, Head(q).decision, latest)
<1> DEFINE n == Len(q)
           r == Tail(q)
           F == Places(q, s)
           G == Places(r, s)
<1>1. /\ n \in Nat \ {0} /\ Len(r) = n - 1
      /\ \A i \in 1..(n - 1) : r[i] = q[i + 1]
      /\ Head(q) = q[1]
  BY HeadTailProperties, LenProperties, EmptySeq
<1> HIDE DEF n, r
<1>2. F = {i \in 1..n : q[i].sensor = s} /\ G = {i \in 1..(n - 1) : r[i].sensor = s}
  BY <1>1 DEF Places, n
<1>3. \A i \in G : i \in Int /\ i >= 1 /\ i + 1 \in F /\ r[i] = q[i + 1]
  BY <1>1, <1>2
<1>4. \A i \in F : i \in Int /\ i >= 1 /\ (i # 1 => i - 1 \in G)
  <2> TAKE i \in F
  <2>1. i \in 1..n /\ q[i].sensor = s
    BY <1>2
  <2>2. ASSUME i # 1 PROVE i - 1 \in G
    <3>1. i - 1 \in 1..(n - 1) /\ (i - 1) + 1 = i
      BY <1>1, <2>1, <2>2
    <3>2. r[i - 1] = q[i]
      BY <1>1, <3>1
    <3> QED BY <1>2, <2>1, <3>1, <3>2
  <2> QED BY <2>1, <2>2
<1>5. /\ \A i \in F : (\A j \in F : ~(j < i)) => q[i].decision = Other(before)
      /\ \A i \in F : (\A j \in F : ~(j > i)) => q[i].decision = latest
      /\ \A i, j \in F : i < j /\ (\A k \in F : k > i => j <= k)
                           => q[j].decision = Other(q[i].decision)
      /\ F = {} => before = latest
  BY DEF Alternates
<1>6. 1 \in F <=> Head(q).sensor = s
  BY <1>1, <1>2
<1> HIDE DEF F, G
<1>7. \A i \in G : (\A j \in G : ~(j > i)) => r[i].decision = latest
  <2> SUFFICES ASSUME NEW i \in G, \A j \in G : ~(j > i)
               PROVE  r[i].decision = latest
    OBVIOUS
  <2>1. \A j \in F : ~(j > i + 1)
    BY <1>3, <1>4
  <2> QED BY <1>3, <1>5, <2>1
<1>8. \A i, j \in G : i < j /\ (\A k \in G : k > i => j <= k)
                        => r[j].decision = Other(r[i].decision)
  <2> SUFFICES ASSUME NEW i \in G, NEW j \in G, i < j, \A k \in G : k > i => j <= k
               PROVE  r[j].decision = Other(r[i].decision)
    OBVIOUS
  <2>1. \A k \in F : k > i + 1 => j + 1 <= k
    <3> SUFFICES ASSUME NEW k \in F, k > i + 1 PROVE j + 1 <= k
      OBVIOUS
    <3>1. i \in Int /\ j \in Int /\ k \in Int /\ i >= 1
      BY <1>3, <1>4
    <3>2. k - 1 \in G /\ k - 1 > i
      BY <1>4, <3>1
    <3>3. j <= k - 1
      BY <3>2
    <3> QED BY <3>1, <3>3
  <2>2. i + 1 < j + 1 /\ i + 1 \in F /\ j + 1 \in F
    BY <1>3
  <2>3. q[j + 1].decision = Other(q[i + 1].decision)
    BY <1>5, <2>1, <2>2
  <2> QED BY <1>3, <2>3
<1>9. CASE Head(q).sensor # s
  <2>1. \A i \in G : (\A j \in G : ~(j < i)) => r[i].decision = Other(before)
    <3> SUFFICES ASSUME NEW i \in G, \A j \in G : ~(j < i)
                 PROVE  r[i].decision = Other(before)
      OBVIOUS
    <3>1. \A j \in F : ~(j < i + 1)
      BY <1>3, <1>4, <1>6, <1>9
    <3> QED BY <1>3, <1>5, <3>1
  <2>2. G = {} => F = {}
    BY <1>4, <1>6, <1>9
  <2>3. Alternates(r, s, before, latest)
    BY <1>5, <1>7, <1>8, <2>1, <2>2 DEF Alternates, G
  <2> QED BY <1>9, <2>3 DEF r
<1>10. CASE Head(q).sensor = s
  <2>1. 1 \in F
    BY <1>6, <1>10
  <2>2. \A i \in G : (\A j \in G : ~(j < i)) => r[i].decision = Other(q[1].decision)
    <3> SUFFICES ASSUME NEW i \in G, \A j \in G : ~(j < i)
                 PROVE  r[i].decision = Other(q[1].decision)
      OBVIOUS
    <3>1. \A k \in F : k > 1 => i + 1 <= k
      BY <1>3, <1>4
    <3>2. 1 < i + 1 /\ i + 1 \in F
      BY <1>3
    <3>3. q[i + 1].decision = Other(q[1].decision)
      BY <1>5, <2>1, <3>1, <3>2
    <3> QED BY <1>3, <3>3
  <2>3. G = {} => q[1].decision = latest
    <3> SUFFICES ASSUME G = {} PROVE q[1].decision = latest
      OBVIOUS
    <3>1. \A j \in F : ~(j > 1)
      BY <1>4
    <3> QED BY <1>5, <2>1, <3>1
  <2>4. Alternates(r, s, q[1].decision, latest)
    BY <1>7, <1>8, <2>2, <2>3 DEF Alternates, G
  <2> QED BY <1>1, <1>10, <2>4 DEF r
<1> QED BY <1>9, <1>10

\* Nothing has been decided at first, and the states agree.
LEMMA AlternateInit == Init => DecisionsAlternate
<1> SUFFICES ASSUME Init, NEW s \in Sensors PROVE InStep(s)
  BY DEF DecisionsAlternate
<1>1. queue["main"] = << >> /\ Len(<< >>) = 0
  BY MessageTypes, EmptySeq DEF Init
<1>2. Places(queue["main"], s) = {}
  <2>1. Places(queue["main"], s) = {i \in 1..0 : queue["main"][i].sensor = s}
    BY <1>1 DEF Places
  <2> QED BY <2>1
<1>3. told[s] = state[s] /\ sending[s] = "none"
  BY DEF Init
<1> QED BY <1>2, <1>3, InStepIs DEF Alternates

\* A step keeps the decisions of a sensor in turn.
LEMMA AlternateStep ==
  TypeInv /\ DecisionsAlternate /\ [Next]_vars => DecisionsAlternate'
<1> SUFFICES ASSUME TypeInv, DecisionsAlternate, [Next]_vars, crashes' = 0,
                    NEW t \in Sensors
             PROVE  InStep(t)'
  BY DEF DecisionsAlternate
<1>1. QueuesOK /\ SensingOK /\ MowingOK /\ DrivingOK /\ WorldOK
  BY TypeParts
<1>2. crashes = 0 =>
        /\ Alternates(queue["main"], t, told[t], state[t])
        /\ sending[t] \in {"none", Other(state[t])}
  BY InStepIs DEF DecisionsAlternate
<1>3. ASSUME Alternates(queue'["main"], t, told'[t], state'[t]),
             sending'[t] \in {"none", Other(state'[t])}
      PROVE  InStep(t)'
  <2>1. From(t)' = Places(queue'["main"], t)
    BY DEF From, Places
  <2> QED BY <1>3, <2>1 DEF InStep, Alternates
<1>4. ASSUME queue'["main"] = queue["main"], UNCHANGED <<told, sensing, crashes>>
      PROVE  InStep(t)'
  BY <1>2, <1>3, <1>4 DEF sensing
<1>5. ASSUME NEW q \in Queues \ {"main"}, NEW m \in Messages(q), HasRoom(q),
             queue' = Sent(q, m)
      PROVE  queue'["main"] = queue["main"]
  BY <1>1, <1>5, SendEffect, MessageTypes
<1>6. ASSUME NEW q \in Queues \ {"main"}, queue[q] # << >>, queue' = Received(q)
      PROVE  queue'["main"] = queue["main"]
  BY <1>1, <1>6, ReceiveEffect, MessageTypes
<1>7. "comm" \in Queues \ {"main"} /\ \A s \in Sensors : s \in Queues \ {"main"}
  BY MessageTypes DEF Sensors
<1>8. queue["main"] \in Seq(DecisionMessages)
  BY <1>1, MessageTypes DEF QueuesOK
<1>9. ASSUME NEW s \in Sensors, Poll(s)
      PROVE  InStep(t)'
  <2>1. ReadRequest(s) \in Messages("comm")
    BY MessageTypes, RequestTypes
  <2>2. /\ HasRoom("comm") /\ queue' = Sent("comm", ReadRequest(s))
        /\ UNCHANGED <<told, sensing, crashes>>
    BY <1>9 DEF Poll, mowing, bounds
  <2> QED BY <1>4, <1>5, <1>7, <2>1, <2>2
<1>10. CASE CommDrive
  <2>1. /\ queue["comm"] # << >> /\ queue' = Received("comm")
        /\ UNCHANGED <<told, sensing, crashes>>
    BY <1>10 DEF CommDrive, mowing, bounds
  <2> QED BY <1>4, <1>6, <1>7, <2>1
<1>11. CASE CommRead
  <2>1. /\ queue["comm"] # << >> /\ queue' = Received("comm")
        /\ UNCHANGED <<told, sensing, crashes>>
    BY <1>11 DEF CommRead, mowing
  <2> QED BY <1>4, <1>6, <1>7, <2>1
<1>12. CASE CommReply
  <2>1. /\ reply # NoReply /\ HasRoom(reply.sensor)
        /\ queue' = Sent(reply.sensor, reply.value)
        /\ UNCHANGED <<told, sensing, crashes>>
    BY <1>12 DEF CommReply, mowing, bounds
  <2>2. reply.sensor \in Sensors /\ reply.value \in Messages(reply.sensor)
    BY <1>1, <2>1, MessageTypes DEF DrivingOK
  <2> QED BY <1>4, <1>5, <1>7, <2>1, <2>2
<1>13. ASSUME NEW s \in Sensors, SensorTake(s)
       PROVE  InStep(t)'
  <2> DEFINE d == Decision(s, state[s], Head(queue[s]))
  <2>1. /\ queue[s] # << >> /\ queue' = Received(s)
        /\ sending' = [sending EXCEPT ![s] = d]
        /\ UNCHANGED <<told, state, crashes>>
    BY <1>13 DEF SensorTake, mowing, bounds
  <2>2. queue'["main"] = queue["main"]
    BY <1>6, <1>7, <2>1
  <2>3. d \in {"none", Other(state[s])}
    BY DEF Decision, Other
  <2> HIDE DEF d
  <2>4. sending'[t] \in {"none", Other(state[t])}
    BY <1>1, <1>2, <2>1, <2>3 DEF SensingOK
  <2> QED BY <1>2, <1>3, <2>1, <2>2, <2>4
<1>14. ASSUME NEW s \in Sensors, SensorDecide(s)
       PROVE  InStep(t)'
  <2> DEFINE m == [sensor |-> s, decision |-> sending[s]]
  <2>1. /\ HasRoom("main") /\ queue' = Sent("main", m) /\ sending[s] # "none"
        /\ state' = [state EXCEPT ![s] = sending[s]]
        /\ sending' = [sending EXCEPT ![s] = "none"]
        /\ UNCHANGED <<told, crashes>>
    BY <1>14 DEF SensorDecide, mowing, bounds
  <2>2. /\ m \in DecisionMessages /\ m \in Messages("main")
        /\ m.sensor = s /\ m.decision = sending[s]
    BY <1>1, <2>1, MessageTypes DEF DecisionMessages, SensingOK
  <2> HIDE DEF m
  <2>3. queue'["main"] = Append(queue["main"], m)
    BY <1>1, <2>1, <2>2, SendEffect, MessageTypes
  <2>4. crashes = 0
    BY <2>1
  <2>5. CASE t = s
    <3>1. m.decision = Other(state[t]) /\ state'[t] = m.decision /\ sending'[t] = "none"
      BY <1>1, <1>2, <2>1, <2>2, <2>4, <2>5 DEF SensingOK
    <3>2. Alternates(Append(queue["main"], m), t, told[t], m.decision)
      BY <1>2, <1>8, <2>2, <2>4, <2>5, <3>1, AlternatesAppend
    <3> QED BY <1>3, <2>1, <2>3, <3>1, <3>2
  <2>6. CASE t # s
    <3>1. state'[t] = state[t] /\ sending'[t] = sending[t]
      BY <1>1, <2>1, <2>6 DEF SensingOK
    <3>2. Alternates(Append(queue["main"], m), t, told[t], state[t])
      BY <1>2, <1>8, <2>2, <2>4, <2>6, AlternatesAppend
    <3> QED BY <1>2, <1>3, <2>1, <2>3, <2>4, <3>1, <3>2
  <2> QED BY <2>5, <2>6
<1>15. CASE MowTake
  <2> DEFINE m == Head(queue["main"])
  <2>1. /\ queue["main"] # << >> /\ queue' = Received("main")
        /\ told' = [told EXCEPT ![m.sensor] = m.decision]
        /\ UNCHANGED <<sensing, crashes>>
    BY <1>15 DEF MowTake, bounds
  <2>2. m \in DecisionMessages /\ queue'["main"] = Tail(queue["main"])
    BY <1>1, <2>1, ReceiveEffect, MessageTypes
  <2>3. crashes = 0
    BY <2>1
  <2>4. /\ m.sensor # t => Alternates(Tail(queue["main"]), t, told[t], state[t])
        /\ m.sensor = t => Alternates(Tail(queue["main"]), t, m.decision, state[t])
    BY <1>2, <1>8, <2>1, <2>3, AlternatesTail
  <2> HIDE DEF m
  <2>5. told'[t] = IF m.sensor = t THEN m.decision ELSE told[t]
    BY <1>1, <2>1, <2>2 DEF MowingOK
  <2>6. Alternates(queue'["main"], t, told'[t], state[t])
    BY <2>2, <2>4, <2>5
  <2> QED BY <1>2, <1>3, <2>1, <2>3, <2>6 DEF sensing
<1>16. CASE MowSend
  <2>1. Head(todo) \in Messages("comm")
    BY <1>16, MowSendTypes, MessageTypes, RequestTypes
  <2>2. /\ HasRoom("comm") /\ queue' = Sent("comm", Head(todo))
        /\ UNCHANGED <<told, sensing, crashes>>
    BY <1>16 DEF MowSend, bounds
  <2> QED BY <1>4, <1>5, <1>7, <2>1, <2>2
<1>17. ASSUME NEW s \in Sensors, WorldChange(s)
       PROVE  InStep(t)'
  BY <1>4, <1>17 DEF WorldChange, mowing
<1>18. ASSUME NEW c \in CliRequests, CliMove(c)
       PROVE  InStep(t)'
  <2>1. c \in Messages("comm")
    BY MessageTypes, RequestTypes
  <2>2. /\ HasRoom("comm") /\ queue' = Sent("comm", c)
        /\ UNCHANGED <<told, sensing, crashes>>
    BY <1>18 DEF CliMove, mowing
  <2> QED BY <1>4, <1>5, <1>7, <2>1, <2>2
<1>19. CASE Crash
  <2>1. crashes \in Nat /\ crashes' = crashes + 1
    BY <1>1, <1>19, MowerAssumption DEF Crash, WorldOK
  <2> QED BY <2>1
<1>20. CASE UNCHANGED vars
  BY <1>4, <1>20 DEF vars, mowing, bounds
<1> QED
  BY <1>9, <1>10, <1>11, <1>12, <1>13, <1>14, <1>15, <1>16, <1>17, <1>18, <1>19, <1>20
  DEF Next, Controller, CommThread, MowThread, SensorThread

\* Until a crash no decision of a sensor is lost, doubled or overtaken on its
\* way to the mow thread, for queues of any capacity and any readings.
THEOREM DecisionsCorrect == Spec => []DecisionsAlternate
BY InitTypes, TypeStep, AlternateInit, AlternateStep, PTL DEF Spec

-----------------------------------------------------------------------------
\* If every thread waits, each waits for the next one: full queues all around.
LEMMA RingCloses ==
  ASSUME TypeOK, ~CanGoOn
  PROVE  Cycle
<1>1. \A q \in Queues : Len(queue[q]) \in Nat /\ Capacity[q] \in Nat \ {0}
  BY MowerAssumption DEF TypeOK
<1>2. \A q \in Queues : ~HasRoom(q) => queue[q] # << >>
  BY <1>1 DEF HasRoom
<1>3. ~HasRoom("comm") /\ queue["comm"] # << >>
  BY <1>2 DEF CanGoOn, Queues
<1>4. reply # NoReply /\ ~HasRoom(reply.sensor)
  BY <1>3 DEF CanGoOn
<1> DEFINE s == reply.sensor
<1>5. s \in Sensors
  BY <1>4 DEF TypeOK
<1>6. ~HasRoom(s) /\ queue[s] # << >>
  BY <1>2, <1>4, <1>5 DEF Queues
<1> HIDE DEF s
<1>7. sending[s] # "none" /\ ~HasRoom("main")
  BY <1>5, <1>6 DEF CanGoOn
<1>8. queue["main"] # << >>
  BY <1>2, <1>7 DEF Queues
<1>9. handling # "none"
  BY <1>8 DEF CanGoOn
<1> QED BY <1>3, <1>5, <1>6, <1>7, <1>9 DEF Cycle, s

\* For queues of any capacity the controller can come to a stand only in the
\* ring of the communicator, a sensor's thread and the mow thread.
THEOREM StandsOnlyInCycle == Spec => [](Cycle \/ CanGoOn)
<1>1. TypeOK => Cycle \/ CanGoOn
  BY RingCloses
<1> QED BY <1>1, TypeCorrect, PTL
=============================================================================
