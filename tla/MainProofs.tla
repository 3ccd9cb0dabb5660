----------------------------- MODULE MainProofs -----------------------------
(***************************************************************************)
(* Theorems about MainFSM, for any readings, constants of the database,    *)
(* buttons and number of disturbances.                                     *)
(*                                                                         *)
(* Undisturbed the manoeuvre is a sequence of six events, and the state is *)
(* known from how many of them the motor has got and at which tick.  The   *)
(* start of the program is the end of such a manoeuvre.                    *)
(***************************************************************************)
EXTENDS MainFSM, SequenceTheorems, TLAPS

-----------------------------------------------------------------------------
\* Types.  An increment asks for one step, which a full speed below it is not.
Speeds == 0 .. FullSpeed \cup {STEP}
Events ==
  [type : {"move", "increment"}, right : Speeds, left : Speeds,
   direction : Directions] \cup {StopEvent, CutterUp, CutterDown}
Timers == [event : Events, ticks : 0 .. 7]

Types ==
  /\ mainInbox \in Seq(MainEvents) /\ motorInbox \in Seq(Events)
  /\ IsABag(timers) /\ BagToSet(timers) \subseteq Timers
  /\ state \in States
  /\ hysteres \in {0, GoHomeHysteres, -GoHomeHysteres}
  /\ motorState \in MotorStates
  /\ reading \in Seq(MainEvents) /\ Len(reading) <= 3
  /\ disturbed \in 0 .. MaxDisturbances
Flag == batteryLow \in BOOLEAN

\* The move that ends a manoeuvre, on its way.
Timed == \E t \in BagToSet(timers) : Forward(t.event)
Ordered == \E i \in DOMAIN motorInbox : Forward(motorInbox[i])
Reported == \E i \in DOMAIN mainInbox : mainInbox[i] = StartedMowing
EndsInv == state = "AVOIDING_OBSTACLE" => Timed \/ Ordered \/ Reported

-----------------------------------------------------------------------------
\* The manoeuvre: what the motor gets, after how many ticks, and what it then does.
\* The stop that begins it is the first event, the move forward the sixth.
Order(turn) ==
  <<StopEvent, Straight(FullSpeed, "BACKWARD"), StopEvent,
    Straight(FullSpeed, turn), StopEvent, Straight(FullSpeed, "FORWARD")>>
At == <<0, 1, 3, 4, 6, 7>>
Leaves(turn) ==
  <<"STOPPED", "BACKING_UP", "STOPPED", Towards(turn), "STOPPED", "MOVING_FWD">>

\* The timers that are left when the motor has got n events, at tick e.
Left(turn, n, e) == {Delayed(Order(turn)[j], At[j] - e) : j \in n + 1 .. 6}

\* The motor has still to take the nth event, or has.
Gets(turn, n, e) ==
  /\ motorInbox = <<Order(turn)[n]>> /\ e = At[n]
  /\ motorState = IF n = 1 THEN "MOVING_FWD" ELSE Leaves(turn)[n - 1]
Got(turn, n, e) ==
  /\ motorInbox = << >> /\ At[n] <= e
  /\ n < 6 => e <= At[n + 1]
  /\ motorState = Leaves(turn)[n]

Readings == {RangeReading(TRUE), RangeReading(FALSE)} \cup {Sensed("bwf", w) : w \in Wires}
OnlyReadings == mainInbox \in Seq(Readings)
OneReport ==
  \E j \in 1 .. Len(mainInbox) :
    /\ mainInbox[j] = StartedMowing
    /\ \A k \in 1 .. Len(mainInbox) : k # j => mainInbox[k] \in Readings

\* Undisturbed, an obstacle is avoided by these events in their order, and the
\* start is the end of a manoeuvre.
Avoids(turn, n, e) ==
  /\ timers = SetToBag(Left(turn, n, e))
  /\ \/ Gets(turn, n, e) /\ OnlyReadings
     \/ Got(turn, n, e) /\ n < 6 /\ OnlyReadings
     \/ Got(turn, n, e) /\ n = 6 /\ OneReport

Mows ==
  /\ timers = EmptyBag /\ motorInbox = << >> /\ motorState = "MOVING_FWD"
  /\ OnlyReadings

PhaseInv ==
  Undisturbed =>
    /\ batteryLow = FALSE /\ reading \in Seq(Readings)
    /\ \/ state = "MOWING" /\ Mows
       \/ /\ state \in {"IDLE", "AVOIDING_OBSTACLE"}
          /\ \E turn \in {"LEFT", "RIGHT"}, n \in 1 .. 6, e \in 0 .. 7 :
               Avoids(turn, n, e)

-----------------------------------------------------------------------------
\* Events.
LEMMA EventFacts ==
  /\ 0 \in Speeds /\ STEP \in Speeds /\ FullSpeed \in Speeds /\ HalfSpeed \in Speeds
  /\ StopEvent \in Events
  /\ \A d \in Directions : IncrementEvent(d) \in Events
  /\ \A r, l \in Speeds, d \in Directions : MoveEvent(r, l, d) \in Events
<1>1. 0 \in Speeds /\ STEP \in Speeds /\ FullSpeed \in Speeds /\ HalfSpeed \in Speeds
  BY CoreBusAssumption DEF Speeds, STEP, HalfSpeed
<1>2. StopEvent \in Events
  BY DEF Events
<1>3. \A d \in Directions : IncrementEvent(d) \in Events
  BY <1>1 DEF IncrementEvent, Event, Events
<1>4. \A r, l \in Speeds, d \in Directions : MoveEvent(r, l, d) \in Events
  BY DEF MoveEvent, Event, Events
<1> QED BY <1>1, <1>2, <1>3, <1>4

\* A move at full speed, or of one step.
LEMMA StraightFacts ==
  ASSUME NEW d \in Directions, NEW v \in {FullSpeed, STEP}
  PROVE  /\ Straight(v, d) \in Events /\ Straight(v, d).type = "move"
         /\ Straight(v, d).direction = d
<1>1. v \in Speeds
  BY EventFacts
<1>2. Straight(v, d) = MoveEvent(v, v, d)
  BY DEF Straight
<1> QED BY <1>1, <1>2, EventFacts DEF MoveEvent, Event

\* What the motor does on its way in a direction.
LEMMA TowardsFacts ==
  /\ Towards("FORWARD") = "MOVING_FWD" /\ Towards("BACKWARD") = "BACKING_UP"
  /\ Towards("LEFT") = "TURNING_LEFT" /\ Towards("RIGHT") = "TURNING_RIGHT"
  /\ \A d \in Directions : Towards(d) \in MotorStates
BY Zenon DEF Towards, MotorStates, Directions

\* What MainFSM may get, and what of it comes from the sensors.
LEMMA SensedFacts ==
  /\ StartedMowing \in MainEvents /\ StartedMowing.type = "started"
  /\ Readings \subseteq MainEvents
  /\ \A r \in Readings : r.type \in {"range", "bwf"}
  /\ \A b \in BOOLEAN, w \in Wires :
       RangeReading(b) \in Readings /\ Sensed("bwf", w) \in Readings
  /\ \A m \in MainEvents : m.type = "bwf" => m.value \in Wires
<1>1. \A b \in BOOLEAN : RangeReading(b) \in Readings
  BY DEF Readings
<1>2. \A w \in Wires : Sensed("bwf", w) \in Readings
  BY DEF Readings
<1>3. \A r \in Readings : r.type \in {"range", "bwf"}
  BY DEF Readings, RangeReading, Sensed
<1>4. StartedMowing \in MainEvents /\ Readings \subseteq MainEvents
  BY DEF MainEvents, Readings
<1>5. StartedMowing.type = "started"
  BY DEF StartedMowing, Sensed
<1>6. \A m \in MainEvents : m.type = "bwf" => m.value \in Wires
  BY DEF MainEvents, RangeReading, StartedMowing, GoHomeButton, ClockInButton, Sensed
<1> QED BY <1>1, <1>2, <1>3, <1>4, <1>5, <1>6

-----------------------------------------------------------------------------
\* The queue of a subscriber: the last event takes the place of the first.
LEMMA TakenFacts ==
  ASSUME NEW S, NEW q \in Seq(S), q # << >>
  PROVE  /\ Taken(q) \in Seq(S) /\ Len(Taken(q)) = Len(q) - 1
         /\ Head(q) \in S /\ Head(q) = q[1] /\ Len(q) \in Nat \ {0}
         /\ \A i \in 1 .. Len(q) - 1 : Taken(q)[i] = IF i = 1 THEN q[Len(q)] ELSE q[i]
<1> DEFINE n == Len(q)
<1>1. n \in Nat /\ n > 0 /\ DOMAIN q = 1 .. n /\ Head(q) \in S /\ Head(q) = q[1]
  OBVIOUS
<1>2. CASE n < 2
  <2>1. n = 1
    BY <1>1, <1>2
  <2>2. Taken(q) = << >>
    BY <1>2 DEF Taken
  <2> QED BY <1>1, <2>1, <2>2
<1>3. CASE ~(n < 2)
  <2>1. Taken(q) = <<q[n]>> \o SubSeq(q, 2, n - 1)
    BY <1>3 DEF Taken
  <2>2. q[n] \in S /\ <<q[n]>> \in Seq(S) /\ Len(<<q[n]>>) = 1 /\ <<q[n]>>[1] = q[n]
    BY <1>1
  <2> DEFINE r == SubSeq(q, 2, n - 1)
  <2>3. r \in Seq(S) /\ Len(r) = n - 2 /\ \A i \in 1 .. n - 2 : r[i] = q[i + 1]
    BY <1>1, <1>3
  <2> HIDE DEF r
  <2>4. Taken(q) = <<q[n]>> \o r
    BY <2>1 DEF r
  <2>5. Taken(q) \in Seq(S) /\ Len(Taken(q)) = 1 + (n - 2)
    BY <2>2, <2>3, <2>4, ConcatProperties
  <2>6. ASSUME NEW i \in 1 .. n - 1
        PROVE  Taken(q)[i] = IF i = 1 THEN q[n] ELSE q[i]
    <3>1. Taken(q)[i] = IF i <= 1 THEN <<q[n]>>[i] ELSE r[i - 1]
      <4>1. i \in 1 .. 1 + (n - 2)
        BY <1>1
      <4> QED BY <2>2, <2>3, <2>4, <4>1, ConcatProperties
    <3>2. CASE i = 1
      BY <2>2, <3>1, <3>2
    <3>3. CASE i # 1
      BY <1>1, <2>3, <3>1, <3>3
    <3> QED BY <3>2, <3>3
  <2> QED BY <1>1, <2>5, <2>6
<1> QED BY <1>2, <1>3

\* An event that waits is the next one, or it still waits when that one is taken.
LEMMA TakenWaits ==
  ASSUME NEW S, NEW q \in Seq(S), q # << >>, NEW j \in DOMAIN q
  PROVE  q[j] = Head(q) \/ \E i \in DOMAIN Taken(q) : Taken(q)[i] = q[j]
<1> DEFINE n == Len(q)
<1>1. n \in Nat /\ n > 0 /\ j \in 1 .. n
  OBVIOUS
<1>2. DOMAIN Taken(q) = 1 .. n - 1
  BY TakenFacts
<1> HIDE DEF n
<1>3. CASE j = 1
  BY <1>3, TakenFacts
<1>4. CASE j # 1 /\ j = n
  <2>1. 1 \in 1 .. n - 1 /\ Taken(q)[1] = q[n]
    BY <1>1, <1>4, TakenFacts DEF n
  <2> QED BY <1>2, <1>4, <2>1
<1>5. CASE j # 1 /\ j # n
  <2>1. j \in 1 .. n - 1 /\ Taken(q)[j] = q[j]
    <3>1. j \in 1 .. n - 1
      BY <1>1, <1>5
    <3>2. Taken(q)[j] = IF j = 1 THEN q[n] ELSE q[j]
      BY <3>1, TakenFacts DEF n
    <3> QED BY <1>5, <3>1, <3>2
  <2>2. j \in DOMAIN Taken(q)
    BY <1>2, <2>1
  <2> QED BY Zenon, <2>1, <2>2
<1> QED BY <1>3, <1>4, <1>5

\* An event that waits still waits when another one comes.
LEMMA AppendWaits ==
  ASSUME NEW S, NEW q \in Seq(S), NEW e
  PROVE  /\ \A i \in DOMAIN q : i \in DOMAIN Append(q, e) /\ Append(q, e)[i] = q[i]
         /\ Len(q) + 1 \in DOMAIN Append(q, e) /\ Append(q, e)[Len(q) + 1] = e
<1>1. Len(Append(q, e)) = Len(q) + 1 /\ Len(q) \in Nat
  OBVIOUS
<1>2. DOMAIN Append(q, e) = 1 .. Len(q) + 1 /\ DOMAIN q = 1 .. Len(q)
  OBVIOUS
<1>3. \A i \in 1 .. Len(q) : Append(q, e)[i] = q[i]
  OBVIOUS
<1>4. Append(q, e)[Len(q) + 1] = e
  OBVIOUS
<1> QED BY <1>1, <1>2, <1>3, <1>4

-----------------------------------------------------------------------------
\* Bags of timers.
LEMMA SetBags ==
  ASSUME NEW A
  PROVE  /\ IsABag(SetToBag(A)) /\ BagToSet(SetToBag(A)) = A
         /\ EmptyBag (+) SetToBag(A) = SetToBag(A)
         /\ \A t \in A : SetToBag(A) (-) SetToBag({t}) = SetToBag(A \ {t})
BY DEF IsABag, SetToBag, BagToSet, EmptyBag, (+), (-)

\* More timers.
LEMMA PlusBags ==
  ASSUME NEW A, IsABag(A), NEW B, IsABag(B)
  PROVE  IsABag(A (+) B) /\ BagToSet(A (+) B) = BagToSet(A) \cup BagToSet(B)
BY DEF IsABag, BagToSet, (+)

\* One timer less: the others stay.
LEMMA MinusBags ==
  ASSUME NEW A, IsABag(A), NEW t \in BagToSet(A)
  PROVE  /\ IsABag(A (-) SetToBag({t}))
         /\ BagToSet(A (-) SetToBag({t})) \subseteq BagToSet(A)
         /\ BagToSet(A) \ {t} \subseteq BagToSet(A (-) SetToBag({t}))
BY DEF IsABag, BagToSet, SetToBag, (-)

\* A tick later every timer has one tick less to wait.
LEMMA SoonerIs ==
  ASSUME NEW E, NEW t \in [event : E, ticks : Int]
  PROVE  /\ Sooner(t) = Delayed(t.event, t.ticks - 1)
         /\ Later(Sooner(t)) = t
<1>1. t = [event |-> t.event, ticks |-> t.ticks] /\ t.ticks \in Int
  OBVIOUS
<1>2. Sooner(t) = [event |-> t.event, ticks |-> t.ticks - 1]
  BY <1>1 DEF Sooner
<1> DEFINE u == [event |-> t.event, ticks |-> t.ticks - 1]
<1>3. Later(u) = [event |-> u.event, ticks |-> u.ticks + 1]
  BY DEF Later
<1>4. u.event = t.event /\ u.ticks + 1 = t.ticks
  BY <1>1
<1> QED BY <1>1, <1>2, <1>3, <1>4 DEF Delayed

\* That keeps a bag a bag.
LEMMA AgedBags ==
  ASSUME NEW E, NEW A, IsABag(A), BagToSet(A) \subseteq [event : E, ticks : Int]
  PROVE  IsABag(Aged(A)) /\ BagToSet(Aged(A)) = {Sooner(t) : t \in BagToSet(A)}
<1>1. ASSUME NEW t \in BagToSet(A) PROVE A[Later(Sooner(t))] \in {n \in Nat : n > 0}
  <2>1. Later(Sooner(t)) = t
    BY SoonerIs
  <2> QED BY <2>1 DEF IsABag, BagToSet
<1>2. DOMAIN Aged(A) = {Sooner(t) : t \in BagToSet(A)}
  BY DEF Aged
<1>3. ASSUME NEW u \in DOMAIN Aged(A) PROVE Aged(A)[u] \in {n \in Nat : n > 0}
  <2>1. PICK t \in BagToSet(A) : u = Sooner(t)
    BY <1>2
  <2>2. Aged(A)[u] = A[Later(u)]
    BY <1>2 DEF Aged
  <2> QED BY <1>1, <2>1, <2>2
<1>4. Aged(A) = [u \in DOMAIN Aged(A) |-> Aged(A)[u]]
  BY DEF Aged
<1>5. Aged(A) \in [DOMAIN Aged(A) -> {n \in Nat : n > 0}]
  <2> HIDE DEF Aged
  <2> QED BY <1>3, <1>4
<1> QED BY <1>2, <1>5 DEF IsABag, BagToSet

\* A set of timers stays a set.
LEMMA AgedSet ==
  ASSUME NEW E, NEW A, A \subseteq [event : E, ticks : Int]
  PROVE  Aged(SetToBag(A)) = SetToBag({Sooner(t) : t \in A})
<1>1. BagToSet(SetToBag(A)) = A
  BY SetBags
<1>2. \A t \in A : SetToBag(A)[Later(Sooner(t))] = 1
  <2>1. \A t \in A : Later(Sooner(t)) = t
    BY SoonerIs
  <2> QED BY <2>1 DEF SetToBag
<1>3. Aged(SetToBag(A)) = [u \in {Sooner(t) : t \in A} |-> SetToBag(A)[Later(u)]]
  BY <1>1 DEF Aged
<1> HIDE DEF SetToBag
<1>4. [u \in {Sooner(t) : t \in A} |-> SetToBag(A)[Later(u)]] = [u \in {Sooner(t) : t \in A} |-> 1]
  BY <1>2
<1> QED BY <1>3, <1>4 DEF SetToBag

-----------------------------------------------------------------------------
\* Types and the end of a manoeuvre, kept by every step.
LEMMA InitTypes == Init => Types /\ Flag /\ EndsInv
<1> SUFFICES ASSUME Init PROVE Types /\ Flag /\ EndsInv
  OBVIOUS
<1>1. "FORWARD" \in Directions
  BY DEF Directions
<1>2. Straight(FullSpeed, "FORWARD") \in Events
  BY <1>1, StraightFacts
<1>3. IsABag(EmptyBag) /\ BagToSet(EmptyBag) = {}
  BY SetBags DEF EmptyBag
<1>4. mainInbox \in Seq(MainEvents) /\ motorInbox \in Seq(Events)
      /\ reading \in Seq(MainEvents) /\ Len(reading) <= 3
  BY <1>2 DEF Init
<1>5. IsABag(timers) /\ BagToSet(timers) \subseteq Timers
  BY <1>3 DEF Init
<1>6. state \in States /\ hysteres \in {0, GoHomeHysteres, -GoHomeHysteres}
      /\ motorState \in MotorStates /\ disturbed \in 0 .. MaxDisturbances
  BY MainAssumption DEF Init, States, MotorStates
<1>7. Flag
  BY DEF Init, Flag
<1>8. EndsInv
  BY DEF Init, EndsInv
<1> QED BY <1>4, <1>5, <1>6, <1>7, <1>8 DEF Types

\* The motor carries a move forward out or postpones it, and reports it in both cases.
LEMMA MotorTypes ==
  ASSUME Types, EndsInv, Motor
  PROVE  Types' /\ EndsInv'
<1> DEFINE e == Head(motorInbox)
<1>1. motorInbox \in Seq(Events) /\ motorInbox # << >> /\ mainInbox \in Seq(MainEvents)
      /\ IsABag(timers) /\ BagToSet(timers) \subseteq Timers
  BY DEF Types, Motor
<1>2. e \in Events /\ Taken(motorInbox) \in Seq(Events)
  BY <1>1, TakenFacts
<1>3. UNCHANGED <<state, hysteres, reading, disturbed>>
  BY DEF Motor, main
<1>4. \A i \in DOMAIN motorInbox :
        motorInbox[i] = e \/ \E k \in DOMAIN Taken(motorInbox) : Taken(motorInbox)[k] = motorInbox[i]
  BY <1>1, TakenWaits
<1> HIDE DEF e
<1>5. CASE e.type = "stop"
  <2>1. motorState' = "STOPPED" /\ motorInbox' = Taken(motorInbox) /\ UNCHANGED <<timers, mainInbox>>
    BY <1>5 DEF Motor, e
  <2>2. Types'
    BY <1>2, <1>3, <2>1 DEF Types, MotorStates
  <2>3. ~Forward(e)
    BY <1>5 DEF Forward
  <2>4. Ordered => Ordered'
    BY <1>4, <2>1, <2>3 DEF Ordered
  <2>5. (Timed <=> Timed') /\ (Reported <=> Reported')
    BY <2>1 DEF Timed, Reported
  <2> QED BY <1>3, <2>2, <2>4, <2>5 DEF EndsInv
<1>6. CASE e.type \in {"move", "increment"}
  <2>1. e.direction \in Directions
    BY <1>2, <1>6 DEF Events, StopEvent, CutterUp, CutterDown, Event
  <2>2. mainInbox' = IF e.direction = "FORWARD"
                     THEN Append(mainInbox, StartedMowing) ELSE mainInbox
    BY <1>6 DEF Motor, e
  <2>3. mainInbox' \in Seq(MainEvents)
    BY <1>1, <2>2, SensedFacts
  <2>4. Reported => Reported'
    BY <1>1, <2>2, AppendWaits DEF Reported
  <2>5. Forward(e) => Reported'
    BY <1>1, <2>2, AppendWaits DEF Reported, Forward
  <2>6. Ordered => Reported' \/ \E k \in DOMAIN Taken(motorInbox) : Forward(Taken(motorInbox)[k])
    BY <1>4, <2>5 DEF Ordered
  <2>7. CASE Accepts(motorState, e.direction) /\ motorInbox' = Taken(motorInbox)
             /\ motorState' = Towards(e.direction) /\ UNCHANGED timers
    <3>1. Types'
      BY <1>1, <1>2, <1>3, <2>1, <2>3, <2>7, TowardsFacts DEF Types
    <3>2. Ordered => Reported' \/ Ordered'
      BY <2>6, <2>7 DEF Ordered
    <3>3. Timed <=> Timed'
      BY <2>7 DEF Timed
    <3> QED BY <1>3, <2>4, <3>1, <3>2, <3>3 DEF EndsInv
  <2>8. CASE /\ ~Accepts(motorState, e.direction)
             /\ motorInbox' = Append(Taken(motorInbox), StopEvent)
             /\ timers' = timers (+) SetToBag({Delayed(AsMove(e), 1)})
             /\ UNCHANGED motorState
    <3>1. AsMove(e) \in Events
      BY <1>2, <2>1, StraightFacts DEF AsMove
    <3>2. Delayed(AsMove(e), 1) \in Timers
      BY <3>1 DEF Delayed, Timers
    <3> DEFINE B == SetToBag({Delayed(AsMove(e), 1)})
    <3>3. IsABag(B) /\ BagToSet(B) = {Delayed(AsMove(e), 1)}
      BY SetBags
    <3> HIDE DEF B
    <3>4. IsABag(timers') /\ BagToSet(timers') = BagToSet(timers) \cup BagToSet(B)
      BY <1>1, <2>8, <3>3, PlusBags DEF B
    <3>5. IsABag(timers)' /\ BagToSet(timers)' \subseteq Timers
      BY <1>1, <3>2, <3>3, <3>4
    <3>6. motorInbox' \in Seq(Events)
      BY <1>2, <2>8, EventFacts
    <3>7. Types'
      BY <1>3, <2>3, <2>8, <3>5, <3>6 DEF Types
    <3>8. Ordered => Reported' \/ Ordered'
      BY <1>2, <2>6, <2>8, AppendWaits DEF Ordered
    <3>9. Timed => Timed'
      BY <3>4 DEF Timed
    <3> QED BY <1>3, <2>4, <3>7, <3>8, <3>9 DEF EndsInv
  <2> QED BY <1>6, <2>7, <2>8 DEF Motor, e
<1> QED BY <1>5, <1>6 DEF Motor, e

\* Where the range sensor or the wire finds an obstacle.
LEMMA AvoidTypes ==
  ASSUME Types, AvoidObstacle
  PROVE  /\ motorInbox' \in Seq(Events) /\ IsABag(timers)' /\ BagToSet(timers)' \subseteq Timers
         /\ state' = "AVOIDING_OBSTACLE" /\ Timed' /\ UNCHANGED <<hysteres, batteryLow>>
<1>1. PICK turn \in {"LEFT", "RIGHT"} : timers' = timers (+) Manoeuvre(turn)
  BY DEF AvoidObstacle
<1> DEFINE M == {Delayed(Straight(FullSpeed, "BACKWARD"), 1), Delayed(StopEvent, 3),
                 Delayed(Straight(FullSpeed, turn), 4), Delayed(StopEvent, 6),
                 Delayed(Straight(FullSpeed, "FORWARD"), 7)}
<1>2. /\ Straight(FullSpeed, "BACKWARD") \in Events /\ Straight(FullSpeed, turn) \in Events
      /\ Straight(FullSpeed, "FORWARD") \in Events /\ StopEvent \in Events
      /\ Straight(FullSpeed, "FORWARD").type = "move"
      /\ Straight(FullSpeed, "FORWARD").direction = "FORWARD"
  BY StraightFacts, EventFacts DEF Directions
<1>3. \A ev \in Events, k \in 0 .. 7 : Delayed(ev, k) \in Timers /\ Delayed(ev, k).event = ev
  BY DEF Delayed, Timers
<1>4. M \subseteq Timers
  BY <1>2, <1>3
<1>5. Delayed(Straight(FullSpeed, "FORWARD"), 7) \in M
      /\ Forward(Delayed(Straight(FullSpeed, "FORWARD"), 7).event)
  BY <1>2, <1>3 DEF Forward
<1>6. Manoeuvre(turn) = SetToBag(M)
  BY DEF Manoeuvre
<1> HIDE DEF M
<1>7. IsABag(Manoeuvre(turn)) /\ BagToSet(Manoeuvre(turn)) = M
  BY <1>6, SetBags
<1>8. IsABag(timers') /\ BagToSet(timers') = BagToSet(timers) \cup M
  BY <1>1, <1>7, PlusBags DEF Types
<1>9. Timed'
  BY <1>5, <1>8 DEF Timed
<1>10. BagToSet(timers)' \subseteq Timers
  BY <1>4, <1>8 DEF Types
<1>11. motorInbox' \in Seq(Events)
  BY EventFacts DEF AvoidObstacle, Types
<1> QED BY <1>8, <1>9, <1>10, <1>11 DEF AvoidObstacle

\* An event of another type leaves the report where it is.
LEMMA TakeTypes ==
  ASSUME Types, NEW type, TakeSensed(type)
  PROVE  /\ mainInbox' \in Seq(MainEvents)
         /\ Head(mainInbox) \in MainEvents /\ Head(mainInbox).type = type
         /\ type # "started" /\ Reported => Reported'
<1>1. mainInbox \in Seq(MainEvents) /\ mainInbox # << >> /\ mainInbox' = Taken(mainInbox)
      /\ Head(mainInbox).type = type
  BY DEF Types, TakeSensed
<1>2. mainInbox' \in Seq(MainEvents) /\ Head(mainInbox) \in MainEvents
  BY <1>1, TakenFacts
<1>3. ASSUME type # "started", Reported PROVE Reported'
  <2>1. Head(mainInbox) # StartedMowing
    BY <1>1, <1>3, SensedFacts
  <2> QED BY <1>1, <1>3, <2>1, TakenWaits DEF Reported
<1> QED BY <1>1, <1>2, <1>3

\* What goHome orders.
LEMMA CorrectionFacts ==
  ASSUME NEW v \in Int, NEW h \in Int
  PROVE  /\ Correction(v, h).move \in Events
         /\ Correction(v, h).next \in {0, GoHomeHysteres, -GoHomeHysteres}
<1> DEFINE diff == v - GoHomeOffset - h
           To(right, left, d, next) == [move |-> MoveEvent(right, left, d), next |-> next]
<1>1. diff \in Int
  BY MainAssumption
<1> HIDE DEF diff
<1>2. \/ diff \in -NegNarrow .. PosNarrow
      \/ diff > PosNarrow /\ diff > PosWide
      \/ diff \in PosNarrow + 1 .. PosWide
      \/ diff < -NegNarrow /\ diff < -NegWide
      \/ diff \in -NegWide .. -NegNarrow - 1
  BY <1>1, MainAssumption
<1>3. HysteresAfter(h, 1) = GoHomeHysteres /\ HysteresAfter(h, -1) = -GoHomeHysteres
  BY MainAssumption DEF HysteresAfter
<1> DEFINE Choices == {To(HalfSpeed, HalfSpeed, "FORWARD", 0),
             To(HalfSpeed, HalfSpeed, "LEFT", HysteresAfter(h, 1)),
             To(HalfSpeed, 0, "LEFT", HysteresAfter(h, 1)),
             To(HalfSpeed, HalfSpeed, "RIGHT", HysteresAfter(h, -1)),
             To(0, HalfSpeed, "RIGHT", HysteresAfter(h, -1))}
<1>4. Correction(v, h) \in Choices
  BY <1>2, Zenon DEF Correction, diff
<1>5. \A c \in Choices : /\ c.move \in Events
                         /\ c.next \in {0, GoHomeHysteres, -GoHomeHysteres}
  <2>1. \A r, l \in Speeds, d \in Directions : MoveEvent(r, l, d) \in Events
    BY EventFacts
  <2>2. {"FORWARD", "LEFT", "RIGHT"} \subseteq Directions
    BY DEF Directions
  <2> QED BY <1>3, <2>1, <2>2, EventFacts
<1> QED BY <1>4, <1>5

\* An event that changes nothing.
LEMMA IgnoreTypes ==
  ASSUME Types, EndsInv, Ignore, mainInbox' \in Seq(MainEvents), Reported => Reported',
         UNCHANGED <<motorState, reading, disturbed>>
  PROVE  Types' /\ EndsInv'
<1>1. UNCHANGED <<state, hysteres, motorInbox, timers>>
  BY DEF Ignore, main
<1>2. Types'
  BY <1>1 DEF Types
<1>3. Timed <=> Timed'
  BY <1>1 DEF Timed
<1>4. Ordered <=> Ordered'
  BY <1>1 DEF Ordered
<1> QED BY <1>1, <1>2, <1>3, <1>4 DEF EndsInv

\* An event that begins a manoeuvre.
LEMMA AvoidedTypes ==
  ASSUME Types, AvoidObstacle, mainInbox' \in Seq(MainEvents),
         UNCHANGED <<motorState, reading, disturbed>>
  PROVE  Types' /\ EndsInv'
<1>1. /\ motorInbox' \in Seq(Events) /\ IsABag(timers)' /\ BagToSet(timers)' \subseteq Timers
      /\ state' = "AVOIDING_OBSTACLE" /\ Timed' /\ UNCHANGED <<hysteres, batteryLow>>
  BY AvoidTypes
<1>2. Types'
  BY <1>1 DEF Types, States
<1> QED BY <1>1, <1>2 DEF EndsInv

\* A reading of a range sensor.
LEMMA RangeTypes ==
  ASSUME Types, EndsInv, OnRangeSensorReceive
  PROVE  Types' /\ EndsInv'
<1>1. TakeSensed("range")
  BY DEF OnRangeSensorReceive
<1>2. mainInbox' \in Seq(MainEvents) /\ (Reported => Reported')
      /\ UNCHANGED <<motorState, reading, disturbed>>
  BY <1>1, TakeTypes DEF TakeSensed
<1> QED BY <1>2, AvoidedTypes, IgnoreTypes DEF OnRangeSensorReceive

\* A reading of the boundary wire.
LEMMA BWFTypes ==
  ASSUME Types, EndsInv, OnBWFSensorEvent
  PROVE  Types' /\ EndsInv'
<1> DEFINE value == Head(mainInbox).value
           arrived == state = "MOWING" /\ batteryLow /\ value < GoHomeOffset
           first == Correction(value, hysteres)
           second == Correction(value, first.next)
<1>1. TakeSensed("bwf")
  BY DEF OnBWFSensorEvent
<1>2. mainInbox' \in Seq(MainEvents) /\ (Reported => Reported')
      /\ UNCHANGED <<motorState, reading, disturbed>>
      /\ Head(mainInbox) \in MainEvents /\ Head(mainInbox).type = "bwf"
  BY <1>1, TakeTypes DEF TakeSensed
<1>3. value \in Int /\ hysteres \in Int
  <2>1. value \in Wires
    BY <1>2, SensedFacts
  <2>2. value \in Int
    BY <2>1, MainAssumption
  <2>3. hysteres \in {0, GoHomeHysteres, -GoHomeHysteres} /\ GoHomeHysteres \in Int
    BY MainAssumption DEF Types
  <2>4. hysteres \in Int
    BY <2>3
  <2> QED BY <2>2, <2>4
<1>4. /\ first.move \in Events /\ first.next \in {0, GoHomeHysteres, -GoHomeHysteres}
      /\ first.next \in Int
  BY <1>3, CorrectionFacts, MainAssumption
<1>5. second.move \in Events /\ second.next \in {0, GoHomeHysteres, -GoHomeHysteres}
  BY <1>3, <1>4, CorrectionFacts
<1>6. \/ /\ state' = "GOING_HOME" /\ hysteres' = second.next
         /\ motorInbox' = motorInbox \o <<first.move, second.move>>
         /\ UNCHANGED <<batteryLow, timers>>
      \/ AvoidObstacle
      \/ /\ state = "GOING_HOME" /\ hysteres' = first.next
         /\ motorInbox' = Append(motorInbox, first.move)
         /\ UNCHANGED <<state, batteryLow, timers>>
      \/ Ignore
  BY Zenon DEF OnBWFSensorEvent
<1> HIDE DEF value, arrived, first, second
<1>7. ASSUME state' = "GOING_HOME", UNCHANGED timers, motorInbox' \in Seq(Events),
             hysteres' \in {0, GoHomeHysteres, -GoHomeHysteres}
      PROVE  Types' /\ EndsInv'
  BY <1>2, <1>7 DEF Types, EndsInv, States
<1>8. CASE /\ state' = "GOING_HOME" /\ hysteres' = second.next
           /\ motorInbox' = motorInbox \o <<first.move, second.move>>
           /\ UNCHANGED <<batteryLow, timers>>
  <2>1. <<first.move, second.move>> \in Seq(Events)
    BY <1>4, <1>5
  <2>2. motorInbox' \in Seq(Events)
    BY <1>8, <2>1, ConcatProperties DEF Types
  <2> QED BY <1>5, <1>7, <1>8, <2>2
<1>9. CASE /\ state = "GOING_HOME" /\ hysteres' = first.next
           /\ motorInbox' = Append(motorInbox, first.move)
           /\ UNCHANGED <<state, batteryLow, timers>>
  <2>1. motorInbox' \in Seq(Events)
    BY <1>4, <1>9 DEF Types
  <2> QED BY <1>4, <1>7, <1>9, <2>1
<1> QED BY <1>2, <1>6, <1>8, <1>9, AvoidedTypes, IgnoreTypes

\* The report of a move forward ends the manoeuvre.
LEMMA StartedTypes ==
  ASSUME Types, OnStartedMowing
  PROVE  Types' /\ EndsInv'
<1>1. TakeSensed("started") /\ UNCHANGED <<hysteres, batteryLow, motorInbox, timers>>
      /\ state' = IF state \in {"AVOIDING_OBSTACLE", "IDLE"} THEN "MOWING" ELSE state
  BY DEF OnStartedMowing
<1>2. mainInbox' \in Seq(MainEvents) /\ UNCHANGED <<motorState, reading, disturbed>>
  BY <1>1, TakeTypes DEF TakeSensed
<1>3. state' \in States /\ state' # "AVOIDING_OBSTACLE"
  BY <1>1 DEF Types, States
<1> QED BY <1>1, <1>2, <1>3 DEF Types, EndsInv

\* The two buttons of the battery.
LEMMA BatteryTypes ==
  ASSUME Types, EndsInv, OnBatterySensorReceived
  PROVE  Types' /\ EndsInv'
<1>1. TakeSensed("battery")
  BY DEF OnBatterySensorReceived
<1>2. mainInbox' \in Seq(MainEvents) /\ (Reported => Reported')
      /\ UNCHANGED <<motorState, reading, disturbed>>
  BY <1>1, TakeTypes DEF TakeSensed
<1>3. \/ state = "MOWING" /\ UNCHANGED <<state, hysteres, motorInbox, timers>>
      \/ /\ state' = "MOWING" /\ UNCHANGED <<hysteres, timers>>
         /\ motorInbox' = Append(motorInbox, Straight(FullSpeed, "FORWARD"))
      \/ Ignore
  BY ZenonT(60) DEF OnBatterySensorReceived
<1>4. CASE state = "MOWING" /\ UNCHANGED <<state, hysteres, motorInbox, timers>>
  BY <1>2, <1>4 DEF Types, EndsInv
<1>5. CASE /\ state' = "MOWING" /\ UNCHANGED <<hysteres, timers>>
           /\ motorInbox' = Append(motorInbox, Straight(FullSpeed, "FORWARD"))
  <2>1. Straight(FullSpeed, "FORWARD") \in Events
    BY StraightFacts DEF Directions
  <2>2. motorInbox' \in Seq(Events)
    BY <1>5, <2>1 DEF Types
  <2> QED BY <1>2, <1>5, <2>2 DEF Types, EndsInv, States
<1> QED BY <1>2, <1>3, <1>4, <1>5, IgnoreTypes

\* Nobody but the state machine's thread takes an event for it.
LEMMA SensorTypes ==
  ASSUME Types, EndsInv, Read \/ Report
  PROVE  Types' /\ EndsInv'
<1>1. UNCHANGED <<motorInbox, timers, state, hysteres, motorState>>
  BY DEF Read, Report, main
<1>2. (Timed <=> Timed') /\ (Ordered <=> Ordered')
  BY <1>1 DEF Timed, Ordered
<1>3. CASE Read
  <2>1. PICK left, right \in BOOLEAN, wire \in Wires :
          reading' = <<RangeReading(left), RangeReading(right), Sensed("bwf", wire)>>
    BY <1>3 DEF Read
  <2>2. RangeReading(left) \in MainEvents /\ RangeReading(right) \in MainEvents
        /\ Sensed("bwf", wire) \in MainEvents
    BY SensedFacts
  <2>3. reading' \in Seq(MainEvents) /\ Len(reading') = 3
    BY <2>1, <2>2
  <2>4. disturbed' \in 0 .. MaxDisturbances
    BY <1>3, MainAssumption DEF Read, InTime, Disturb, Types
  <2>5. UNCHANGED mainInbox
    BY <1>3 DEF Read
  <2>6. Types'
    BY <1>1, <2>3, <2>4, <2>5 DEF Types
  <2>7. Reported <=> Reported'
    BY <2>5 DEF Reported
  <2> QED BY <1>1, <1>2, <2>6, <2>7 DEF EndsInv
<1>4. CASE Report
  <2>1. reading \in Seq(MainEvents) /\ reading # << >> /\ Len(reading) <= 3
        /\ mainInbox \in Seq(MainEvents)
        /\ mainInbox' = Append(mainInbox, Head(reading)) /\ reading' = Tail(reading)
    BY <1>4 DEF Report, Types
  <2>2. Head(reading) \in MainEvents /\ reading' \in Seq(MainEvents) /\ Len(reading') <= 3
    BY <2>1
  <2>3. mainInbox' \in Seq(MainEvents)
    BY <2>1, <2>2
  <2>4. Types'
    BY <1>1, <1>4, <2>2, <2>3 DEF Types, Report
  <2>5. Reported => Reported'
    BY <2>1, AppendWaits DEF Reported
  <2> QED BY <1>1, <1>2, <2>4, <2>5 DEF EndsInv
<1> QED BY <1>3, <1>4

\* A button adds an event to one of the two queues.
LEMMA PressTypes ==
  ASSUME Types, EndsInv, Press
  PROVE  Types' /\ EndsInv'
<1>1. disturbed' \in 0 .. MaxDisturbances /\ UNCHANGED <<timers, state, hysteres, motorState, reading>>
  BY MainAssumption DEF Press, Disturb, Types, main
<1>2. PICK e \in Buttons :
        IF e \in MainEvents
        THEN mainInbox' = Append(mainInbox, e) /\ UNCHANGED motorInbox
        ELSE motorInbox' = Append(motorInbox, e) /\ UNCHANGED mainInbox
  BY DEF Press
<1>3. Timed <=> Timed'
  BY <1>1 DEF Timed
<1>4. CASE e \in MainEvents
  <2>1. mainInbox \in Seq(MainEvents) /\ mainInbox' = Append(mainInbox, e)
        /\ UNCHANGED motorInbox
    BY <1>2, <1>4 DEF Types
  <2>2. mainInbox' \in Seq(MainEvents)
    BY <1>4, <2>1
  <2>3. Types'
    BY <1>1, <2>1, <2>2 DEF Types
  <2>4. Reported => Reported'
    BY <2>1, AppendWaits DEF Reported
  <2>5. Ordered <=> Ordered'
    BY <2>1 DEF Ordered
  <2> QED BY <1>1, <1>3, <2>3, <2>4, <2>5 DEF EndsInv
<1>5. CASE e \notin MainEvents
  <2>1. motorInbox \in Seq(Events) /\ motorInbox' = Append(motorInbox, e)
        /\ UNCHANGED mainInbox
    BY <1>2, <1>5 DEF Types
  <2>2. Types'
    <3>1. e \in Events
      BY <1>5, ButtonAssumption, EventFacts DEF MainEvents
    <3>2. motorInbox' \in Seq(Events)
      BY <2>1, <3>1
    <3> QED BY <1>1, <2>1, <3>2 DEF Types
  <2>3. Ordered => Ordered'
    BY <2>1, AppendWaits DEF Ordered
  <2>4. Reported <=> Reported'
    BY <2>1 DEF Reported
  <2> QED BY <1>1, <1>3, <2>2, <2>3, <2>4 DEF EndsInv
<1> QED BY <1>4, <1>5

\* A timer that expires comes to the motor.
LEMMA ExpireTypes ==
  ASSUME Types, EndsInv, Expire
  PROVE  Types' /\ EndsInv'
<1>1. PICK t \in Due : motorInbox' = Append(motorInbox, t.event)
                       /\ timers' = timers (-) SetToBag({t})
  BY DEF Expire
<1>2. t \in BagToSet(timers) /\ t \in Timers /\ t.event \in Events
  BY DEF Due, Types, Timers
<1>3. /\ IsABag(timers)' /\ BagToSet(timers)' \subseteq BagToSet(timers)
      /\ BagToSet(timers) \ {t} \subseteq BagToSet(timers)'
  BY <1>1, <1>2, MinusBags DEF Types
<1>4. UNCHANGED <<mainInbox, state, hysteres, motorState, reading, disturbed>>
  BY DEF Expire, main
<1>5. Types'
  <2>1. motorInbox' \in Seq(Events)
    BY <1>1, <1>2 DEF Types
  <2>2. BagToSet(timers)' \subseteq Timers
    BY <1>3 DEF Types
  <2> QED BY <1>3, <1>4, <2>1, <2>2 DEF Types
<1>6. Reported <=> Reported'
  BY <1>4 DEF Reported
<1>7. Ordered => Ordered'
  BY <1>1, AppendWaits DEF Ordered, Types
<1>8. ASSUME Timed PROVE Timed' \/ Ordered'
  <2>1. PICK u \in BagToSet(timers) : Forward(u.event)
    BY <1>8 DEF Timed
  <2>2. CASE u = t
    <3>1. Ordered'
      BY <1>1, <2>1, <2>2, AppendWaits DEF Ordered, Types
    <3> QED BY <3>1
  <2>3. CASE u # t
    BY <1>3, <2>1, <2>3 DEF Timed
  <2> QED BY <2>2, <2>3
<1> QED BY <1>4, <1>5, <1>6, <1>7, <1>8 DEF EndsInv

\* Nothing is due when time passes, so that no timer is overdue.
LEMMA TickTypes ==
  ASSUME Types, EndsInv, Tick
  PROVE  Types' /\ EndsInv'
<1>1. timers' = Aged(timers) /\ Due = {}
      /\ UNCHANGED <<mainInbox, motorInbox, state, hysteres, motorState, reading>>
  BY DEF Tick, main
<1>2. disturbed' \in 0 .. MaxDisturbances
  BY MainAssumption DEF Tick, InTime, Disturb, Types
<1>3. BagToSet(timers) \subseteq [event : Events, ticks : Int]
  BY DEF Types, Timers
<1>4. IsABag(timers)' /\ BagToSet(timers)' = {Sooner(t) : t \in BagToSet(timers)}
  BY <1>1, <1>3, AgedBags DEF Types
<1>5. ASSUME NEW t \in BagToSet(timers) PROVE Sooner(t) \in Timers /\ Sooner(t).event = t.event
  <2>1. t.ticks \in 0 .. 7 /\ t.ticks # 0 /\ t.event \in Events
    BY <1>1 DEF Due, Types, Timers
  <2>2. Sooner(t) = Delayed(t.event, t.ticks - 1)
    BY <1>3, SoonerIs
  <2> QED BY <2>1, <2>2 DEF Delayed, Timers
<1>6. Types'
  BY <1>1, <1>2, <1>4, <1>5 DEF Types
<1>7. Timed => Timed'
  BY <1>4, <1>5 DEF Timed
<1>8. (Ordered <=> Ordered') /\ (Reported <=> Reported')
  BY <1>1 DEF Ordered, Reported
<1> QED BY <1>1, <1>6, <1>7, <1>8 DEF EndsInv

\* Every step.
LEMMA NextTypes == Types /\ EndsInv /\ [Next]_vars => Types' /\ EndsInv'
<1> SUFFICES ASSUME Types, EndsInv, [Next]_vars PROVE Types' /\ EndsInv'
  OBVIOUS
<1>1. CASE UNCHANGED vars
  BY <1>1 DEF vars, main, Types, EndsInv, Timed, Ordered, Reported
<1> QED BY <1>1, MotorTypes, RangeTypes, BWFTypes, StartedTypes, BatteryTypes, SensorTypes,
           PressTypes, ExpireTypes, TickTypes DEF Next, Main

\* The flag apart, as it is Boolean.
LEMMA NextFlag == Flag /\ [Next]_vars => Flag'
<1> SUFFICES ASSUME Flag, [Next]_vars PROVE Flag'
  OBVIOUS
<1>1. UNCHANGED batteryLow \/ batteryLow' \in BOOLEAN
  BY Zenon DEF Next, Main, Motor, Read, Report, Press, Expire, Tick, vars, main,
    OnRangeSensorReceive, OnBWFSensorEvent, OnStartedMowing, OnBatterySensorReceived,
    AvoidObstacle, Ignore
<1> QED BY <1>1 DEF Flag

-----------------------------------------------------------------------------
\* The events of a manoeuvre.
Turns == {"LEFT", "RIGHT"}

\* The events come one after the other.
LEMMA AtFacts ==
  /\ At[1] = 0 /\ At[2] = 1 /\ At[3] = 3 /\ At[4] = 4 /\ At[5] = 6 /\ At[6] = 7
  /\ \A n \in 1 .. 6 : At[n] \in 0 .. 7
  /\ \A n, m \in 1 .. 6 : n < m => At[n] < At[m]
<1>1. At[1] = 0 /\ At[2] = 1 /\ At[3] = 3 /\ At[4] = 4 /\ At[5] = 6 /\ At[6] = 7
  BY DEF At
<1>2. \A n \in 1 .. 6 : n = 1 \/ n = 2 \/ n = 3 \/ n = 4 \/ n = 5 \/ n = 6
  OBVIOUS
<1> QED BY <1>1, <1>2

\* The six events, and what the motor does after each.
LEMMA OrderFacts ==
  ASSUME NEW turn \in Turns
  PROVE  /\ Order(turn)[1] = StopEvent /\ Order(turn)[2] = Straight(FullSpeed, "BACKWARD")
         /\ Order(turn)[3] = StopEvent /\ Order(turn)[4] = Straight(FullSpeed, turn)
         /\ Order(turn)[5] = StopEvent /\ Order(turn)[6] = Straight(FullSpeed, "FORWARD")
         /\ Leaves(turn)[1] = "STOPPED" /\ Leaves(turn)[2] = "BACKING_UP"
         /\ Leaves(turn)[3] = "STOPPED" /\ Leaves(turn)[4] = Towards(turn)
         /\ Leaves(turn)[5] = "STOPPED" /\ Leaves(turn)[6] = "MOVING_FWD"
         /\ \A n \in 1 .. 6 : Order(turn)[n] \in Events
BY StraightFacts, EventFacts DEF Order, Leaves, Turns, Directions

\* A stop comes in every state, a move only after a stop.
LEMMA OrderStep ==
  ASSUME NEW turn \in Turns, NEW n \in 1 .. 6
  PROVE  \/ Order(turn)[n] = StopEvent /\ Leaves(turn)[n] = "STOPPED" /\ n < 6
         \/ /\ n > 1 /\ Leaves(turn)[n - 1] = "STOPPED"
            /\ Order(turn)[n].type = "move"
            /\ Leaves(turn)[n] = Towards(Order(turn)[n].direction)
            /\ Order(turn)[n].direction = "FORWARD" <=> n = 6
<1>1. n = 1 \/ n = 2 \/ n = 3 \/ n = 4 \/ n = 5 \/ n = 6
  OBVIOUS
<1>2. /\ Straight(FullSpeed, turn).type = "move" /\ Straight(FullSpeed, turn).direction = turn
      /\ Straight(FullSpeed, "BACKWARD").type = "move"
      /\ Straight(FullSpeed, "BACKWARD").direction = "BACKWARD"
      /\ Straight(FullSpeed, "FORWARD").type = "move"
      /\ Straight(FullSpeed, "FORWARD").direction = "FORWARD"
  BY StraightFacts DEF Directions, Turns
<1> QED BY <1>1, <1>2, OrderFacts, TowardsFacts DEF Turns

\* The timers of a manoeuvre, the next of which comes before the others.
LEMMA LeftFacts ==
  ASSUME NEW turn \in Turns, NEW n \in 1 .. 6, NEW e \in 0 .. 7
  PROVE  /\ Left(turn, n, e) \subseteq [event : Events, ticks : Int]
         /\ n = 6 => Left(turn, n, e) = {}
         /\ n < 6 => /\ Delayed(Order(turn)[n + 1], At[n + 1] - e) \in Left(turn, n, e)
                     /\ Left(turn, n, e) \ {Delayed(Order(turn)[n + 1], At[n + 1] - e)}
                          = Left(turn, n + 1, e)
<1> DEFINE T(j) == Delayed(Order(turn)[j], At[j] - e)
<1>1. \A j \in 1 .. 6 : T(j) \in [event : Events, ticks : Int] /\ T(j).ticks = At[j] - e
  BY OrderFacts, AtFacts DEF Delayed
<1>2. \A i, j \in 1 .. 6 : T(i) = T(j) => i = j
  BY <1>1, AtFacts
<1>3. Left(turn, n, e) = {T(j) : j \in n + 1 .. 6}
      /\ Left(turn, n + 1, e) = {T(j) : j \in (n + 1) + 1 .. 6}
  BY DEF Left
<1> HIDE DEF T
<1>4. Left(turn, n, e) \subseteq [event : Events, ticks : Int]
  BY <1>1, <1>3
<1>5. n = 6 => Left(turn, n, e) = {}
  BY <1>3
<1>6. ASSUME n < 6 PROVE T(n + 1) \in Left(turn, n, e)
                         /\ Left(turn, n, e) \ {T(n + 1)} = Left(turn, n + 1, e)
  <2>1. n + 1 .. 6 = {n + 1} \cup ((n + 1) + 1 .. 6) /\ n + 1 \notin (n + 1) + 1 .. 6
        /\ n + 1 .. 6 \subseteq 1 .. 6
    BY <1>6
  <2> QED BY <1>2, <1>3, <2>1
<1> QED BY <1>4, <1>5, <1>6 DEF T

\* A tick later the same timers are left.
LEMMA LeftSooner ==
  ASSUME NEW turn \in Turns, NEW n \in 1 .. 6, NEW e \in 0 .. 7
  PROVE  {Sooner(t) : t \in Left(turn, n, e)} = Left(turn, n, e + 1)
<1> DEFINE T(j) == Delayed(Order(turn)[j], At[j] - e)
           U(j) == Delayed(Order(turn)[j], At[j] - (e + 1))
<1>1. ASSUME NEW j \in n + 1 .. 6 PROVE Sooner(T(j)) = U(j)
  <2>1. j \in 1 .. 6 /\ At[j] \in Int /\ Order(turn)[j] \in Events
    BY OrderFacts, AtFacts
  <2>2. T(j) \in [event : Events, ticks : Int] /\ T(j).event = Order(turn)[j]
        /\ T(j).ticks = At[j] - e
    BY <2>1 DEF Delayed
  <2>3. Sooner(T(j)) = Delayed(T(j).event, T(j).ticks - 1)
    <3> HIDE DEF T
    <3> QED BY <2>2, SoonerIs
  <2>4. At[j] - e - 1 = At[j] - (e + 1)
    BY <2>1
  <2> QED BY <2>2, <2>3, <2>4
<1>2. Left(turn, n, e) = {T(j) : j \in n + 1 .. 6} /\ Left(turn, n, e + 1) = {U(j) : j \in n + 1 .. 6}
  BY DEF Left
<1> HIDE DEF T, U
<1> QED BY <1>1, <1>2

\* The timers of a manoeuvre that begins.
LEMMA LeftStart ==
  ASSUME NEW turn \in Turns
  PROVE  Manoeuvre(turn) = SetToBag(Left(turn, 1, 0))
<1>1. 1 + 1 .. 6 = {2, 3, 4, 5, 6}
  OBVIOUS
<1>2. Left(turn, 1, 0) = {Delayed(Order(turn)[j], At[j] - 0) : j \in {2, 3, 4, 5, 6}}
  BY <1>1 DEF Left
<1>3. Left(turn, 1, 0) =
        {Delayed(Order(turn)[2], At[2] - 0), Delayed(Order(turn)[3], At[3] - 0),
         Delayed(Order(turn)[4], At[4] - 0), Delayed(Order(turn)[5], At[5] - 0),
         Delayed(Order(turn)[6], At[6] - 0)}
  BY <1>2
<1>4. Left(turn, 1, 0) =
        {Delayed(Straight(FullSpeed, "BACKWARD"), 1), Delayed(StopEvent, 3),
         Delayed(Straight(FullSpeed, turn), 4), Delayed(StopEvent, 6),
         Delayed(Straight(FullSpeed, "FORWARD"), 7)}
  BY <1>3, OrderFacts, AtFacts
<1> QED BY <1>4 DEF Manoeuvre

-----------------------------------------------------------------------------
\* The queue of MainFSM while nobody presses a button.
LEMMA ReadingComes ==
  ASSUME Types, NEW r \in Readings, mainInbox' = Append(mainInbox, r)
  PROVE  (OnlyReadings => OnlyReadings') /\ (OneReport => OneReport')
<1> DEFINE n == Len(mainInbox)
<1>1. n \in Nat /\ Len(mainInbox') = n + 1 /\ mainInbox'[n + 1] = r
      /\ \A k \in 1 .. n : mainInbox'[k] = mainInbox[k]
  BY DEF Types
<1>2. OnlyReadings => OnlyReadings'
  BY DEF OnlyReadings
<1>3. ASSUME OneReport PROVE OneReport'
  <2>1. PICK j \in 1 .. n : mainInbox[j] = StartedMowing
                            /\ \A k \in 1 .. n : k # j => mainInbox[k] \in Readings
    BY <1>3 DEF OneReport
  <2> HIDE DEF n
  <2>2. \A k \in 1 .. n + 1 : k \in 1 .. n \/ k = n + 1
    BY <1>1
  <2>3. j \in 1 .. Len(mainInbox') /\ mainInbox'[j] = StartedMowing
    BY <1>1, <2>1
  <2>4. \A k \in 1 .. Len(mainInbox') : k # j => mainInbox'[k] \in Readings
    BY <1>1, <2>1, <2>2
  <2> QED BY <2>3, <2>4 DEF OneReport
<1> QED BY <1>2, <1>3

\* The report of the move forward comes among readings.
LEMMA ReportComes ==
  ASSUME OnlyReadings, mainInbox' = Append(mainInbox, StartedMowing)
  PROVE  OneReport'
<1> DEFINE n == Len(mainInbox)
<1>1. mainInbox \in Seq(Readings) /\ n \in Nat /\ \A k \in 1 .. n : mainInbox[k] \in Readings
  BY DEF OnlyReadings
<1>2. Len(mainInbox') = n + 1 /\ mainInbox'[n + 1] = StartedMowing
      /\ \A k \in 1 .. n : mainInbox'[k] = mainInbox[k]
  BY <1>1
<1> HIDE DEF n
<1>3. \A k \in 1 .. n + 1 : k \in 1 .. n \/ k = n + 1
  BY <1>1
<1>4. n + 1 \in 1 .. Len(mainInbox')
  BY <1>1, <1>2
<1>5. \A k \in 1 .. Len(mainInbox') : k # n + 1 => mainInbox'[k] \in Readings
  BY <1>1, <1>2, <1>3
<1> QED BY <1>2, <1>4, <1>5 DEF OneReport

\* The queue gives out a reading or the report; what is left are readings, with the report
\* if it was not that.
LEMMA ReadingTaken ==
  ASSUME Types, NEW type, TakeSensed(type)
  PROVE  /\ OnlyReadings => OnlyReadings' /\ type \in {"range", "bwf"}
         /\ OneReport => IF type = "started" THEN OnlyReadings'
                         ELSE OneReport' /\ type \in {"range", "bwf"}
<1> DEFINE n == Len(mainInbox)
<1>1. mainInbox \in Seq(MainEvents) /\ mainInbox # << >> /\ mainInbox' = Taken(mainInbox)
      /\ Head(mainInbox).type = type
  BY DEF TakeSensed, Types
<1>2. /\ n \in Nat \ {0} /\ Head(mainInbox) = mainInbox[1] /\ Len(mainInbox') = n - 1
      /\ mainInbox' \in Seq(MainEvents)
      /\ \A i \in 1 .. n - 1 : mainInbox'[i] = IF i = 1 THEN mainInbox[n] ELSE mainInbox[i]
  BY <1>1, TakenFacts
<1>3. ASSUME OnlyReadings PROVE OnlyReadings' /\ type \in {"range", "bwf"}
  <2>1. mainInbox \in Seq(Readings)
    BY <1>3 DEF OnlyReadings
  <2>2. Taken(mainInbox) \in Seq(Readings) /\ Head(mainInbox) \in Readings
    BY <1>1, <2>1, TakenFacts
  <2> QED BY <1>1, <2>2, SensedFacts DEF OnlyReadings
<1>4. ASSUME OneReport
      PROVE  IF type = "started" THEN OnlyReadings'
             ELSE OneReport' /\ type \in {"range", "bwf"}
  <2>1. PICK j \in 1 .. n : mainInbox[j] = StartedMowing
                            /\ \A k \in 1 .. n : k # j => mainInbox[k] \in Readings
    BY <1>4 DEF OneReport
  <2> HIDE DEF n
  <2>2. CASE j = 1
    <3>1. type = "started"
      BY <1>1, <1>2, <2>1, <2>2, SensedFacts
    <3>2. ASSUME NEW i \in 1 .. n - 1 PROVE mainInbox'[i] \in Readings
      <4>1. n \in 1 .. n /\ n # 1 /\ i \in 1 .. n
        BY <1>2
      <4> QED BY <1>2, <2>1, <2>2, <4>1
    <3>3. mainInbox' \in Seq(Readings)
      BY <1>2, <3>2
    <3> QED BY <3>1, <3>3 DEF OnlyReadings
  <2>3. CASE j # 1
    <3>1. 1 \in 1 .. n /\ n \in 1 .. n /\ n > 1
      BY <1>2, <2>3
    <3>2. mainInbox[1] \in Readings
      BY <2>1, <2>3, <3>1
    <3>3. type \in {"range", "bwf"}
      BY <1>1, <1>2, <3>2, SensedFacts
    <3> DEFINE i == IF j = n THEN 1 ELSE j
    <3>4. i \in 1 .. n - 1 /\ mainInbox'[i] = StartedMowing
      <4>1. CASE j = n
        <5>1. 1 \in 1 .. n - 1
          BY <3>1
        <5> QED BY <1>2, <2>1, <4>1, <5>1
      <4>2. CASE j # n
        <5>1. j \in 1 .. n - 1
          BY <1>2, <2>1, <4>2
        <5> QED BY <1>2, <2>1, <2>3, <4>2, <5>1
      <4> QED BY <4>1, <4>2
    <3>5. ASSUME NEW k \in 1 .. n - 1, k # i PROVE mainInbox'[k] \in Readings
      <4>1. CASE k = 1
        <5>1. n # j
          BY <3>5, <4>1
        <5> QED BY <1>2, <2>1, <3>1, <4>1, <5>1
      <4>2. CASE k # 1
        <5>1. k # j /\ k \in 1 .. n
          BY <1>2, <3>5, <4>2
        <5> QED BY <1>2, <2>1, <4>2, <5>1
      <4> QED BY <4>1, <4>2
    <3> HIDE DEF i
    <3>6. OneReport'
      BY <1>2, <3>4, <3>5 DEF OneReport
    <3> QED BY <3>3, <3>6
  <2> QED BY <2>2, <2>3
<1> QED BY <1>3, <1>4

-----------------------------------------------------------------------------
\* The phases, kept by every step.
Between == state \in {"IDLE", "AVOIDING_OBSTACLE"}

\* Phases with the parts of Avoids one by one.
LEMMA AvoidsIs ==
  ASSUME NEW turn \in Turns, NEW n \in 1 .. 6, NEW e \in 0 .. 7, Avoids(turn, n, e)
  PROVE  /\ Gets(turn, n, e) \/ Got(turn, n, e)
         /\ ~OnlyReadings => Got(turn, n, e) /\ n = 6 /\ OneReport
BY DEF Avoids

\* The start is the last event of a manoeuvre.
LEMMA InitPhase == Init => PhaseInv
<1> SUFFICES ASSUME Init PROVE PhaseInv
  OBVIOUS
<1>1. reading \in Seq(Readings) /\ OnlyReadings /\ batteryLow = FALSE
  BY DEF Init, OnlyReadings
<1>2. "LEFT" \in Turns /\ 6 \in 1 .. 6 /\ 7 \in 0 .. 7
  BY DEF Turns
<1>3. timers = SetToBag(Left("LEFT", 6, 7))
  <2>1. Left("LEFT", 6, 7) = {}
    BY <1>2, LeftFacts
  <2> QED BY <2>1 DEF Init, EmptyBag
<1>4. Gets("LEFT", 6, 7)
  <2>1. motorInbox = <<Order("LEFT")[6]>> /\ 7 = At[6]
    BY <1>2, OrderFacts, AtFacts DEF Init
  <2>2. Leaves("LEFT")[5] = "STOPPED"
    BY <1>2, OrderFacts
  <2> QED BY <2>1, <2>2 DEF Gets, Init
<1>5. Avoids("LEFT", 6, 7)
  BY <1>1, <1>3, <1>4 DEF Avoids
<1>6. state \in {"IDLE", "AVOIDING_OBSTACLE"}
  BY DEF Init
<1> QED BY <1>1, <1>2, <1>5, <1>6 DEF PhaseInv, Turns

\* The motor takes the event, and no move has to be postponed.
LEMMA MotorPhase ==
  ASSUME Types, Undisturbed, PhaseInv, Motor
  PROVE  PhaseInv'
<1>1. UNCHANGED <<state, hysteres, batteryLow, reading, disturbed>> /\ motorInbox # << >>
  BY DEF Motor, main
<1>2. state # "MOWING" /\ batteryLow = FALSE /\ reading \in Seq(Readings) /\ Between
  BY <1>1 DEF PhaseInv, Mows, Between
<1>3. PICK turn \in Turns, n \in 1 .. 6, e \in 0 .. 7 : Avoids(turn, n, e)
  BY <1>2 DEF PhaseInv, Turns
<1>4. Gets(turn, n, e) /\ OnlyReadings
  BY <1>1, <1>3 DEF Avoids, Got
<1> DEFINE ev == Order(turn)[n]
<1>5. motorInbox = <<ev>> /\ Head(motorInbox) = ev /\ Taken(motorInbox) = << >>
  <2>1. motorInbox = <<ev>>
    BY <1>4 DEF Gets
  <2> HIDE DEF ev
  <2>2. Len(motorInbox) = 1
    BY <2>1
  <2> QED BY <2>1, <2>2 DEF Taken
<1>6. e = At[n] /\ motorState = IF n = 1 THEN "MOVING_FWD" ELSE Leaves(turn)[n - 1]
  BY <1>4 DEF Gets
<1>7. At[n] <= e /\ (n < 6 => e <= At[n + 1])
  BY <1>6, AtFacts
<1> HIDE DEF ev
<1>8. ASSUME UNCHANGED timers, motorInbox' = << >>, motorState' = Leaves(turn)[n],
             IF n < 6 THEN OnlyReadings' ELSE OneReport'
      PROVE  PhaseInv'
  <2>1. Got(turn, n, e)'
    BY <1>7, <1>8 DEF Got
  <2>2. Avoids(turn, n, e)'
    BY <1>3, <1>8, <2>1 DEF Avoids
  <2> QED BY <1>1, <1>2, <2>2 DEF PhaseInv, Between, Turns
<1>9. CASE ev = StopEvent /\ Leaves(turn)[n] = "STOPPED" /\ n < 6
  <2>1. ev.type = "stop"
    BY <1>9 DEF StopEvent, Event
  <2>2. motorState' = "STOPPED" /\ motorInbox' = Taken(motorInbox) /\ UNCHANGED <<timers, mainInbox>>
    BY <1>5, <2>1 DEF Motor
  <2>3. OnlyReadings'
    BY <1>4, <2>2 DEF OnlyReadings
  <2> QED BY <1>5, <1>8, <1>9, <2>2, <2>3
<1>10. CASE /\ n > 1 /\ Leaves(turn)[n - 1] = "STOPPED" /\ ev.type = "move"
            /\ Leaves(turn)[n] = Towards(ev.direction)
            /\ ev.direction = "FORWARD" <=> n = 6
  <2>1. motorState = "STOPPED"
    BY <1>6, <1>10
  <2>2. Accepts(motorState, ev.direction)
    BY <2>1 DEF Accepts
  <2>3. /\ motorState' = Towards(ev.direction) /\ motorInbox' = Taken(motorInbox)
        /\ UNCHANGED timers
        /\ mainInbox' = IF ev.direction = "FORWARD"
                        THEN Append(mainInbox, StartedMowing) ELSE mainInbox
    BY <1>5, <1>10, <2>2 DEF Motor
  <2>4. CASE n < 6
    <3>1. OnlyReadings'
      BY <1>4, <1>10, <2>3, <2>4 DEF OnlyReadings
    <3> QED BY <1>5, <1>8, <1>10, <2>3, <2>4, <3>1
  <2>5. CASE ~(n < 6)
    <3>1. mainInbox' = Append(mainInbox, StartedMowing)
      BY <1>10, <2>3, <2>5
    <3>2. OneReport'
      BY <1>4, <3>1, ReportComes
    <3> QED BY <1>5, <1>8, <1>10, <2>3, <2>5, <3>2
  <2> QED BY <2>4, <2>5
<1> QED BY <1>9, <1>10, OrderStep DEF ev

\* An obstacle is found by a mower that mows: its manoeuvre begins with nothing
\* else under way.
LEMMA AvoidPhase ==
  ASSUME Types, Undisturbed, PhaseInv, state = "MOWING", AvoidObstacle,
         OnlyReadings => OnlyReadings', UNCHANGED <<motorState, reading, disturbed>>
  PROVE  PhaseInv'
<1>1. Mows /\ batteryLow = FALSE /\ reading \in Seq(Readings)
  BY DEF PhaseInv
<1>2. PICK turn \in Turns : timers' = timers (+) Manoeuvre(turn)
  BY DEF AvoidObstacle, Turns
<1>3. state' = "AVOIDING_OBSTACLE" /\ motorInbox' = Append(motorInbox, StopEvent)
      /\ UNCHANGED <<hysteres, batteryLow>>
  BY DEF AvoidObstacle
<1>4. timers' = SetToBag(Left(turn, 1, 0))
  <2>1. timers' = EmptyBag (+) SetToBag(Left(turn, 1, 0))
    BY <1>1, <1>2, LeftStart DEF Mows
  <2> QED BY <2>1, SetBags
<1>5. motorInbox' = <<StopEvent>> /\ motorState' = "MOVING_FWD" /\ OnlyReadings'
  BY <1>1, <1>3 DEF Mows
<1>6. Gets(turn, 1, 0)'
  BY <1>5, OrderFacts, AtFacts DEF Gets
<1>7. Avoids(turn, 1, 0)'
  BY <1>4, <1>5, <1>6 DEF Avoids
<1>8. 1 \in 1 .. 6 /\ 0 \in 0 .. 7
  OBVIOUS
<1> QED BY <1>1, <1>3, <1>7, <1>8 DEF PhaseInv, Turns

\* A reading is taken and nothing comes of it.
LEMMA IgnorePhase ==
  ASSUME Undisturbed, PhaseInv, Ignore, UNCHANGED <<motorState, reading, disturbed>>,
         OnlyReadings => OnlyReadings', OneReport => OneReport'
  PROVE  PhaseInv'
<1>1. UNCHANGED <<state, batteryLow, motorInbox, timers>>
  BY DEF Ignore, main
<1>2. batteryLow = FALSE /\ reading \in Seq(Readings)
  BY DEF PhaseInv
<1>3. CASE state = "MOWING" /\ Mows
  <2>1. Mows'
    BY <1>1, <1>3 DEF Mows
  <2> QED BY <1>1, <1>2, <1>3, <2>1 DEF PhaseInv
<1>4. CASE Between /\ \E turn \in Turns, n \in 1 .. 6, e \in 0 .. 7 : Avoids(turn, n, e)
  <2>1. PICK turn \in Turns, n \in 1 .. 6, e \in 0 .. 7 : Avoids(turn, n, e)
    BY <1>4
  <2>2. (Gets(turn, n, e) <=> Gets(turn, n, e)') /\ (Got(turn, n, e) <=> Got(turn, n, e)')
    BY <1>1 DEF Gets, Got
  <2>3. Avoids(turn, n, e)'
    BY <1>1, <2>1, <2>2 DEF Avoids
  <2> QED BY <1>1, <1>2, <1>4, <2>3 DEF PhaseInv, Between, Turns
<1> QED BY <1>3, <1>4 DEF PhaseInv, Between, Turns

\* Readings begin a manoeuvre or are ignored.
LEMMA SensedPhase ==
  ASSUME Types, Undisturbed, PhaseInv, OnRangeSensorReceive \/ OnBWFSensorEvent
  PROVE  PhaseInv'
<1>1. PICK type \in {"range", "bwf"} : TakeSensed(type)
  BY DEF OnRangeSensorReceive, OnBWFSensorEvent
<1>2. UNCHANGED <<motorState, reading, disturbed>>
  BY <1>1 DEF TakeSensed
<1>3. (OnlyReadings => OnlyReadings') /\ (OneReport => OneReport')
  BY <1>1, ReadingTaken
<1>4. batteryLow = FALSE /\ state # "GOING_HOME"
  BY DEF PhaseInv
<1>5. (state = "MOWING" /\ AvoidObstacle) \/ Ignore
  BY <1>4, Zenon DEF OnRangeSensorReceive, OnBWFSensorEvent
<1> QED BY <1>2, <1>3, <1>5, AvoidPhase, IgnorePhase

\* The report of the move forward ends the manoeuvre.
LEMMA StartedPhase ==
  ASSUME Types, Undisturbed, PhaseInv, OnStartedMowing
  PROVE  PhaseInv'
<1>1. TakeSensed("started") /\ UNCHANGED <<hysteres, batteryLow, motorInbox, timers>>
      /\ state' = IF state \in {"AVOIDING_OBSTACLE", "IDLE"} THEN "MOWING" ELSE state
  BY DEF OnStartedMowing
<1>2. ~OnlyReadings /\ (OneReport => OnlyReadings')
  BY <1>1, ReadingTaken
<1>3. Between /\ batteryLow = FALSE /\ reading \in Seq(Readings)
  BY <1>2 DEF PhaseInv, Mows, Between
<1>4. PICK turn \in Turns, n \in 1 .. 6, e \in 0 .. 7 : Avoids(turn, n, e)
  BY <1>2, <1>3 DEF PhaseInv, Turns, Mows
<1>5. Got(turn, n, e) /\ n = 6 /\ OneReport /\ timers = SetToBag(Left(turn, n, e))
  BY <1>2, <1>4 DEF Avoids
<1>6. timers = EmptyBag
  BY <1>5, LeftFacts DEF EmptyBag
<1>7. motorInbox = << >> /\ motorState = "MOVING_FWD"
  BY <1>5, OrderFacts DEF Got
<1>8. UNCHANGED <<motorState, reading, disturbed>>
  BY <1>1 DEF TakeSensed
<1>9. Mows'
  BY <1>1, <1>2, <1>5, <1>6, <1>7, <1>8 DEF Mows
<1> QED BY <1>1, <1>3, <1>8, <1>9 DEF PhaseInv, Between

\* Nobody presses a button.
LEMMA BatteryPhase ==
  ASSUME Types, Undisturbed, PhaseInv, OnBatterySensorReceived
  PROVE  FALSE
<1>1. TakeSensed("battery")
  BY DEF OnBatterySensorReceived
<1>2. ~OnlyReadings /\ ~OneReport
  BY <1>1, ReadingTaken
<1> QED BY <1>2 DEF PhaseInv, Mows, Avoids

\* A reading on its way.
LEMMA SensorPhase ==
  ASSUME Types, Undisturbed, PhaseInv, Read \/ Report, Undisturbed'
  PROVE  PhaseInv'
<1>1. Ignore /\ UNCHANGED <<motorState, disturbed>> /\ reading \in Seq(Readings)
  BY DEF Read, Report, Ignore, main, Undisturbed, PhaseInv
<1>2. UNCHANGED <<state, batteryLow, motorInbox, timers>> /\ batteryLow = FALSE
  BY <1>1 DEF Ignore, main, PhaseInv
<1>3. reading' \in Seq(Readings)
  <2>1. CASE Read
    <3>1. PICK left, right \in BOOLEAN, wire \in Wires :
            reading' = <<RangeReading(left), RangeReading(right), Sensed("bwf", wire)>>
      BY <2>1 DEF Read
    <3> QED BY <3>1, SensedFacts
  <2>2. CASE Report
    BY <1>1, <2>2 DEF Report
  <2> QED BY <2>1, <2>2
<1>4. (OnlyReadings => OnlyReadings') /\ (OneReport => OneReport')
  <2>1. CASE Read
    BY <2>1 DEF Read, OnlyReadings, OneReport
  <2>2. CASE Report
    <3>1. mainInbox' = Append(mainInbox, Head(reading)) /\ Head(reading) \in Readings
      BY <1>1, <2>2 DEF Report
    <3> QED BY <3>1, ReadingComes
  <2> QED BY <2>1, <2>2
<1>5. CASE state = "MOWING" /\ Mows
  <2>1. Mows'
    BY <1>1, <1>2, <1>4, <1>5 DEF Mows
  <2> QED BY <1>2, <1>3, <1>5, <2>1 DEF PhaseInv
<1>6. CASE Between /\ \E turn \in Turns, n \in 1 .. 6, e \in 0 .. 7 : Avoids(turn, n, e)
  <2>1. PICK turn \in Turns, n \in 1 .. 6, e \in 0 .. 7 : Avoids(turn, n, e)
    BY <1>6
  <2>2. (Gets(turn, n, e) <=> Gets(turn, n, e)') /\ (Got(turn, n, e) <=> Got(turn, n, e)')
    BY <1>1, <1>2 DEF Gets, Got
  <2>3. Avoids(turn, n, e)'
    BY <1>2, <1>4, <2>1, <2>2 DEF Avoids
  <2> QED BY <1>2, <1>3, <1>6, <2>3 DEF PhaseInv, Between, Turns
<1> QED BY <1>5, <1>6 DEF PhaseInv, Between, Turns

\* The next event of the manoeuvre comes to the motor.
LEMMA ExpirePhase ==
  ASSUME Types, Undisturbed, PhaseInv, Expire
  PROVE  PhaseInv'
<1>1. PICK t \in Due : motorInbox' = Append(motorInbox, t.event)
                       /\ timers' = timers (-) SetToBag({t})
  BY DEF Expire
<1>2. t \in BagToSet(timers) /\ t.ticks = 0
  BY DEF Due
<1>3. UNCHANGED <<mainInbox, state, batteryLow, motorState, reading, disturbed>>
  BY DEF Expire, main
<1>4. Between /\ batteryLow = FALSE /\ reading \in Seq(Readings)
  <2>1. timers # EmptyBag
    BY <1>2 DEF BagToSet, EmptyBag, SetToBag
  <2> QED BY <2>1 DEF PhaseInv, Mows, Between
<1>5. PICK turn \in Turns, n \in 1 .. 6, e \in 0 .. 7 : Avoids(turn, n, e)
  <2>1. state # "MOWING"
    BY <1>4 DEF Between
  <2> QED BY <2>1 DEF PhaseInv, Turns
<1>6. timers = SetToBag(Left(turn, n, e)) /\ BagToSet(timers) = Left(turn, n, e)
  BY <1>5, SetBags DEF Avoids
<1>7. PICK j \in n + 1 .. 6 : t = Delayed(Order(turn)[j], At[j] - e)
  BY <1>2, <1>6 DEF Left
<1>8. At[j] - e = 0 /\ t.event = Order(turn)[j] /\ j \in 1 .. 6 /\ n < j /\ n < 6
  BY <1>2, <1>7 DEF Delayed
<1>9. e = At[j]
  BY <1>8, AtFacts
<1>10. At[n] < At[j]
  BY <1>8, AtFacts
<1>11. ~Gets(turn, n, e)
  BY <1>9, <1>10, AtFacts DEF Gets
<1>12. Got(turn, n, e) /\ OnlyReadings
  BY <1>5, <1>8, <1>11 DEF Avoids
<1>13. j = n + 1
  <2>1. e <= At[n + 1]
    BY <1>8, <1>12 DEF Got
  <2>2. n + 1 \in 1 .. 6 /\ n + 1 <= j
    BY <1>8
  <2>3. CASE n + 1 < j
    BY <1>8, <1>9, <2>1, <2>2, <2>3, AtFacts
  <2> QED BY <1>8, <2>2, <2>3
<1>14. timers' = SetToBag(Left(turn, n + 1, e))
  <2>1. timers' = SetToBag(Left(turn, n, e) \ {t})
    BY <1>1, <1>2, <1>6, SetBags
  <2>2. Left(turn, n, e) \ {Delayed(Order(turn)[n + 1], At[n + 1] - e)} = Left(turn, n + 1, e)
    BY <1>8, LeftFacts
  <2>3. t = Delayed(Order(turn)[n + 1], At[n + 1] - e)
    BY <1>7, <1>13
  <2> QED BY <2>1, <2>2, <2>3
<1>15. Gets(turn, n + 1, e)'
  <2>1. motorInbox' = <<Order(turn)[n + 1]>>
    BY <1>1, <1>8, <1>12, <1>13 DEF Got
  <2>2. motorState' = Leaves(turn)[n] /\ n + 1 # 1 /\ (n + 1) - 1 = n
    BY <1>3, <1>12 DEF Got
  <2> QED BY <1>9, <1>13, <2>1, <2>2 DEF Gets
<1>16. OnlyReadings'
  BY <1>3, <1>12 DEF OnlyReadings
<1>17. Avoids(turn, n + 1, e)' /\ n + 1 \in 1 .. 6
  BY <1>8, <1>14, <1>15, <1>16 DEF Avoids
<1> QED BY <1>3, <1>4, <1>17 DEF PhaseInv, Between, Turns

\* Time passes only when both queues are empty and nothing is due.
LEMMA TickPhase ==
  ASSUME Types, Undisturbed, PhaseInv, Tick, Undisturbed'
  PROVE  PhaseInv'
<1>1. timers' = Aged(timers) /\ Due = {} /\ timers # EmptyBag
      /\ UNCHANGED <<mainInbox, motorInbox, state, batteryLow, motorState, reading>>
  BY DEF Tick, main
<1>2. mainInbox = << >> /\ motorInbox = << >>
  BY DEF Tick, InTime, Disturb, Drained, Undisturbed
<1>3. Between /\ batteryLow = FALSE /\ reading \in Seq(Readings)
  BY <1>1 DEF PhaseInv, Mows, Between
<1>4. PICK turn \in Turns, n \in 1 .. 6, e \in 0 .. 7 : Avoids(turn, n, e)
  <2>1. state # "MOWING"
    BY <1>3 DEF Between
  <2> QED BY <2>1 DEF PhaseInv, Turns
<1>5. timers = SetToBag(Left(turn, n, e)) /\ BagToSet(timers) = Left(turn, n, e)
  BY <1>4, SetBags DEF Avoids
<1>6. n < 6
  <2>1. n # 6
    BY <1>1, <1>5, LeftFacts DEF EmptyBag
  <2> QED BY <2>1
<1>7. Got(turn, n, e) /\ OnlyReadings
  <2>1. ~Gets(turn, n, e)
    BY <1>2 DEF Gets
  <2> QED BY <1>4, <1>6, <2>1 DEF Avoids
<1>8. e # At[n + 1]
  <2> DEFINE t == Delayed(Order(turn)[n + 1], At[n + 1] - e)
  <2>1. t \in BagToSet(timers)
    BY <1>5, <1>6, LeftFacts
  <2>2. t.ticks # 0
    BY <1>1, <2>1 DEF Due
  <2>3. At[n + 1] - e # 0
    BY <2>2 DEF Delayed
  <2> QED BY <2>3, <1>6, AtFacts
<1>9. e + 1 \in 0 .. 7 /\ At[n] <= e + 1 /\ e + 1 <= At[n + 1]
  <2>1. n + 1 \in 1 .. 6 /\ At[n] \in 0 .. 7 /\ At[n + 1] \in 0 .. 7
    BY <1>6, AtFacts
  <2>2. At[n] <= e /\ e <= At[n + 1]
    BY <1>6, <1>7 DEF Got
  <2> QED BY <1>8, <2>1, <2>2
<1>10. timers' = SetToBag(Left(turn, n, e + 1))
  <2>1. Left(turn, n, e) \subseteq [event : Events, ticks : Int]
    BY LeftFacts
  <2>2. timers' = SetToBag({Sooner(t) : t \in Left(turn, n, e)})
    BY <1>1, <1>5, <2>1, AgedSet
  <2> QED BY <2>2, LeftSooner
<1>11. Got(turn, n, e + 1)'
  BY <1>1, <1>7, <1>9 DEF Got
<1>12. OnlyReadings'
  BY <1>1, <1>7 DEF OnlyReadings
<1>13. Avoids(turn, n, e + 1)'
  BY <1>6, <1>10, <1>11, <1>12 DEF Avoids
<1> QED BY <1>1, <1>3, <1>9, <1>13 DEF PhaseInv, Between, Turns

\* Every step: once disturbed, always disturbed.
LEMMA NextPhase == Types /\ PhaseInv /\ [Next]_vars => PhaseInv'
<1> SUFFICES ASSUME Types, PhaseInv, [Next]_vars, Undisturbed' PROVE PhaseInv'
  BY DEF PhaseInv
<1>1. Undisturbed /\ ~Press
  <2>1. disturbed \in Nat
    BY MainAssumption DEF Types
  <2>2. ~Disturb
    BY <2>1 DEF Disturb, Undisturbed
  <2>3. UNCHANGED disturbed
    BY <2>2 DEF Next, Main, Motor, Read, Report, Press, Expire, Tick, vars, InTime, TakeSensed,
      OnRangeSensorReceive, OnBWFSensorEvent, OnStartedMowing, OnBatterySensorReceived
  <2> QED BY <2>2, <2>3 DEF Undisturbed, Press
<1>2. CASE UNCHANGED vars
  <2>1. /\ UNCHANGED <<mainInbox, motorInbox, timers, state, motorState>>
        /\ UNCHANGED <<batteryLow, reading>>
    BY <1>2 DEF vars, main
  <2>2. (OnlyReadings <=> OnlyReadings') /\ (OneReport <=> OneReport')
    BY <2>1 DEF OnlyReadings, OneReport
  <2>3. Mows => Mows'
    BY <2>1, <2>2 DEF Mows
  <2>4. ASSUME NEW turn \in Turns, NEW n \in 1 .. 6, NEW e \in 0 .. 7, Avoids(turn, n, e)
        PROVE  Avoids(turn, n, e)'
    <3>1. (Gets(turn, n, e) => Gets(turn, n, e)') /\ (Got(turn, n, e) => Got(turn, n, e)')
      BY <2>1 DEF Gets, Got
    <3> QED BY <2>1, <2>2, <2>4, <3>1 DEF Avoids
  <2> QED BY Zenon, <1>1, <2>1, <2>3, <2>4 DEF PhaseInv, Turns
<1> QED BY <1>1, <1>2, MotorPhase, SensedPhase, StartedPhase, BatteryPhase, SensorPhase,
           ExpirePhase, TickPhase DEF Next, Main

-----------------------------------------------------------------------------
IInv == Types /\ Flag /\ EndsInv /\ PhaseInv

\* The invariant: types, the move that ends a manoeuvre on its way, and, while
\* nothing disturbs it, the manoeuvre event by event.
THEOREM Invariance == Spec => []IInv
<1>1. Init => IInv
  BY InitTypes, InitPhase DEF IInv
<1>2. IInv /\ [Next]_vars => IInv'
  BY NextTypes, NextFlag, NextPhase DEF IInv
<1> QED BY <1>1, <1>2, PTL DEF Spec

\* Every part of the state stays in its type, and no event waits longer than the
\* manoeuvre lasts, for any full speed that is not below one step.
THEOREM TypeCorrect == STEP <= FullSpeed /\ Spec => []TypeOK
<1> SUFFICES ASSUME STEP <= FullSpeed PROVE Spec => []TypeOK
  OBVIOUS
<1>1. Speeds = 0 .. FullSpeed
  BY CoreBusAssumption DEF Speeds, STEP
<1>2. Events = MotorEvents
  BY <1>1 DEF Events, MotorEvents
<1>3. IInv => TypeOK
  BY <1>2, Zenon DEF IInv, Types, Flag, TypeOK, Timers
<1> QED BY <1>3, Invariance, PTL

\* A mower that avoids an obstacle has the move that ends this on its way,
\* whatever is read, pressed and late.
THEOREM ManoeuvreEnds == Spec => []ManoeuvreGoesOn
<1>1. IInv => ManoeuvreGoesOn
  BY DEF IInv, EndsInv, Timed, Ordered, Reported, ManoeuvreGoesOn, Waiting
<1> QED BY <1>1, Invariance, PTL

\* While nothing disturbs it, a mower that mows has nothing of an earlier
\* manoeuvre before it.
THEOREM OneAtATime == Spec => []OneManoeuvre
<1>1. IInv => OneManoeuvre
  BY DEF IInv, PhaseInv, Mows, OneManoeuvre
<1> QED BY <1>1, Invariance, PTL

\* While nothing disturbs it, a mower that avoids an obstacle goes forward only
\* before the stop that begins the manoeuvre and after the move that ends it.
THEOREM AwayFromObstacle == Spec => []NotIntoTheObstacle
<1>1. IInv => NotIntoTheObstacle
  <2> SUFFICES ASSUME IInv, Undisturbed, state = "AVOIDING_OBSTACLE", motorState = "MOVING_FWD"
               PROVE  Waiting(motorInbox, LAMBDA e : e = StopEvent)
                      \/ Waiting(mainInbox, LAMBDA e : e = StartedMowing)
    BY DEF NotIntoTheObstacle
  <2>1. PICK turn \in Turns, n \in 1 .. 6, e \in 0 .. 7 : Avoids(turn, n, e)
    BY DEF IInv, PhaseInv, Turns
  <2>2. n = 1 \/ n = 2 \/ n = 3 \/ n = 4 \/ n = 5 \/ n = 6
    OBVIOUS
  <2>3. \A m \in 1 .. 5 : Leaves(turn)[m] # "MOVING_FWD"
    BY OrderFacts, TowardsFacts DEF Turns
  <2>4. CASE Gets(turn, n, e)
    <3>1. n = 1
      BY <2>2, <2>3, <2>4 DEF Gets
    <3>2. motorInbox = <<StopEvent>>
      BY <2>4, <3>1, OrderFacts DEF Gets
    <3>3. 1 \in DOMAIN motorInbox /\ motorInbox[1] = StopEvent
      BY <3>2
    <3> QED BY <3>3 DEF Waiting
  <2>5. CASE Got(turn, n, e)
    <3>1. n = 6
      BY <2>2, <2>3, <2>5 DEF Got
    <3>2. OneReport \/ Gets(turn, n, e)
      BY <2>1, <3>1 DEF Avoids
    <3>3. CASE OneReport
      <4>1. PICK j \in 1 .. Len(mainInbox) : mainInbox[j] = StartedMowing
        BY <3>3 DEF OneReport
      <4>2. j \in DOMAIN mainInbox
        BY <4>1 DEF IInv, Types
      <4> QED BY <4>1, <4>2 DEF Waiting
    <3> QED BY <2>4, <3>2, <3>3
  <2> QED BY <2>1, <2>4, <2>5 DEF Avoids
<1> QED BY <1>1, Invariance, PTL
=============================================================================
