------------------------------- MODULE MainFSM -------------------------------
(***************************************************************************)
(* android/core: MainFSM.java over MotorFSM.java and the bus, fed by       *)
(* SensorReader.java and by the buttons of RemoteActivity.java.            *)
(*                                                                         *)
(*   SensorReader --range, wire--> MainFSM --move, stop--> MotorFSM        *)
(*                                    ^                       |            *)
(*                                    +-----started mowing----+            *)
(*                                                                         *)
(* Time passes in ticks of 500 ms, of which all delays are multiples.  The *)
(* motor's handler is one step here: MotorFSM.tla opens it up.             *)
(***************************************************************************)
EXTENDS CoreBus, Bags

CONSTANTS
  Wires,           \* averages of ten readings of the boundary wire
  BwfLimit, GoHomeOffset, GoHomeHysteres,          \* Constants.java
  NegNarrow, PosNarrow, NegWide, PosWide,
  Buttons,         \* the events RemoteActivity fires
  TimerBound,      \* bound: events on their way to MotorFSM when one reads,
  HomeBound,       \* bound: and when the mower is going home
  MaxDisturbances  \* bound: buttons pressed and state machines being late

ASSUME MainAssumption ==
  /\ Wires \subseteq Int /\ Wires # {}
  /\ BwfLimit \in Int /\ GoHomeOffset \in Int /\ GoHomeHysteres \in Nat
  /\ NegNarrow \in Nat /\ PosNarrow \in Nat /\ NegWide \in Nat /\ PosWide \in Nat
  /\ TimerBound \in Nat \ {0} /\ HomeBound \in Nat \ {0}
  /\ MaxDisturbances \in Nat

VARIABLES
  mainInbox, motorInbox,   \* the queues of the two subscribers
  timers,                  \* bag of delayed events for the motor, in ticks
  state, hysteres, batteryLow,   \* MainFSM
  motorState,              \* MotorFSM
  reading,                 \* SensorReader: what it has read and not yet fired
  disturbed                \* how often, for the bound

main == <<state, hysteres, batteryLow>>
vars == <<mainInbox, motorInbox, timers, main, motorState, reading, disturbed>>

States == {"IDLE", "MOWING", "AVOIDING_OBSTACLE", "GOING_HOME"}

Sensed(type, value) == [type |-> type, value |-> value]
RangeReading(isNear) == Sensed("range", IF isNear THEN 1 ELSE 0)
StartedMowing == Sensed("started", 0)
GoHomeButton == Sensed("battery", 0)
ClockInButton == Sensed("battery", 1023)

MainEvents ==
  {RangeReading(TRUE), RangeReading(FALSE), StartedMowing, GoHomeButton, ClockInButton}
    \cup {Sensed("bwf", w) : w \in Wires}

ASSUME ButtonAssumption ==
  Buttons \subseteq {IncrementEvent(d) : d \in Directions}
                      \cup {StopEvent, GoHomeButton, ClockInButton}

Delayed(event, ticks) == [event |-> event, ticks |-> ticks]

\* MainService.setupContext sets the mower going; nothing has been read yet.
Init ==
  /\ mainInbox = << >> /\ motorInbox = <<Straight(FullSpeed, "FORWARD")>>
  /\ timers = EmptyBag
  /\ state = "IDLE" /\ hysteres = 0 /\ batteryLow = FALSE
  /\ motorState = "STOPPED"
  /\ reading = << >>
  /\ disturbed = 0

-----------------------------------------------------------------------------
\* MotorFSM: a handler at a time.  A move forward is reported to MainFSM even
\* when it has only been postponed.

STEP == 85

AsMove(e) == IF e.type = "move" THEN e ELSE Straight(STEP, e.direction)

Motor ==
  /\ motorInbox # << >>
  /\ LET e == Head(motorInbox)
     IN \/ /\ e.type = "stop"
           /\ motorState' = "STOPPED"
           /\ motorInbox' = Taken(motorInbox)
           /\ UNCHANGED <<timers, mainInbox>>
        \/ /\ e.type \in {"move", "increment"}
           /\ \/ /\ Accepts(motorState, e.direction)
                 /\ motorState' = Towards(e.direction)
                 /\ motorInbox' = Taken(motorInbox)
                 /\ UNCHANGED timers
              \/ /\ ~Accepts(motorState, e.direction)
                 /\ motorInbox' = Append(Taken(motorInbox), StopEvent)
                 /\ timers' = timers (+) SetToBag({Delayed(AsMove(e), 1)})
                 /\ UNCHANGED motorState
           /\ mainInbox' = IF e.direction = "FORWARD"
                           THEN Append(mainInbox, StartedMowing) ELSE mainInbox
  /\ UNCHANGED <<main, reading, disturbed>>

-----------------------------------------------------------------------------
\* MainFSM.

TakeSensed(type) ==
  /\ mainInbox # << >> /\ Head(mainInbox).type = type
  /\ mainInbox' = Taken(mainInbox)
  /\ UNCHANGED <<motorState, reading, disturbed>>

Ignore == UNCHANGED <<main, motorInbox, timers>>

\* Mutant: the manoeuvre does not set the mower going again.
ManoeuvreWithoutEnd(turn) ==
  SetToBag({Delayed(Straight(FullSpeed, "BACKWARD"), 1), Delayed(StopEvent, 3),
    Delayed(Straight(FullSpeed, turn), 4), Delayed(StopEvent, 6)})

\* Mutant: the stop after the turn is missing, so that the move forward finds
\* the mower still turning.
ManoeuvreWithoutStop(turn) ==
  SetToBag({Delayed(Straight(FullSpeed, "BACKWARD"), 1), Delayed(StopEvent, 3),
    Delayed(Straight(FullSpeed, turn), 4),
    Delayed(Straight(FullSpeed, "FORWARD"), 7)})

Manoeuvre(turn) ==
  SetToBag({Delayed(Straight(FullSpeed, "BACKWARD"), 1), Delayed(StopEvent, 3),
    Delayed(Straight(FullSpeed, turn), 4), Delayed(StopEvent, 6),
    Delayed(Straight(FullSpeed, "FORWARD"), 7)})

\* Mutant: the mower goes on for half a second.
AvoidObstacleWithoutStop ==
  /\ state' = "AVOIDING_OBSTACLE"
  /\ \E turn \in {"LEFT", "RIGHT"} : timers' = timers (+) Manoeuvre(turn)
  /\ UNCHANGED <<motorInbox, hysteres, batteryLow>>

AvoidObstacle ==
  /\ state' = "AVOIDING_OBSTACLE"
  /\ motorInbox' = Append(motorInbox, StopEvent)
  /\ \E turn \in {"LEFT", "RIGHT"} : timers' = timers (+) Manoeuvre(turn)
  /\ UNCHANGED <<hysteres, batteryLow>>

OnRangeSensorReceive ==
  /\ TakeSensed("range")
  /\ IF state = "MOWING" /\ Head(mainInbox).value = 1 THEN AvoidObstacle ELSE Ignore

\* The hysteresis a correction to the left (1) or to the right (-1) leaves.
\* Mutant: it is added to the one there is.
HysteresAdded(h, side) == h + side * GoHomeHysteres
HysteresAfter(h, side) == side * GoHomeHysteres

\* goHome: where to go for a reading, and the hysteresis it leaves.
HalfSpeed == FullSpeed \div 2

Correction(value, h) ==
  LET diff == value - GoHomeOffset - h
      To(right, left, d, next) == [move |-> MoveEvent(right, left, d), next |-> next]
  IN CASE diff \in -NegNarrow .. PosNarrow -> To(HalfSpeed, HalfSpeed, "FORWARD", 0)
       [] diff > PosNarrow /\ diff > PosWide -> To(HalfSpeed, HalfSpeed, "LEFT", HysteresAfter(h, 1))
       [] diff \in PosNarrow + 1 .. PosWide -> To(HalfSpeed, 0, "LEFT", HysteresAfter(h, 1))
       [] diff < -NegNarrow /\ diff < -NegWide -> To(HalfSpeed, HalfSpeed, "RIGHT", HysteresAfter(h, -1))
       [] diff \in -NegWide .. -NegNarrow - 1 -> To(0, HalfSpeed, "RIGHT", HysteresAfter(h, -1))

OnBWFSensorEvent ==
  /\ TakeSensed("bwf")
  /\ LET value == Head(mainInbox).value
         arrived == state = "MOWING" /\ batteryLow /\ value < GoHomeOffset
         first == Correction(value, hysteres)
         second == Correction(value, first.next)
     IN CASE arrived ->   \* corrected once in each of the two ifs
               /\ state' = "GOING_HOME" /\ hysteres' = second.next
               /\ motorInbox' = motorInbox \o <<first.move, second.move>>
               /\ UNCHANGED <<batteryLow, timers>>
          [] state = "MOWING" /\ ~arrived /\ value < BwfLimit -> AvoidObstacle
          [] state = "GOING_HOME" ->
               /\ hysteres' = first.next
               /\ motorInbox' = Append(motorInbox, first.move)
               /\ UNCHANGED <<state, batteryLow, timers>>
          [] OTHER -> Ignore

OnStartedMowing ==
  /\ TakeSensed("started")
  /\ state' = IF state \in {"AVOIDING_OBSTACLE", "IDLE"} THEN "MOWING" ELSE state
  /\ UNCHANGED <<hysteres, batteryLow, motorInbox, timers>>

\* The two values the buttons send: 0 is low, 1023 is charged.
OnBatterySensorReceived ==
  /\ TakeSensed("battery")
  /\ CASE state = "MOWING" /\ Head(mainInbox).value = 0 ->
            /\ batteryLow' = TRUE
            /\ UNCHANGED <<state, hysteres, motorInbox, timers>>
       [] state = "GOING_HOME" /\ Head(mainInbox).value = 1023 ->
            /\ state' = "MOWING" /\ batteryLow' = FALSE
            /\ motorInbox' = Append(motorInbox, Straight(FullSpeed, "FORWARD"))
            /\ UNCHANGED <<hysteres, timers>>
       [] OTHER -> Ignore

Main ==
  \/ OnRangeSensorReceive \/ OnBWFSensorEvent
  \/ OnStartedMowing \/ OnBatterySensorReceived

-----------------------------------------------------------------------------
\* SensorReader: both range sensors and the wire, one event after the other,
\* and then a pause.  In that pause, and within a tick, the two state machines
\* drain their queues, or else they are late.

Drained == mainInbox = << >> /\ motorInbox = << >> /\ reading = << >>

Disturb == disturbed < MaxDisturbances /\ disturbed' = disturbed + 1

InTime ==
  \/ Drained /\ UNCHANGED disturbed
  \/ ~Drained /\ Disturb

Read ==
  /\ reading = << >>
  /\ BagCardinality(timers) + Len(motorInbox)
       < IF state = "GOING_HOME" THEN HomeBound ELSE TimerBound
  /\ InTime
  /\ \E left, right \in BOOLEAN, wire \in Wires :
       reading' = <<RangeReading(left), RangeReading(right), Sensed("bwf", wire)>>
  /\ UNCHANGED <<mainInbox, motorInbox, timers, main, motorState>>

Report ==
  /\ reading # << >>
  /\ mainInbox' = Append(mainInbox, Head(reading))
  /\ reading' = Tail(reading)
  /\ UNCHANGED <<motorInbox, timers, main, motorState, disturbed>>

Press ==
  /\ Disturb
  /\ \E e \in Buttons :
       IF e \in MainEvents
       THEN mainInbox' = Append(mainInbox, e) /\ UNCHANGED motorInbox
       ELSE motorInbox' = Append(motorInbox, e) /\ UNCHANGED mainInbox
  /\ UNCHANGED <<timers, main, motorState, reading>>

-----------------------------------------------------------------------------
\* Time.  Timers are punctual, in any order where they are due together.

Due == {t \in BagToSet(timers) : t.ticks = 0}

Expire ==
  /\ \E t \in Due :
       /\ motorInbox' = Append(motorInbox, t.event)
       /\ timers' = timers (-) SetToBag({t})
  /\ UNCHANGED <<mainInbox, main, motorState, reading, disturbed>>

Sooner(t) == [t EXCEPT !.ticks = @ - 1]
Later(t) == [t EXCEPT !.ticks = @ + 1]
Aged(bag) == [t \in {Sooner(u) : u \in BagToSet(bag)} |-> bag[Later(t)]]

Tick ==
  /\ timers # EmptyBag /\ Due = {}
  /\ InTime
  /\ timers' = Aged(timers)
  /\ UNCHANGED <<mainInbox, motorInbox, main, motorState, reading>>

Next ==
  \/ Motor \/ Main \/ Read \/ Report \/ Press \/ Expire \/ Tick

\* Every thread runs, and time passes between the readings.
Fairness ==
  /\ WF_vars(Motor) /\ WF_vars(Main) /\ WF_vars(Read) /\ WF_vars(Report)
  /\ WF_vars(Expire) /\ SF_vars(Tick)

Spec == Init /\ [][Next]_vars /\ Fairness

-----------------------------------------------------------------------------
\* Properties.

\* The fields' types; no event waits longer than the manoeuvre lasts.
TypeOK ==
  /\ mainInbox \in Seq(MainEvents) /\ motorInbox \in Seq(MotorEvents)
  /\ IsABag(timers) /\ BagToSet(timers) \subseteq [event : MotorEvents, ticks : 0 .. 7]
  /\ state \in States /\ batteryLow \in BOOLEAN
  /\ hysteres \in {0, GoHomeHysteres, -GoHomeHysteres}
  /\ motorState \in MotorStates
  /\ reading \in Seq(MainEvents) /\ Len(reading) <= 3
  /\ disturbed \in 0 .. MaxDisturbances

Waiting(queue, P(_)) == \E i \in DOMAIN queue : P(queue[i])
Forward(e) == e.type \in {"move", "increment"} /\ e.direction = "FORWARD"

\* A mower that avoids an obstacle has the move that ends this on its way, as a
\* timer, as an event for MotorFSM or as its report to MainFSM: no order of
\* events and no button makes it wait for ever.
ManoeuvreGoesOn ==
  state = "AVOIDING_OBSTACLE" =>
    \/ \E t \in BagToSet(timers) : Forward(t.event)
    \/ Waiting(motorInbox, Forward)
    \/ Waiting(mainInbox, LAMBDA e : e = StartedMowing)

Undisturbed == disturbed = 0

\* A mower that mows has nothing of an earlier manoeuvre before it, so that a
\* second manoeuvre never mixes with the first.
OneManoeuvre == Undisturbed /\ state = "MOWING" => timers = EmptyBag

\* A mower that avoids an obstacle does not go forward, but for the moment
\* before the stop and the one after the last move.
NotIntoTheObstacle ==
  Undisturbed /\ state = "AVOIDING_OBSTACLE" /\ motorState = "MOVING_FWD" =>
    \/ Waiting(motorInbox, LAMBDA e : e = StopEvent)
    \/ Waiting(mainInbox, LAMBDA e : e = StartedMowing)

\* Every obstacle is left behind.
MowsAgain == state = "AVOIDING_OBSTACLE" ~> state # "AVOIDING_OBSTACLE"

\* goHome: "We are centered - drive straight", and nothing is left to correct.
CenteredDrivesStraight ==
  <>[](state = "GOING_HOME" /\ hysteres = 0) => <>[](motorState = "MOVING_FWD")
=============================================================================
