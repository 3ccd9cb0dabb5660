---------------------------- MODULE MotorProofs ----------------------------
(***************************************************************************)
(* Theorems about MotorFSM, for all requests, any full speed, and any      *)
(* number of events, late timers and failures.                             *)
(***************************************************************************)
EXTENDS MotorFSM, SequenceTheorems, TLAPS

-----------------------------------------------------------------------------
(***************************************************************************)
(* Types.  An increment of the speed may pass a full speed below one step, *)
(* so the speeds are bounded only if there is none.                        *)
(***************************************************************************)

Speeds == IF STEP <= FullSpeed THEN 0 .. FullSpeed ELSE Nat

MoveEvents ==
  [type : {"move", "increment"}, right : Speeds, left : Speeds,
   direction : Directions]
AllEvents == MoveEvents \cup {StopEvent, CutterUp, CutterDown}

Commands ==
  [output : Motors \cup {"cutter"}, value : Speeds]
    \cup [output : Relays, value : {0, 1}]

Jobs ==
  [does : {"take", "exited", "alive", "close", "gone", "unsubscribe",
           "move", "stop", "shutdown", "cutter"},
   commands : Seq(Commands), goal : MotorStates, speed : Speeds]

OutputValues(o) == IF o \in Relays THEN 0 .. 2 ELSE Speeds

Boards ==
  {b \in [Outputs -> Nat] : \A o \in Outputs : b[o] \in OutputValues(o)}

BusInv ==
  /\ inbox \in Seq(AllEvents) /\ timers \in Seq(AllEvents)
  /\ subscribed \in BOOLEAN /\ isRunning \in BOOLEAN

FieldsInv ==
  /\ state \in MotorStates /\ moving \in BOOLEAN
  /\ currentMovementSpeed \in Speeds /\ currentCutterSpeed \in Speeds

SensingInv ==
  /\ reader \in {"request", "read", "reading", "sleep", "stopped"}
  /\ readerRunning \in BOOLEAN /\ owed \in BOOLEAN
  /\ link \in {"up", "unplugged", "closed"}

BoundsInv ==
  /\ events \in 0 .. MaxEvents /\ late \in 0 .. MaxLate
  /\ failures \in 0 .. MaxFailures

TypeInv ==
  /\ BusInv /\ FieldsInv /\ SensingInv /\ BoundsInv
  /\ job \in [Threads -> Jobs] /\ board \in Boards

\* The speeds the handlers compute are speeds.
LEMMA SpeedFacts ==
  /\ Speeds \subseteq Nat /\ {0, 1, FullSpeed, STEP} \subseteq Speeds
  /\ 0 .. FullSpeed \subseteq Speeds
  /\ \A v, w \in Speeds : Larger(v, w) \in Speeds
  /\ \A v \in Speeds : /\ Smaller(v + STEP, FullSpeed) \in Speeds
                       /\ Larger(v - STEP, 0) \in Speeds
                       /\ Byte(v) \in Speeds
BY CoreBusAssumption DEF Speeds, STEP, Smaller, Larger, Byte

\* Every direction has a state of its own, which is none of standing.
LEMMA TowardsFacts ==
  /\ \A d \in Directions : Towards(d) \in MotorStates /\ Towards(d) # "STOPPED"
  /\ \A d, e \in Directions : Towards(d) = Towards(e) => d = e
  /\ "STOPPED" \in MotorStates
BY DEF Directions, Towards, MotorStates

\* The events of the bus are the ones the handlers know.
LEMMA EventFacts ==
  /\ Requests \subseteq AllEvents
  /\ \A d \in Directions : Straight(FullSpeed, d) \in AllEvents
  /\ \A e \in AllEvents : e.type \in {"move", "increment"} => e \in MoveEvents
<1>1. Requests \subseteq AllEvents
  <2>1. MotorEvents \subseteq AllEvents
    BY SpeedFacts DEF MotorEvents, AllEvents, MoveEvents
  <2> QED BY <2>1, MotorAssumption
<1>2. \A d \in Directions : Straight(FullSpeed, d) \in AllEvents
  BY SpeedFacts DEF Straight, MoveEvent, Event, AllEvents, MoveEvents
<1>3. \A e \in AllEvents : e.type \in {"move", "increment"} => e \in MoveEvents
  <2>1. /\ StopEvent.type = "stop" /\ CutterUp.type = "cutterUp"
        /\ CutterDown.type = "cutterDown"
    BY DEF StopEvent, CutterUp, CutterDown, Event
  <2> QED BY <2>1 DEF AllEvents
<1> QED BY <1>1, <1>2, <1>3

\* What a queue gives out leaves a queue.
LEMMA TakenType ==
  ASSUME NEW q \in Seq(AllEvents), q # << >>
  PROVE  Taken(q) \in Seq(AllEvents) /\ Head(q) \in AllEvents
<1>1. Len(q) \in Nat /\ Len(q) > 0 /\ DOMAIN q = 1 .. Len(q)
  BY LenProperties, EmptySeq
<1>2. Head(q) \in AllEvents
  BY HeadTailProperties
<1>3. CASE Len(q) < 2
  BY <1>2, <1>3, EmptySeq DEF Taken
<1>4. CASE ~(Len(q) < 2)
  <2>1. q[Len(q)] \in AllEvents
    BY <1>1, <1>4, ElementOfSeq
  <2>2. SubSeq(q, 2, Len(q) - 1) \in Seq(AllEvents)
    BY <1>1, <1>4, SubSeqProperties
  <2>3. <<q[Len(q)]>> \in Seq(AllEvents)
    BY <2>1
  <2> QED BY <1>2, <1>4, <2>2, <2>3, ConcatProperties DEF Taken
<1> QED BY <1>3, <1>4

\* A timer that has expired leaves the others.
LEMMA WithoutType ==
  ASSUME NEW q \in Seq(AllEvents), NEW i \in DOMAIN q
  PROVE  Without(q, i) \in Seq(AllEvents) /\ q[i] \in AllEvents
<1>1. Len(q) \in Nat /\ DOMAIN q = 1 .. Len(q) /\ i \in 1 .. Len(q)
  BY LenProperties
<1>2. SubSeq(q, 1, i - 1) \in Seq(AllEvents)
  BY <1>1, SubSeqProperties
<1>3. SubSeq(q, i + 1, Len(q)) \in Seq(AllEvents)
  BY <1>1, SubSeqProperties
<1> QED BY <1>1, <1>2, <1>3, ConcatProperties, ElementOfSeq DEF Without

\* A queue takes another event, unless nobody listens any more.
LEMMA PostedType ==
  ASSUME NEW q \in Seq(AllEvents), NEW e \in AllEvents
  PROVE  Posted(q, e) \in Seq(AllEvents) /\ Append(q, e) \in Seq(AllEvents)
BY AppendProperties DEF Posted

\* The event a handler acts upon is a move with a direction and two speeds.
LEMMA WantedType ==
  ASSUME FieldsInv, NEW e \in AllEvents, e.type \in {"move", "increment"}
  PROVE  /\ Wanted(e) \in AllEvents /\ Wanted(e).direction = e.direction
         /\ e.direction \in Directions
         /\ Wanted(e).right \in Speeds /\ Wanted(e).left \in Speeds
<1>1. e \in MoveEvents
  BY EventFacts
<1>2. Incremented(e.direction) \in Speeds
  BY SpeedFacts DEF Incremented, FieldsInv
<1>3. CASE e.type = "move"
  BY <1>1, <1>3 DEF Wanted, MoveEvents, AllEvents
<1>4. CASE e.type # "move"
  <2>1. Wanted(e) = [type |-> "move", right |-> Incremented(e.direction),
                     left |-> Incremented(e.direction), direction |-> e.direction]
    BY <1>4 DEF Wanted, Straight, MoveEvent, Event
  <2> QED BY <1>1, <1>2, <2>1 DEF MoveEvents, AllEvents
<1> QED BY <1>3, <1>4

\* One element, or two in a row.
LEMMA Single ==
  ASSUME NEW S, NEW a \in S
  PROVE  <<a>> \in Seq(S) /\ Len(<<a>>) = 1 /\ Tail(<<a>>) = << >>
OBVIOUS

LEMMA Pair ==
  ASSUME NEW S, NEW a \in S, NEW b \in S
  PROVE  <<a, b>> \in Seq(S) /\ Len(<<a, b>>) = 2 /\ Tail(<<a, b>>) = <<b>>
OBVIOUS

\* The jobs a handler may begin are jobs.
LEMMA JobFacts ==
  /\ \A place \in {"take", "exited", "alive", "close", "gone", "unsubscribe"} :
       At(place) \in Jobs
  /\ StopJob \in Jobs /\ ShutdownJob \in Jobs
  /\ \A v \in Speeds : CutterJob(v) \in Jobs
  /\ \A d \in Directions, r, l \in Speeds :
       MoveJob(MoveEvent(r, l, d)) \in Jobs
<1>1. \A v \in Speeds :
        /\ Command("motorLeft", v) \in Commands
        /\ Command("motorRight", v) \in Commands
        /\ Command("cutter", v) \in Commands
  BY DEF Command, Commands, Motors
<1>2. \A d \in Directions : DirectionCommands(d) \in Seq(Commands)
  <2>1. \A v \in {0, 1} : /\ Command("relayRight", v) \in Commands
                         /\ Command("relayLeft", v) \in Commands
    BY DEF Command, Commands, Relays
  <2> QED BY <2>1, Pair DEF DirectionCommands
<1>3. \A r, l \in Speeds : SpeedCommands(r, l) \in Seq(Commands)
  BY <1>1, Pair DEF SpeedCommands
<1>4. \A place \in {"take", "exited", "alive", "close", "gone", "unsubscribe"} :
        At(place) \in Jobs
  BY SpeedFacts, TowardsFacts, EmptySeq DEF At, Job, Jobs
<1>5. StopJob \in Jobs /\ ShutdownJob \in Jobs
  BY <1>3, SpeedFacts, TowardsFacts DEF StopJob, ShutdownJob, Job, Jobs
<1>6. \A v \in Speeds : CutterJob(v) \in Jobs
  <2> SUFFICES ASSUME NEW v \in Speeds PROVE CutterJob(v) \in Jobs
    OBVIOUS
  <2>1. <<Command("cutter", v)>> \in Seq(Commands)
    BY <1>1, Single
  <2> QED BY <2>1, TowardsFacts DEF CutterJob, Job, Jobs
<1>7. \A d \in Directions, r, l \in Speeds : MoveJob(MoveEvent(r, l, d)) \in Jobs
  <2> SUFFICES ASSUME NEW d \in Directions, NEW r \in Speeds, NEW l \in Speeds
               PROVE  MoveJob(MoveEvent(r, l, d)) \in Jobs
    OBVIOUS
  <2>1. DirectionCommands(d) \o SpeedCommands(r, l) \in Seq(Commands)
    BY <1>2, <1>3, ConcatProperties
  <2>2. Towards(d) \in MotorStates /\ Larger(r, l) \in Speeds
    BY TowardsFacts, SpeedFacts
  <2> QED BY <2>1, <2>2 DEF MoveJob, MoveEvent, Event, Job, Jobs
<1> QED BY <1>4, <1>5, <1>6, <1>7

\* What the board resets itself to is something its outputs can have.
LEMMA RestOnBoard == AtRest \in Boards /\ \A o \in Motors : AtRest[o] = 0
<1>1. \A o \in Outputs : AtRest[o] = IF o \in Relays THEN 2 ELSE 0
  BY DEF AtRest, Released
<1>2. AtRest \in [Outputs -> Nat]
  BY DEF AtRest, Released
<1>3. \A o \in Outputs : AtRest[o] \in OutputValues(o)
  BY <1>1, SpeedFacts DEF OutputValues
<1>4. \A o \in Motors : o \in Outputs /\ o \notin Relays
  BY DEF Outputs, Motors, Relays
<1> QED BY <1>1, <1>2, <1>3, <1>4 DEF Boards

\* The first states are typed.
LEMMA InitTypes == Init => TypeInv
<1> SUFFICES ASSUME Init PROVE TypeInv
  OBVIOUS
<1>1. BusInv
  <2>1. Straight(FullSpeed, "FORWARD") \in AllEvents
    BY EventFacts DEF Directions
  <2> QED BY <2>1, EmptySeq DEF Init, BusInv
<1>2. FieldsInv
  BY SpeedFacts, TowardsFacts DEF Init, FieldsInv
<1>3. SensingInv
  <2>1. readerRunning \in BOOLEAN /\ owed \in BOOLEAN
    BY Zenon DEF Init
  <2> QED BY <2>1 DEF Init, SensingInv
<1>6. BoundsInv
  BY MotorAssumption DEF Init, BoundsInv
<1>4. job \in [Threads -> Jobs]
  BY JobFacts DEF Init
<1>5. board \in Boards
  BY RestOnBoard DEF Init
<1> QED BY <1>1, <1>2, <1>3, <1>4, <1>5, <1>6 DEF TypeInv

\* What a step leaves alone keeps its type.
LEMMA Untouched ==
  /\ BusInv /\ UNCHANGED bus => BusInv'
  /\ FieldsInv /\ UNCHANGED fields => FieldsInv'
  /\ SensingInv /\ UNCHANGED <<sensing, link>> => SensingInv'
  /\ BoundsInv /\ UNCHANGED bounds => BoundsInv'
  /\ job \in [Threads -> Jobs] /\ UNCHANGED job => job' \in [Threads -> Jobs]
  /\ board \in Boards /\ UNCHANGED board => board' \in Boards
<1>1. BusInv /\ UNCHANGED bus => BusInv'
  BY DEF BusInv, bus
<1>2. FieldsInv /\ UNCHANGED fields => FieldsInv'
  BY DEF FieldsInv, fields
<1>3. SensingInv /\ UNCHANGED <<sensing, link>> => SensingInv'
  BY DEF SensingInv, sensing
<1>4. BoundsInv /\ UNCHANGED bounds => BoundsInv'
  BY DEF BoundsInv, bounds
<1> QED BY <1>1, <1>2, <1>3, <1>4

\* A thread that begins another job has one.
LEMMA NewJob ==
  ASSUME job \in [Threads -> Jobs], NEW t \in Threads, NEW j \in Jobs,
         job' = [job EXCEPT ![t] = j]
  PROVE  job' \in [Threads -> Jobs]
OBVIOUS

LEMMA NextRoundType == NextRound \in Jobs
BY JobFacts DEF NextRound

\* A command is sent, and the others remain to be sent.
LEMMA SendType ==
  ASSUME TypeInv, NEW t \in Threads, Send(t)
  PROVE  /\ job' \in [Threads -> Jobs] /\ board' \in Boards
         /\ Head(job[t].commands) \in Commands
<1>1. job[t] \in Jobs /\ job[t].commands \in Seq(Commands)
  BY DEF TypeInv, Jobs
<1>2. /\ Head(job[t].commands) \in Commands
      /\ Tail(job[t].commands) \in Seq(Commands)
  BY <1>1, HeadTailProperties DEF Send
<1>3. job' \in [Threads -> Jobs]
  <2>1. [job[t] EXCEPT !.commands = Tail(job[t].commands)] \in Jobs
    BY <1>1, <1>2 DEF Jobs
  <2>2. job' = [job EXCEPT ![t] = [job[t] EXCEPT !.commands = Tail(job[t].commands)]]
    BY DEF Send
  <2> QED BY <2>1, <2>2, NewJob DEF TypeInv
<1>4. board' \in Boards
  <2> DEFINE c == Head(job[t].commands)
  <2>1. CASE c \in [output : Motors \cup {"cutter"}, value : Speeds]
    <3>1. /\ c.output \in Outputs /\ c.output \notin Relays
          /\ Byte(c.value) \in Speeds
      BY <2>1, SpeedFacts DEF Motors, Relays, Outputs
    <3>2. Byte(c.value) \in OutputValues(c.output) /\ Byte(c.value) \in Nat
      BY <3>1, SpeedFacts DEF OutputValues
    <3> QED BY <3>1, <3>2 DEF TypeInv, Boards, Send
  <2>2. CASE c \in [output : Relays, value : {0, 1}]
    <3>1. c.output \in Outputs /\ c.output \in Relays /\ Byte(c.value) \in {0, 1}
      BY <2>2 DEF Outputs, Byte
    <3>2. Byte(c.value) \in OutputValues(c.output) /\ Byte(c.value) \in Nat
      BY <3>1 DEF OutputValues
    <3> QED BY <3>1, <3>2 DEF TypeInv, Boards, Send
  <2> QED BY <1>2, <2>1, <2>2 DEF Commands
<1> QED BY <1>2, <1>3, <1>4

\* The handlers, up to their first command, keep the types.
LEMMA BeginTypes ==
  ASSUME TypeInv, NEW j \in Jobs, inbox # << >>, Begins(j)
  PROVE  TypeInv'
<1>1. BusInv'
  BY TakenType DEF TypeInv, BusInv, Begins
<1>2. job' \in [Threads -> Jobs]
  BY NewJob DEF TypeInv, Begins, Threads
<1> QED BY <1>1, <1>2, Untouched DEF TypeInv, Begins

\* One postponed move.
LEMMA PostponeTypes == TypeInv /\ PostponeMove => TypeInv'
<1> SUFFICES ASSUME TypeInv, PostponeMove PROVE TypeInv'
  OBVIOUS
<1>1. /\ Taken(inbox) \in Seq(AllEvents) /\ Head(inbox) \in AllEvents
      /\ inbox \in Seq(AllEvents) /\ timers \in Seq(AllEvents)
  BY TakenType DEF TypeInv, BusInv, PostponeMove, Taking
<1>2. Wanted(Head(inbox)) \in AllEvents
  BY <1>1, WantedType DEF TypeInv, PostponeMove, Taking
<1>3. inbox' \in Seq(AllEvents) /\ timers' \in Seq(AllEvents)
  BY <1>1, <1>2, PostedType DEF PostponeMove, AllEvents
<1>4. BusInv'
  <2>1. subscribed' \in BOOLEAN /\ isRunning' \in BOOLEAN
    BY Zenon DEF PostponeMove, TypeInv, BusInv
  <2> QED BY <1>3, <2>1 DEF BusInv
<1>5. job' \in [Threads -> Jobs]
  BY NewJob, NextRoundType DEF TypeInv, PostponeMove, Threads
<1> QED BY <1>4, <1>5, Untouched DEF TypeInv, PostponeMove

\* A thread that has stopped the motors leaves the bus.
LEMMA UnsubscribeTypes ==
  ASSUME TypeInv, NEW t \in Threads, Unsubscribe(t)
  PROVE  TypeInv'
<1>1. BusInv'
  <2>1. subscribed' \in BOOLEAN /\ isRunning' \in BOOLEAN
    BY Zenon DEF Unsubscribe
  <2> QED BY <2>1 DEF Unsubscribe, TypeInv, BusInv
<1>2. SensingInv'
  <2>1. readerRunning' \in BOOLEAN /\ owed' \in BOOLEAN
    BY Zenon DEF Unsubscribe, TypeInv, SensingInv
  <2> QED BY <2>1 DEF Unsubscribe, TypeInv, SensingInv
<1>3. job' \in [Threads -> Jobs]
  BY JobFacts, NewJob DEF Unsubscribe, TypeInv
<1> QED BY <1>1, <1>2, <1>3, Untouched DEF Unsubscribe, TypeInv

\* So do the steps that both threads have, for the commands to stop.
LEMMA CommandTypes ==
  ASSUME TypeInv, NEW t \in Threads,
         Send(t) \/ Throw(t) \/ FinishStop(t) \/ Unsubscribe(t)
  PROVE  TypeInv'
<1>1. CASE Send(t)
  BY <1>1, SendType, Untouched DEF Send, TypeInv
<1>2. CASE Throw(t)
  <2>1. BoundsInv'
    BY <1>2, MotorAssumption DEF Throw, Failing, TypeInv, BoundsInv
  <2>2. job' \in [Threads -> Jobs]
    BY <1>2, JobFacts, NewJob DEF Throw, TypeInv
  <2> QED BY <1>2, <2>1, <2>2, Untouched DEF Throw, TypeInv
<1>3. CASE FinishStop(t)
  <2>1. FieldsInv'
    BY <1>3, TowardsFacts DEF FinishStop, TypeInv, FieldsInv
  <2>2. job' \in [Threads -> Jobs]
    BY <1>3, JobFacts, NextRoundType, NewJob DEF FinishStop, TypeInv
  <2> QED BY <1>3, <2>1, <2>2, Untouched DEF FinishStop, TypeInv
<1>4. CASE Unsubscribe(t)
  BY <1>4, UnsubscribeTypes
<1> QED BY <1>1, <1>2, <1>3, <1>4

\* The steps of the handlers keep the types.
LEMMA FsmTypes == TypeInv /\ Fsm => TypeInv'
<1> SUFFICES ASSUME TypeInv, Fsm PROVE TypeInv'
  OBVIOUS
<1>1. CASE BeginMove
  <2>1. PICK r \in Speeds, l \in Speeds, d \in Directions :
          MoveJob(Wanted(Head(inbox))) = MoveJob(MoveEvent(r, l, d))
    <3> DEFINE w == Wanted(Head(inbox))
    <3>1. w.right \in Speeds /\ w.left \in Speeds /\ w.direction \in Directions
      BY <1>1, TakenType, WantedType DEF BeginMove, Taking, TypeInv, BusInv
    <3>2. MoveJob(w) = MoveJob(MoveEvent(w.right, w.left, w.direction))
      BY DEF MoveJob, MoveEvent, Event
    <3> QED BY <3>1, <3>2
  <2> QED BY <1>1, <2>1, JobFacts, BeginTypes DEF BeginMove, Taking
<1>2. CASE PostponeMove
  BY <1>2, PostponeTypes
<1>3. CASE BeginStop
  BY <1>3, JobFacts, BeginTypes DEF BeginStop, Taking
<1>4. CASE BeginCutter
  <2>1. CutterFaster \in Speeds /\ CutterSlower \in Speeds
    BY SpeedFacts DEF CutterFaster, CutterSlower, TypeInv, FieldsInv
  <2> QED BY <1>4, <2>1, JobFacts, BeginTypes DEF BeginCutter, Taking
<1>5. CASE Send("fsm") \/ Throw("fsm") \/ FinishStop("fsm") \/ Unsubscribe("fsm")
  BY <1>5, CommandTypes DEF Threads
<1>6. CASE FinishMove
  <2>1. job["fsm"] \in Jobs
    BY DEF TypeInv, Threads
  <2>2. /\ state' \in MotorStates /\ currentMovementSpeed' \in Speeds
        /\ currentCutterSpeed' \in Speeds
    BY <1>6, <2>1 DEF FinishMove, Jobs, TypeInv, FieldsInv
  <2>3. moving' \in BOOLEAN
    <3>1. moving' = (job["fsm"].speed > 0)
      BY <1>6 DEF FinishMove
    <3>2. (job["fsm"].speed > 0) \in BOOLEAN
      BY <2>1 DEF Jobs
    <3> QED BY <3>1, <3>2, Zenon
  <2>4. job' \in [Threads -> Jobs]
    BY <1>6, NextRoundType, NewJob DEF FinishMove, TypeInv, Threads
  <2> QED BY <1>6, <2>2, <2>3, <2>4, Untouched DEF FinishMove, TypeInv, FieldsInv
<1>7. CASE FinishCutter
  <2>1. job["fsm"] \in Jobs
    BY DEF TypeInv, Threads
  <2>2. FieldsInv'
    BY <1>7, <2>1 DEF FinishCutter, Jobs, TypeInv, FieldsInv
  <2>3. job' \in [Threads -> Jobs]
    BY <1>7, NextRoundType, NewJob DEF FinishCutter, TypeInv, Threads
  <2> QED BY <1>7, <2>2, <2>3, Untouched DEF FinishCutter, TypeInv
<1> QED BY <1>1, <1>2, <1>3, <1>4, <1>5, <1>6, <1>7 DEF Fsm

\* The steps of the reader and of the cable keep the types.
LEMMA ReaderTypes ==
  ASSUME TypeInv, Reader \/ LoseAnswer \/ Unplug
  PROVE  TypeInv'
<1>1. BoundsInv'
  BY MotorAssumption
  DEF Reader, ReaderRequest, ReaderEnter, ReaderReceive, ReaderWake, ReaderThrow,
      Failing, LoseAnswer, Unplug, TypeInv, BoundsInv, bounds
<1>2. /\ reader' \in {"request", "read", "reading", "sleep", "stopped"}
      /\ link' \in {"up", "unplugged", "closed"}
  BY DEF Reader, ReaderRequest, ReaderEnter, ReaderReceive, ReaderWake,
         ReaderThrow, LoseAnswer, Unplug, TypeInv, SensingInv
<1>3. owed' \in {owed, TRUE, FALSE} /\ readerRunning' \in {readerRunning, FALSE}
  BY Zenon
  DEF Reader, ReaderRequest, ReaderEnter, ReaderReceive, ReaderWake, ReaderThrow,
      LoseAnswer, Unplug
<1>4. SensingInv'
  <2>1. owed' \in BOOLEAN /\ readerRunning' \in BOOLEAN
    BY <1>3, Zenon DEF TypeInv, SensingInv
  <2> QED BY <1>2, <2>1 DEF SensingInv
<1>5. UNCHANGED <<bus, fields, job, board>>
  BY DEF Reader, ReaderRequest, ReaderEnter, ReaderReceive, ReaderWake,
         ReaderThrow, LoseAnswer, Unplug
<1> QED BY <1>1, <1>4, <1>5, Untouched DEF TypeInv

\* Every step keeps the types.
LEMMA TypeStep == TypeInv /\ [Next]_vars => TypeInv'
<1> SUFFICES ASSUME TypeInv, [Next]_vars PROVE TypeInv'
  OBVIOUS
<1>1. CASE Fire
  <2>1. inbox' \in Seq(AllEvents)
    BY <1>1, EventFacts, PostedType DEF Fire, TypeInv, BusInv
  <2>2. BusInv'
    BY <1>1, <2>1 DEF Fire, TypeInv, BusInv
  <2>3. BoundsInv'
    BY <1>1, MotorAssumption DEF Fire, TypeInv, BoundsInv
  <2> QED BY <1>1, <2>2, <2>3, Untouched DEF Fire, TypeInv
<1>2. CASE Expire
  <2>1. inbox' \in Seq(AllEvents) /\ timers' \in Seq(AllEvents)
    BY <1>2, WithoutType, PostedType DEF Expire, TypeInv, BusInv
  <2>2. BusInv'
    BY <1>2, <2>1 DEF Expire, TypeInv, BusInv
  <2>3. BoundsInv'
    BY <1>2, MotorAssumption DEF Expire, TypeInv, BoundsInv
  <2> QED BY <1>2, <2>2, <2>3, Untouched DEF Expire, TypeInv
<1>3. CASE Fsm
  BY <1>3, FsmTypes
<1>4. CASE BeginShutdown
  <2>1. job' \in [Threads -> Jobs]
    BY <1>4, JobFacts, NewJob DEF BeginShutdown, TypeInv, Threads
  <2> QED BY <1>4, <2>1, Untouched DEF BeginShutdown, TypeInv
<1>5. CASE Service
  <2>1. CASE Close
    <3>1. SensingInv'
      BY <2>1 DEF Close, TypeInv, SensingInv, sensing
    <3>2. job' \in [Threads -> Jobs]
      BY <2>1, JobFacts, NewJob DEF Close, TypeInv, Threads
    <3> QED BY <2>1, <3>1, <3>2, Untouched DEF Close, TypeInv
  <2> QED BY <1>5, <2>1, CommandTypes DEF Service, Threads
<1>6. CASE Reader \/ LoseAnswer \/ Unplug
  BY <1>6, ReaderTypes
<1>7. CASE ResetOutputs
  BY <1>7, RestOnBoard, Untouched DEF ResetOutputs, TypeInv
<1>8. CASE UNCHANGED vars
  BY <1>8, Untouched DEF vars, TypeInv
<1> QED BY <1>1, <1>2, <1>3, <1>4, <1>5, <1>6, <1>7, <1>8 DEF Next

\* With a full speed of at least one step no command asks for more than that,
\* and the relays stay switched or released, whatever the order of the events.
THEOREM TypeCorrect ==
  ASSUME STEP <= FullSpeed
  PROVE  Spec => []TypeOK
<1>1. Speeds = 0 .. FullSpeed
  BY DEF Speeds
<1>2. TypeInv => TypeOK
  <2> SUFFICES ASSUME TypeInv PROVE TypeOK
    OBVIOUS
  <2>1. AllEvents \subseteq MotorEvents
    BY <1>1 DEF AllEvents, MoveEvents, MotorEvents
  <2>2. inbox \in Seq(MotorEvents) /\ timers \in Seq(MotorEvents)
    BY <2>1, SeqMonotonic DEF TypeInv, BusInv
  <2>3. \A t \in Threads : job[t] \in JobType
    <3>1. Commands \subseteq [output : Outputs, value : 0 .. FullSpeed]
      BY <1>1, SpeedFacts DEF Commands, Outputs
    <3>2. Seq(Commands) \subseteq Seq([output : Outputs, value : 0 .. FullSpeed])
      BY <3>1, SeqMonotonic
    <3> QED BY <1>1, <3>2 DEF TypeInv, Jobs, JobType
  <2>4. \A o \in Outputs :
          board[o] \in IF o \in Relays THEN 0 .. 2 ELSE 0 .. FullSpeed
    BY <1>1 DEF TypeInv, Boards, OutputValues
  <2> QED BY <1>1, <2>2, <2>3, <2>4
          DEF TypeInv, TypeOK, BusInv, FieldsInv, SensingInv, BoundsInv
<1> QED BY <1>2, InitTypes, TypeStep, PTL DEF Spec

-----------------------------------------------------------------------------
(***************************************************************************)
(* The phases of a handler.  As long as the service lives and the cable is *)
(* up, the commands a handler has still to send say how far the board is.  *)
(***************************************************************************)

Right(d) == IF d \in {"BACKWARD", "RIGHT"} THEN 1 ELSE 0
Left(d) == IF d \in {"BACKWARD", "LEFT"} THEN 1 ELSE 0

Turned(d) == board["relayRight"] = Right(d) /\ board["relayLeft"] = Left(d)
Standing == board["motorLeft"] = 0 /\ board["motorRight"] = 0
Ready(d) == Standing \/ Turned(d)

\* Between two handlers: StateIsTheMotion, without its condition.
Steady ==
  /\ state = "STOPPED" => Standing
  /\ \A d \in Directions : state = Towards(d) =>
       /\ Turned(d)
       /\ Byte(currentMovementSpeed)
            = Larger(board["motorLeft"], board["motorRight"])

MovePhase(commands, d, r, l) ==
  \/ /\ commands = <<Command("relayRight", Right(d)), Command("relayLeft", Left(d)),
                     Command("motorLeft", l), Command("motorRight", r)>>
     /\ Ready(d)
  \/ /\ commands = <<Command("relayLeft", Left(d)),
                     Command("motorLeft", l), Command("motorRight", r)>>
     /\ Ready(d) /\ board["relayRight"] = Right(d)
  \/ /\ commands = <<Command("motorLeft", l), Command("motorRight", r)>>
     /\ Turned(d)
  \/ /\ commands = <<Command("motorRight", r)>>
     /\ Turned(d) /\ board["motorLeft"] = Byte(l)
  \/ /\ commands = << >>
     /\ Turned(d) /\ board["motorLeft"] = Byte(l) /\ board["motorRight"] = Byte(r)

StopPhase(commands) ==
  \/ commands = <<Command("motorLeft", 0), Command("motorRight", 0)>>
  \/ commands = <<Command("motorRight", 0)>> /\ board["motorLeft"] = 0
  \/ commands = << >> /\ Standing

Moving(j) ==
  \E d \in Directions, r, l \in Speeds :
    j.goal = Towards(d) /\ j.speed = Larger(r, l) /\ MovePhase(j.commands, d, r, l)

Phases ==
  LET j == job["fsm"]
  IN /\ j.does = "take" => j.commands = << >> /\ Steady
     /\ j.does = "cutter" => /\ Steady
                             /\ \/ j.commands = << >>
                                \/ \E v \in Speeds : j.commands = <<Command("cutter", v)>>
     /\ j.does = "move" => Moving(j)
     /\ j.does \in {"stop", "shutdown"} => StopPhase(j.commands)
     /\ j.does \notin {"take", "cutter", "move", "stop", "shutdown"}
          => j.commands = << >>

ServiceInv ==
  /\ job["service"].does = "alive" => job["service"].commands = << >>
  /\ ~ShuttingDown /\ failures = 0 => link = "up"

MotionInv == ServiceInv /\ (~ShuttingDown /\ link = "up" => Phases)

\* The commands of a move, one after the other.
LEMMA FourCommands ==
  ASSUME NEW a, NEW b, NEW c, NEW d
  PROVE  <<a, b>> \o <<c, d>> = <<a, b, c, d>>
<1> DEFINE S == {a, b, c, d}
           s == <<a, b>> \o <<c, d>>
<1>1. <<a, b>> \in Seq(S) /\ <<c, d>> \in Seq(S) /\ <<a, b, c, d>> \in Seq(S)
  OBVIOUS
<1>2. s \in Seq(S) /\ Len(s) = 4 /\ s[1] = a /\ s[2] = b /\ s[3] = c /\ s[4] = d
  BY <1>1, ConcatProperties
<1> HIDE DEF s
<1>3. \A i \in 1 .. 4 : s[i] = <<a, b, c, d>>[i]
  BY <1>2
<1>4. Len(<<a, b, c, d>>) = 4
  OBVIOUS
<1>5. s = <<a, b, c, d>>
  BY <1>1, <1>2, <1>3, <1>4, SeqEqual
<1> QED BY <1>5 DEF s

\* The first state is at rest.
LEMMA MotionInit == Init => MotionInv
<1> SUFFICES ASSUME Init PROVE MotionInv
  OBVIOUS
<1>1. /\ job["fsm"] = At("take") /\ job["service"] = At("alive")
      /\ state = "STOPPED" /\ link = "up"
  BY DEF Init, Threads
<1>2. Standing
  BY RestOnBoard DEF Init, Standing, Motors
<1>3. Steady
  BY <1>1, <1>2, TowardsFacts DEF Steady
<1>4. Phases
  BY <1>1, <1>3 DEF Phases, At, Job
<1>5. ServiceInv
  BY <1>1 DEF ServiceInv, At, Job
<1> QED BY <1>4, <1>5 DEF MotionInv

\* A sent command is where the board is.
LEMMA SendEffect ==
  ASSUME TypeInv, Send("fsm")
  PROVE  /\ \E c \in Commands :
              /\ c = Head(job["fsm"].commands)
              /\ \A o \in Outputs :
                   board'[o] = IF o = c.output THEN Byte(c.value) ELSE board[o]
         /\ job'["fsm"].commands = Tail(job["fsm"].commands)
         /\ job'["fsm"].does = job["fsm"].does
         /\ job'["fsm"].goal = job["fsm"].goal
         /\ job'["fsm"].speed = job["fsm"].speed
         /\ UNCHANGED fields
<1>1. PICK c \in Commands : c = Head(job["fsm"].commands)
  BY SendType DEF Threads
<1>2. c.output \in Outputs
  BY DEF Commands, Outputs
<1>3. job["fsm"] \in Jobs
  BY DEF TypeInv, Threads
<1>4. board' = [board EXCEPT ![c.output] = Byte(c.value)]
  BY <1>1 DEF Send
<1>5. \A o \in Outputs :
        board'[o] = IF o = c.output THEN Byte(c.value) ELSE board[o]
  BY <1>2, <1>4 DEF TypeInv, Boards
<1>6. /\ job'["fsm"].commands = Tail(job["fsm"].commands)
      /\ job'["fsm"].does = job["fsm"].does
      /\ job'["fsm"].goal = job["fsm"].goal
      /\ job'["fsm"].speed = job["fsm"].speed
      /\ UNCHANGED fields
  BY <1>3 DEF Send, TypeInv, Jobs, Threads
<1> QED BY <1>1, <1>5, <1>6

\* Each command of a move brings the board one phase further, and switches a
\* relay only while the wheels stand.
LEMMA MoveOn ==
  ASSUME TypeInv, Send("fsm"), NEW d \in Directions, NEW r \in Speeds, NEW l \in Speeds,
         MovePhase(job["fsm"].commands, d, r, l)
  PROVE  /\ MovePhase(job["fsm"].commands, d, r, l)'
         /\ \/ \A o \in Relays : board'[o] = board[o]
            \/ \A o \in Motors : board'[o] = 0
<1>1. PICK c \in Commands :
        /\ c = Head(job["fsm"].commands)
        /\ \A o \in Outputs :
             board'[o] = IF o = c.output THEN Byte(c.value) ELSE board[o]
  BY SendEffect
<1>head. c = Head(job["fsm"].commands)
  BY <1>1
<1>rest. job'["fsm"].commands = Tail(job["fsm"].commands)
  BY SendEffect
<1>2. {"relayRight", "relayLeft", "motorRight", "motorLeft"} \subseteq Outputs
  BY DEF Outputs, Motors, Relays
<1>3. Byte(Right(d)) = Right(d) /\ Byte(Left(d)) = Left(d)
  BY DEF Byte, Right, Left
<1>4. job["fsm"].commands # << >>
  BY DEF Send
<1> DEFINE rr == Command("relayRight", Right(d))
           rl == Command("relayLeft", Left(d))
           ml == Command("motorLeft", l)
           mr == Command("motorRight", r)
<1>5. CASE job["fsm"].commands = <<rr, rl, ml, mr>> /\ Ready(d)
  <2>1. c = rr /\ job'["fsm"].commands = <<rl, ml, mr>>
    BY <1>head, <1>rest, <1>5
  <2>2. /\ board'["relayRight"] = Right(d) /\ board'["relayLeft"] = board["relayLeft"]
        /\ board'["motorLeft"] = board["motorLeft"]
        /\ board'["motorRight"] = board["motorRight"]
    BY <1>1, <1>2, <1>3, <2>1 DEF Command
  <2>3. Ready(d)'
    BY <1>5, <2>2 DEF Ready, Standing, Turned
  <2> QED BY <1>5, <2>1, <2>2, <2>3
          DEF MovePhase, Ready, Standing, Turned, Relays, Motors
<1>6. CASE job["fsm"].commands = <<rl, ml, mr>> /\ Ready(d) /\ board["relayRight"] = Right(d)
  <2>1. c = rl /\ job'["fsm"].commands = <<ml, mr>>
    BY <1>head, <1>rest, <1>6
  <2>2. /\ board'["relayLeft"] = Left(d) /\ board'["relayRight"] = board["relayRight"]
        /\ board'["motorLeft"] = board["motorLeft"]
        /\ board'["motorRight"] = board["motorRight"]
    BY <1>1, <1>2, <1>3, <2>1 DEF Command
  <2>3. Turned(d)'
    BY <1>6, <2>2 DEF Turned
  <2> QED BY <1>6, <2>1, <2>2, <2>3
          DEF MovePhase, Ready, Standing, Turned, Relays, Motors
<1>7. CASE job["fsm"].commands = <<ml, mr>> /\ Turned(d)
  <2>1. c = ml /\ job'["fsm"].commands = <<mr>>
    BY <1>head, <1>rest, <1>7
  <2>2. /\ board'["relayLeft"] = board["relayLeft"]
        /\ board'["relayRight"] = board["relayRight"]
        /\ board'["motorLeft"] = Byte(l)
    BY <1>1, <1>2, <2>1 DEF Command
  <2> QED BY <1>7, <2>1, <2>2 DEF MovePhase, Turned, Relays
<1>8. CASE job["fsm"].commands = <<mr>> /\ Turned(d) /\ board["motorLeft"] = Byte(l)
  <2>1. c = mr /\ job'["fsm"].commands = << >>
    BY <1>head, <1>rest, <1>8
  <2>2. /\ board'["relayLeft"] = board["relayLeft"]
        /\ board'["relayRight"] = board["relayRight"]
        /\ board'["motorLeft"] = board["motorLeft"]
        /\ board'["motorRight"] = Byte(r)
    BY <1>1, <1>2, <2>1 DEF Command
  <2> QED BY <1>8, <2>1, <2>2 DEF MovePhase, Turned, Relays
<1> QED BY <1>4, <1>5, <1>6, <1>7, <1>8 DEF MovePhase

\* The same for a stop, which switches nothing.
LEMMA StopOn ==
  ASSUME TypeInv, Send("fsm"), StopPhase(job["fsm"].commands)
  PROVE  /\ StopPhase(job["fsm"].commands)'
         /\ \A o \in Relays : board'[o] = board[o]
<1> DEFINE ml == Command("motorLeft", 0)
           mr == Command("motorRight", 0)
<1>1. PICK c \in Commands :
        /\ c = Head(job["fsm"].commands)
        /\ \A o \in Outputs :
             board'[o] = IF o = c.output THEN Byte(c.value) ELSE board[o]
  BY SendEffect
<1>head. c = Head(job["fsm"].commands)
  BY <1>1
<1>rest. job'["fsm"].commands = Tail(job["fsm"].commands)
  BY SendEffect
<1>2. {"relayRight", "relayLeft", "motorRight", "motorLeft"} \subseteq Outputs
  BY DEF Outputs, Motors, Relays
<1>3. job["fsm"].commands # << >> /\ Byte(0) = 0
  BY DEF Send, Byte
<1>4. CASE job["fsm"].commands = <<ml, mr>>
  <2>1. c = ml /\ job'["fsm"].commands = <<mr>>
    BY <1>head, <1>rest, <1>4
  <2>2. /\ board'["relayLeft"] = board["relayLeft"]
        /\ board'["relayRight"] = board["relayRight"]
        /\ board'["motorLeft"] = 0
    BY <1>1, <1>2, <1>3, <2>1 DEF Command
  <2> QED BY <2>1, <2>2 DEF StopPhase, Relays
<1>5. CASE job["fsm"].commands = <<mr>> /\ board["motorLeft"] = 0
  <2>1. c = mr /\ job'["fsm"].commands = << >>
    BY <1>head, <1>rest, <1>5
  <2>2. /\ board'["relayLeft"] = board["relayLeft"]
        /\ board'["relayRight"] = board["relayRight"]
        /\ board'["motorLeft"] = 0 /\ board'["motorRight"] = 0
    BY <1>1, <1>2, <1>3, <1>5, <2>1 DEF Command
  <2> QED BY <2>1, <2>2 DEF StopPhase, Standing, Relays
<1> QED BY <1>3, <1>4, <1>5 DEF StopPhase

\* The command to the cutter leaves the wheels alone.
LEMMA CutterOn ==
  ASSUME TypeInv, Send("fsm"), Steady, NEW v \in Speeds,
         job["fsm"].commands = <<Command("cutter", v)>>
  PROVE  /\ job'["fsm"].commands = << >> /\ Steady'
         /\ \A o \in Relays : board'[o] = board[o]
<1>1. /\ Head(job["fsm"].commands) = Command("cutter", v)
      /\ Tail(job["fsm"].commands) = << >>
  OBVIOUS
<1>2. /\ \A o \in Outputs : o # "cutter" => board'[o] = board[o]
      /\ job'["fsm"].commands = << >> /\ UNCHANGED fields
  BY <1>1, SendEffect DEF Command
<1>3. /\ board'["relayLeft"] = board["relayLeft"]
      /\ board'["relayRight"] = board["relayRight"]
      /\ board'["motorLeft"] = board["motorLeft"]
      /\ board'["motorRight"] = board["motorRight"]
  BY <1>2 DEF Outputs, Relays, Motors
<1> QED BY <1>2, <1>3 DEF Steady, Standing, Turned, Relays, fields

\* A command of the handler leads from one phase to the next.
LEMMA SendPhases ==
  ASSUME TypeInv, Phases, Send("fsm")
  PROVE  /\ Phases'
         /\ \/ \A o \in Relays : board'[o] = board[o]
            \/ \A o \in Motors : board'[o] = 0
<1> DEFINE j == job["fsm"]
<1>1. /\ j.commands # << >> /\ job'["fsm"].does = j.does
      /\ job'["fsm"].goal = j.goal /\ job'["fsm"].speed = j.speed
  BY SendEffect DEF Send
<1>2. CASE j.does = "move"
  <2>1. PICK d \in Directions, r \in Speeds, l \in Speeds :
          /\ j.goal = Towards(d) /\ j.speed = Larger(r, l)
          /\ MovePhase(j.commands, d, r, l)
    BY <1>2 DEF Phases, Moving
  <2>2. MovePhase(j.commands, d, r, l)'
    BY <2>1, MoveOn
  <2>3. Moving(j)'
    BY <1>1, <2>1, <2>2 DEF Moving
  <2> QED BY <1>1, <1>2, <2>1, <2>3, MoveOn DEF Phases
<1>3. CASE j.does \in {"stop", "shutdown"}
  BY <1>1, <1>3, StopOn DEF Phases
<1>4. CASE j.does = "cutter"
  BY <1>1, <1>4, CutterOn DEF Phases
<1> QED BY <1>1, <1>2, <1>3, <1>4 DEF Phases

\* What the state means depends on the board and on two fields alone.
LEMMA SteadyKeeps ==
  ASSUME Steady, UNCHANGED <<board, state, currentMovementSpeed>>
  PROVE  Steady'
BY DEF Steady, Standing, Turned

\* Between two events the thread has nothing to send.
LEMMA RoundPhases ==
  ASSUME Steady', job'["fsm"] = NextRound
  PROVE  Phases'
<1>1. \A place : At(place).does = place /\ At(place).commands = << >>
  BY DEF At, Job
<1>2. job'["fsm"] = At("take") \/ job'["fsm"] = At("exited")
  BY DEF NextRound
<1> QED BY <1>1, <1>2 DEF Phases

\* A move begins with all of its four commands.
LEMMA MovePhases ==
  ASSUME NEW d \in Directions, NEW r \in Speeds, NEW l \in Speeds,
         Ready(d)', job'["fsm"] = MoveJob(MoveEvent(r, l, d))
  PROVE  Phases'
<1> DEFINE j == MoveJob(MoveEvent(r, l, d))
<1>1. /\ j.does = "move" /\ j.goal = Towards(d) /\ j.speed = Larger(r, l)
      /\ j.commands = DirectionCommands(d) \o SpeedCommands(r, l)
  BY DEF MoveJob, MoveEvent, Event, Job
<1>2. /\ DirectionCommands(d)
           = <<Command("relayRight", Right(d)), Command("relayLeft", Left(d))>>
      /\ SpeedCommands(r, l) = <<Command("motorLeft", l), Command("motorRight", r)>>
  BY DEF DirectionCommands, SpeedCommands, Right, Left
<1>3. j.commands = <<Command("relayRight", Right(d)), Command("relayLeft", Left(d)),
                     Command("motorLeft", l), Command("motorRight", r)>>
  BY <1>1, <1>2, FourCommands
<1> HIDE DEF j
<1>4. MovePhase(job["fsm"].commands, d, r, l)'
  BY <1>3 DEF MovePhase, j
<1>5. Moving(job["fsm"])'
  BY <1>1, <1>4 DEF Moving, j
<1> QED BY <1>1, <1>5 DEF Phases, j

\* The handlers go through their phases.
LEMMA FsmPhases ==
  ASSUME TypeInv, Phases, link = "up", Fsm
  PROVE  Phases'
<1>1. job \in [Threads -> Jobs] /\ "fsm" \in Threads
  BY DEF TypeInv, Threads
<1>2. \A place : At(place).does = place /\ At(place).commands = << >>
  BY DEF At, Job
<1>3. CASE BeginMove
  <2> DEFINE e == Head(inbox)
             w == Wanted(e)
  <2>1. /\ w.right \in Speeds /\ w.left \in Speeds /\ w.direction \in Directions
        /\ w.direction = e.direction
    BY <1>3, TakenType, WantedType DEF BeginMove, Taking, TypeInv, BusInv
  <2>2. Steady /\ Accepts(state, w.direction)
    BY <1>3, <2>1 DEF BeginMove, Taking, Phases
  <2>3. Ready(w.direction)
    BY <2>1, <2>2 DEF Accepts, Steady, Ready
  <2>4. MoveJob(w) = MoveJob(MoveEvent(w.right, w.left, w.direction))
    BY DEF MoveJob, MoveEvent, Event
  <2>5. job'["fsm"] = MoveJob(w) /\ UNCHANGED <<board, fields>>
    BY <1>1, <1>3 DEF BeginMove, Begins
  <2>6. PICK d \in Directions, r \in Speeds, l \in Speeds :
          Ready(d) /\ job'["fsm"] = MoveJob(MoveEvent(r, l, d))
    BY <2>1, <2>3, <2>4, <2>5
  <2>7. Ready(d)'
    BY <2>5, <2>6 DEF Ready, Standing, Turned
  <2> QED BY <2>6, <2>7, MovePhases
<1>4. CASE PostponeMove
  <2>1. job'["fsm"] = NextRound /\ UNCHANGED <<board, fields>> /\ Steady
    BY <1>1, <1>4 DEF PostponeMove, Taking, Phases
  <2>2. Steady'
    BY <2>1, SteadyKeeps DEF fields
  <2> QED BY <2>1, <2>2, RoundPhases
<1>5. CASE BeginStop
  <2>1. job'["fsm"] = StopJob
    BY <1>1, <1>5 DEF BeginStop, Begins
  <2>2. StopJob.does = "stop" /\ StopPhase(StopJob.commands)'
    BY DEF StopJob, Job, SpeedCommands, StopPhase
  <2> QED BY <2>1, <2>2 DEF Phases, StopPhase
<1>6. CASE BeginCutter
  <2>1. PICK v \in Speeds : job'["fsm"] = CutterJob(v)
    BY <1>1, <1>6, SpeedFacts
    DEF BeginCutter, Begins, CutterFaster, CutterSlower, TypeInv, FieldsInv
  <2>2. UNCHANGED <<board, fields>> /\ Steady
    BY <1>6 DEF BeginCutter, Begins, Taking, Phases
  <2>3. Steady'
    BY <2>2, SteadyKeeps DEF fields
  <2>4. CutterJob(v).does = "cutter" /\ CutterJob(v).commands = <<Command("cutter", v)>>
    BY DEF CutterJob, Job
  <2> QED BY <2>1, <2>3, <2>4 DEF Phases
<1>7. CASE Send("fsm")
  BY <1>7, SendPhases
<1>8. CASE Throw("fsm")
  <2>1. job'["fsm"] \in {ShutdownJob, At("unsubscribe")}
    BY <1>1, <1>8 DEF Throw
  <2>2. /\ ShutdownJob.does = "shutdown"
        /\ ShutdownJob.commands = <<Command("motorLeft", 0), Command("motorRight", 0)>>
    BY DEF ShutdownJob, StopJob, Job, SpeedCommands
  <2> QED BY <1>2, <2>1, <2>2 DEF Phases, StopPhase
<1>9. CASE FinishMove
  <2>1. PICK d \in Directions, r \in Speeds, l \in Speeds :
          /\ job["fsm"].goal = Towards(d) /\ job["fsm"].speed = Larger(r, l)
          /\ MovePhase(job["fsm"].commands, d, r, l)
    BY <1>9 DEF FinishMove, Sent, Phases, Moving
  <2>2. /\ Turned(d) /\ board["motorLeft"] = Byte(l) /\ board["motorRight"] = Byte(r)
    BY <1>9, <2>1 DEF FinishMove, Sent, MovePhase
  <2>3. Byte(Larger(r, l)) = Larger(Byte(l), Byte(r))
    BY SpeedFacts DEF Byte, Larger
  <2>4. /\ state' = Towards(d) /\ currentMovementSpeed' = Larger(r, l)
        /\ job'["fsm"] = NextRound /\ UNCHANGED board
    BY <1>1, <1>9, <2>1 DEF FinishMove
  <2>5. Steady'
    BY <2>2, <2>3, <2>4, TowardsFacts DEF Steady, Turned
  <2> QED BY <2>4, <2>5, RoundPhases
<1>10. CASE FinishStop("fsm")
  <2>1. Standing /\ state' = "STOPPED" /\ UNCHANGED board
    BY <1>10 DEF FinishStop, Sent, Phases, StopPhase
  <2>2. Steady'
    BY <2>1, TowardsFacts DEF Steady, Standing
  <2>3. job'["fsm"] \in {NextRound, At("unsubscribe")}
    BY <1>1, <1>10 DEF FinishStop
  <2> QED BY <1>2, <2>2, <2>3, RoundPhases DEF Phases
<1>11. CASE FinishCutter
  <2>1. job'["fsm"] = NextRound /\ Steady /\ UNCHANGED <<board, state, currentMovementSpeed>>
    BY <1>1, <1>11 DEF FinishCutter, Sent, Phases
  <2>2. Steady'
    BY <2>1, SteadyKeeps
  <2> QED BY <2>1, <2>2, RoundPhases
<1>12. CASE Unsubscribe("fsm")
  <2>1. job'["fsm"] = At("exited")
    BY <1>1, <1>12 DEF Unsubscribe
  <2> QED BY <1>2, <2>1 DEF Phases
<1> QED BY <1>3, <1>4, <1>5, <1>6, <1>7, <1>8, <1>9, <1>10, <1>11, <1>12 DEF Fsm

\* Every step keeps the phases, as long as the service lives and the cable is up.
LEMMA MotionStep == TypeInv /\ MotionInv /\ [Next]_vars => MotionInv'
<1> SUFFICES ASSUME TypeInv, MotionInv, [Next]_vars PROVE MotionInv'
  OBVIOUS
<1>1. job \in [Threads -> Jobs] /\ Threads = {"fsm", "service"} /\ failures \in Nat
  BY MotorAssumption DEF TypeInv, BoundsInv, Threads
<1>2. CASE Service
  <2>1. job["service"].does # "alive"
    BY <1>2
    DEF Service, Send, Throw, FinishStop, Unsubscribe, Close, Sent, MotionInv, ServiceInv
  <2>2. job'["service"].does
          \in {job["service"].does, "shutdown", "unsubscribe", "close", "gone",
              "take", "exited"}
    <3>1. /\ \A place : At(place).does = place
          /\ ShutdownJob.does = "shutdown" /\ NextRound.does \in {"take", "exited"}
      BY DEF At, Job, ShutdownJob, StopJob, NextRound
    <3>2. CASE Send("service")
      <4>1. job["service"] \in Jobs
        BY <1>1
      <4> QED BY <1>1, <3>2, <4>1 DEF Send, Jobs
    <3>3. CASE Throw("service")
      BY <1>1, <3>1, <3>3 DEF Throw
    <3>4. CASE FinishStop("service")
      BY <1>1, <3>1, <3>4 DEF FinishStop
    <3>5. CASE Unsubscribe("service") \/ Close
      BY <1>1, <3>1, <3>5 DEF Unsubscribe, Close
    <3> QED BY <1>2, <3>2, <3>3, <3>4, <3>5 DEF Service
  <2>3. job'["service"].does # "alive"
    BY <2>1, <2>2
  <2> QED BY <2>3 DEF MotionInv, ServiceInv, ShuttingDown
<1>3. CASE BeginShutdown
  <2>1. job'["service"].does = "shutdown"
    BY <1>1, <1>3 DEF BeginShutdown, ShutdownJob, StopJob, Job
  <2> QED BY <2>1 DEF MotionInv, ServiceInv, ShuttingDown
<1>4. CASE Fsm
  <2>1. job'["service"] = job["service"]
    BY <1>1, <1>4
    DEF Fsm, BeginMove, PostponeMove, BeginStop, BeginCutter, Begins, Send, Throw,
        FinishMove, FinishStop, FinishCutter, Unsubscribe
  <2>2. UNCHANGED link
    BY <1>4
    DEF Fsm, BeginMove, PostponeMove, BeginStop, BeginCutter, Begins, Send, Throw,
        FinishMove, FinishStop, FinishCutter, Unsubscribe
  <2>3. failures' = 0 => failures = 0
    BY <1>1, <1>4
    DEF Fsm, BeginMove, PostponeMove, BeginStop, BeginCutter, Begins, Send, Throw,
        Failing, FinishMove, FinishStop, FinishCutter, Unsubscribe, bounds
  <2>4. ServiceInv'
    BY <2>1, <2>2, <2>3 DEF MotionInv, ServiceInv, ShuttingDown
  <2>5. ~ShuttingDown' /\ link' = "up" => Phases'
    BY <1>4, <2>1, <2>2, FsmPhases DEF MotionInv, ShuttingDown
  <2> QED BY <2>4, <2>5 DEF MotionInv
<1>5. CASE Fire \/ Expire \/ Reader \/ LoseAnswer \/ UNCHANGED vars
  <2>1. UNCHANGED <<job, board, fields, link>> /\ (failures' = 0 => failures = 0)
    BY <1>1, <1>5
    DEF Fire, Expire, Reader, ReaderRequest, ReaderEnter, ReaderReceive, ReaderWake,
        ReaderThrow, Failing, LoseAnswer, vars, bounds
  <2>2. Phases => Phases'
    BY <2>1, SteadyKeeps DEF Phases, Moving, MovePhase, StopPhase, Standing, Turned, Ready, fields
  <2> QED BY <2>1, <2>2 DEF MotionInv, ServiceInv, ShuttingDown
<1>6. CASE Unplug
  BY <1>1, <1>6 DEF Unplug, MotionInv, ServiceInv, ShuttingDown
<1>7. CASE ResetOutputs
  BY <1>7 DEF ResetOutputs, MotionInv, ServiceInv, ShuttingDown, bounds
<1> QED BY <1>2, <1>3, <1>4, <1>5, <1>6, <1>7 DEF Next

\* Between two events, and while nothing has failed, the state is what the
\* wheels do, for every order of requests and postponed moves.
THEOREM MotionCorrect == Spec => []StateIsTheMotion
<1>1. TypeInv /\ MotionInv => StateIsTheMotion
  <2> SUFFICES ASSUME TypeInv, MotionInv,
                      job["fsm"].does = "take", failures = 0, ~ShuttingDown
               PROVE  IF state = "STOPPED" THEN WheelsRest
                      ELSE /\ \A d \in Directions : state = Towards(d) =>
                                \A i \in 1 .. 2 : LET c == DirectionCommands(d)[i]
                                                  IN board[c.output] = c.value
                           /\ Byte(currentMovementSpeed)
                                = Larger(board["motorLeft"], board["motorRight"])
    BY DEF StateIsTheMotion
  <2>1. Steady
    BY DEF MotionInv, ServiceInv, Phases
  <2>2. CASE state = "STOPPED"
    BY <2>1, <2>2 DEF Steady, Standing, WheelsRest, Motors
  <2>3. ASSUME NEW d \in Directions, state = Towards(d)
        PROVE  /\ Turned(d)
               /\ Byte(currentMovementSpeed)
                    = Larger(board["motorLeft"], board["motorRight"])
    BY <2>1, <2>3 DEF Steady
  <2>4. ASSUME NEW d \in Directions, Turned(d), NEW i \in 1 .. 2
        PROVE  LET c == DirectionCommands(d)[i] IN board[c.output] = c.value
    <3>1. /\ DirectionCommands(d)[1] = Command("relayRight", Right(d))
          /\ DirectionCommands(d)[2] = Command("relayLeft", Left(d))
      BY DEF DirectionCommands, Right, Left
    <3>2. \A o, v : Command(o, v).output = o /\ Command(o, v).value = v
      BY DEF Command
    <3> QED BY <2>4, <3>1, <3>2 DEF Turned
  <2>5. CASE state # "STOPPED"
    <3>1. \E d \in Directions : state = Towards(d)
      BY <2>5 DEF TypeInv, FieldsInv, MotorStates
    <3> QED BY <2>3, <2>4, <2>5, <3>1
  <2> QED BY <2>2, <2>5
<1> QED BY <1>1, InitTypes, TypeStep, MotionInit, MotionStep, PTL DEF Spec

\* No relay is switched while a motor has power, through any number of events,
\* failures and commands that throw, until another thread shuts the motors down.
THEOREM RelaySafety == Spec => SwitchedAtRest
<1>1. TypeInv /\ MotionInv /\ [Next]_vars =>
        [(\E o \in Relays : board'[o] # board[o]) =>
           ShuttingDown \/ \A o \in Motors : board'[o] = 0]_vars
  <2> SUFFICES ASSUME TypeInv, MotionInv, Next, ~ShuttingDown,
                      NEW o \in Relays, board'[o] # board[o]
               PROVE  \A q \in Motors : board'[q] = 0
    OBVIOUS
  <2>1. CASE Send("fsm")
    BY <2>1, SendPhases DEF MotionInv, Send
  <2>2. CASE ResetOutputs
    BY <2>2, RestOnBoard DEF ResetOutputs
  <2>3. ~Send("service")
    BY DEF Send, MotionInv, ServiceInv, ShuttingDown
  <2>4. ~Send("fsm") /\ ~ResetOutputs => UNCHANGED board
    BY <2>3
    DEF Next, Fire, Expire, Fsm, Service, BeginMove, PostponeMove, BeginStop, BeginCutter,
        Begins, Throw, FinishMove, FinishStop, FinishCutter, Unsubscribe, Close,
        BeginShutdown, Reader, ReaderRequest, ReaderEnter, ReaderReceive, ReaderWake,
        ReaderThrow, LoseAnswer, Unplug
  <2> QED BY <2>1, <2>2, <2>4
<1> QED BY <1>1, InitTypes, TypeStep, MotionInit, MotionStep, PTL
        DEF Spec, SwitchedAtRest
=============================================================================
