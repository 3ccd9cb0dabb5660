-------------------------- MODULE ControllerProofs --------------------------
(***************************************************************************)
(* Theorems about Controller, for all defaults and values of the items,    *)
(* all contents of the configuration file, both transports and any number  *)
(* of descriptors and restarts.                                            *)
(*                                                                         *)
(* What a phase runs is what the modules have registered, so the invariant *)
(* says it for every number of modules that main has initialized, and who  *)
(* has been called for every place main may be at.  The file is read by a  *)
(* fold over its lines, whatever is in it: a function that is defined by   *)
(* recursion over sets of places.  That there is one is proved by          *)
(* induction, and induction from the natural numbers being well-founded.   *)
(***************************************************************************)
EXTENDS Controller, SequenceTheorems, WellFoundedInduction, TLAPS

-----------------------------------------------------------------------------
\* Sequences, and what the fold of config_load makes of one.
Fold(s, b) == FoldLeft(LoadLine, b, s)

\* Of natural numbers one is the least.
LEMMA LeastOne ==
  ASSUME NEW T, T \subseteq Nat, T # {}
  PROVE  \E x \in T : \A y \in T : x <= y
<1>1. PICK x \in T : \A y \in T : ~ (<<y, x>> \in OpToRel(<, Nat))
  BY NatLessThanWellFounded, WFMin
<1>2. ASSUME NEW y \in T PROVE x <= y
  <2>1. ~ (y < x)
    BY <1>1 DEF OpToRel
  <2> QED BY <2>1
<1> QED BY <1>2

\* A set of natural numbers with 0 and every successor has all of them.
LEMMA NatSet ==
  ASSUME NEW T, 0 \in T, \A n \in Nat : n \in T => n + 1 \in T
  PROVE  Nat \subseteq T
<1> SUFFICES ASSUME Nat \ T # {} PROVE FALSE
  OBVIOUS
<1>1. PICK x \in Nat \ T : \A y \in Nat \ T : x <= y
  BY LeastOne
<1>2. x # 0 /\ x - 1 \in Nat /\ x - 1 + 1 = x
  OBVIOUS
<1>3. x - 1 \in T
  BY <1>1, <1>2
<1> QED BY <1>2, <1>3

\* FoldLeft is a function of the set of places it has still to fold, with b for
\* none, and takes the last place last.
StepOf(g, t, s, b) ==
  IF t = {} THEN b ELSE LoadLine(g[t \ {Max(t)}], s[Max(t)])
IsFold(g, k, s, b) ==
  g = [t \in SUBSET (1..k) |-> StepOf(g, t, s, b)]

\* The last place of those up to k, when it is one of them.
LEMMA MaxIs ==
  ASSUME NEW k \in Nat, NEW t \in SUBSET (1..k), k \in t
  PROVE  Max(t) = k
<1>1. \A x \in t : x \in Int /\ x <= k
  OBVIOUS
<1>2. \A x \in t : (\A y \in t : x >= y) <=> x = k
  BY <1>1
<1> QED BY <1>2 DEF Max

\* There is such a function.
LEMMA FoldExists ==
  ASSUME NEW s, NEW b, NEW k \in Nat
  PROVE  \E g : IsFold(g, k, s, b)
<1> DEFINE T == {n \in Nat : \E g : IsFold(g, n, s, b)}
<1>1. 0 \in T
  <2> DEFINE g == [t \in SUBSET (1..0) |-> b]
  <2>1. IsFold(g, 0, s, b)
    <3>1. \A t \in SUBSET (1..0) : t = {}
      OBVIOUS
    <3> QED BY <3>1 DEF IsFold, StepOf
  <2> QED BY <2>1
<1>2. ASSUME NEW n \in Nat, n \in T PROVE n + 1 \in T
  <2>1. PICK g : IsFold(g, n, s, b)
    BY <1>2
  <2> DEFINE m == n + 1
             h == [t \in SUBSET (1..m) |->
                     IF m \in t THEN LoadLine(g[t \ {m}], s[m]) ELSE g[t]]
  <2>2. m \in Nat
    OBVIOUS
  <2>3. ASSUME NEW t \in SUBSET (1..m) PROVE h[t] = StepOf(h, t, s, b)
    <3>1. CASE m \in t
      <4>1. Max(t) = m /\ t # {}
        BY <2>2, <3>1, MaxIs
      <4>2. t \ {m} \in SUBSET (1..m) /\ m \notin t \ {m}
        OBVIOUS
      <4>3. h[t \ {m}] = g[t \ {m}]
        BY <4>2, Zenon
      <4>4. h[t] = LoadLine(g[t \ {m}], s[m])
        BY <3>1, Zenon
      <4> QED BY <4>1, <4>3, <4>4, Zenon DEF StepOf
    <3>2. CASE m \notin t
      <4>0. 1..m = (1..n) \cup {m}
        OBVIOUS
      <4>1. t \in SUBSET (1..n) /\ t \ {Max(t)} \in SUBSET (1..m) /\ m \notin t \ {Max(t)}
        BY <3>2, <4>0, Zenon
      <4>2. h[t] = g[t] /\ h[t \ {Max(t)}] = g[t \ {Max(t)}]
        BY <3>2, <4>1, Zenon
      <4>3. g[t] = StepOf(g, t, s, b)
        BY <2>1, <4>1, Zenon DEF IsFold
      <4> QED BY <4>2, <4>3, Zenon DEF StepOf
    <3> QED BY <3>1, <3>2
  <2>4. IsFold(h, m, s, b)
    <3>1. h = [t \in SUBSET (1..m) |-> h[t]]
      OBVIOUS
    <3> HIDE DEF h
    <3> QED BY <2>3, <3>1 DEF IsFold
  <2> QED BY <2>2, <2>4
<1>3. Nat \subseteq T
  <2> HIDE DEF T
  <2> QED BY <1>1, <1>2, NatSet
<1> QED BY <1>3

\* It is what FoldLeft chooses and applies to all places.
LEMMA FoldIs ==
  ASSUME NEW S, NEW s \in Seq(S), NEW b
  PROVE  \E g : IsFold(g, Len(s), s, b) /\ Fold(s, b) = g[1..Len(s)]
<1> DEFINE k == Len(s)
<1>1. k \in Nat /\ DOMAIN s = 1..k
  OBVIOUS
<1>2. \E g : IsFold(g, k, s, b)
  BY <1>1, FoldExists
<1> DEFINE it == CHOOSE g : IsFold(g, k, s, b)
<1>3. IsFold(it, k, s, b)
  BY <1>2, Zenon
<1>4. Fold(s, b) = it[1..k]
  BY <1>1, Zenon DEF Fold, FoldLeft, MapThenFoldSet, IsFold, StepOf
<1> QED BY <1>3, <1>4

\* Without an element the fold is where it starts.
LEMMA IsFoldStart ==
  ASSUME NEW s, NEW b, NEW k, NEW g, IsFold(g, k, s, b)
  PROVE  g[{}] = b
BY Zenon DEF IsFold, StepOf

\* One more element is one more step.
LEMMA IsFoldStep ==
  ASSUME NEW s, NEW b, NEW k \in Nat, NEW g, IsFold(g, k, s, b)
  PROVE  \A i \in Nat : i < k => g[1..(i + 1)] = LoadLine(g[1..i], s[i + 1])
<1> SUFFICES ASSUME NEW i \in Nat, i < k PROVE g[1..(i + 1)] = LoadLine(g[1..i], s[i + 1])
  OBVIOUS
<1>2. g[1..(i + 1)] = LoadLine(g[1..i], s[i + 1])
  <2> DEFINE m == i + 1
  <2>1. m \in Nat /\ 1..m \in SUBSET (1..m) /\ m \in 1..m /\ m \in 1..k
    OBVIOUS
  <2>2. Max(1..m) = m
    <3> HIDE DEF m
    <3> QED BY <2>1, MaxIs
  <2>3. (1..m) \ {m} = 1..i
    OBVIOUS
  <2>4. 1..m \in SUBSET (1..k)
    BY <2>1
  <2>5. 1..m # {}
    BY <2>1
  <2>6. g[1..m] = StepOf(g, 1..m, s, b)
    BY <2>4, Zenon DEF IsFold
  <2>7. g[1..m] = LoadLine(g[(1..m) \ {m}], s[m])
    BY <2>2, <2>5, <2>6, Zenon DEF StepOf
  <2> QED BY <2>3, <2>7, Zenon
<1> QED BY <1>2

\* The fold of the first elements is the same, whatever comes after them.
LEMMA SamePrefix ==
  ASSUME NEW s, NEW r, NEW b, NEW j \in Nat, NEW k \in Nat, j <= k,
         \A i \in 1..j : s[i] = r[i],
         NEW g, IsFold(g, k, s, b), NEW h, IsFold(h, j, r, b)
  PROVE  g[1..j] = h[1..j]
<1> DEFINE T == {i \in Nat : i <= j => g[1..i] = h[1..i]}
<1>1. 0 \in T
  <2>1. g[{}] = b /\ h[{}] = b
    BY IsFoldStart, Zenon
  <2>2. 1..0 = {}
    OBVIOUS
  <2> QED BY <2>1, <2>2
<1>2. ASSUME NEW i \in Nat, i \in T PROVE i + 1 \in T
  <2> SUFFICES ASSUME i + 1 <= j PROVE g[1..(i + 1)] = h[1..(i + 1)]
    OBVIOUS
  <2>1. i < j /\ i < k /\ i + 1 \in 1..j /\ i <= j
    OBVIOUS
  <2>2. g[1..(i + 1)] = LoadLine(g[1..i], s[i + 1])
    <3>1. \A e \in Nat : e < k => g[1..(e + 1)] = LoadLine(g[1..e], s[e + 1])
      BY IsFoldStep
    <3> QED BY <2>1, <3>1
  <2>3. h[1..(i + 1)] = LoadLine(h[1..i], r[i + 1])
    <3>1. \A e \in Nat : e < j => h[1..(e + 1)] = LoadLine(h[1..e], r[e + 1])
      BY IsFoldStep
    <3> QED BY <2>1, <3>1
  <2>4. g[1..i] = h[1..i] /\ s[i + 1] = r[i + 1]
    BY <1>2, <2>1
  <2> QED BY <2>2, <2>3, <2>4, Zenon
<1>3. Nat \subseteq T
  <2> HIDE DEF T
  <2> QED BY <1>1, <1>2, NatSet
<1> QED BY <1>3

\* The fold of the empty sequence is where it starts.
LEMMA FoldEmpty ==
  ASSUME NEW S, NEW s \in Seq(S), Len(s) = 0, NEW b
  PROVE  Fold(s, b) = b
<1>1. PICK g : IsFold(g, 0, s, b) /\ Fold(s, b) = g[1..0]
  BY FoldIs
<1>2. g[{}] = b
  BY <1>1, IsFoldStart, Zenon
<1>3. 1..0 = {}
  OBVIOUS
<1> QED BY <1>1, <1>2, <1>3

\* The last element comes last: FoldLeft does what a loop over the sequence does.
LEMMA FoldAppend ==
  ASSUME NEW S, NEW s \in Seq(S), NEW x \in S, NEW b
  PROVE  Fold(Append(s, x), b) = LoadLine(Fold(s, b), x)
<1> DEFINE a == Append(s, x)
           k == Len(s)
<1>1. a \in Seq(S) /\ Len(a) = k + 1 /\ k \in Nat /\ k + 1 \in Nat
  OBVIOUS
<1>2. a[k + 1] = x /\ \A i \in 1..k : a[i] = s[i]
  OBVIOUS
<1> HIDE DEF a
<1>3. PICK g : IsFold(g, k + 1, a, b) /\ Fold(a, b) = g[1..(k + 1)]
  BY <1>1, FoldIs
<1>4. PICK h : IsFold(h, k, s, b) /\ Fold(s, b) = h[1..k]
  BY FoldIs
<1>5. g[1..(k + 1)] = LoadLine(g[1..k], a[k + 1])
  <2>1. k < k + 1
    BY <1>1
  <2> HIDE DEF k
  <2> QED BY <1>1, <1>3, <2>1, IsFoldStep
<1>6. g[1..k] = h[1..k]
  <2>1. k <= k + 1
    BY <1>1
  <2> HIDE DEF k
  <2> QED BY <1>1, <1>2, <1>3, <1>4, <2>1, SamePrefix
<1> QED BY <1>2, <1>3, <1>4, <1>5, <1>6, Zenon DEF a

\* A sequence that is not empty is another one with an element appended.
LEMMA LastOne ==
  ASSUME NEW S, NEW s \in Seq(S), Len(s) # 0
  PROVE  \E r \in Seq(S), x \in S : Len(s) = Len(r) + 1 /\ s = Append(r, x)
<1> DEFINE n == Len(s) - 1
           r == SubSeq(s, 1, n)
<1>1. n \in Nat /\ Len(s) = n + 1
  OBVIOUS
<1> HIDE DEF n
<1>2. r \in Seq(S) /\ Len(r) = n /\ s[n + 1] \in S
  BY <1>1
<1>3. s = Append(r, s[n + 1])
  BY <1>1
<1> HIDE DEF r
<1> QED BY <1>1, <1>2, <1>3

\* Sequences are proved about like natural numbers: what holds for the empty one
\* and is kept by Append holds for all of them.
LEMMA SeqInduction ==
  ASSUME NEW S, NEW T,
         \A s \in Seq(S) : Len(s) = 0 => s \in T,
         \A s \in Seq(S), x \in S : s \in T => Append(s, x) \in T
  PROVE  Seq(S) \subseteq T
<1> DEFINE N == {n \in Nat : \A s \in Seq(S) : Len(s) = n => s \in T}
<1>1. 0 \in N
  OBVIOUS
<1>2. ASSUME NEW n \in Nat, n \in N PROVE n + 1 \in N
  <2> SUFFICES ASSUME NEW s \in Seq(S), Len(s) = n + 1 PROVE s \in T
    OBVIOUS
  <2>1. Len(s) # 0
    OBVIOUS
  <2>2. PICK r \in Seq(S), x \in S : Len(s) = Len(r) + 1 /\ s = Append(r, x)
    BY <2>1, LastOne
  <2>3. Len(r) = n
    BY <2>2
  <2>4. r \in T
    BY <1>2, <2>3
  <2> QED BY <2>2, <2>4
<1>3. Nat \subseteq N
  <2> HIDE DEF N
  <2> QED BY <1>1, <1>2, NatSet
<1> SUFFICES ASSUME NEW s \in Seq(S) PROVE s \in T
  OBVIOUS
<1>4. Len(s) \in Nat
  OBVIOUS
<1> QED BY <1>3, <1>4

\* What every element keeps, the fold keeps.
LEMMA FoldKeeps ==
  ASSUME NEW S, NEW V, NEW b \in V,
         \A v \in V, x \in S : LoadLine(v, x) \in V,
         NEW s \in Seq(S)
  PROVE  Fold(s, b) \in V
<1> DEFINE T == {q \in Seq(S) : Fold(q, b) \in V}
<1>1. ASSUME NEW q \in Seq(S), Len(q) = 0 PROVE q \in T
  BY <1>1, FoldEmpty
<1>2. ASSUME NEW q \in Seq(S), NEW x \in S, q \in T PROVE Append(q, x) \in T
  <2>1. Append(q, x) \in Seq(S)
    OBVIOUS
  <2>2. Fold(Append(q, x), b) = LoadLine(Fold(q, b), x)
    BY FoldAppend
  <2>3. Fold(q, b) \in V
    BY <1>2
  <2> QED BY <2>1, <2>2, <2>3
<1> HIDE DEF T
<1>3. Seq(S) \subseteq T
  BY <1>1, <1>2, SeqInduction
<1> QED BY <1>3 DEF T

\* The parts of a sequence, joined.
LEMMA Joined ==
  ASSUME NEW S, NEW s \in Seq(S), NEW i \in 0..Len(s), NEW j \in i..Len(s)
  PROVE  SubSeq(s, 1, i) \o SubSeq(s, i + 1, j) = SubSeq(s, 1, j)
<1> DEFINE t == SubSeq(s, 1, i) \o SubSeq(s, i + 1, j)
<1>1. SubSeq(s, 1, i) \in Seq(S) /\ Len(SubSeq(s, 1, i)) = i
      /\ SubSeq(s, i + 1, j) \in Seq(S) /\ Len(SubSeq(s, i + 1, j)) = j - i
      /\ SubSeq(s, 1, j) \in Seq(S) /\ Len(SubSeq(s, 1, j)) = j
  OBVIOUS
<1>2. t \in Seq(S) /\ Len(t) = j
  BY <1>1, ConcatProperties
<1>3. ASSUME NEW k \in 1..j PROVE t[k] = SubSeq(s, 1, j)[k]
  <2>1. SubSeq(s, 1, j)[k] = s[k]
    OBVIOUS
  <2>2. t[k] = IF k <= i THEN SubSeq(s, 1, i)[k] ELSE SubSeq(s, i + 1, j)[k - i]
    BY <1>1, ConcatProperties
  <2>3. CASE k <= i
    BY <2>1, <2>2, <2>3
  <2>4. CASE k > i
    <3>1. SubSeq(s, i + 1, j)[k - i] = s[k]
      BY <2>4
    <3> QED BY <2>1, <2>2, <2>4, <3>1
  <2> QED BY <2>3, <2>4
<1> HIDE DEF t
<1>4. t = SubSeq(s, 1, j)
  BY <1>1, <1>2, <1>3, SeqEqual
<1> QED BY <1>4 DEF t

-----------------------------------------------------------------------------
\* What each phase runs when all modules have registered.
Registered ==
  [REGISTER_COMMANDS |-> <<"config_register_commands">>,
   REGISTER_VALUES |-> <<"sensor_range_register_values">>,
   LOAD_DEFAULT_VAULES |-> <<"sensor_range_load_default_vaules">>,
   LOAD_CONFIG |-> <<"config_load">>,
   START |-> <<"local_cli_start", "io_start", "io_transport_start",
               "communicator_start", "dcn_start">>,
   START_SENSORS |-> <<"sensors_start">>,
   MOW |-> <<"mow_mow">>,
   SAVE_CONFIG |-> <<"config_save">>]

\* The last n elements of a sequence.
Rest(s, n) == SubSeq(s, Len(s) - n + 1, Len(s))

\* What phase p runs when main has initialized n modules: the callbacks of START
\* come from four of them.
StartsAfter(n) ==
  CASE n < 2 -> 0 [] n \in 2..3 -> 1 [] n = 4 -> 3 [] n \in 5..6 -> 4 [] n > 6 -> 5

Registrar ==
  [REGISTER_COMMANDS |-> 3, LOAD_CONFIG |-> 3, SAVE_CONFIG |-> 3,
   REGISTER_VALUES |-> 6, LOAD_DEFAULT_VAULES |-> 6, START_SENSORS |-> 6, MOW |-> 8]

RegisteredAfter(n, p) ==
  IF p = "START" THEN SubSeq(Registered.START, 1, StartsAfter(n))
  ELSE IF n < Registrar[p] THEN <<>> ELSE Registered[p]

\* Main calls f in the phase with this number, as the callback with this number.
PhaseNo ==
  [config_register_commands |-> 1, sensor_range_register_values |-> 2,
   sensor_range_load_default_vaules |-> 3, config_load |-> 4,
   local_cli_start |-> 5, io_start |-> 5, io_transport_start |-> 5,
   communicator_start |-> 5, dcn_start |-> 5, sensors_start |-> 6, mow_mow |-> 7]
CallNo ==
  [config_register_commands |-> 1, sensor_range_register_values |-> 1,
   sensor_range_load_default_vaules |-> 1, config_load |-> 1,
   local_cli_start |-> 1, io_start |-> 2, io_transport_start |-> 3,
   communicator_start |-> 4, dcn_start |-> 5, sensors_start |-> 1, mow_mow |-> 1]
CalledByMain == DOMAIN PhaseNo

\* What main runs in its phase p.
RunIn(p) == Registered[MainPhases[p]]

\* The phase main is in, or comes to next, and the callbacks that have returned.
CurrentPhase == 8 - Len(phases)
Returned == Len(RunIn(CurrentPhase)) - Len(calls)

\* Main has passed the place where it calls f.
Passed(f) ==
  \/ PhaseNo[f] < CurrentPhase
  \/ mutex = "main" /\ PhaseNo[f] = CurrentPhase /\ CallNo[f] <= Returned

-----------------------------------------------------------------------------
\* Main has the modules to initialize that come last in its order, and the phases
\* have the callbacks of the others.
StartupInv ==
  /\ Len(todo) \in 0..8 /\ todo = Rest(InitOrder, Len(todo))
  /\ registered = [p \in Phases |-> RegisteredAfter(8 - Len(todo), p)]
  /\ todo # <<>> => Len(phases) = 7 /\ mutex = "none"

\* What is left of a phase while its callbacks run.
Running(p) == Len(calls) \in 0..Len(Registered[p]) /\ calls = Rest(Registered[p], Len(calls))

\* Main has the phases to run that come last in its order; the callbacks to call
\* are the last ones of the phase that the mutex is held for.
RunnerInv ==
  /\ Len(phases) \in 0..7 /\ phases = Rest(MainPhases, Len(phases))
  /\ mutex = "none" => calls = <<>>
  /\ mutex = "main" => phases # <<>> /\ Running(Head(phases))
  /\ mutex = "cli" => \E sub \in DOMAIN PhaseOf : Running(PhaseOf[sub])
  /\ mutex = "cli" <=> cli = "phase"

\* What main calls has returned when main is past it: the command line comes too
\* late to be the first to call it.
DoneInv == \A f \in CalledByMain : f \in done <=> Passed(f)

\* The command line is there after it has been started.
LineInv ==
  /\ cli # "off" => "local_cli_start" \in done
  /\ "config_register_commands" \in done => "config" \in commands
  /\ cli = "reading" => io # "closed" /\ transport = "net"

\* So are the threads.
ThreadsInv ==
  /\ "communicator" \in threads => "communicator_start" \in done
  /\ "sensors" \in threads => "sensors_start" \in done
  /\ "mow" \in threads => "mow_mow" \in done

\* Until there is a command line the items are what the file makes of the
\* defaults, and config_load has a descriptor.
ItemsInv ==
  /\ "sensor_range_register_values" \in done => items \in [Items -> Int]
  /\ cli = "off" =>
       IF "config_load" \in done THEN items = Loaded(Default, file)
       ELSE /\ leaked = 0
            /\ "sensor_range_load_default_vaules" \in done => items = Default

\* During a save nothing changes the items.
SaveInv ==
  written # NotSaving =>
    /\ mutex = "cli" /\ calls = <<"config_save">>
    /\ torn /\ saved = items

\* What the next start loads.
Stored(contents) ==
  IF torn THEN \E k \in 0..Len(Names) : Loaded(Default, contents) = Prefix(k)
  ELSE Loaded(Default, contents) = saved

\* TypeOK, with the two flags apart.
FlagTypes == alive \in BOOLEAN /\ torn \in BOOLEAN
StartTypes ==
  /\ todo \in Seq(ToSet(InitOrder))
  /\ phases \in Seq(ToSet(MainPhases))
  /\ registered \in [Phases -> Seq(Callbacks)]
  /\ commands \subseteq Commands
  /\ mutex \in {"none", "main", "cli"}
  /\ calls \in Seq(Callbacks)
  /\ done \subseteq Callbacks
LineTypes ==
  /\ threads \subseteq Workers
  /\ cli \in {"off", "prompt", "help", "reading", "phase"} \cup DOMAIN PhaseOf
  /\ input \in {"open", "help", "closed"}
  /\ io \in {"closed", "socket", "open"}
ConfigTypes ==
  /\ items \in [Items -> Int] \cup {<<>>}
  /\ leaked \in 0..MaxFiles
  /\ written \in NotSaving..Len(Names)
  /\ transport \in Transports
  /\ file \in Contents
  /\ saved \in [Items -> Int]
  /\ restarts \in 0..MaxRestarts
Types == FlagTypes /\ StartTypes /\ LineTypes /\ ConfigTypes

IInv ==
  /\ Types
  /\ StartupInv /\ RunnerInv /\ DoneInv
  /\ LineInv /\ ThreadsInv
  /\ ItemsInv /\ SaveInv /\ Stored(file)

-----------------------------------------------------------------------------
\* The rests of a sequence.
LEMMA RestIs ==
  ASSUME NEW S, NEW s \in Seq(S), NEW n \in 1..Len(s)
  PROVE  /\ Rest(s, n) \in Seq(S) /\ Len(Rest(s, n)) = n
         /\ Rest(s, n) # <<>>
         /\ Head(Rest(s, n)) = s[Len(s) - n + 1]
         /\ Tail(Rest(s, n)) = Rest(s, n - 1)
<1>1. Rest(s, n) \in Seq(S) /\ Len(Rest(s, n)) = n
  BY DEF Rest
<1>2. Rest(s, n) # <<>> /\ Head(Rest(s, n)) = s[Len(s) - n + 1]
  <2>1. Rest(s, n)[1] = s[Len(s) - n + 1]
    BY DEF Rest
  <2>2. Rest(s, n) # <<>> /\ Head(Rest(s, n)) = Rest(s, n)[1]
    BY <1>1
  <2> QED BY <2>1, <2>2
<1>3. Tail(Rest(s, n)) = Rest(s, n - 1)
  <2>1. Tail(Rest(s, n)) \in Seq(S) /\ Len(Tail(Rest(s, n))) = n - 1
    BY <1>1, <1>2
  <2>2. Rest(s, n - 1) \in Seq(S) /\ Len(Rest(s, n - 1)) = n - 1
    BY DEF Rest
  <2>3. ASSUME NEW k \in 1..(n - 1) PROVE Tail(Rest(s, n))[k] = Rest(s, n - 1)[k]
    <3>1. Tail(Rest(s, n))[k] = Rest(s, n)[k + 1]
      BY <1>1, <1>2
    <3>2. Rest(s, n)[k + 1] = s[Len(s) - n + k + 1]
      BY DEF Rest
    <3>3. Rest(s, n - 1)[k] = s[Len(s) - n + k + 1]
      BY DEF Rest
    <3> QED BY <3>1, <3>2, <3>3
  <2> QED BY <2>1, <2>2, <2>3
<1> QED BY <1>1, <1>2, <1>3

LEMMA RestLen ==
  ASSUME NEW S, NEW s \in Seq(S), NEW n \in 0..Len(s)
  PROVE  Rest(s, n) \in Seq(S) /\ Len(Rest(s, n)) = n
BY DEF Rest

LEMMA RestAll ==
  ASSUME NEW S, NEW s \in Seq(S)
  PROVE  Rest(s, Len(s)) = s
BY DEF Rest

LEMMA RestNone ==
  ASSUME NEW S, NEW s \in Seq(S)
  PROVE  Rest(s, 0) = <<>>
BY DEF Rest

-----------------------------------------------------------------------------
\* The names: modules, phases and callbacks.
LEMMA PhasesAre ==
  Phases = {"REGISTER_COMMANDS", "REGISTER_VALUES", "LOAD_DEFAULT_VAULES",
            "LOAD_CONFIG", "START", "START_SENSORS", "MOW", "SAVE_CONFIG"}
BY DEF Phases, MainPhases, ToSet

LEMMA MainPhasesAre ==
  /\ MainPhases \in Seq(Phases) /\ Len(MainPhases) = 7
  /\ MainPhases \in Seq(ToSet(MainPhases))
  /\ MainPhases[1] = "REGISTER_COMMANDS" /\ MainPhases[2] = "REGISTER_VALUES"
  /\ MainPhases[3] = "LOAD_DEFAULT_VAULES" /\ MainPhases[4] = "LOAD_CONFIG"
  /\ MainPhases[5] = "START" /\ MainPhases[6] = "START_SENSORS"
  /\ MainPhases[7] = "MOW"
<1>1. \A k \in 1..7 : MainPhases[k] \in ToSet(MainPhases)
  BY DEF MainPhases, ToSet
<1> QED BY <1>1, PhasesAre DEF MainPhases

LEMMA InitOrderIs ==
  /\ Len(InitOrder) = 8 /\ InitOrder \in Seq(ToSet(InitOrder))
  /\ InitOrder[1] = "cli" /\ InitOrder[2] = "local_cli" /\ InitOrder[3] = "config"
  /\ InitOrder[4] = "io" /\ InitOrder[5] = "communicator" /\ InitOrder[6] = "sensors"
  /\ InitOrder[7] = "dcn" /\ InitOrder[8] = "mow"
<1>1. \A k \in 1..8 : InitOrder[k] \in ToSet(InitOrder)
  BY DEF InitOrder, ToSet
<1> QED BY <1>1 DEF InitOrder

LEMMA CalledByMainAre ==
  CalledByMain =
    {"config_register_commands", "sensor_range_register_values",
     "sensor_range_load_default_vaules", "config_load", "local_cli_start",
     "io_start", "io_transport_start", "communicator_start", "dcn_start",
     "sensors_start", "mow_mow"}
BY DEF CalledByMain, PhaseNo

LEMMA RegisteredIs ==
  /\ Registered.REGISTER_COMMANDS = <<"config_register_commands">>
  /\ Registered.REGISTER_VALUES = <<"sensor_range_register_values">>
  /\ Registered.LOAD_DEFAULT_VAULES = <<"sensor_range_load_default_vaules">>
  /\ Registered.LOAD_CONFIG = <<"config_load">>
  /\ Registered.START_SENSORS = <<"sensors_start">>
  /\ Registered.MOW = <<"mow_mow">>
  /\ Registered.SAVE_CONFIG = <<"config_save">>
  /\ Registered.START = <<"local_cli_start", "io_start", "io_transport_start",
                          "communicator_start", "dcn_start">>
BY DEF Registered

\* The k-th callback of phase p has these numbers.
LEMMA Numbers ==
  ASSUME NEW p \in 1..7, NEW k \in 1..Len(RunIn(p))
  PROVE  /\ RunIn(p)[k] \in CalledByMain
         /\ PhaseNo[RunIn(p)[k]] = p /\ CallNo[RunIn(p)[k]] = k
<1>1. CASE p = 5
  <2>1. RunIn(p) = <<"local_cli_start", "io_start", "io_transport_start",
                     "communicator_start", "dcn_start">>
    BY <1>1, MainPhasesAre, RegisteredIs DEF RunIn
  <2> QED BY <1>1, <2>1, CalledByMainAre DEF PhaseNo, CallNo
<1>2. ASSUME NEW f \in CalledByMain, RunIn(p) = <<f>>, PhaseNo[f] = p, CallNo[f] = 1
      PROVE  /\ RunIn(p)[k] \in CalledByMain
             /\ PhaseNo[RunIn(p)[k]] = p /\ CallNo[RunIn(p)[k]] = k
  BY <1>2
<1>3. CASE p \in {1, 2, 3}
  BY <1>2, <1>3, MainPhasesAre, RegisteredIs, CalledByMainAre DEF RunIn, PhaseNo, CallNo
<1>4. CASE p \in {4, 6, 7}
  BY <1>2, <1>4, MainPhasesAre, RegisteredIs, CalledByMainAre DEF RunIn, PhaseNo, CallNo
<1> QED BY <1>1, <1>3, <1>4

\* ... and its numbers say where it is.
LEMMA FindsItself ==
  ASSUME NEW f \in CalledByMain
  PROVE  /\ PhaseNo[f] \in 1..7 /\ CallNo[f] \in 1..Len(RunIn(PhaseNo[f]))
         /\ RunIn(PhaseNo[f])[CallNo[f]] = f
<1>1. CASE f \in {"local_cli_start", "io_start", "io_transport_start",
                  "communicator_start", "dcn_start"}
  <2>1. PhaseNo[f] = 5
    BY <1>1 DEF PhaseNo
  <2>2. RunIn(5) = <<"local_cli_start", "io_start", "io_transport_start",
                     "communicator_start", "dcn_start">>
    BY MainPhasesAre, RegisteredIs DEF RunIn
  <2>3. CASE f \in {"local_cli_start", "io_start"}
    BY <2>1, <2>2, <2>3 DEF CallNo
  <2>4. CASE f = "io_transport_start"
    BY <2>1, <2>2, <2>4 DEF CallNo
  <2>5. CASE f = "communicator_start"
    BY <2>1, <2>2, <2>5 DEF CallNo
  <2>6. CASE f = "dcn_start"
    BY <2>1, <2>2, <2>6 DEF CallNo
  <2> QED BY <1>1, <2>3, <2>4, <2>5, <2>6
<1>2. CASE f \in {"config_register_commands", "sensor_range_register_values",
                  "sensor_range_load_default_vaules", "config_load",
                  "sensors_start", "mow_mow"}
  <2>1. PhaseNo[f] \in 1..7 /\ CallNo[f] = 1
    BY <1>2 DEF PhaseNo, CallNo
  <2>2. RunIn(PhaseNo[f]) = <<f>>
    BY <1>2, MainPhasesAre, RegisteredIs DEF RunIn, PhaseNo
  <2> QED BY <2>1, <2>2
<1> QED BY <1>1, <1>2, CalledByMainAre

\* What each module registers, one phase after the other.
LEMMA CallbacksAre ==
  ASSUME NEW p \in Phases
  PROVE  /\ CallbacksOf("cli", p) = <<>>
         /\ CallbacksOf("local_cli", p) = IF p = "START" THEN <<"local_cli_start">> ELSE <<>>
         /\ CallbacksOf("config", p) =
              IF p \in {"REGISTER_COMMANDS", "LOAD_CONFIG", "SAVE_CONFIG"}
              THEN Registered[p] ELSE <<>>
         /\ CallbacksOf("io", p) =
              IF p = "START" THEN <<"io_start", "io_transport_start">> ELSE <<>>
         /\ CallbacksOf("communicator", p) =
              IF p = "START" THEN <<"communicator_start">> ELSE <<>>
         /\ CallbacksOf("sensors", p) =
              IF p \in {"REGISTER_VALUES", "LOAD_DEFAULT_VAULES", "START_SENSORS"}
              THEN Registered[p] ELSE <<>>
         /\ CallbacksOf("dcn", p) = IF p = "START" THEN <<"dcn_start">> ELSE <<>>
         /\ CallbacksOf("mow", p) = IF p = "MOW" THEN <<"mow_mow">> ELSE <<>>
<1>1. DOMAIN Registrations("cli") = {}
  BY DEF Registrations
<1>2. Registrations("local_cli") = [START |-> <<"local_cli_start">>]
  BY DEF Registrations
<1>3. Registrations("config") =
        [REGISTER_COMMANDS |-> <<"config_register_commands">>,
         LOAD_CONFIG |-> <<"config_load">>, SAVE_CONFIG |-> <<"config_save">>]
  BY DEF Registrations
<1>4. Registrations("io") = [START |-> <<"io_start", "io_transport_start">>]
  BY DEF Registrations
<1>5. Registrations("communicator") = [START |-> <<"communicator_start">>]
  BY DEF Registrations
<1>6. Registrations("sensors") =
        [REGISTER_VALUES |-> <<"sensor_range_register_values">>,
         LOAD_DEFAULT_VAULES |-> <<"sensor_range_load_default_vaules">>,
         START_SENSORS |-> <<"sensors_start">>]
  BY DEF Registrations
<1>7. Registrations("dcn") = [START |-> <<"dcn_start">>]
  BY DEF Registrations
<1>8. Registrations("mow") = [MOW |-> <<"mow_mow">>]
  BY DEF Registrations
<1>9. CallbacksOf("cli", p) = <<>>
  BY <1>1 DEF CallbacksOf
<1>10. CallbacksOf("local_cli", p) = IF p = "START" THEN <<"local_cli_start">> ELSE <<>>
  BY <1>2 DEF CallbacksOf
<1>11. CallbacksOf("config", p) =
         IF p \in {"REGISTER_COMMANDS", "LOAD_CONFIG", "SAVE_CONFIG"}
         THEN Registered[p] ELSE <<>>
  BY <1>3, RegisteredIs DEF CallbacksOf
<1>12. CallbacksOf("io", p) =
         IF p = "START" THEN <<"io_start", "io_transport_start">> ELSE <<>>
  BY <1>4 DEF CallbacksOf
<1>13. CallbacksOf("communicator", p) = IF p = "START" THEN <<"communicator_start">> ELSE <<>>
  BY <1>5 DEF CallbacksOf
<1>14. CallbacksOf("sensors", p) =
         IF p \in {"REGISTER_VALUES", "LOAD_DEFAULT_VAULES", "START_SENSORS"}
         THEN Registered[p] ELSE <<>>
  BY <1>6, RegisteredIs DEF CallbacksOf
<1>15. CallbacksOf("dcn", p) = IF p = "START" THEN <<"dcn_start">> ELSE <<>>
  BY <1>7 DEF CallbacksOf
<1>16. CallbacksOf("mow", p) = IF p = "MOW" THEN <<"mow_mow">> ELSE <<>>
  BY <1>8 DEF CallbacksOf
<1> QED BY <1>9, <1>10, <1>11, <1>12, <1>13, <1>14, <1>15, <1>16

LEMMA CallbackTypes ==
  ASSUME NEW p \in Phases, NEW m \in ToSet(InitOrder)
  PROVE  \A k \in DOMAIN CallbacksOf(m, p) : CallbacksOf(m, p)[k] \in Callbacks
<1>1. ToSet(CallbacksOf(m, p)) \subseteq Callbacks
  <2>1. ToSet(CallbacksOf(m, p)) \in
          {ToSet(CallbacksOf(n, q)) : n \in ToSet(InitOrder), q \in Phases}
    OBVIOUS
  <2> QED BY <2>1 DEF Callbacks
<1> QED BY <1>1 DEF ToSet

\* All that main and the command line call is registered by some module.
LEMMA CallbackNames == CalledByMain \cup {"config_save"} \subseteq Callbacks
<1>1. {"local_cli", "config", "io", "communicator", "sensors", "dcn", "mow"}
        \subseteq ToSet(InitOrder)
  BY DEF InitOrder, ToSet
<1>2. ASSUME NEW p \in Phases, NEW m \in ToSet(InitOrder), NEW k \in DOMAIN CallbacksOf(m, p)
      PROVE  CallbacksOf(m, p)[k] \in Callbacks
  BY CallbackTypes
<1>3. {"local_cli_start", "io_start", "io_transport_start", "communicator_start",
       "dcn_start"} \subseteq Callbacks
  <2>1. /\ CallbacksOf("local_cli", "START") = <<"local_cli_start">>
        /\ CallbacksOf("io", "START") = <<"io_start", "io_transport_start">>
        /\ CallbacksOf("communicator", "START") = <<"communicator_start">>
        /\ CallbacksOf("dcn", "START") = <<"dcn_start">>
    BY CallbacksAre, PhasesAre
  <2>2. "START" \in Phases
    BY PhasesAre
  <2> QED BY <1>1, <1>2, <2>1, <2>2
<1>4. {"config_register_commands", "config_load", "config_save"} \subseteq Callbacks
  <2>1. /\ CallbacksOf("config", "REGISTER_COMMANDS") = <<"config_register_commands">>
        /\ CallbacksOf("config", "LOAD_CONFIG") = <<"config_load">>
        /\ CallbacksOf("config", "SAVE_CONFIG") = <<"config_save">>
    BY CallbacksAre, PhasesAre, RegisteredIs
  <2>2. {"REGISTER_COMMANDS", "LOAD_CONFIG", "SAVE_CONFIG"} \subseteq Phases
    BY PhasesAre
  <2> QED BY <1>1, <1>2, <2>1, <2>2
<1>5. {"sensor_range_register_values", "sensor_range_load_default_vaules",
       "sensors_start", "mow_mow"} \subseteq Callbacks
  <2>1. /\ CallbacksOf("sensors", "REGISTER_VALUES") = <<"sensor_range_register_values">>
        /\ CallbacksOf("sensors", "LOAD_DEFAULT_VAULES") =
             <<"sensor_range_load_default_vaules">>
        /\ CallbacksOf("sensors", "START_SENSORS") = <<"sensors_start">>
        /\ CallbacksOf("mow", "MOW") = <<"mow_mow">>
    BY CallbacksAre, PhasesAre, RegisteredIs
  <2>2. {"REGISTER_VALUES", "LOAD_DEFAULT_VAULES", "START_SENSORS", "MOW"} \subseteq Phases
    BY PhasesAre
  <2> QED BY <1>1, <1>2, <2>1, <2>2
<1> QED BY <1>3, <1>4, <1>5, CalledByMainAre

\* What a phase runs is a sequence of callbacks.
LEMMA RegisteredTypes ==
  ASSUME NEW p \in Phases
  PROVE  /\ Registered[p] \in Seq(Callbacks) /\ Len(Registered[p]) \in 1..5
         /\ p # "START" => Len(Registered[p]) = 1
<1>1. CASE p = "START"
  <2>1. {"local_cli_start", "io_start", "io_transport_start", "communicator_start",
         "dcn_start"} \subseteq Callbacks
    BY CallbackNames, CalledByMainAre
  <2>2. Registered[p] = <<"local_cli_start", "io_start", "io_transport_start",
                          "communicator_start", "dcn_start">>
    BY <1>1, RegisteredIs
  <2> QED BY <1>1, <2>1, <2>2
<1>2. CASE p # "START"
  <2>1. \E f \in Callbacks : Registered[p] = <<f>>
    BY <1>2, PhasesAre, RegisteredIs, CallbackNames, CalledByMainAre
  <2> QED BY <1>2, <2>1
<1> QED BY <1>1, <1>2

\* Each module puts its callbacks after those that are there.
LEMMA JoinedEmpty ==
  ASSUME NEW S, NEW s \in Seq(S)
  PROVE  <<>> \o s = s /\ s \o <<>> = s
BY ConcatEmptySeq

LEMMA OneElement ==
  ASSUME NEW S, NEW s \in Seq(S), Len(s) = 1
  PROVE  s = <<s[1]>>
OBVIOUS

LEMMA TwoElements ==
  ASSUME NEW S, NEW s \in Seq(S), Len(s) = 2
  PROVE  s = <<s[1], s[2]>>
OBVIOUS

\* The parts of what START runs.
LEMMA StartParts ==
  /\ Registered.START \in Seq(Callbacks) /\ Len(Registered.START) = 5
  /\ <<"local_cli_start">> = SubSeq(Registered.START, 1, 1)
  /\ <<"io_start", "io_transport_start">> = SubSeq(Registered.START, 2, 3)
  /\ <<"communicator_start">> = SubSeq(Registered.START, 4, 4)
  /\ <<"dcn_start">> = SubSeq(Registered.START, 5, 5)
  /\ \A k \in 0..5 : SubSeq(Registered.START, k + 1, k) = <<>>
<1>1. Registered.START \in Seq(Callbacks) /\ Len(Registered.START) = 5
  BY PhasesAre, RegisteredTypes, RegisteredIs
<1>2. ASSUME NEW s \in Seq(Callbacks), Len(s) = 5
      PROVE  /\ \A k \in 1..5 : SubSeq(s, k, k) = <<s[k]>>
             /\ SubSeq(s, 2, 3) = <<s[2], s[3]>>
             /\ \A k \in 0..5 : SubSeq(s, k + 1, k) = <<>>
  <2>1. ASSUME NEW k \in 1..5 PROVE SubSeq(s, k, k) = <<s[k]>>
    <3>1. SubSeq(s, k, k) \in Seq(Callbacks)
      <4>1. k \in 1..Len(s) /\ \A j \in k..k : j = k
        BY <1>2
      <4>2. \A j \in k..k : s[j] \in Callbacks
        BY <4>1
      <4> QED BY <4>2, SubSeqProperties
    <3>2. Len(SubSeq(s, k, k)) = 1
      BY <1>2
    <3>3. SubSeq(s, k, k)[1] = s[k]
      BY <1>2
    <3> QED BY <3>1, <3>2, <3>3, OneElement
  <2>2. SubSeq(s, 2, 3) = <<s[2], s[3]>>
    <3> DEFINE t == SubSeq(s, 2, 3)
    <3>1. t \in Seq(Callbacks) /\ Len(t) = 2
      BY <1>2
    <3>2. ASSUME NEW k \in 1..2 PROVE t[k] = s[k + 1]
      <4>1. SubSeq(s, 2, 3)[k] = s[2 + k - 1]
        BY <1>2
      <4> QED BY <4>1
    <3> HIDE DEF t
    <3>3. t = <<t[1], t[2]>>
      BY <3>1, TwoElements
    <3>4. t[1] = s[2] /\ t[2] = s[3]
      BY <3>2
    <3> QED BY <3>3, <3>4 DEF t
  <2>3. ASSUME NEW k \in 0..5 PROVE SubSeq(s, k + 1, k) = <<>>
    BY <1>2
  <2> QED BY <2>1, <2>2, <2>3
<1>3. /\ Registered.START[1] = "local_cli_start" /\ Registered.START[2] = "io_start"
      /\ Registered.START[3] = "io_transport_start"
      /\ Registered.START[4] = "communicator_start" /\ Registered.START[5] = "dcn_start"
  BY RegisteredIs
<1> QED BY <1>1, <1>2, <1>3

\* One more module: its callbacks come after those that are there, phase by phase.
LEMMA RegistersNext ==
  ASSUME NEW n \in 0..7, NEW p \in Phases
  PROVE  RegisteredAfter(n, p) \o CallbacksOf(InitOrder[n + 1], p) = RegisteredAfter(n + 1, p)
<1> DEFINE m == InitOrder[n + 1]
<1>1. \/ n = 0 /\ m = "cli"
      \/ n = 1 /\ m = "local_cli"
      \/ n = 2 /\ m = "config"
      \/ n = 3 /\ m = "io"
      \/ n = 4 /\ m = "communicator"
      \/ n = 5 /\ m = "sensors"
      \/ n = 6 /\ m = "dcn"
      \/ n = 7 /\ m = "mow"
  <2> DEFINE k == n + 1
  <2>1. k \in 1..8 /\ n = k - 1 /\ m = InitOrder[k]
    OBVIOUS
  <2> HIDE DEF k, m
  <2>2. CASE k = 1
    <3>1. n = 0 /\ m = "cli"
      BY <2>1, <2>2, InitOrderIs
    <3> QED BY <3>1
  <2>3. CASE k = 2
    <3>1. n = 1 /\ m = "local_cli"
      BY <2>1, <2>3, InitOrderIs
    <3> QED BY <3>1
  <2>4. CASE k = 3
    <3>1. n = 2 /\ m = "config"
      BY <2>1, <2>4, InitOrderIs
    <3> QED BY <3>1
  <2>5. CASE k = 4
    <3>1. n = 3 /\ m = "io"
      BY <2>1, <2>5, InitOrderIs
    <3> QED BY <3>1
  <2>6. CASE k = 5
    <3>1. n = 4 /\ m = "communicator"
      BY <2>1, <2>6, InitOrderIs
    <3> QED BY <3>1
  <2>7. CASE k = 6
    <3>1. n = 5 /\ m = "sensors"
      BY <2>1, <2>7, InitOrderIs
    <3> QED BY <3>1
  <2>8. CASE k = 7
    <3>1. n = 6 /\ m = "dcn"
      BY <2>1, <2>8, InitOrderIs
    <3> QED BY <3>1
  <2>9. CASE k = 8
    <3>1. n = 7 /\ m = "mow"
      BY <2>1, <2>9, InitOrderIs
    <3> QED BY <3>1
  <2> QED BY <2>1, <2>2, <2>3, <2>4, <2>5, <2>6, <2>7, <2>8, <2>9
<1> HIDE DEF m
<1>2. CASE p = "START"
  <2> DEFINE s == Registered.START
             i == StartsAfter(n)
             j == StartsAfter(n + 1)
  <2>1. s \in Seq(Callbacks) /\ Len(s) = 5
    BY StartParts
  <2>2. i \in 0..5 /\ j \in i..5
    BY DEF StartsAfter
  <2>3. CallbacksOf(m, p) = SubSeq(s, i + 1, j)
    <3>1. CASE n \in {0, 2, 5, 7}
      <4>1. CallbacksOf(m, p) = <<>>
        BY <1>1, <1>2, <3>1, CallbacksAre
      <4>2. i = j
        BY <3>1 DEF StartsAfter
      <4> QED BY <2>2, <4>1, <4>2, StartParts
    <3>2. CASE n = 1
      <4>1. i = 0 /\ j = 1
        BY <3>2 DEF StartsAfter
      <4>2. CallbacksOf(m, p) = <<"local_cli_start">>
        BY <1>1, <1>2, <3>2, CallbacksAre
      <4> HIDE DEF i, j
      <4> QED BY <4>1, <4>2, StartParts
    <3>3. CASE n = 3
      <4>1. i = 1 /\ j = 3
        BY <3>3 DEF StartsAfter
      <4>2. CallbacksOf(m, p) = <<"io_start", "io_transport_start">>
        BY <1>1, <1>2, <3>3, CallbacksAre
      <4> HIDE DEF i, j
      <4> QED BY <4>1, <4>2, StartParts
    <3>4. CASE n = 4
      <4>1. i = 3 /\ j = 4
        BY <3>4 DEF StartsAfter
      <4>2. CallbacksOf(m, p) = <<"communicator_start">>
        BY <1>1, <1>2, <3>4, CallbacksAre
      <4> HIDE DEF i, j
      <4> QED BY <4>1, <4>2, StartParts
    <3>5. CASE n = 6
      <4>1. i = 4 /\ j = 5
        BY <3>5 DEF StartsAfter
      <4>2. CallbacksOf(m, p) = <<"dcn_start">>
        BY <1>1, <1>2, <3>5, CallbacksAre
      <4> HIDE DEF i, j
      <4> QED BY <4>1, <4>2, StartParts
    <3> QED BY <3>1, <3>2, <3>3, <3>4, <3>5
  <2> HIDE DEF s, i, j
  <2>4. SubSeq(s, 1, i) \o SubSeq(s, i + 1, j) = SubSeq(s, 1, j)
    BY <2>1, <2>2, Joined
  <2> QED BY <1>2, <2>3, <2>4 DEF RegisteredAfter, m, s, i, j
<1>3. CASE p # "START"
  <2> DEFINE r == Registrar[p]
  <2>1. r \in {3, 6, 8}
    BY <1>3, PhasesAre DEF Registrar
  <2>2. CallbacksOf(m, p) = IF n + 1 = r THEN Registered[p] ELSE <<>>
    <3>1. CASE p \in {"REGISTER_COMMANDS", "LOAD_CONFIG", "SAVE_CONFIG"}
      <4>1. r = 3
        BY <3>1 DEF Registrar
      <4> HIDE DEF r
      <4> QED BY <1>1, <1>3, <3>1, <4>1, CallbacksAre
    <3>2. CASE p \in {"REGISTER_VALUES", "LOAD_DEFAULT_VAULES", "START_SENSORS"}
      <4>1. r = 6
        BY <3>2 DEF Registrar
      <4> HIDE DEF r
      <4> QED BY <1>1, <1>3, <3>2, <4>1, CallbacksAre
    <3>3. CASE p = "MOW"
      <4>1. r = 8
        BY <3>3 DEF Registrar
      <4> HIDE DEF r
      <4> QED BY <1>1, <1>3, <3>3, <4>1, CallbacksAre, RegisteredIs
    <3> QED BY <1>3, <3>1, <3>2, <3>3, PhasesAre
  <2>3. Registered[p] \in Seq(Callbacks) /\ <<>> \in Seq(Callbacks)
    BY RegisteredTypes
  <2>4. \A s \in Seq(Callbacks) : <<>> \o s = s /\ s \o <<>> = s
    BY JoinedEmpty
  <2>5. /\ RegisteredAfter(n, p) = IF n < r THEN <<>> ELSE Registered[p]
        /\ RegisteredAfter(n + 1, p) = IF n + 1 < r THEN <<>> ELSE Registered[p]
    BY <1>3 DEF RegisteredAfter
  <2> HIDE DEF r
  <2>6. CASE n + 1 < r
    <3>1. RegisteredAfter(n, p) = <<>> /\ RegisteredAfter(n + 1, p) = <<>>
          /\ CallbacksOf(m, p) = <<>>
      BY <2>1, <2>2, <2>5, <2>6
    <3> QED BY <2>3, <2>4, <3>1 DEF m
  <2>7. CASE n + 1 = r
    <3>1. RegisteredAfter(n, p) = <<>> /\ RegisteredAfter(n + 1, p) = Registered[p]
          /\ CallbacksOf(m, p) = Registered[p]
      BY <2>1, <2>2, <2>5, <2>7
    <3> QED BY <2>3, <2>4, <3>1 DEF m
  <2>8. CASE n + 1 > r
    <3>1. RegisteredAfter(n, p) = Registered[p] /\ RegisteredAfter(n + 1, p) = Registered[p]
          /\ CallbacksOf(m, p) = <<>>
      BY <2>1, <2>2, <2>5, <2>8
    <3> QED BY <2>3, <2>4, <3>1 DEF m
  <2> QED BY <2>1, <2>6, <2>7, <2>8
<1> QED BY <1>2, <1>3

-----------------------------------------------------------------------------
\* The configuration file.
LEMMA LoadedIs ==
  ASSUME NEW its, NEW f
  PROVE  Loaded(its, f) = Fold(f.lines, its)
BY DEF Loaded, Fold

LEMMA NamesAre ==
  /\ Len(Names) = 2 /\ Names[1] # Names[2]
  /\ Items = {Names[1], Names[2]}
<1>1. Len(Names) = 2 /\ Names[1] # Names[2]
  BY DEF Names
<1>2. Items = {Names[1], Names[2]}
  BY <1>1 DEF Items, ToSet, Names
<1> QED BY <1>1, <1>2

\* A line keeps the names of the items.
LEMMA LineKeepsType ==
  ASSUME NEW l \in Lines
  PROVE  /\ \A its \in [Items -> Int] : LoadLine(its, l) \in [Items -> Int]
         /\ LoadLine(<<>>, l) = <<>>
BY DEF LoadLine, Lines

\* Whatever the file has in it, the items stay integers.
LEMMA LoadKeepsType ==
  ASSUME NEW f \in Contents
  PROVE  /\ \A its \in [Items -> Int] : Loaded(its, f) \in [Items -> Int]
         /\ Loaded(<<>>, f) = <<>>
<1>1. f.lines \in Seq(Lines)
  <2>1. CASE f = NoFile
    BY <2>1 DEF NoFile
  <2>2. CASE f \in [exists : {TRUE}, lines : Seq(Lines)]
    BY <2>2
  <2> QED BY <2>1, <2>2 DEF Contents
<1>2. ASSUME NEW its \in [Items -> Int] PROVE Fold(f.lines, its) \in [Items -> Int]
  BY <1>1, LineKeepsType, FoldKeeps
<1>3. Fold(f.lines, <<>>) \in {<<>>}
  BY <1>1, LineKeepsType, FoldKeeps
<1> QED BY <1>2, <1>3, LoadedIs

\* No file, and an empty one, leave the items alone.
LEMMA LoadNothing ==
  ASSUME NEW its
  PROVE  Loaded(its, NoFile) = its /\ Loaded(its, FileOf(<<>>)) = its
<1>1. <<>> \in Seq(Lines) /\ Len(<<>>) = 0
  OBVIOUS
<1>2. Fold(<<>>, its) = its
  BY <1>1, FoldEmpty
<1> QED BY <1>2, LoadedIs DEF NoFile, FileOf

\* The first elements of a sequence.
LEMMA OneMore ==
  ASSUME NEW S, NEW s \in Seq(S), NEW n \in Nat, n < Len(s)
  PROVE  /\ SubSeq(s, 1, n) \in Seq(S)
         /\ SubSeq(s, 1, n + 1) = Append(SubSeq(s, 1, n), s[n + 1])
         /\ s[n + 1] \in S
OBVIOUS

LEMMA FirstOnes ==
  ASSUME NEW S, NEW s \in Seq(S), NEW n \in 0..Len(s)
  PROVE  SubSeq(s, 1, n) \in Seq(S)
OBVIOUS

\* What comes back of a file with the first k of the items in it.
FirstOf(its, k) ==
  [n \in Items |-> IF n \in {Names[j] : j \in 1..k} THEN its[n] ELSE Default[n]]

\* What a save writes are lines.
LEMMA LinesAre ==
  ASSUME NEW its \in [Items -> Int]
  PROVE  LinesOf(its) \in Seq(Lines) /\ Len(LinesOf(its)) = 2
<1>1. ASSUME NEW k \in 1..2 PROVE LineOf(Names[k], its[Names[k]]) \in Lines
  <2>1. Names[k] \in Items /\ its[Names[k]] \in Int
    BY NamesAre
  <2> QED BY <2>1 DEF LineOf, Lines
<1> QED BY <1>1, NamesAre DEF LinesOf

\* A save that was cut short after k lines gives k items back ...
LEMMA LoadFirst ==
  ASSUME NEW its \in [Items -> Int], NEW k \in 0..2
  PROVE  Loaded(Default, FileOf(SubSeq(LinesOf(its), 1, k))) = FirstOf(its, k)
<1> DEFINE l == LinesOf(its)
<1>1. l \in Seq(Lines) /\ Len(l) = 2
  BY LinesAre
<1>2. ASSUME NEW s PROVE Loaded(Default, FileOf(s)) = Fold(s, Default)
  BY LoadedIs DEF FileOf
<1>3. SubSeq(l, 1, 0) = <<>> /\ <<>> \in Seq(Lines) /\ Len(<<>>) = 0
  BY <1>1
<1>4. ASSUME NEW n \in 0..1
      PROVE  /\ SubSeq(l, 1, n) \in Seq(Lines)
             /\ SubSeq(l, 1, n + 1) = Append(SubSeq(l, 1, n), l[n + 1])
             /\ l[n + 1] \in Lines
  <2>1. n \in Nat /\ n < Len(l)
    BY <1>1
  <2> HIDE DEF l
  <2> QED BY <1>1, <2>1, OneMore
<1>5. Fold(SubSeq(l, 1, 0), Default) = FirstOf(its, 0)
  <2>1. Fold(<<>>, Default) = Default
    BY <1>3, FoldEmpty
  <2>2. FirstOf(its, 0) = Default
    BY ControllerAssumption DEF FirstOf
  <2> QED BY <1>3, <2>1, <2>2
<1>6. ASSUME NEW n \in 0..1, Fold(SubSeq(l, 1, n), Default) = FirstOf(its, n)
      PROVE  Fold(SubSeq(l, 1, n + 1), Default) = FirstOf(its, n + 1)
  <2>1. Fold(SubSeq(l, 1, n + 1), Default)
          = LoadLine(FirstOf(its, n), l[n + 1])
    <3> DEFINE t == SubSeq(l, 1, n)
               x == l[n + 1]
    <3>1. t \in Seq(Lines) /\ x \in Lines
      BY <1>4
    <3>2. SubSeq(l, 1, n + 1) = Append(t, x)
      BY <1>4
    <3> HIDE DEF t, x
    <3>3. Fold(Append(t, x), Default) = LoadLine(Fold(t, Default), x)
      BY <3>1, FoldAppend
    <3> QED BY <1>6, <3>2, <3>3 DEF t, x
  <2>2. l[n + 1] = LineOf(Names[n + 1], its[Names[n + 1]])
    BY NamesAre DEF LinesOf
  <2>3. LoadLine(FirstOf(its, n), l[n + 1])
          = [FirstOf(its, n) EXCEPT ![Names[n + 1]] = its[Names[n + 1]]]
    BY <2>2, NamesAre DEF LoadLine, LineOf, FirstOf
  <2>4. [FirstOf(its, n) EXCEPT ![Names[n + 1]] = its[Names[n + 1]]] = FirstOf(its, n + 1)
    <3>1. {Names[j] : j \in 1..(n + 1)} = {Names[j] : j \in 1..n} \cup {Names[n + 1]}
      OBVIOUS
    <3> QED BY <3>1, NamesAre DEF FirstOf
  <2> QED BY <2>1, <2>3, <2>4
<1> HIDE DEF l
<1>7. Fold(SubSeq(l, 1, 1), Default) = FirstOf(its, 1)
  BY <1>5, <1>6, 0 + 1 = 1
<1>8. Fold(SubSeq(l, 1, 2), Default) = FirstOf(its, 2)
  BY <1>6, <1>7, 1 + 1 = 2
<1> QED BY <1>2, <1>5, <1>7, <1>8 DEF l

\* ... and one that was not gives all of them back.
LEMMA LoadAll ==
  ASSUME NEW its \in [Items -> Int]
  PROVE  Loaded(Default, FileOf(LinesOf(its))) = its
<1>1. SubSeq(LinesOf(its), 1, 2) = LinesOf(its)
  BY LinesAre, SubSeqFull
<1>2. FirstOf(its, 2) = its
  <2>1. {Names[j] : j \in 1..2} = Items
    BY NamesAre
  <2> QED BY <2>1 DEF FirstOf
<1>3. Loaded(Default, FileOf(SubSeq(LinesOf(its), 1, 2))) = FirstOf(its, 2)
  BY LoadFirst, 2 \in 0..2
<1> QED BY <1>1, <1>2, <1>3

-----------------------------------------------------------------------------
\* The invariant, part by part.
LEMMA TypesAre == Types <=> TypeOK
BY Zenon DEF Types, FlagTypes, StartTypes, LineTypes, ConfigTypes, TypeOK

\* What is left before the start.
LEMMA AllIsLeft == Rest(InitOrder, 8) = InitOrder /\ Rest(MainPhases, 7) = MainPhases
BY RestAll, InitOrderIs, MainPhasesAre

LEMMA RunInTypes ==
  ASSUME NEW p \in 1..7
  PROVE  /\ RunIn(p) \in Seq(Callbacks) /\ Len(RunIn(p)) \in 1..5
         /\ MainPhases[p] \in Phases
BY MainPhasesAre, RegisteredTypes, PhasesAre DEF RunIn

\* Taking the first of a rest.
LEMMA TakesFirst ==
  ASSUME NEW S, NEW s \in Seq(S), NEW r, Len(r) \in 1..Len(s), r = Rest(s, Len(r))
  PROVE  /\ Head(r) = s[Len(s) - Len(r) + 1] /\ Len(Tail(r)) = Len(r) - 1
         /\ Tail(r) = Rest(s, Len(Tail(r)))
<1> DEFINE n == Len(r)
<1>1. n \in 1..Len(s) /\ r = Rest(s, n)
  OBVIOUS
<1> HIDE DEF n
<1>2. Head(r) = s[Len(s) - n + 1] /\ Tail(r) = Rest(s, n - 1)
  BY <1>1, RestIs
<1>3. n - 1 \in 0..Len(s)
  BY <1>1
<1>4. Len(Tail(r)) = n - 1
  BY <1>2, <1>3, RestLen
<1> QED BY <1>2, <1>4 DEF n

\* A rest is empty when it has no length.
LEMMA NotEmpty ==
  ASSUME NEW S, NEW s \in Seq(S), NEW r, Len(r) \in 0..Len(s), r = Rest(s, Len(r))
  PROVE  r \in Seq(S) /\ (r # <<>> <=> Len(r) \in 1..Len(s))
<1>1. r \in Seq(S)
  BY RestLen
<1> QED BY <1>1

\* Which phase it is that main is in.
LEMMA NextPhase ==
  ASSUME RunnerInv, phases # <<>>
  PROVE  /\ CurrentPhase \in 1..7 /\ Head(phases) = MainPhases[CurrentPhase]
         /\ Len(Tail(phases)) = Len(phases) - 1
         /\ Tail(phases) = Rest(MainPhases, Len(Tail(phases)))
<1>1. Len(phases) \in 0..Len(MainPhases) /\ phases = Rest(MainPhases, Len(phases))
  BY MainPhasesAre DEF RunnerInv
<1>2. Len(phases) \in 1..Len(MainPhases)
  BY <1>1, NotEmpty, MainPhasesAre
<1>3. /\ Head(phases) = MainPhases[Len(MainPhases) - Len(phases) + 1]
      /\ Len(Tail(phases)) = Len(phases) - 1
      /\ Tail(phases) = Rest(MainPhases, Len(Tail(phases)))
  BY <1>1, <1>2, TakesFirst, MainPhasesAre
<1>4. Len(MainPhases) - Len(phases) + 1 = CurrentPhase /\ CurrentPhase \in 1..7
  <2>1. Len(MainPhases) = 7
    BY MainPhasesAre
  <2> DEFINE n == Len(phases)
  <2>2. n \in 1..7 /\ CurrentPhase = 8 - n
    BY <1>2, <2>1 DEF CurrentPhase
  <2> HIDE DEF n
  <2>3. 7 - n + 1 = CurrentPhase /\ CurrentPhase \in 1..7
    BY <2>2
  <2> QED BY <2>1, <2>3 DEF n
<1> QED BY <1>3, <1>4

\* Which callback it is that main calls.
LEMMA MainCalls ==
  ASSUME RunnerInv, mutex = "main", calls # <<>>
  PROVE  /\ CurrentPhase \in 1..7 /\ Returned + 1 \in 1..Len(RunIn(CurrentPhase))
         /\ Head(calls) = RunIn(CurrentPhase)[Returned + 1]
         /\ Head(calls) \in CalledByMain
         /\ PhaseNo[Head(calls)] = CurrentPhase
         /\ CallNo[Head(calls)] = Returned + 1
         /\ Len(Tail(calls)) = Len(calls) - 1
         /\ Tail(calls) = Rest(RunIn(CurrentPhase), Len(Tail(calls)))
<1> DEFINE p == CurrentPhase
           s == RunIn(p)
<1>1. p \in 1..7 /\ Head(phases) = MainPhases[p]
  BY NextPhase DEF RunnerInv
<1>2. Len(calls) \in 0..Len(s) /\ calls = Rest(s, Len(calls))
  BY <1>1 DEF RunnerInv, Running, RunIn
<1>3. s \in Seq(Callbacks) /\ Len(s) \in 1..5
  BY <1>1, RunInTypes
<1>4. Returned = Len(s) - Len(calls)
  BY DEF Returned
<1> HIDE DEF s, p
<1>5. Len(calls) \in 1..Len(s)
  BY <1>2, <1>3, NotEmpty
<1>6. /\ Head(calls) = s[Len(s) - Len(calls) + 1] /\ Len(Tail(calls)) = Len(calls) - 1
      /\ Tail(calls) = Rest(s, Len(Tail(calls)))
  BY <1>2, <1>3, <1>5, TakesFirst
<1>7. Len(s) - Len(calls) + 1 = Returned + 1 /\ Returned + 1 \in 1..Len(s)
  BY <1>3, <1>4, <1>5
<1>8. Returned + 1 \in 1..Len(RunIn(p)) /\ Head(calls) = RunIn(p)[Returned + 1]
  BY <1>6, <1>7 DEF s
<1>9. /\ Head(calls) \in CalledByMain /\ PhaseNo[Head(calls)] = p
      /\ CallNo[Head(calls)] = Returned + 1
  BY <1>1, <1>8, Numbers
<1> QED BY <1>1, <1>6, <1>8, <1>9 DEF s, p

\* Which ones it is that the command line calls.
LEMMA CliCalls ==
  ASSUME RunnerInv, mutex = "cli", calls # <<>>
  PROVE  /\ Head(calls) \in {"config_save", "config_load",
                             "sensor_range_load_default_vaules"}
         /\ calls = <<Head(calls)>> /\ Tail(calls) = <<>>
<1>1. PICK sub \in DOMAIN PhaseOf : Running(PhaseOf[sub])
  BY DEF RunnerInv
<1> DEFINE p == PhaseOf[sub]
<1>2. p \in {"SAVE_CONFIG", "LOAD_CONFIG", "LOAD_DEFAULT_VAULES"}
  BY DEF PhaseOf
<1>3. Len(calls) \in 0..Len(Registered[p]) /\ calls = Rest(Registered[p], Len(calls))
  BY <1>1 DEF Running
<1> HIDE DEF p
<1>4. p \in Phases /\ p # "START"
  BY <1>2, PhasesAre
<1>5. Registered[p] \in Seq(Callbacks) /\ Len(Registered[p]) = 1
  BY <1>4, RegisteredTypes
<1>6. Len(calls) \in 1..Len(Registered[p])
  BY <1>3, <1>5, NotEmpty
<1>7. Len(calls) = 1
  BY <1>5, <1>6
<1>8. calls = Registered[p]
  BY <1>3, <1>5, <1>7, RestAll
<1>9. PICK f \in {"config_save", "config_load", "sensor_range_load_default_vaules"} :
        Registered[p] = <<f>>
  BY <1>2, RegisteredIs
<1>10. Head(<<f>>) = f /\ Tail(<<f>>) = <<>>
  OBVIOUS
<1> QED BY <1>8, <1>9, <1>10

\* The command line comes after the configuration.
LEMMA CliIsLate ==
  ASSUME RunnerInv, DoneInv, LineInv, cli # "off"
  PROVE  /\ \A f \in CalledByMain : PhaseNo[f] < 5 => f \in done
         /\ {"config_load", "sensor_range_load_default_vaules"} \subseteq done
         /\ mutex = "cli" => CurrentPhase > 5
<1>1. "local_cli_start" \in CalledByMain /\ PhaseNo["local_cli_start"] = 5
      /\ CallNo["local_cli_start"] = 1
  BY CalledByMainAre DEF PhaseNo, CallNo
<1>2. Passed("local_cli_start")
  BY <1>1 DEF DoneInv, LineInv
<1>3. CurrentPhase \in 1..8
  <2> DEFINE n == Len(phases)
  <2>1. n \in 0..7 /\ CurrentPhase = 8 - n
    BY DEF RunnerInv, CurrentPhase
  <2> HIDE DEF n
  <2> QED BY <2>1
<1>4. CurrentPhase >= 5 /\ (mutex = "cli" => CurrentPhase > 5)
  BY <1>1, <1>2, <1>3 DEF Passed
<1>5. ASSUME NEW f \in CalledByMain, PhaseNo[f] < 5 PROVE f \in done
  BY <1>3, <1>4, <1>5, FindsItself DEF DoneInv, Passed
<1>6. {"config_load", "sensor_range_load_default_vaules"} \subseteq done
  <2>1. PhaseNo["config_load"] = 4 /\ PhaseNo["sensor_range_load_default_vaules"] = 3
    BY DEF PhaseNo
  <2> QED BY <1>5, <2>1, CalledByMainAre
<1> QED BY <1>4, <1>5, <1>6

-----------------------------------------------------------------------------
\* A callback returns.
LEMMA MainReturns ==
  ASSUME RunnerInv, DoneInv, mutex = "main", calls # <<>>, Returns, cli' # "phase"
  PROVE  RunnerInv' /\ DoneInv'
<1> DEFINE h == Head(calls)
<1>1. /\ phases' = phases /\ mutex' = mutex /\ calls' = Tail(calls) /\ done' = done \cup {h}
      /\ CurrentPhase' = CurrentPhase
  BY DEF Returns, startup, CurrentPhase
<1>2. /\ phases # <<>> /\ Running(Head(phases))
      /\ Len(phases) \in 0..7 /\ phases = Rest(MainPhases, Len(phases))
  BY DEF RunnerInv
<1>3. CurrentPhase \in 1..7 /\ Head(phases) = MainPhases[CurrentPhase]
  BY <1>2, NextPhase
<1>4. /\ Returned + 1 \in 1..Len(RunIn(CurrentPhase))
      /\ h = RunIn(CurrentPhase)[Returned + 1] /\ h \in CalledByMain
      /\ Len(calls') = Len(calls) - 1 /\ calls' = Rest(RunIn(CurrentPhase), Len(calls'))
  BY <1>1, MainCalls
<1>5. Len(RunIn(CurrentPhase)) \in 1..5
  BY <1>3, RunInTypes
<1>6. Len(calls) \in 0..Len(RunIn(CurrentPhase))
  BY <1>2, <1>3 DEF Running, RunIn
<1>7. Returned' = Returned + 1 /\ Returned \in Nat /\ Len(calls') \in 0..Len(RunIn(CurrentPhase))
  <2> DEFINE n == Len(calls)
             m == Len(RunIn(CurrentPhase))
  <2>1. Returned = m - n /\ Returned' = m - Len(calls') /\ Len(calls') = n - 1
    BY <1>1, <1>4 DEF Returned
  <2>2. n \in 0..m /\ m \in 1..5 /\ Returned + 1 \in 1..m
    BY <1>4, <1>5, <1>6
  <2> HIDE DEF n, m
  <2>3. Returned' = Returned + 1 /\ Returned \in Nat /\ Len(calls') \in 0..m
    BY <2>1, <2>2
  <2> QED BY <2>3 DEF m
<1>8. RunnerInv'
  <2>1. Running(Head(phases))'
    BY <1>1, <1>3, <1>4, <1>7 DEF Running, RunIn
  <2> QED BY <1>1, <1>2, <2>1 DEF RunnerInv
<1>9. ASSUME NEW f \in CalledByMain PROVE f \in done' <=> Passed(f)'
  <2>1. PhaseNo[f] \in Int /\ CallNo[f] \in Int
    BY FindsItself
  <2>2. f = h <=> PhaseNo[f] = CurrentPhase /\ CallNo[f] = Returned + 1
    BY <1>4, FindsItself, MainCalls
  <2>3. f \in done <=> \/ PhaseNo[f] < CurrentPhase
                       \/ PhaseNo[f] = CurrentPhase /\ CallNo[f] <= Returned
    BY DEF DoneInv, Passed
  <2>4. Passed(f)' <=> \/ PhaseNo[f] < CurrentPhase
                       \/ PhaseNo[f] = CurrentPhase /\ CallNo[f] <= Returned + 1
    BY <1>1, <1>7 DEF Passed
  <2>5. f \in done' <=> f \in done \/ f = h
    BY <1>1
  <2>6. CallNo[f] <= Returned + 1 <=> CallNo[f] <= Returned \/ CallNo[f] = Returned + 1
    BY <1>7, <2>1
  <2> HIDE DEF h
  <2> QED BY <2>2, <2>3, <2>4, <2>5, <2>6
<1> QED BY <1>8, <1>9 DEF DoneInv

LEMMA CliReturns ==
  ASSUME RunnerInv, DoneInv, LineInv, mutex = "cli", calls # <<>>, Returns, cli' = "phase"
  PROVE  RunnerInv' /\ DoneInv'
<1> DEFINE h == Head(calls)
<1>1. /\ phases' = phases /\ mutex' = mutex /\ calls' = Tail(calls) /\ done' = done \cup {h}
  BY DEF Returns, startup
<1>2. h \in {"config_save", "config_load", "sensor_range_load_default_vaules"} /\ calls' = <<>>
  BY <1>1, CliCalls
<1>3. cli # "off"
  BY DEF RunnerInv
<1>4. \A f \in CalledByMain : f \in done' <=> f \in done
  BY <1>1, <1>2, <1>3, CliIsLate, CalledByMainAre
<1>5. \A f \in CalledByMain : Passed(f)' <=> Passed(f)
  BY <1>1 DEF Passed, CurrentPhase
<1>6. RunnerInv'
  <2>1. Running("SAVE_CONFIG")'
    <3>1. Len(<<>>) = 0 /\ Registered["SAVE_CONFIG"] \in Seq(Callbacks)
          /\ Len(Registered["SAVE_CONFIG"]) = 1
      BY RegisteredTypes, PhasesAre
    <3>2. Rest(Registered["SAVE_CONFIG"], 0) = <<>>
      BY <3>1, RestNone
    <3> QED BY <1>2, <3>1, <3>2 DEF Running
  <2>2. \E sub \in DOMAIN PhaseOf : Running(PhaseOf[sub])'
    BY <2>1 DEF PhaseOf
  <2> QED BY <1>1, <2>2 DEF RunnerInv
<1> QED BY <1>4, <1>5, <1>6 DEF DoneInv

LEMMA Returning ==
  ASSUME Types, StartupInv, RunnerInv, DoneInv, LineInv,
         calls # <<>>, mutex # "none", Returns, cli' = "phase" <=> mutex = "cli"
  PROVE  /\ StartupInv' /\ RunnerInv' /\ DoneInv'
         /\ calls' \in Seq(Callbacks) /\ done' \subseteq Callbacks
<1>1. mutex = "main" \/ mutex = "cli"
  BY DEF Types, StartTypes
<1>2. RunnerInv' /\ DoneInv'
  BY <1>1, MainReturns, CliReturns
<1>3. StartupInv'
  BY DEF StartupInv, Returns, startup
<1>4. calls' \in Seq(Callbacks) /\ done' \subseteq Callbacks
  BY DEF Types, StartTypes, Returns
<1> QED BY <1>2, <1>3, <1>4

\* Nothing of the startup and of the phases changes.
LEMMA Staying ==
  ASSUME StartupInv, RunnerInv, DoneInv, UNCHANGED <<startup, runner>>,
         cli' = "phase" <=> cli = "phase"
  PROVE  StartupInv' /\ RunnerInv' /\ DoneInv'
<1>1. /\ todo' = todo /\ phases' = phases /\ registered' = registered
      /\ mutex' = mutex /\ calls' = calls /\ done' = done
  BY DEF startup, runner
<1>2. StartupInv'
  BY <1>1 DEF StartupInv
<1>3. RunnerInv'
  BY <1>1 DEF RunnerInv, Running
<1>4. DoneInv'
  BY <1>1 DEF DoneInv, Passed, CurrentPhase, Returned
<1> QED BY <1>2, <1>3, <1>4

\* Nothing of the configuration changes.
LEMMA ConfigStays ==
  ASSUME ItemsInv, Stored(file), UNCHANGED config, done \subseteq done',
         \A f \in Configured : f \in done' => f \in done,
         cli' = "off" => cli = "off"
  PROVE  ItemsInv' /\ Stored(file)'
<1>1. /\ items' = items /\ leaked' = leaked /\ written' = written
      /\ file' = file /\ saved' = saved /\ torn' = torn
  BY DEF config, disk
<1>2. ItemsInv'
  BY <1>1 DEF ItemsInv, Configured
<1>3. Stored(file)'
  BY <1>1 DEF Stored, Prefix
<1> QED BY <1>2, <1>3

\* The process ends.
LEMMA GoneKeeps ==
  ASSUME IInv, NEW contents \in Contents, Stored(contents), Gone(contents)
  PROVE  IInv'
<1>1. /\ alive' = FALSE /\ todo' = InitOrder /\ phases' = MainPhases
      /\ registered' = [p \in Phases |-> <<>>] /\ commands' = {}
      /\ mutex' = "none" /\ calls' = <<>> /\ done' = {} /\ threads' = {}
      /\ cli' = "off" /\ input' = "open" /\ io' = "closed" /\ items' = <<>>
      /\ leaked' = 0 /\ written' = NotSaving /\ file' = contents
      /\ saved' = saved /\ torn' = torn /\ transport' = transport /\ restarts' = restarts
  BY DEF Gone, build
<1>2. FlagTypes'
  BY <1>1, Zenon DEF FlagTypes, IInv, Types
<1>3. StartTypes'
  BY <1>1, InitOrderIs, MainPhasesAre DEF StartTypes
<1>4. LineTypes'
  BY <1>1 DEF LineTypes
<1>5. ConfigTypes'
  BY <1>1, ControllerAssumption DEF ConfigTypes, IInv, Types, NotSaving
<1>6. StartupInv'
  <2>1. \A p \in Phases : RegisteredAfter(0, p) = <<>>
    BY PhasesAre, StartParts DEF RegisteredAfter, StartsAfter, Registrar
  <2>2. Len(InitOrder) = 8 /\ Len(MainPhases) = 7 /\ 8 - 8 = 0
    BY InitOrderIs, MainPhasesAre
  <2> QED BY <1>1, <2>1, <2>2, AllIsLeft DEF StartupInv
<1>7. RunnerInv'
  <2>1. Len(MainPhases) = 7
    BY MainPhasesAre
  <2> QED BY <1>1, <2>1, AllIsLeft DEF RunnerInv
<1>8. DoneInv'
  <2>1. CurrentPhase' = 1
    BY <1>1, MainPhasesAre DEF CurrentPhase
  <2> QED BY <1>1, <2>1, FindsItself DEF DoneInv, Passed
<1>9. LineInv' /\ ThreadsInv'
  BY <1>1 DEF LineInv, ThreadsInv
<1>10. ItemsInv' /\ SaveInv'
  BY <1>1 DEF ItemsInv, SaveInv
<1>11. Stored(file)'
  BY <1>1 DEF Stored, Prefix
<1> QED BY <1>2, <1>3, <1>4, <1>5, <1>6, <1>7, <1>8, <1>9, <1>10, <1>11 DEF IInv, Types

LEMMA KilledKeeps == IInv /\ Killed => IInv'
<1> SUFFICES ASSUME IInv, Killed PROVE IInv'
  OBVIOUS
<1>1. file \in Contents /\ Stored(file) /\ Gone(file)
  BY DEF IInv, Types, ConfigTypes, Killed
<1> QED BY <1>1, GoneKeeps

\* What exit() writes of a save that is under way is the first items.
LEMMA ExitsKeeps == IInv /\ Exits => IInv'
<1> SUFFICES ASSUME IInv, Exits PROVE IInv'
  OBVIOUS
<1>1. CASE written = NotSaving
  <2>1. file \in Contents /\ Stored(file) /\ Gone(file)
    BY <1>1 DEF IInv, Types, ConfigTypes, Exits
  <2> QED BY <2>1, GoneKeeps
<1>2. CASE written # NotSaving
  <2> DEFINE c == FileOf(SubSeq(LinesOf(items), 1, written))
  <2>1. Gone(c)
    BY <1>2 DEF Exits
  <2>2. torn /\ saved = items /\ saved \in [Items -> Int]
    BY <1>2, Zenon DEF IInv, SaveInv, Types, ConfigTypes
  <2>3. written \in 0..2
    BY <1>2, NamesAre DEF IInv, Types, ConfigTypes, NotSaving
  <2>4. LinesOf(items) \in Seq(Lines) /\ Len(LinesOf(items)) = 2
    BY <2>2, LinesAre
  <2>5. c \in Contents
    <3>1. SubSeq(LinesOf(items), 1, written) \in Seq(Lines)
      BY <2>3, <2>4, FirstOnes
    <3> QED BY <3>1 DEF Contents, FileOf
  <2>6. Loaded(Default, c) = FirstOf(items, written)
    BY <2>2, <2>3, LoadFirst
  <2>7. FirstOf(items, written) = Prefix(written)
    BY <2>2 DEF FirstOf, Prefix
  <2> HIDE DEF c
  <2>8. Stored(c)
    BY <2>2, <2>3, <2>6, <2>7, NamesAre DEF Stored
  <2> QED BY <2>1, <2>5, <2>8, GoneKeeps
<1> QED BY <1>1, <1>2

-----------------------------------------------------------------------------
\* The startup and the phases.
LEMMA InitModuleKeeps == IInv /\ InitModule => IInv'
<1> SUFFICES ASSUME IInv, InitModule PROVE IInv'
  OBVIOUS
<1> DEFINE m == Head(todo)
           n == 8 - Len(todo)
<1>1. /\ todo # <<>> /\ todo' = Tail(todo) /\ registered' = RegisteredWith(m)
      /\ commands' = commands \cup CommandsOf(m)
      /\ UNCHANGED <<alive, phases, runner, threads, line, io, config, build>>
  BY DEF InitModule
<1>2. Len(todo) \in 0..Len(InitOrder) /\ todo = Rest(InitOrder, Len(todo))
  BY InitOrderIs DEF IInv, StartupInv
<1>3. Len(todo) \in 1..Len(InitOrder)
  BY <1>1, <1>2, NotEmpty, InitOrderIs
<1>4. /\ m = InitOrder[Len(InitOrder) - Len(todo) + 1] /\ Len(todo') = Len(todo) - 1
      /\ todo' = Rest(InitOrder, Len(todo'))
  BY <1>1, <1>2, <1>3, TakesFirst, InitOrderIs
<1>5. n \in 0..7 /\ m = InitOrder[n + 1] /\ n + 1 = 8 - Len(todo') /\ Len(todo') \in 0..8
  <2> DEFINE k == Len(todo)
  <2>1. k \in 1..8 /\ m = InitOrder[8 - k + 1] /\ Len(todo') = k - 1 /\ n = 8 - k
    BY <1>3, <1>4, InitOrderIs
  <2> HIDE DEF k, n, m
  <2>2. n \in 0..7 /\ n + 1 = 8 - k + 1 /\ n + 1 = 8 - Len(todo') /\ Len(todo') \in 0..8
    BY <2>1
  <2> QED BY <2>1, <2>2
<1>6. registered = [p \in Phases |-> RegisteredAfter(n, p)]
  BY DEF IInv, StartupInv
<1> HIDE DEF n, m
<1>7. registered' = [p \in Phases |-> RegisteredAfter(n + 1, p)]
  <2>1. registered' = [p \in Phases |-> registered[p] \o CallbacksOf(m, p)]
    BY <1>1 DEF RegisteredWith
  <2>2. \A p \in Phases : registered[p] \o CallbacksOf(m, p) = RegisteredAfter(n + 1, p)
    BY <1>5, <1>6, RegistersNext
  <2> QED BY <2>1, <2>2
<1>8. StartupInv'
  <2>1. Len(phases) = 7 /\ mutex = "none" /\ phases' = phases /\ mutex' = mutex
    BY <1>1 DEF IInv, StartupInv, runner
  <2> QED BY <1>4, <1>5, <1>7, <2>1 DEF StartupInv
<1>9. m \in ToSet(InitOrder)
  <2>1. n + 1 \in 1..Len(InitOrder)
    BY <1>5, InitOrderIs
  <2> QED BY <1>5, <2>1 DEF ToSet
<1>10. registered' \in [Phases -> Seq(Callbacks)]
  <2>1. ASSUME NEW p \in Phases PROVE RegisteredAfter(n + 1, p) \in Seq(Callbacks)
    <3>1. SubSeq(Registered.START, 1, StartsAfter(n + 1)) \in Seq(Callbacks)
      <4>1. StartsAfter(n + 1) \in 0..5
        BY <1>5 DEF StartsAfter
      <4> QED BY <4>1, StartParts, FirstOnes
    <3>2. Registered[p] \in Seq(Callbacks) /\ <<>> \in Seq(Callbacks)
      BY RegisteredTypes
    <3> QED BY <3>1, <3>2 DEF RegisteredAfter
  <2> QED BY <1>7, <2>1
<1>11. commands' \subseteq Commands /\ commands \subseteq commands'
  <2>1. CommandsOf(m) \subseteq Commands
    BY <1>9 DEF Commands
  <2> QED BY <1>1, <2>1 DEF IInv, Types, StartTypes
<1>12. StartTypes'
  <2>1. todo' \in Seq(ToSet(InitOrder))
    BY <1>1, <1>3 DEF IInv, Types, StartTypes
  <2> QED BY <1>1, <1>10, <1>11, <2>1 DEF IInv, Types, StartTypes, runner
<1>13. RunnerInv' /\ DoneInv'
  <2>1. UNCHANGED <<phases, mutex, calls, done, cli>>
    BY <1>1 DEF runner, line
  <2> QED BY <2>1 DEF IInv, RunnerInv, Running, DoneInv, Passed, CurrentPhase, Returned
<1>14. LineInv' /\ ThreadsInv'
  BY <1>1, <1>11 DEF IInv, LineInv, ThreadsInv, runner, line, build
<1>15. ItemsInv' /\ Stored(file)'
  BY <1>1, ConfigStays DEF IInv, runner, line
<1>16. SaveInv'
  BY <1>1 DEF IInv, SaveInv, runner, config, disk
<1>17. LineTypes' /\ ConfigTypes'
  BY <1>1 DEF IInv, Types, LineTypes, ConfigTypes, line, config, disk, build
<1>18. FlagTypes'
  BY <1>1, Zenon DEF IInv, Types, FlagTypes, config, disk
<1> QED BY <1>8, <1>12, <1>13, <1>14, <1>15, <1>16, <1>17, <1>18 DEF IInv, Types

\* A phase begins.
LEMMA MainRunPhaseKeeps == IInv /\ MainRunPhase => IInv'
<1> SUFFICES ASSUME IInv, MainRunPhase PROVE IInv'
  OBVIOUS
<1>0. PICK p : p = Head(phases)
  OBVIOUS
<1>1. /\ todo = <<>> /\ phases # <<>> /\ mutex = "none" /\ mutex' = "main"
      /\ calls' = registered[p]
      /\ UNCHANGED <<alive, startup, commands, done, threads, line, io, config, build>>
  BY <1>0 DEF MainRunPhase, RunPhase
<1>2. /\ CurrentPhase \in 1..7 /\ p = MainPhases[CurrentPhase] /\ p \in Phases
      /\ Len(RunIn(CurrentPhase)) \in 1..5
  BY <1>0, <1>1, NextPhase, RunInTypes DEF IInv
<1>3. registered[p] = Registered[p]
  <2>1. 8 - Len(todo) = 8
    BY <1>1
  <2>2. registered[p] = RegisteredAfter(8, p)
    BY <1>2, <2>1 DEF IInv, StartupInv
  <2>3. SubSeq(Registered.START, 1, StartsAfter(8)) = Registered.START
    <3>1. StartsAfter(8) = 5
      BY DEF StartsAfter
    <3> QED BY <3>1, StartParts, SubSeqFull
  <2>4. p # "START" => Registrar[p] \in {3, 6, 8}
    BY <1>2, MainPhasesAre DEF Registrar
  <2>5. CASE p = "START"
    BY <2>2, <2>3, <2>5 DEF RegisteredAfter
  <2>6. CASE p # "START"
    BY <2>2, <2>4, <2>6 DEF RegisteredAfter
  <2> QED BY <2>5, <2>6
<1>4. /\ calls' = Registered[p] /\ phases' = phases /\ done' = done /\ cli' = cli
      /\ CurrentPhase' = CurrentPhase
  BY <1>1, <1>3 DEF startup, line, CurrentPhase
<1>5. Running(p)' /\ Len(calls') = Len(Registered[p])
  <2>1. Registered[p] \in Seq(Callbacks) /\ Len(Registered[p]) \in 1..5
    BY <1>2, RegisteredTypes
  <2>2. Rest(Registered[p], Len(Registered[p])) = Registered[p]
    BY <2>1, RestAll
  <2> QED BY <1>4, <2>1, <2>2 DEF Running
<1>6. RunnerInv'
  BY <1>0, <1>1, <1>4, <1>5 DEF IInv, RunnerInv
<1>7. DoneInv'
  <2>1. Returned' = 0
    <3>1. RunIn(CurrentPhase') = Registered[p]
      BY <1>2, <1>4 DEF RunIn
    <3>2. Returned' = Len(Registered[p]) - Len(calls')
      BY <3>1 DEF Returned, RunIn
    <3>3. Len(Registered[p]) \in 1..5
      BY <1>2, RegisteredTypes
    <3> QED BY <1>5, <3>2, <3>3
  <2>2. ASSUME NEW f \in CalledByMain PROVE Passed(f)' <=> Passed(f)
    <3>1. CallNo[f] \in Nat /\ CallNo[f] >= 1
      BY FindsItself, RunInTypes
    <3> QED BY <1>1, <1>4, <2>1, <3>1 DEF Passed
  <2> QED BY <1>4, <2>2 DEF IInv, DoneInv
<1>8. StartupInv'
  BY <1>1 DEF IInv, StartupInv, startup
<1>9. StartTypes'
  <2>1. calls' \in Seq(Callbacks)
    BY <1>2, <1>4, RegisteredTypes
  <2> QED BY <1>1, <2>1 DEF IInv, Types, StartTypes, startup
<1>10. LineInv' /\ ThreadsInv'
  BY <1>1 DEF IInv, LineInv, ThreadsInv, line, build
<1>11. ItemsInv' /\ Stored(file)'
  BY <1>1, ConfigStays DEF IInv, line
<1>12. SaveInv'
  BY <1>1 DEF IInv, SaveInv, config, disk
<1>13. LineTypes' /\ ConfigTypes'
  BY <1>1 DEF IInv, Types, LineTypes, ConfigTypes, line, config, disk, build
<1>14. FlagTypes'
  BY <1>1, Zenon DEF IInv, Types, FlagTypes, config, disk
<1> QED BY <1>6, <1>7, <1>8, <1>9, <1>10, <1>11, <1>12, <1>13, <1>14 DEF IInv, Types

LEMMA CliRunPhaseKeeps == IInv /\ CliRunPhase => IInv'
<1> SUFFICES ASSUME IInv, CliRunPhase PROVE IInv'
  OBVIOUS
<1>0. PICK sub \in DOMAIN PhaseOf : sub = cli
  BY DEF CliRunPhase
<1> DEFINE p == PhaseOf[sub]
<1>1. /\ sub = cli /\ mutex = "none" /\ mutex' = "cli"
      /\ calls' = registered[p] /\ cli' = "phase" /\ input' = input
      /\ UNCHANGED <<alive, startup, commands, done, threads, io, config, build>>
  BY <1>0 DEF CliRunPhase, RunPhase
<1>2. p \in {"SAVE_CONFIG", "LOAD_CONFIG", "LOAD_DEFAULT_VAULES"} /\ p \in Phases
      /\ cli # "off" /\ cli # "phase"
  BY <1>0, PhasesAre DEF PhaseOf
<1>3. todo = <<>>
  <2>1. CurrentPhase >= 5
    <3>1. "local_cli_start" \in done
      BY <1>2 DEF IInv, LineInv
    <3>2. "local_cli_start" \in CalledByMain /\ PhaseNo["local_cli_start"] = 5
      BY CalledByMainAre DEF PhaseNo
    <3>3. Passed("local_cli_start")
      BY <3>1, <3>2 DEF IInv, DoneInv
    <3> DEFINE n == CurrentPhase
    <3>4. n \in Int
      BY DEF IInv, RunnerInv, CurrentPhase
    <3>5. 5 < n \/ 5 = n
      BY <3>2, <3>3 DEF Passed
    <3> HIDE DEF n
    <3>6. n >= 5
      BY <3>4, <3>5
    <3> QED BY <3>6 DEF n
  <2>2. Len(phases) # 7
    <3> DEFINE n == Len(phases)
    <3>1. 8 - n >= 5 /\ n \in 0..7
      BY <2>1 DEF CurrentPhase, IInv, RunnerInv
    <3> HIDE DEF n
    <3>2. n # 7
      BY <3>1
    <3> QED BY <3>2 DEF n
  <2> QED BY <2>2 DEF IInv, StartupInv
<1>4. registered[p] = Registered[p]
  <2>1. 8 - Len(todo) = 8
    BY <1>3
  <2>2. registered[p] = RegisteredAfter(8, p)
    BY <1>2, <2>1 DEF IInv, StartupInv
  <2>3. p # "START" /\ Registrar[p] \in {3, 6}
    BY <1>2 DEF Registrar
  <2> HIDE DEF p
  <2> QED BY <2>2, <2>3 DEF RegisteredAfter
<1>5. calls' = Registered[p] /\ phases' = phases /\ done' = done
  BY <1>1, <1>4 DEF startup
<1>6. Registered[p] \in Seq(Callbacks) /\ Len(Registered[p]) \in 1..5
  BY <1>2, RegisteredTypes
<1> HIDE DEF p
<1>7. Running(p)'
  <2>1. Rest(Registered[p], Len(Registered[p])) = Registered[p]
    BY <1>6, RestAll
  <2> QED BY <1>5, <1>6, <2>1 DEF Running
<1>8. RunnerInv'
  <2>1. \E other \in DOMAIN PhaseOf : Running(PhaseOf[other])'
    BY <1>7 DEF p
  <2> QED BY <1>1, <1>5, <2>1 DEF IInv, RunnerInv
<1>9. DoneInv'
  BY <1>1, <1>5 DEF IInv, DoneInv, Passed, CurrentPhase
<1>10. StartupInv'
  BY <1>1, <1>3 DEF IInv, StartupInv, startup
<1>11. StartTypes'
  BY <1>1, <1>5, <1>6 DEF IInv, Types, StartTypes, startup
<1>12. LineInv' /\ ThreadsInv'
  BY <1>1, <1>2 DEF IInv, LineInv, ThreadsInv, build
<1>13. ItemsInv' /\ Stored(file)'
  BY <1>1, <1>2, ConfigStays DEF IInv
<1>14. SaveInv'
  BY <1>1 DEF IInv, SaveInv, config, disk
<1>15. LineTypes' /\ ConfigTypes'
  BY <1>1 DEF IInv, Types, LineTypes, ConfigTypes, config, disk, build
<1>16. FlagTypes'
  BY <1>1, Zenon DEF IInv, Types, FlagTypes, config, disk
<1> QED BY <1>8, <1>9, <1>10, <1>11, <1>12, <1>13, <1>14, <1>15, <1>16 DEF IInv, Types

\* A phase ends.
LEMMA EndPhaseKeeps == IInv /\ EndPhase => IInv'
<1> SUFFICES ASSUME IInv, EndPhase PROVE IInv'
  OBVIOUS
<1>1. /\ mutex # "none" /\ calls = <<>> /\ mutex' = "none"
      /\ phases' = IF mutex = "main" THEN Tail(phases) ELSE phases
      /\ cli' = IF mutex = "cli" THEN "prompt" ELSE cli
      /\ todo' = todo /\ registered' = registered
      /\ UNCHANGED <<alive, commands, calls, done, threads, input, io, config, build>>
  BY DEF EndPhase
<1>2. (mutex = "main" \/ mutex = "cli") /\ (mutex = "cli" <=> cli = "phase")
  BY <1>1 DEF IInv, Types, StartTypes, RunnerInv
<1>3. cli' = "off" <=> cli = "off"
  BY <1>1, <1>2
<1>4. RunnerInv' /\ DoneInv'
  <2>1. CASE mutex = "cli"
    <3>1. RunnerInv'
      BY <1>1, <1>2, <2>1 DEF IInv, RunnerInv
    <3>2. DoneInv'
      BY <1>1, <2>1 DEF IInv, DoneInv, Passed, CurrentPhase
    <3> QED BY <3>1, <3>2
  <2>2. CASE mutex = "main"
    <3>1. /\ CurrentPhase \in 1..7 /\ Len(phases') = Len(phases) - 1
          /\ phases' = Rest(MainPhases, Len(phases')) /\ Len(phases) \in 0..7
      BY <1>1, <2>2, NextPhase DEF IInv, RunnerInv
    <3>2. CurrentPhase' = CurrentPhase + 1 /\ Len(phases') \in 0..7
      <4> DEFINE n == Len(phases)
                 k == Len(phases')
      <4>1. n \in 0..7 /\ 8 - n \in 1..7 /\ k = n - 1 /\ CurrentPhase' = 8 - k
            /\ CurrentPhase = 8 - n
        BY <3>1 DEF CurrentPhase
      <4> HIDE DEF n, k
      <4>2. CurrentPhase' = CurrentPhase + 1 /\ k \in 0..7
        BY <4>1
      <4> QED BY <4>2 DEF k
    <3>3. RunnerInv'
      BY <1>1, <1>2, <2>2, <3>1, <3>2 DEF IInv, RunnerInv
    <3>4. Returned = Len(RunIn(CurrentPhase)) /\ Returned \in 1..5
      <4>1. Len(RunIn(CurrentPhase)) \in 1..5 /\ Len(calls) = 0
        BY <1>1, <3>1, RunInTypes
      <4> DEFINE m == Len(RunIn(CurrentPhase))
                 k == Len(calls)
      <4>2. m \in 1..5 /\ k = 0 /\ Returned = m - k
        BY <4>1 DEF Returned
      <4> HIDE DEF m, k
      <4>3. Returned = m /\ Returned \in 1..5
        BY <4>2
      <4> QED BY <4>3 DEF m
    <3>5. ASSUME NEW f \in CalledByMain PROVE Passed(f)' <=> Passed(f)
      <4>1. PhaseNo[f] \in 1..7 /\ CallNo[f] \in 1..Len(RunIn(PhaseNo[f]))
        BY FindsItself
      <4>2. PhaseNo[f] = CurrentPhase => CallNo[f] <= Returned
        BY <3>4, <4>1
      <4>3. Passed(f) <=> PhaseNo[f] <= CurrentPhase
        BY <2>2, <3>1, <4>1, <4>2 DEF Passed
      <4>4. Passed(f)' <=> PhaseNo[f] < CurrentPhase + 1
        BY <1>1, <3>2 DEF Passed
      <4> QED BY <3>1, <4>1, <4>3, <4>4
    <3> QED BY <1>1, <3>3, <3>5 DEF IInv, DoneInv
  <2> QED BY <1>2, <2>1, <2>2
<1>5. StartupInv'
  BY <1>1 DEF IInv, StartupInv
<1>6. StartTypes'
  <2>1. phases' \in Seq(ToSet(MainPhases))
    <3>1. Len(phases') \in 0..Len(MainPhases) /\ phases' = Rest(MainPhases, Len(phases'))
      BY <1>4, MainPhasesAre DEF RunnerInv
    <3> QED BY <3>1, RestLen, MainPhasesAre
  <2> QED BY <1>1, <2>1 DEF IInv, Types, StartTypes
<1>7. LineInv' /\ ThreadsInv'
  BY <1>1, <1>3 DEF IInv, LineInv, ThreadsInv, build
<1>8. ItemsInv' /\ Stored(file)'
  BY <1>1, <1>3, ConfigStays DEF IInv
<1>9. SaveInv'
  BY <1>1 DEF IInv, SaveInv, config, disk
<1>10. LineTypes' /\ ConfigTypes'
  BY <1>1 DEF IInv, Types, LineTypes, ConfigTypes, config, disk, build
<1>11. FlagTypes'
  BY <1>1, Zenon DEF IInv, Types, FlagTypes, config, disk
<1> QED BY <1>4, <1>5, <1>6, <1>7, <1>8, <1>9, <1>10, <1>11 DEF IInv, Types

-----------------------------------------------------------------------------
\* The callbacks.

\* When main calls f it has called what comes before f, and nothing else.
LEMMA MainCallsNext ==
  ASSUME RunnerInv, DoneInv, mutex = "main", calls # <<>>,
         NEW f \in CalledByMain, f = Head(calls), NEW g \in CalledByMain
  PROVE  g \in done <=> \/ PhaseNo[g] < PhaseNo[f]
                        \/ PhaseNo[g] = PhaseNo[f] /\ CallNo[g] < CallNo[f]
<1> DEFINE n == CurrentPhase
           r == Returned
<1>1. /\ PhaseNo[f] = n /\ CallNo[f] = r + 1
      /\ n \in 1..7 /\ r + 1 \in 1..Len(RunIn(n)) /\ Len(RunIn(n)) \in 1..5
  BY MainCalls, RunInTypes
<1>2. r \in Int
  <2> DEFINE m == Len(RunIn(n))
             k == Len(calls)
  <2>1. m \in 1..5 /\ k \in Int /\ r = m - k
    BY <1>1, NextPhase DEF Returned, RunnerInv, Running, RunIn
  <2> HIDE DEF m, k
  <2> QED BY <2>1
<1>3. g \in done <=> PhaseNo[g] < n \/ (PhaseNo[g] = n /\ CallNo[g] <= r)
  BY DEF DoneInv, Passed
<1>4. PhaseNo[g] \in Int /\ CallNo[g] \in Int
  BY FindsItself
<1> HIDE DEF n, r
<1>5. CallNo[g] <= r <=> CallNo[g] < r + 1
  BY <1>2, <1>4
<1> QED BY <1>1, <1>3, <1>5

\* There is no command line while main configures, and none of the callbacks
\* that the command line never calls is called again.
LEMMA MainConfigures ==
  ASSUME IInv, calls # <<>>, mutex # "none", Head(calls) \in CalledByMain,
         \/ mutex = "main"
         \/ Head(calls) \notin {"config_load", "sensor_range_load_default_vaules"}
  PROVE  /\ mutex = "main" /\ Head(calls) \notin done
         /\ PhaseNo[Head(calls)] < 5 => cli = "off"
         /\ Head(calls) = "local_cli_start" => cli = "off"
         /\ \A g \in CalledByMain : PhaseNo[g] < PhaseNo[Head(calls)] => g \in done
         /\ \A g \in CalledByMain : PhaseNo[g] > PhaseNo[Head(calls)] => g \notin done
<1>0. PICK f \in CalledByMain : f = Head(calls)
  OBVIOUS
<1>1. mutex = "main"
  <2>1. "config_save" \notin CalledByMain
    BY CalledByMainAre
  <2> QED BY <2>1, CliCalls DEF IInv, Types, StartTypes
<1>2. ASSUME NEW g \in CalledByMain
      PROVE  g \in done <=> \/ PhaseNo[g] < PhaseNo[f]
                            \/ PhaseNo[g] = PhaseNo[f] /\ CallNo[g] < CallNo[f]
  BY <1>0, <1>1, MainCallsNext DEF IInv
<1>3. \A g \in CalledByMain : PhaseNo[g] \in Int /\ CallNo[g] \in Int
  BY FindsItself
<1>4. f \notin done
  BY <1>2, <1>3
<1>5. /\ \A g \in CalledByMain : PhaseNo[g] < PhaseNo[f] => g \in done
      /\ \A g \in CalledByMain : PhaseNo[g] > PhaseNo[f] => g \notin done
  BY <1>2, <1>3
<1>6. "local_cli_start" \in CalledByMain /\ PhaseNo["local_cli_start"] = 5
  BY CalledByMainAre DEF PhaseNo
<1>7. PhaseNo[f] < 5 \/ f = "local_cli_start" => cli = "off"
  BY <1>4, <1>5, <1>6 DEF IInv, LineInv
<1> QED BY <1>0, <1>1, <1>4, <1>5, <1>7

\* What a callback that returns leaves as it is.
LEMMA ReturnLeaves ==
  ASSUME IInv, NEW f, Calls(f), Returns, UNCHANGED <<written, disk>>,
         f = "config_save" => written = NotSaving, cli' = "phase" <=> cli = "phase"
  PROVE  /\ StartupInv' /\ RunnerInv' /\ DoneInv' /\ SaveInv' /\ Stored(file)'
         /\ calls' \in Seq(Callbacks) /\ done' = done \cup {f} /\ done' \subseteq Callbacks
         /\ FlagTypes'
<1>1. /\ mutex # "none" /\ calls # <<>> /\ Head(calls) = f
      /\ done' = done \cup {f} /\ UNCHANGED <<alive, startup, mutex, input, build>>
  BY DEF Calls, Returns
<1>2. /\ StartupInv' /\ RunnerInv' /\ DoneInv'
      /\ calls' \in Seq(Callbacks) /\ done' \subseteq Callbacks
  BY <1>1, Returning DEF IInv, RunnerInv
<1>3. Stored(file)'
  BY DEF IInv, Stored, Prefix, disk
<1>4. SaveInv'
  <2>1. written = NotSaving
    BY <1>1 DEF IInv, SaveInv
  <2> QED BY <2>1 DEF SaveInv
<1>5. FlagTypes'
  BY <1>1, Zenon DEF IInv, Types, FlagTypes, disk
<1> QED BY <1>1, <1>2, <1>3, <1>4, <1>5

\* ... when it is not about the items.
LEMMA ReturnKeeps ==
  ASSUME IInv, NEW f, Calls(f), f = "config_save" => written = NotSaving, f \notin Configured,
         Returns, UNCHANGED config, cli' = "phase" <=> cli = "phase",
         cli' = "off" => cli = "off"
  PROVE  /\ StartupInv' /\ RunnerInv' /\ DoneInv' /\ ItemsInv' /\ SaveInv' /\ Stored(file)'
         /\ calls' \in Seq(Callbacks) /\ done' = done \cup {f} /\ done' \subseteq Callbacks
         /\ FlagTypes' /\ ConfigTypes'
<1>1. /\ done' = done \cup {f} /\ UNCHANGED build /\ UNCHANGED <<written, disk>>
  BY DEF Calls, Returns, config
<1>2. /\ StartupInv' /\ RunnerInv' /\ DoneInv' /\ SaveInv' /\ Stored(file)'
      /\ calls' \in Seq(Callbacks) /\ done' \subseteq Callbacks /\ FlagTypes'
  BY <1>1, ReturnLeaves
<1>3. ItemsInv'
  BY <1>1, ConfigStays DEF IInv
<1>4. ConfigTypes'
  BY <1>1 DEF IInv, Types, ConfigTypes, config, disk, build
<1> QED BY <1>1, <1>2, <1>3, <1>4

LEMMA ConfigRegisterCommandsKeeps == IInv /\ ConfigRegisterCommands => IInv'
<1> SUFFICES ASSUME IInv, ConfigRegisterCommands PROVE IInv'
  OBVIOUS
<1> DEFINE f == "config_register_commands"
<1>1. /\ Calls(f) /\ commands' = commands \cup {"config"} /\ Returns
      /\ UNCHANGED <<threads, cli, io, config>>
  BY DEF ConfigRegisterCommands, Registers
<1>2. /\ StartupInv' /\ RunnerInv' /\ DoneInv' /\ ItemsInv' /\ SaveInv' /\ Stored(file)'
      /\ calls' \in Seq(Callbacks) /\ done' = done \cup {f} /\ done' \subseteq Callbacks
      /\ FlagTypes' /\ ConfigTypes'
  BY <1>1, ReturnKeeps DEF Configured
<1>3. StartTypes' /\ LineTypes'
  BY <1>1, <1>2 DEF IInv, Types, StartTypes, LineTypes, Returns, startup, Commands
<1>4. LineInv' /\ ThreadsInv'
  BY <1>1, <1>2 DEF IInv, LineInv, ThreadsInv, Returns, build
<1> QED BY <1>2, <1>3, <1>4 DEF IInv, Types

LEMMA LocalCliStartKeeps == IInv /\ LocalCliStart => IInv'
<1> SUFFICES ASSUME IInv, LocalCliStart PROVE IInv'
  OBVIOUS
<1> DEFINE f == "local_cli_start"
<1>1. /\ Calls(f) /\ cli' \in {"prompt", "off"} /\ Returns
      /\ UNCHANGED <<commands, threads, io, config>>
  BY DEF LocalCliStart
<1>2. cli = "off"
  <2>1. f \in CalledByMain
    BY CalledByMainAre
  <2> QED BY <1>1, <2>1, MainConfigures DEF Calls
<1>3. /\ StartupInv' /\ RunnerInv' /\ DoneInv' /\ ItemsInv' /\ SaveInv' /\ Stored(file)'
      /\ calls' \in Seq(Callbacks) /\ done' = done \cup {f} /\ done' \subseteq Callbacks
      /\ FlagTypes' /\ ConfigTypes'
  BY <1>1, <1>2, ReturnKeeps DEF Configured
<1>4. StartTypes' /\ LineTypes'
  BY <1>1, <1>3 DEF IInv, Types, StartTypes, LineTypes, Returns, startup
<1>5. LineInv' /\ ThreadsInv'
  BY <1>1, <1>3 DEF IInv, LineInv, ThreadsInv, Returns, build
<1> QED BY <1>3, <1>4, <1>5 DEF IInv, Types

LEMMA StartWorkerKeeps == IInv /\ StartWorker => IInv'
<1> SUFFICES ASSUME IInv, StartWorker PROVE IInv'
  OBVIOUS
<1>1. PICK f \in DOMAIN WorkerOf :
        /\ Calls(f) /\ threads' \in {threads, threads \cup {WorkerOf[f]}} /\ Returns
        /\ UNCHANGED <<commands, cli, io, config>>
  BY DEF StartWorker
<1>2. /\ f \in {"communicator_start", "sensors_start", "mow_mow"}
      /\ f = "communicator_start" => WorkerOf[f] = "communicator"
      /\ f = "sensors_start" => WorkerOf[f] = "sensors"
      /\ f = "mow_mow" => WorkerOf[f] = "mow"
  BY DEF WorkerOf
<1>3. /\ StartupInv' /\ RunnerInv' /\ DoneInv' /\ ItemsInv' /\ SaveInv' /\ Stored(file)'
      /\ calls' \in Seq(Callbacks) /\ done' = done \cup {f} /\ done' \subseteq Callbacks
      /\ FlagTypes' /\ ConfigTypes'
  BY <1>1, <1>2, ReturnKeeps DEF Configured
<1>4. StartTypes' /\ LineTypes'
  BY <1>1, <1>2, <1>3 DEF IInv, Types, StartTypes, LineTypes, Returns, startup, Workers
<1>5. LineInv' /\ ThreadsInv'
  BY <1>1, <1>2, <1>3 DEF IInv, LineInv, ThreadsInv, Returns, build
<1> QED BY <1>3, <1>4, <1>5 DEF IInv, Types

LEMMA DcnStartKeeps == IInv /\ DcnStart => IInv'
<1> SUFFICES ASSUME IInv, DcnStart PROVE IInv'
  OBVIOUS
<1> DEFINE f == "dcn_start"
<1>1. Calls(f) /\ Returns /\ UNCHANGED <<commands, threads, cli, io, config>>
  BY DEF DcnStart
<1>2. /\ StartupInv' /\ RunnerInv' /\ DoneInv' /\ ItemsInv' /\ SaveInv' /\ Stored(file)'
      /\ calls' \in Seq(Callbacks) /\ done' = done \cup {f} /\ done' \subseteq Callbacks
      /\ FlagTypes' /\ ConfigTypes'
  BY <1>1, ReturnKeeps DEF Configured
<1>3. StartTypes' /\ LineTypes'
  BY <1>1, <1>2 DEF IInv, Types, StartTypes, LineTypes, Returns, startup
<1>4. LineInv' /\ ThreadsInv'
  BY <1>1, <1>2 DEF IInv, LineInv, ThreadsInv, Returns, build
<1> QED BY <1>2, <1>3, <1>4 DEF IInv, Types

LEMMA IoStartKeeps == IInv /\ IoStart => IInv'
<1> SUFFICES ASSUME IInv, IoStart PROVE IInv'
  OBVIOUS
<1> DEFINE f == "io_start"
<1>1. /\ Calls(f) /\ commands' = commands \cup {"io_read"} /\ Returns
      /\ UNCHANGED <<threads, cli, io, config>>
  BY DEF IoStart, Registers
<1>2. /\ StartupInv' /\ RunnerInv' /\ DoneInv' /\ ItemsInv' /\ SaveInv' /\ Stored(file)'
      /\ calls' \in Seq(Callbacks) /\ done' = done \cup {f} /\ done' \subseteq Callbacks
      /\ FlagTypes' /\ ConfigTypes'
  BY <1>1, ReturnKeeps DEF Configured
<1>3. StartTypes' /\ LineTypes'
  BY <1>1, <1>2 DEF IInv, Types, StartTypes, LineTypes, Returns, startup, Commands
<1>4. LineInv' /\ ThreadsInv'
  BY <1>1, <1>2 DEF IInv, LineInv, ThreadsInv, Returns, build
<1> QED BY <1>2, <1>3, <1>4 DEF IInv, Types

\* The transport.
LEMMA NetConnectKeeps == IInv /\ NetConnect => IInv'
<1> SUFFICES ASSUME IInv, NetConnect PROVE IInv'
  OBVIOUS
<1> DEFINE f == "io_transport_start"
<1>1. /\ Calls(f) /\ io' = "open" /\ Returns
      /\ UNCHANGED <<commands, threads, cli, config>>
  BY DEF NetConnect
<1>2. /\ StartupInv' /\ RunnerInv' /\ DoneInv' /\ ItemsInv' /\ SaveInv' /\ Stored(file)'
      /\ calls' \in Seq(Callbacks) /\ done' = done \cup {f} /\ done' \subseteq Callbacks
      /\ FlagTypes' /\ ConfigTypes'
  BY <1>1, ReturnKeeps DEF Configured
<1>3. StartTypes' /\ LineTypes'
  BY <1>1, <1>2 DEF IInv, Types, StartTypes, LineTypes, Returns, startup
<1>4. LineInv' /\ ThreadsInv'
  BY <1>1, <1>2 DEF IInv, LineInv, ThreadsInv, Returns, build
<1> QED BY <1>2, <1>3, <1>4 DEF IInv, Types

LEMMA I2cStartKeeps == IInv /\ I2cStart => IInv'
<1> SUFFICES ASSUME IInv, I2cStart PROVE IInv'
  OBVIOUS
<1> DEFINE f == "io_transport_start"
<1>1. /\ Calls(f) /\ transport = "i2c" /\ io' \in {"closed", "open"} /\ Returns
      /\ commands' = commands \/ commands' = commands \cup {"i2c"}
      /\ UNCHANGED <<threads, cli, config>>
  BY DEF I2cStart, Registers
<1>2. /\ StartupInv' /\ RunnerInv' /\ DoneInv' /\ ItemsInv' /\ SaveInv' /\ Stored(file)'
      /\ calls' \in Seq(Callbacks) /\ done' = done \cup {f} /\ done' \subseteq Callbacks
      /\ FlagTypes' /\ ConfigTypes'
  BY <1>1, ReturnKeeps DEF Configured
<1>3. StartTypes' /\ LineTypes'
  BY <1>1, <1>2 DEF IInv, Types, StartTypes, LineTypes, Returns, startup, Commands
<1>4. LineInv' /\ ThreadsInv'
  BY <1>1, <1>2 DEF IInv, LineInv, ThreadsInv, Returns, build
<1> QED BY <1>2, <1>3, <1>4 DEF IInv, Types

\* A callback goes on.
LEMMA NetSocketKeeps == IInv /\ NetSocket => IInv'
<1> SUFFICES ASSUME IInv, NetSocket PROVE IInv'
  OBVIOUS
<1>1. /\ io' = "socket"
      /\ UNCHANGED <<alive, startup, commands, runner, threads, line, config, build>>
  BY DEF NetSocket
<1>2. StartupInv' /\ RunnerInv' /\ DoneInv'
  BY <1>1, Staying DEF IInv, line
<1>3. StartTypes' /\ LineTypes'
  BY <1>1 DEF IInv, Types, StartTypes, LineTypes, startup, runner, line
<1>4. LineInv' /\ ThreadsInv' /\ SaveInv'
  BY <1>1 DEF IInv, LineInv, ThreadsInv, SaveInv, runner, line, build, config, disk
<1>5. ItemsInv' /\ Stored(file)'
  BY <1>1, ConfigStays DEF IInv, runner, line
<1>6. FlagTypes'
  BY <1>1, Zenon DEF IInv, Types, FlagTypes, config, disk
<1>7. ConfigTypes'
  BY <1>1 DEF IInv, Types, ConfigTypes, config, disk, build
<1> QED BY <1>2, <1>3, <1>4, <1>5, <1>6, <1>7 DEF IInv, Types

\* The items.
LEMMA RegisterValuesKeeps == IInv /\ RegisterValues => IInv'
<1> SUFFICES ASSUME IInv, RegisterValues PROVE IInv'
  OBVIOUS
<1> DEFINE f == "sensor_range_register_values"
<1>1. /\ Calls(f) /\ Returns
      /\ items' = [n \in Items |-> IF n \in DOMAIN items THEN items[n] ELSE 0]
      /\ UNCHANGED <<commands, threads, cli, io, leaked, written, disk>>
  BY DEF RegisterValues
<1>2. /\ StartupInv' /\ RunnerInv' /\ DoneInv' /\ SaveInv' /\ Stored(file)'
      /\ calls' \in Seq(Callbacks) /\ done' = done \cup {f} /\ done' \subseteq Callbacks
      /\ FlagTypes'
  BY <1>1, ReturnLeaves
<1>3. items' \in [Items -> Int]
  BY <1>1 DEF IInv, Types, ConfigTypes
<1>4. /\ cli = "off" /\ "config_load" \notin done
      /\ "sensor_range_load_default_vaules" \notin done
  <2>1. /\ f \in CalledByMain /\ PhaseNo[f] = 2
        /\ "config_load" \in CalledByMain /\ PhaseNo["config_load"] = 4
        /\ "sensor_range_load_default_vaules" \in CalledByMain
        /\ PhaseNo["sensor_range_load_default_vaules"] = 3
    BY CalledByMainAre DEF PhaseNo
  <2> QED BY <1>1, <2>1, MainConfigures DEF Calls
<1>5. ItemsInv'
  BY <1>1, <1>2, <1>3, <1>4 DEF IInv, ItemsInv
<1>6. StartTypes' /\ LineTypes'
  BY <1>1, <1>2 DEF IInv, Types, StartTypes, LineTypes, Returns, startup
<1>7. ConfigTypes'
  BY <1>1, <1>3 DEF IInv, Types, ConfigTypes, Returns, disk, build
<1>8. LineInv' /\ ThreadsInv'
  BY <1>1, <1>2 DEF IInv, LineInv, ThreadsInv, Returns, build
<1> QED BY <1>2, <1>5, <1>6, <1>7, <1>8 DEF IInv, Types

\* Without items the process dies, with them they are the defaults.
LEMMA LoadDefaultsKeeps == IInv /\ LoadDefaults => IInv'
<1> SUFFICES ASSUME IInv, LoadDefaults PROVE IInv'
  OBVIOUS
<1>1. CASE DOMAIN items # Items
  BY <1>1, KilledKeeps DEF LoadDefaults
<1>2. CASE DOMAIN items = Items
  <2> DEFINE f == "sensor_range_load_default_vaules"
  <2>1. /\ Calls(f) /\ Returns /\ items' = Default
        /\ UNCHANGED <<commands, threads, cli, io, leaked, written, disk>>
    BY <1>2 DEF LoadDefaults
  <2>2. /\ StartupInv' /\ RunnerInv' /\ DoneInv' /\ SaveInv' /\ Stored(file)'
        /\ calls' \in Seq(Callbacks) /\ done' = done \cup {f} /\ done' \subseteq Callbacks
        /\ FlagTypes'
    BY <2>1, ReturnLeaves
  <2>3. items' \in [Items -> Int]
    BY <2>1, ControllerAssumption
  <2>4. cli = "off" => "config_load" \notin done
    <3>1. /\ f \in CalledByMain /\ PhaseNo[f] = 3
          /\ "config_load" \in CalledByMain /\ PhaseNo["config_load"] = 4
      BY CalledByMainAre DEF PhaseNo
    <3>2. cli = "off" => mutex = "main"
      BY <2>1 DEF Calls, IInv, RunnerInv, Types, StartTypes
    <3> QED BY <2>1, <3>1, <3>2, MainConfigures DEF Calls
  <2>5. ItemsInv'
    BY <2>1, <2>2, <2>3, <2>4 DEF IInv, ItemsInv
  <2>6. StartTypes' /\ LineTypes'
    BY <2>1, <2>2 DEF IInv, Types, StartTypes, LineTypes, Returns, startup
  <2>7. ConfigTypes'
    BY <2>1, <2>3 DEF IInv, Types, ConfigTypes, Returns, disk, build
  <2>8. LineInv' /\ ThreadsInv'
    BY <2>1, <2>2 DEF IInv, LineInv, ThreadsInv, Returns, build
  <2> QED BY <2>2, <2>5, <2>6, <2>7, <2>8 DEF IInv, Types
<1> QED BY <1>1, <1>2

\* The first time the items are the defaults and there is a descriptor.
LEMMA ConfigLoadKeeps == IInv /\ ConfigLoad => IInv'
<1> SUFFICES ASSUME IInv, ConfigLoad PROVE IInv'
  OBVIOUS
<1> DEFINE f == "config_load"
<1>1. /\ Calls(f) /\ Returns
      /\ IF HasDescriptor /\ file.exists
         THEN items' = Loaded(items, file) /\ leaked' = leaked + 1
         ELSE UNCHANGED <<items, leaked>>
      /\ UNCHANGED <<commands, threads, cli, io, written, disk>>
  BY DEF ConfigLoad
<1>2. /\ StartupInv' /\ RunnerInv' /\ DoneInv' /\ SaveInv' /\ Stored(file)'
      /\ calls' \in Seq(Callbacks) /\ done' = done \cup {f} /\ done' \subseteq Callbacks
      /\ FlagTypes'
  BY <1>1, ReturnLeaves
<1>3. file \in Contents /\ items \in [Items -> Int] \cup {<<>>} /\ leaked \in 0..MaxFiles
  BY DEF IInv, Types, ConfigTypes
<1>4. /\ items' \in [Items -> Int] \cup {<<>>}
      /\ items \in [Items -> Int] => items' \in [Items -> Int]
  <2>1. CASE items' = items
    BY <1>3, <2>1
  <2>2. CASE items' = Loaded(items, file)
    BY <1>3, <2>2, LoadKeepsType
  <2> QED BY <1>1, <2>1, <2>2
<1>5. leaked' \in 0..MaxFiles
  <2>1. CASE leaked' = leaked
    BY <1>3, <2>1
  <2>2. CASE leaked' = leaked + 1 /\ leaked < MaxFiles
    BY <1>3, <2>2, ControllerAssumption
  <2> QED BY <1>1, <2>1, <2>2 DEF HasDescriptor
<1>6. ASSUME cli = "off" PROVE items' = Loaded(Default, file)
  <2>1. mutex = "main"
    BY <1>1, <1>6 DEF Calls, IInv, RunnerInv, Types, StartTypes
  <2>2. "config_load" \notin done /\ "sensor_range_load_default_vaules" \in done
    <3>1. /\ f \in CalledByMain /\ PhaseNo[f] = 4
          /\ "sensor_range_load_default_vaules" \in CalledByMain
          /\ PhaseNo["sensor_range_load_default_vaules"] = 3
      BY CalledByMainAre DEF PhaseNo
    <3> QED BY <1>1, <2>1, <3>1, MainConfigures DEF Calls
  <2>3. items = Default /\ leaked = 0
    BY <1>6, <2>2 DEF IInv, ItemsInv
  <2>4. HasDescriptor
    BY <2>3, ControllerAssumption DEF HasDescriptor
  <2>5. CASE file.exists
    BY <1>1, <2>3, <2>4, <2>5
  <2>6. CASE ~file.exists
    <3>1. file = NoFile
      BY <1>3, <2>6 DEF Contents
    <3>2. Loaded(Default, file) = Default
      BY <3>1, LoadNothing
    <3> QED BY <1>1, <2>3, <2>6, <3>2
  <2> QED BY <2>5, <2>6
<1>7. ItemsInv'
  BY <1>1, <1>2, <1>4, <1>6 DEF IInv, ItemsInv, disk
<1>8. StartTypes' /\ LineTypes'
  BY <1>1, <1>2 DEF IInv, Types, StartTypes, LineTypes, Returns, startup
<1>9. ConfigTypes'
  BY <1>1, <1>4, <1>5 DEF IInv, Types, ConfigTypes, Returns, disk, build
<1>10. LineInv' /\ ThreadsInv'
  BY <1>1, <1>2 DEF IInv, LineInv, ThreadsInv, Returns, build
<1> QED BY <1>2, <1>7, <1>8, <1>9, <1>10 DEF IInv, Types

\* Only the command line saves, when there are items.
LEMMA CliSaves ==
  ASSUME IInv, Calls("config_save")
  PROVE  /\ mutex = "cli" /\ calls = <<"config_save">> /\ cli = "phase"
         /\ items \in [Items -> Int]
<1>1. mutex # "none" /\ calls # <<>> /\ Head(calls) = "config_save"
  BY DEF Calls
<1>2. mutex = "cli"
  <2>1. "config_save" \notin CalledByMain
    BY CalledByMainAre
  <2> QED BY <1>1, <2>1, MainCalls DEF IInv, Types, StartTypes
<1>3. cli = "phase" /\ calls = <<"config_save">>
  BY <1>1, <1>2, CliCalls DEF IInv, RunnerInv
<1>4. "sensor_range_register_values" \in done
  <2>1. "sensor_range_register_values" \in CalledByMain
        /\ PhaseNo["sensor_range_register_values"] = 2
    BY CalledByMainAre DEF PhaseNo
  <2> QED BY <1>3, <2>1, CliIsLate DEF IInv
<1> QED BY <1>2, <1>3, <1>4 DEF IInv, ItemsInv

\* The empty file loads the defaults, the first items of none.
LEMMA SaveOpenKeeps == IInv /\ SaveOpen => IInv'
<1> SUFFICES ASSUME IInv, SaveOpen PROVE IInv'
  OBVIOUS
<1>1. /\ Calls("config_save") /\ file' = FileOf(<<>>) /\ written' = 0
      /\ saved' = items /\ torn' = TRUE
      /\ UNCHANGED <<alive, startup, commands, runner, threads, line, io, items, leaked, build>>
  BY DEF SaveOpen
<1>2. mutex = "cli" /\ calls = <<"config_save">> /\ cli = "phase" /\ items \in [Items -> Int]
  BY <1>1, CliSaves
<1>3. StartupInv' /\ RunnerInv' /\ DoneInv'
  BY <1>1, Staying DEF IInv, line
<1>4. StartTypes' /\ LineTypes'
  BY <1>1 DEF IInv, Types, StartTypes, LineTypes, startup, runner, line
<1>5. LineInv' /\ ThreadsInv'
  BY <1>1 DEF IInv, LineInv, ThreadsInv, runner, line, build
<1>6. ItemsInv'
  BY <1>1, <1>2 DEF IInv, ItemsInv, runner, line
<1>7. SaveInv'
  BY <1>1, <1>2 DEF SaveInv, runner
<1>8. Stored(file)'
  <2>1. Loaded(Default, FileOf(<<>>)) = Default
    BY LoadNothing
  <2>2. Prefix(0)' = Default
    BY ControllerAssumption DEF Prefix
  <2>3. 0 \in 0..Len(Names)
    BY NamesAre
  <2> QED BY <1>1, <2>1, <2>2, <2>3 DEF Stored
<1>9. FlagTypes'
  BY <1>1, Zenon DEF IInv, Types, FlagTypes
<1>10. ConfigTypes'
  <2>1. FileOf(<<>>) \in Contents
    BY DEF FileOf, Contents
  <2>2. 0 \in NotSaving..Len(Names)
    BY NamesAre DEF NotSaving
  <2> QED BY <1>1, <1>2, <2>1, <2>2 DEF IInv, Types, ConfigTypes, build
<1> QED BY <1>3, <1>4, <1>5, <1>6, <1>7, <1>8, <1>9, <1>10 DEF IInv, Types

LEMMA SaveItemKeeps == IInv /\ SaveItem => IInv'
<1> SUFFICES ASSUME IInv, SaveItem PROVE IInv'
  OBVIOUS
<1>1. /\ written \in 0..(Len(Names) - 1) /\ written' = written + 1
      /\ UNCHANGED <<alive, startup, commands, runner, threads, line, io, items, leaked,
                     disk, build>>
  BY DEF SaveItem
<1>2. written # NotSaving /\ written' \in NotSaving..Len(Names)
  BY <1>1, NamesAre DEF NotSaving
<1>3. StartupInv' /\ RunnerInv' /\ DoneInv'
  BY <1>1, Staying DEF IInv, line
<1>4. StartTypes' /\ LineTypes'
  BY <1>1 DEF IInv, Types, StartTypes, LineTypes, startup, runner, line
<1>5. LineInv' /\ ThreadsInv'
  BY <1>1 DEF IInv, LineInv, ThreadsInv, runner, line, build
<1>6. ItemsInv' /\ SaveInv'
  BY <1>1, <1>2 DEF IInv, ItemsInv, SaveInv, runner, line, disk
<1>7. Stored(file)'
  BY <1>1 DEF IInv, Stored, Prefix, disk
<1>8. FlagTypes'
  BY <1>1, Zenon DEF IInv, Types, FlagTypes, disk
<1>9. ConfigTypes'
  BY <1>1, <1>2 DEF IInv, Types, ConfigTypes, disk, build
<1> QED BY <1>3, <1>4, <1>5, <1>6, <1>7, <1>8, <1>9 DEF IInv, Types

LEMMA SaveOpenFailsKeeps == IInv /\ SaveOpenFails => IInv'
<1> SUFFICES ASSUME IInv, SaveOpenFails PROVE IInv'
  OBVIOUS
<1> DEFINE f == "config_save"
<1>1. /\ Calls(f) /\ written = NotSaving /\ Returns
      /\ UNCHANGED <<commands, threads, cli, io, config>>
  BY DEF SaveOpenFails
<1>2. /\ StartupInv' /\ RunnerInv' /\ DoneInv' /\ ItemsInv' /\ SaveInv' /\ Stored(file)'
      /\ calls' \in Seq(Callbacks) /\ done' = done \cup {f} /\ done' \subseteq Callbacks
      /\ FlagTypes' /\ ConfigTypes'
  BY <1>1, ReturnKeeps DEF Configured
<1>3. StartTypes' /\ LineTypes'
  BY <1>1, <1>2 DEF IInv, Types, StartTypes, LineTypes, Returns, startup
<1>4. LineInv' /\ ThreadsInv'
  BY <1>1, <1>2 DEF IInv, LineInv, ThreadsInv, Returns, build
<1> QED BY <1>2, <1>3, <1>4 DEF IInv, Types

\* What has been written loads what the items were.
LEMMA SaveCloseKeeps == IInv /\ SaveClose => IInv'
<1> SUFFICES ASSUME IInv, SaveClose PROVE IInv'
  OBVIOUS
<1> DEFINE f == "config_save"
<1>1. /\ Calls(f) /\ written = Len(Names) /\ file' = FileOf(LinesOf(items))
      /\ written' = NotSaving /\ torn' = FALSE /\ Returns
      /\ UNCHANGED <<commands, threads, cli, io, items, leaked, saved>>
  BY DEF SaveClose
<1>2. /\ mutex # "none" /\ calls # <<>> /\ Head(calls) = f
      /\ done' = done \cup {f} /\ UNCHANGED <<alive, startup, mutex, input, build>>
  BY <1>1 DEF Calls, Returns
<1>3. /\ cli = "phase" /\ items \in [Items -> Int]
  BY <1>1, CliSaves
<1>4. saved = items
  <2>1. written # NotSaving
    BY <1>1, NamesAre DEF NotSaving
  <2> QED BY <2>1 DEF IInv, SaveInv
<1>5. /\ StartupInv' /\ RunnerInv' /\ DoneInv'
      /\ calls' \in Seq(Callbacks) /\ done' \subseteq Callbacks
  BY <1>1, <1>2, Returning DEF IInv, RunnerInv
<1>6. StartTypes' /\ LineTypes'
  BY <1>1, <1>2, <1>5 DEF IInv, Types, StartTypes, LineTypes, startup
<1>7. LineInv' /\ ThreadsInv'
  BY <1>1, <1>2 DEF IInv, LineInv, ThreadsInv, build
<1>8. ItemsInv' /\ SaveInv'
  BY <1>1, <1>2, <1>3 DEF IInv, ItemsInv, SaveInv
<1>9. Stored(file)'
  BY <1>1, <1>3, <1>4, LoadAll DEF Stored
<1>10. FlagTypes'
  BY <1>1, <1>2, Zenon DEF IInv, Types, FlagTypes
<1>11. ConfigTypes'
  <2>1. FileOf(LinesOf(items)) \in Contents
    BY <1>3, LinesAre DEF FileOf, Contents
  <2>2. NotSaving \in NotSaving..Len(Names)
    BY NamesAre DEF NotSaving
  <2> QED BY <1>1, <1>2, <2>1, <2>2 DEF IInv, Types, ConfigTypes, build
<1> QED BY <1>5, <1>6, <1>7, <1>8, <1>9, <1>10, <1>11 DEF IInv, Types

\* Every callback.
LEMMA CallbackKeeps == IInv /\ Callback => IInv'
<1> SUFFICES ASSUME IInv, Callback PROVE IInv'
  OBVIOUS
<1>1. ConfigRegisterCommands \/ RegisterValues \/ LoadDefaults \/ ConfigLoad => IInv'
  BY ConfigRegisterCommandsKeeps, RegisterValuesKeeps, LoadDefaultsKeeps, ConfigLoadKeeps
<1>2. SaveOpen \/ SaveOpenFails \/ SaveItem \/ SaveClose => IInv'
  BY SaveOpenKeeps, SaveOpenFailsKeeps, SaveItemKeeps, SaveCloseKeeps
<1>3. LocalCliStart \/ StartWorker \/ DcnStart => IInv'
  BY LocalCliStartKeeps, StartWorkerKeeps, DcnStartKeeps
<1>4. NetFails => IInv'
  BY ExitsKeeps DEF NetFails
<1>5. IoStart \/ NetSocket \/ NetConnect \/ I2cStart => IInv'
  BY IoStartKeeps, NetSocketKeeps, NetConnectKeeps, I2cStartKeeps
<1> QED BY <1>1, <1>2, <1>3, <1>4, <1>5 DEF Callback

-----------------------------------------------------------------------------
\* The command line.
LEMMA CliMoves ==
  ASSUME IInv, cli \notin {"off", "phase"},
         cli' \in {"prompt", "help", "reading"} \cup DOMAIN PhaseOf,
         cli' = "reading" => io # "closed" /\ transport = "net",
         input' \in {"open", "help", "closed"},
         UNCHANGED <<alive, startup, commands, runner, threads, io, config, build>>
  PROVE  IInv'
<1>1. cli' # "off" /\ cli' # "phase"
  BY DEF PhaseOf
<1>2. StartupInv' /\ RunnerInv' /\ DoneInv'
  BY <1>1, Staying DEF IInv
<1>3. StartTypes' /\ LineTypes'
  BY DEF IInv, Types, StartTypes, LineTypes, startup, runner
<1>4. LineInv' /\ ThreadsInv'
  BY DEF IInv, LineInv, ThreadsInv, runner, build
<1>5. ItemsInv' /\ Stored(file)'
  BY <1>1, ConfigStays DEF IInv, runner
<1>6. SaveInv'
  BY DEF IInv, SaveInv, runner, config, disk
<1>7. FlagTypes'
  BY Zenon DEF IInv, Types, FlagTypes, config, disk
<1>8. ConfigTypes'
  BY DEF IInv, Types, ConfigTypes, config, disk, build
<1> QED BY <1>2, <1>3, <1>4, <1>5, <1>6, <1>7, <1>8 DEF IInv, Types

\* config set changes the items, never while they are saved.
LEMMA ConfigSetKeeps ==
  ASSUME IInv, NEW n \in Items, NEW v \in Values, ConfigSet(n, v)
  PROVE  IInv'
<1>1. /\ cli = "prompt" /\ n \in DOMAIN items /\ items' = [items EXCEPT ![n] = v]
      /\ UNCHANGED <<alive, startup, commands, runner, threads, line, io, leaked, written,
                     disk, build>>
  BY DEF ConfigSet, Typed, Finds
<1>2. items' \in [Items -> Int]
  BY <1>1, ControllerAssumption DEF IInv, Types, ConfigTypes
<1>3. StartupInv' /\ RunnerInv' /\ DoneInv'
  BY <1>1, Staying DEF IInv, line
<1>4. StartTypes' /\ LineTypes'
  BY <1>1 DEF IInv, Types, StartTypes, LineTypes, startup, runner, line
<1>5. LineInv' /\ ThreadsInv'
  BY <1>1 DEF IInv, LineInv, ThreadsInv, runner, line, build
<1>6. ItemsInv'
  BY <1>1, <1>2 DEF IInv, ItemsInv, runner, line
<1>7. SaveInv'
  <2>1. written = NotSaving
    BY <1>1 DEF IInv, SaveInv, RunnerInv
  <2> QED BY <1>1, <2>1 DEF SaveInv
<1>8. Stored(file)'
  BY <1>1 DEF IInv, Stored, Prefix, disk
<1>9. FlagTypes'
  BY <1>1, Zenon DEF IInv, Types, FlagTypes, disk
<1>10. ConfigTypes'
  BY <1>1, <1>2 DEF IInv, Types, ConfigTypes, disk, build
<1> QED BY <1>3, <1>4, <1>5, <1>6, <1>7, <1>8, <1>9, <1>10 DEF IInv, Types

\* Every command.
LEMMA CommandLineKeeps == IInv /\ CommandLine => IInv'
<1> SUFFICES ASSUME IInv, CommandLine PROVE IInv'
  OBVIOUS
<1>1. CASE EndOfInput \/ Help \/ HelpEnds
  <2>1. /\ cli \notin {"off", "phase"} /\ cli' \in {"prompt", "help"}
        /\ input' \in {"open", "help", "closed"}
        /\ UNCHANGED <<alive, startup, commands, runner, threads, io, config, build>>
    BY <1>1 DEF EndOfInput, Help, HelpEnds, Typed, Finds, IInv, Types, LineTypes
  <2> QED BY <2>1, CliMoves
<1>2. CASE Exit
  BY <1>2, ExitsKeeps DEF Exit
<1>3. CASE CliRunPhase
  BY <1>3, CliRunPhaseKeeps
<1>4. ASSUME NEW sub \in DOMAIN PhaseOf, ConfigPhase(sub) PROVE IInv'
  <2>1. /\ cli \notin {"off", "phase"} /\ cli' = sub /\ input' \in {"open", "help", "closed"}
        /\ UNCHANGED <<alive, startup, commands, runner, threads, io, config, build>>
    BY <1>4 DEF ConfigPhase, Typed, Finds, IInv, Types, LineTypes
  <2>2. sub # "reading"
    BY DEF PhaseOf
  <2> QED BY <2>1, <2>2, CliMoves
<1>5. ASSUME NEW n \in Items, NEW v \in Values, ConfigSet(n, v) PROVE IInv'
  BY <1>5, ConfigSetKeeps
<1>6. CASE ConfigSetNothing \/ IoReadTooEarly
  BY <1>6, KilledKeeps DEF ConfigSetNothing, IoReadTooEarly
<1>7. CASE IoRead \/ IoAnswer
  <2>1. /\ cli \notin {"off", "phase"} /\ cli' \in {"prompt", "reading"}
        /\ cli' = "reading" => io # "closed" /\ transport = "net"
        /\ input' \in {"open", "help", "closed"}
        /\ UNCHANGED <<alive, startup, commands, runner, threads, io, config, build>>
    BY <1>7 DEF IoRead, IoAnswer, Typed, Finds, IInv, Types, LineTypes
  <2> QED BY <2>1, CliMoves
<1> QED BY <1>1, <1>2, <1>3, <1>4, <1>5, <1>6, <1>7 DEF CommandLine

-----------------------------------------------------------------------------
LEMMA RestartKeeps == IInv /\ Restart => IInv'
<1> SUFFICES ASSUME IInv, Restart PROVE IInv'
  OBVIOUS
<1>1. /\ alive' = TRUE /\ restarts < MaxRestarts /\ restarts' = restarts + 1
      /\ UNCHANGED <<startup, commands, runner, threads, line, io, config, transport>>
  BY DEF Restart
<1>2. StartupInv' /\ RunnerInv' /\ DoneInv'
  BY <1>1, Staying DEF IInv, line
<1>3. StartTypes' /\ LineTypes'
  BY <1>1 DEF IInv, Types, StartTypes, LineTypes, startup, runner, line
<1>4. LineInv' /\ ThreadsInv' /\ SaveInv'
  BY <1>1 DEF IInv, LineInv, ThreadsInv, SaveInv, runner, line, config, disk
<1>5. ItemsInv' /\ Stored(file)'
  BY <1>1, ConfigStays DEF IInv, runner, line
<1>6. FlagTypes'
  BY <1>1, Zenon DEF IInv, Types, FlagTypes, config, disk
<1>7. ConfigTypes'
  <2>1. restarts' \in 0..MaxRestarts
    BY <1>1, ControllerAssumption DEF IInv, Types, ConfigTypes
  <2> QED BY <1>1, <2>1 DEF IInv, Types, ConfigTypes, config, disk
<1> QED BY <1>2, <1>3, <1>4, <1>5, <1>6, <1>7 DEF IInv, Types

LEMMA StuttersKeeps == IInv /\ UNCHANGED vars => IInv'
<1> SUFFICES ASSUME IInv, UNCHANGED vars PROVE IInv'
  OBVIOUS
<1>1. UNCHANGED <<alive, startup, commands, runner, threads, line, io, config, build>>
  BY DEF vars
<1>2. StartupInv' /\ RunnerInv' /\ DoneInv'
  BY <1>1, Staying DEF IInv, line
<1>3. StartTypes' /\ LineTypes'
  BY <1>1 DEF IInv, Types, StartTypes, LineTypes, startup, runner, line
<1>4. LineInv' /\ ThreadsInv' /\ SaveInv'
  BY <1>1 DEF IInv, LineInv, ThreadsInv, SaveInv, runner, line, config, disk, build
<1>5. ItemsInv' /\ Stored(file)'
  BY <1>1, ConfigStays DEF IInv, runner, line
<1>6. FlagTypes'
  BY <1>1, Zenon DEF IInv, Types, FlagTypes, config, disk
<1>7. ConfigTypes'
  BY <1>1 DEF IInv, Types, ConfigTypes, config, disk, build
<1> QED BY <1>2, <1>3, <1>4, <1>5, <1>6, <1>7 DEF IInv, Types

\* The first start, with any file.
LEMMA InitInvariant == Init => IInv
<1> SUFFICES ASSUME Init PROVE IInv
  OBVIOUS
<1>1. /\ alive = TRUE /\ todo = InitOrder /\ phases = MainPhases
      /\ registered = [p \in Phases |-> <<>>] /\ commands = {}
      /\ mutex = "none" /\ calls = <<>> /\ done = {} /\ threads = {}
      /\ cli = "off" /\ input = "open" /\ io = "closed" /\ items = <<>>
      /\ leaked = 0 /\ written = NotSaving /\ transport \in Transports /\ file \in Contents
      /\ saved = Loaded(Default, file) /\ torn = FALSE /\ restarts = 0
  BY ControllerAssumption DEF Init
<1>2. FlagTypes
  BY <1>1, Zenon DEF FlagTypes
<1>3. StartTypes
  BY <1>1, InitOrderIs, MainPhasesAre DEF StartTypes
<1>4. LineTypes
  BY <1>1 DEF LineTypes
<1>5. ConfigTypes
  <2>1. saved \in [Items -> Int]
    BY <1>1, LoadKeepsType, ControllerAssumption
  <2>2. NotSaving \in NotSaving..Len(Names)
    BY NamesAre DEF NotSaving
  <2> QED BY <1>1, <2>1, <2>2, ControllerAssumption DEF ConfigTypes
<1>6. StartupInv
  <2>1. \A p \in Phases : RegisteredAfter(0, p) = <<>>
    BY PhasesAre, StartParts DEF RegisteredAfter, StartsAfter, Registrar
  <2>2. Len(InitOrder) = 8 /\ Len(MainPhases) = 7 /\ 8 - 8 = 0
    BY InitOrderIs, MainPhasesAre
  <2> QED BY <1>1, <2>1, <2>2, AllIsLeft DEF StartupInv
<1>7. RunnerInv
  <2>1. Len(MainPhases) = 7
    BY MainPhasesAre
  <2> QED BY <1>1, <2>1, AllIsLeft DEF RunnerInv
<1>8. DoneInv
  <2>1. CurrentPhase = 1
    BY <1>1, MainPhasesAre DEF CurrentPhase
  <2> QED BY <1>1, <2>1, FindsItself DEF DoneInv, Passed
<1>9. LineInv /\ ThreadsInv /\ ItemsInv /\ SaveInv
  BY <1>1 DEF LineInv, ThreadsInv, ItemsInv, SaveInv
<1>10. Stored(file)
  BY <1>1 DEF Stored
<1> QED BY <1>2, <1>3, <1>4, <1>5, <1>6, <1>7, <1>8, <1>9, <1>10 DEF IInv, Types

LEMMA NextKeeps == IInv /\ [Next]_vars => IInv'
<1> SUFFICES ASSUME IInv, [Next]_vars PROVE IInv'
  OBVIOUS
<1>1. CASE InitModule \/ MainRunPhase \/ EndPhase
  BY <1>1, InitModuleKeeps, MainRunPhaseKeeps, EndPhaseKeeps
<1>2. CASE InitFails \/ SendFails \/ Killed
  BY <1>2, ExitsKeeps, KilledKeeps DEF InitFails, NoQueue, FindIpsFails, SendFails
<1>3. CASE Callback
  BY <1>3, CallbackKeeps
<1>4. CASE CommandLine
  BY <1>4, CommandLineKeeps
<1>5. CASE Restart
  BY <1>5, RestartKeeps
<1>6. CASE UNCHANGED vars
  BY <1>6, StuttersKeeps
<1> QED BY <1>1, <1>2, <1>3, <1>4, <1>5, <1>6 DEF Next

\* The invariant: where main is decides which modules have registered, which
\* callbacks have returned and what the items and the file hold.
THEOREM StartupInvariant == Spec => []IInv
<1>1. Init => IInv
  BY InitInvariant
<1>2. IInv /\ [Next]_vars => IInv'
  BY NextKeeps
<1> QED BY <1>1, <1>2, PTL DEF Spec

\* Every part of the state stays in its type.
THEOREM TypeCorrect == Spec => []TypeOK
<1>1. IInv => TypeOK
  BY TypesAre, Zenon DEF IInv
<1> QED BY <1>1, StartupInvariant, PTL

-----------------------------------------------------------------------------
\* What has returned has been called after what comes before it.
LEMMA InOrder ==
  ASSUME DoneInv, RunnerInv,
         NEW f \in CalledByMain, NEW g \in CalledByMain, f \in done,
         \/ PhaseNo[g] < PhaseNo[f]
         \/ PhaseNo[g] = PhaseNo[f] /\ CallNo[g] < CallNo[f]
  PROVE  g \in done
<1> DEFINE n == CurrentPhase
           r == Returned
<1>1. /\ PhaseNo[f] \in Int /\ CallNo[f] \in Int
      /\ PhaseNo[g] \in Int /\ CallNo[g] \in Int
  BY FindsItself
<1>2. PhaseNo[f] < n \/ (mutex = "main" /\ PhaseNo[f] = n /\ CallNo[f] <= r)
  BY DEF DoneInv, Passed
<1>3. n \in Int
  <2> DEFINE k == Len(phases)
  <2>1. k \in 0..7 /\ n = 8 - k
    BY DEF RunnerInv, CurrentPhase
  <2> HIDE DEF k, n
  <2> QED BY <2>1
<1>4. mutex = "main" => r \in Int
  <2> SUFFICES ASSUME mutex = "main" PROVE r \in Int
    OBVIOUS
  <2> DEFINE m == Len(RunIn(n))
             k == Len(calls)
  <2>1. m \in 1..5 /\ k \in Int /\ r = m - k
    BY SMTT(60), NextPhase, RunInTypes DEF Returned, RunnerInv, Running, RunIn
  <2> HIDE DEF m, k
  <2> QED BY <2>1
<1>5. Passed(g) <=> PhaseNo[g] < n \/ (mutex = "main" /\ PhaseNo[g] = n /\ CallNo[g] <= r)
  BY DEF Passed
<1> HIDE DEF n, r
<1>6. Passed(g)
  BY <1>1, <1>2, <1>3, <1>4, <1>5
<1> QED BY <1>6 DEF DoneInv

\* The command line and the threads come after what they use: what main calls is
\* in the order of the phases and, in a phase, of the modules.
THEOREM OrderOfStart == Spec => []StartedInOrder
<1>1. IInv => StartedInOrder
  <2> SUFFICES ASSUME IInv PROVE StartedInOrder
    OBVIOUS
  <2>1. ASSUME cli # "off" PROVE Configured \subseteq done /\ "config" \in commands
    <3>1. \A f \in CalledByMain : PhaseNo[f] < 5 => f \in done
      BY <2>1, CliIsLate DEF IInv
    <3>2. /\ \A f \in Configured \cup {"config_register_commands"} :
               f \in CalledByMain /\ PhaseNo[f] < 5
      BY CalledByMainAre DEF Configured, PhaseNo
    <3> QED BY <3>1, <3>2 DEF IInv, LineInv
  <2>2. ASSUME NEW f \in CalledByMain, NEW g \in CalledByMain, f \in done,
               \/ PhaseNo[g] < PhaseNo[f]
               \/ PhaseNo[g] = PhaseNo[f] /\ CallNo[g] < CallNo[f]
        PROVE  g \in done
    BY <2>2, InOrder DEF IInv
  <2>3. /\ {"communicator_start", "io_transport_start", "local_cli_start",
            "sensors_start", "mow_mow"} \subseteq CalledByMain
        /\ PhaseNo["io_transport_start"] = 5 /\ CallNo["io_transport_start"] = 3
        /\ PhaseNo["communicator_start"] = 5 /\ CallNo["communicator_start"] = 4
        /\ PhaseNo["local_cli_start"] = 5
        /\ PhaseNo["sensors_start"] = 6 /\ PhaseNo["mow_mow"] = 7
    BY CalledByMainAre DEF PhaseNo, CallNo
  <2>4. "communicator_start" \in done => "io_transport_start" \in done
    BY <2>2, <2>3
  <2>5. "sensors_start" \in done => {"communicator_start", "local_cli_start"} \subseteq done
    BY <2>2, <2>3
  <2>6. "mow_mow" \in done => "sensors_start" \in done
    BY <2>2, <2>3
  <2> QED BY <2>1, <2>4, <2>5, <2>6 DEF IInv, ThreadsInv, LineInv, StartedInOrder
<1> QED BY <1>1, StartupInvariant, PTL

\* What was saved comes back: a file that was written to its end loads the items
\* that were saved, one that was not loads the first of them, and main reads it
\* before anybody can change the items.
THEOREM SavedReturn == Spec => []SavedValuesReturn
<1>1. IInv => SavedValuesReturn
  <2> SUFFICES ASSUME IInv, mutex = "none", Len(phases) = 3
               PROVE  IF torn THEN \E k \in 0..Len(Names) : items = Prefix(k)
                      ELSE items = saved
    BY DEF SavedValuesReturn
  <2>1. CurrentPhase = 5
    BY DEF CurrentPhase
  <2>2. /\ {"config_load", "local_cli_start"} \subseteq CalledByMain
        /\ PhaseNo["config_load"] = 4 /\ PhaseNo["local_cli_start"] = 5
    BY CalledByMainAre DEF PhaseNo
  <2>3. "config_load" \in done /\ "local_cli_start" \notin done
    BY <2>1, <2>2 DEF IInv, DoneInv, Passed
  <2>4. items = Loaded(Default, file)
    BY <2>3 DEF IInv, LineInv, ItemsInv
  <2> QED BY <2>4 DEF IInv, Stored
<1> QED BY <1>1, StartupInvariant, PTL
=============================================================================
