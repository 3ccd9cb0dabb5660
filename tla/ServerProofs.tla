---------------------------- MODULE ServerProofs ----------------------------
(***************************************************************************)
(* Theorems about Server, for any number of controllers and mowers, any    *)
(* commands, batches of any size and any number of files opened.           *)
(*                                                                         *)
(* A read of the server takes any number of commands, and leaves the rest: *)
(* the answers to both are the answers to all (AnswersSplit).              *)
(***************************************************************************)
EXTENDS Server, FiniteSetTheorems, SequenceTheorems, TLAPS

-----------------------------------------------------------------------------
\* TypeOK, with the flag apart.
Types ==
  /\ conn \in [Clients -> {"off", "backlog", "accepted", "open", "refused"}]
  /\ alive \in [Clients -> BOOLEAN]
  /\ fd \in [Clients -> Fds \cup {NoFd}]
  /\ up \in [Clients -> Seq(Commands)]
  /\ down \in [Clients -> Nat]
  /\ waiting \in [Clients -> SUBSET Threads]
  /\ backlog \in Seq(Clients)
  /\ mowers \in [Slots -> Mowers]
  /\ clients \subseteq Fds
  /\ maxFd \in {Sock + 1} \cup {f + 1 : f \in Fds}
  /\ pc \in {"select", "accept", "enable", "scan", "hung", "killed"}
  /\ i \in {Sock + 1} \cup {f + 1 : f \in Fds}
  /\ file \in Fds \cup {NoFd}
Flag == perturbed \in BOOLEAN

\* The connections wait in turn, one is accepted at a time, and each that has
\* been has a descriptor of its own.
BacklogInv ==
  /\ \A j \in 1..Len(backlog) : conn[backlog[j]] = "backlog"
  /\ \A j, k \in 1..Len(backlog) : backlog[j] = backlog[k] => j = k
  /\ pc = "accept" => backlog # <<>>
AcceptedInv ==
  /\ \A c \in Clients : conn[c] = "accepted" => pc = "enable"
  /\ \A c, d \in Clients : conn[c] = "accepted" /\ conn[d] = "accepted" => c = d
DescriptorInv ==
  /\ \A c \in Clients : fd[c] # NoFd <=> conn[c] \in {"accepted", "open"}
  /\ \A c, d \in Clients : fd[c] = fd[d] /\ fd[c] # NoFd => c = d
  /\ \A c \in Clients : fd[c] = file => file = NoFd

\* A record that is in use is that of an open connection.
RecordInv ==
  /\ clients = {fd[c] : c \in Open}
  /\ \A c \in Open : \E k \in Slots : mowers[k].enabled /\ mowers[k].fd = fd[c]
  /\ \A k \in Slots : mowers[k].enabled => \E c \in Open : fd[c] = mowers[k].fd
  /\ \A k, l \in Slots :
       mowers[k].enabled /\ mowers[l].enabled /\ mowers[k].fd = mowers[l].fd => k = l
  /\ \A k \in Slots : ~mowers[k].enabled => mowers[k] = Initial

\* A connection that is not open has no answers, and one that is not there has
\* no commands either.
TrafficInv ==
  /\ \A c \in Clients : conn[c] # "open" => down[c] = 0
  /\ \A c \in Clients : conn[c] \in {"off", "refused"} => up[c] = <<>>
  /\ \A c \in Clients : ~alive[c] => waiting[c] = {}

\* Without a file in between the descriptors are numbered as the records are.
NumbersInv ==
  ~perturbed =>
    /\ \A k \in Slots : mowers[k].enabled => mowers[k].fd = Sock + 1 + k
    /\ \A c \in Clients :
         conn[c] = "accepted" /\ FreeSlots # {} => fd[c] = Sock + 1 + FirstFree

IInv ==
  /\ Types /\ Flag
  /\ BacklogInv /\ AcceptedInv /\ DescriptorInv /\ RecordInv
  /\ TrafficInv /\ AnswersAreOwed
  /\ NumbersInv /\ NobodyIsForgotten

-----------------------------------------------------------------------------
\* Commands and answers.
LEMMA AnsweredTypes ==
  ASSUME NEW s \in Seq(Commands)
  PROVE  /\ Answered(s) \subseteq 1..Len(s) /\ IsFiniteSet(Answered(s))
         /\ AnswersTo(s) \in Nat
<1>1. Answered(s) \in SUBSET (1..Len(s))
  BY DEF Answered
<1>2. IsFiniteSet(1..Len(s))
  BY FS_Interval
<1>3. IsFiniteSet(Answered(s))
  BY <1>1, <1>2, FS_Subset
<1> QED BY <1>1, <1>3, FS_CardinalityType DEF AnswersTo

LEMMA AnswersNat ==
  ASSUME NEW s \in Seq(Commands)
  PROVE  AnswersTo(s) \in Nat
BY AnsweredTypes

\* No commands, no answers; one more command, its answers.
LEMMA AnswersNone ==
  ASSUME NEW s \in Seq(Commands), Len(s) = 0
  PROVE  AnswersTo(s) = 0
<1>1. Answered(s) = {}
  <2>1. 1..Len(s) = {}
    OBVIOUS
  <2> QED BY <2>1, AnsweredTypes
<1> QED BY <1>1, FS_EmptySet DEF AnswersTo

LEMMA AnswersAppend ==
  ASSUME NEW s \in Seq(Commands), NEW x \in Commands
  PROVE  AnswersTo(Append(s, x)) = IF Answers(x) THEN AnswersTo(s) + 1 ELSE AnswersTo(s)
<1> DEFINE a == Append(s, x)
           n == Len(s) + 1
<1>1. DOMAIN a = 1..n /\ DOMAIN s = 1..(n - 1) /\ n \in Nat \ {0}
      /\ a[n] = x /\ \A k \in 1..(n - 1) : a[k] = s[k]
  OBVIOUS
<1> HIDE DEF a, n
<1>2. Answered(a) = IF Answers(x) THEN Answered(s) \cup {n} ELSE Answered(s)
  <2>1. \A k \in 1..n : k = n \/ k \in 1..(n - 1)
    BY <1>1
  <2>2. n \in 1..n /\ 1..(n - 1) \subseteq 1..n
    BY <1>1
  <2> QED BY <1>1, <2>1, <2>2 DEF Answered
<1>3. n \notin Answered(s)
  BY <1>1 DEF Answered
<1>4. IsFiniteSet(Answered(s))
  BY AnsweredTypes
<1>5. Cardinality(Answered(s) \cup {n}) = Cardinality(Answered(s)) + 1
  BY <1>3, <1>4, FS_AddElement
<1> QED BY <1>2, <1>5 DEF AnswersTo, a

\* The answers to a batch and to what it leaves.
LEMMA AnswersSplit ==
  ASSUME NEW s \in Seq(Commands), NEW n \in 0..Len(s)
  PROVE  /\ SubSeq(s, 1, n) \in Seq(Commands) /\ SubSeq(s, n + 1, Len(s)) \in Seq(Commands)
         /\ AnswersTo(s) = AnswersTo(SubSeq(s, 1, n)) + AnswersTo(SubSeq(s, n + 1, Len(s)))
<1> DEFINE m == Len(s)
           p == SubSeq(s, 1, n)
           q == SubSeq(s, n + 1, m)
           Q == {k \in Answered(s) : k > n}
<1>1. /\ p \in Seq(Commands) /\ q \in Seq(Commands) /\ m \in Nat /\ n \in Nat /\ n <= m
      /\ DOMAIN p = 1..n /\ DOMAIN q = 1..(m - n) /\ DOMAIN s = 1..m
  OBVIOUS
<1>2. (\A k \in 1..n : p[k] = s[k]) /\ (\A k \in 1..(m - n) : q[k] = s[n + k])
  OBVIOUS
<1> HIDE DEF m, p, q
<1>3. Answered(s) = Answered(p) \cup Q /\ Answered(p) \cap Q = {}
  BY <1>1, <1>2 DEF Answered
<1>4. Cardinality(Q) = Cardinality(Answered(q))
  <2> DEFINE f == [k \in Answered(q) |-> n + k]
  <2>1. \A k \in Answered(q) : k \in 1..(m - n) /\ n + k \in Q
    BY <1>1, <1>2 DEF Answered
  <2>2. \A k \in Q : k - n \in Answered(q) /\ n + (k - n) = k
    <3> SUFFICES ASSUME NEW k \in Q PROVE k - n \in Answered(q) /\ n + (k - n) = k
      OBVIOUS
    <3>1. k \in 1..m /\ k > n /\ Answers(s[k])
      BY <1>1 DEF Answered
    <3>2. k - n \in 1..(m - n) /\ n + (k - n) = k
      BY <1>1, <3>1
    <3> QED BY <1>1, <1>2, <3>1, <3>2 DEF Answered
  <2>3. f \in Bijection(Answered(q), Q)
    <3>1. f \in [Answered(q) -> Q]
      BY <2>1
    <3>2. \A j, k \in Answered(q) : f[j] = f[k] => j = k
      BY <1>1, <2>1
    <3>3. \A k \in Q : \E j \in Answered(q) : f[j] = k
      BY <2>2
    <3> HIDE DEF f, Q
    <3> QED BY <3>1, <3>2, <3>3 DEF Bijection, Injection, Surjection, IsInjective
  <2>4. IsFiniteSet(Answered(q)) /\ ExistsBijection(Answered(q), Q)
    BY <1>1, <2>3, AnsweredTypes DEF ExistsBijection
  <2> HIDE DEF f, Q
  <2> QED BY <2>4, FS_Bijection
<1>5. IsFiniteSet(Answered(p)) /\ IsFiniteSet(Q)
  <2>1. Q \in SUBSET Answered(s)
    OBVIOUS
  <2> HIDE DEF Q
  <2> QED BY <1>1, <2>1, AnsweredTypes, FS_Subset
<1>6. Cardinality(Answered(s)) = Cardinality(Answered(p)) + Cardinality(Q)
  <2> HIDE DEF Q
  <2>1. Cardinality(Answered(p) \cup Q)
          = Cardinality(Answered(p)) + Cardinality(Q) - Cardinality(Answered(p) \cap Q)
    BY <1>5, FS_Union
  <2>2. Cardinality(Answered(p)) \in Nat /\ Cardinality(Q) \in Nat
    BY <1>5, FS_CardinalityType
  <2>3. Cardinality(Answered(p) \cap Q) = 0
    BY <1>3, FS_EmptySet, Zenon
  <2> QED BY <1>3, <2>1, <2>2, <2>3
<1> HIDE DEF Q
<1> QED BY <1>1, <1>4, <1>6 DEF AnswersTo, p, q, m

\* Of natural numbers one is the least.
LEMMA LeastOne ==
  ASSUME NEW T, T \subseteq Nat, T # {}
  PROVE  \E x \in T : \A y \in T : x <= y
<1>1. PICK x \in T : \A y \in T : ~ (<<y, x>> \in OpToRel(<, Nat))
  BY NatLessThanWellFounded, WFMin
<1>2. ASSUME NEW y \in T PROVE x <= y
  <2>1. ~ (y < x)
    BY <1>1 DEF OpToRel
  <2> QED BY <2>1
<1> QED BY <1>2

\* Of the commands for one motor or relay there is a last one.
LEMMA LastSets ==
  ASSUME NEW s \in Seq(Commands), NEW op, NEW side, Sets(s, op, side) # {}
  PROVE  Max(Sets(s, op, side)) \in Sets(s, op, side)
<1> DEFINE P == Sets(s, op, side)
           n == Len(s)
           T == {n - k : k \in P}
<1>1. P \subseteq 1..n /\ n \in Nat
  BY DEF Sets
<1> HIDE DEF P, n
<1>2. T \subseteq Nat /\ T # {}
  BY <1>1 DEF P
<1>3. PICK x \in T : \A y \in T : x <= y
  <2> HIDE DEF T
  <2> QED BY <1>2, LeastOne
<1>4. PICK k \in P : x = n - k
  OBVIOUS
<1>5. ASSUME NEW j \in P PROVE k >= j
  <2>1. n - k <= n - j
    BY <1>3, <1>4
  <2>2. j \in Nat /\ k \in Nat
    BY <1>1
  <2> QED BY <1>1, <2>1, <2>2
<1>6. \E j \in P : \A l \in P : j >= l
  BY <1>5
<1>7. Max(P) \in P
  BY <1>6, Zenon DEF Max
<1> QED BY <1>7 DEF P

\* Whatever a controller sends, its record stays its record.
LEMMA ObeyedKeeps ==
  ASSUME NEW m \in Mowers, NEW s \in Seq(Commands)
  PROVE  /\ Obeyed(m, s) \in Mowers
         /\ Obeyed(m, s).enabled = m.enabled /\ Obeyed(m, s).fd = m.fd
<1> DEFINE speed == [side \in Sides |-> IF Sets(s, "motor", side) = {} THEN m.speed[side]
                                        ELSE Value(s, "motor", side)]
           relay == [side \in Sides |-> IF Sets(s, "relay", side) = {} THEN m.relay[side]
                                        ELSE IF Value(s, "relay", side) = 0 THEN -1 ELSE 1]
<1>1. m.speed \in [Sides -> 0..255] /\ m.relay \in [Sides -> {-1, 1}]
  BY DEF Mowers
<1>2. ASSUME NEW side \in Sides, Sets(s, "motor", side) # {}
      PROVE  Value(s, "motor", side) \in 0..255
  <2>1. PICK k \in Sets(s, "motor", side) : k = Max(Sets(s, "motor", side))
    BY <1>2, LastSets
  <2>2. s[k] \in Commands /\ s[k].op = "motor"
    BY <2>1 DEF Sets
  <2>3. s[k] \in WriteCommands
    BY <2>2 DEF Commands, Read
  <2> QED BY <2>1, <2>3 DEF Value, WriteCommands
<1>3. speed \in [Sides -> 0..255] /\ relay \in [Sides -> {-1, 1}]
  BY <1>1, <1>2
<1>4. Obeyed(m, s) = [m EXCEPT !.speed = speed, !.relay = relay]
  BY DEF Obeyed
<1> HIDE DEF speed, relay
<1> QED BY <1>3, <1>4 DEF Mowers

-----------------------------------------------------------------------------
\* Descriptors and records.
LEMMA ConstantsAre ==
  /\ MaxMowers \in Nat \ {0} /\ Sock \in Nat
  /\ Fds \subseteq Nat /\ NoFd \notin Fds /\ IsFiniteSet(Fds) /\ Cardinality(Fds) = MaxMowers + 2
  /\ Slots \subseteq Nat /\ IsFiniteSet(Slots) /\ Cardinality(Slots) = MaxMowers
<1>1. MaxMowers \in Nat \ {0} /\ Sock \in Nat
  BY ServerAssumption
<1>2. Fds \subseteq Nat /\ NoFd \notin Fds /\ Slots \subseteq Nat
  BY <1>1 DEF Fds, Slots, NoFd
<1>3. IsFiniteSet(Fds) /\ Cardinality(Fds) = MaxMowers + 2
  BY <1>1, FS_Interval DEF Fds
<1>4. IsFiniteSet(Slots) /\ Cardinality(Slots) = MaxMowers
  BY <1>1, FS_Interval DEF Slots
<1> QED BY <1>1, <1>2, <1>3, <1>4

\* What is in use has as many names as it has users.
LEMMA OneForEach ==
  ASSUME NEW S, IsFiniteSet(S), NEW T, NEW f \in [S -> T],
         \A x, y \in S : f[x] = f[y] => x = y, T = {f[x] : x \in S}
  PROVE  IsFiniteSet(T) /\ Cardinality(T) = Cardinality(S)
<1>1. f \in Bijection(S, T)
  BY DEF Bijection, Injection, IsInjective, Surjection
<1>2. ExistsBijection(S, T)
  BY <1>1 DEF ExistsBijection
<1> QED BY <1>2, FS_Bijection

Enabled == {k \in Slots : mowers[k].enabled}

\* One descriptor for each record in use, and for each open connection.
LEMMA EnabledMatch ==
  ASSUME Types, RecordInv
  PROVE  /\ clients = {mowers[k].fd : k \in Enabled}
         /\ IsFiniteSet(clients) /\ Cardinality(clients) = Cardinality(Enabled)
         /\ Cardinality(Enabled) \in 0..MaxMowers
<1>1. clients = {mowers[k].fd : k \in Enabled}
  BY DEF RecordInv, Enabled
<1>2. IsFiniteSet(Enabled) /\ Cardinality(Enabled) <= MaxMowers /\ Cardinality(Enabled) \in Nat
  BY ConstantsAre, FS_Subset, FS_CardinalityType DEF Enabled
<1> DEFINE f == [k \in Enabled |-> mowers[k].fd]
<1>3. \A k, l \in Enabled : mowers[k].fd = mowers[l].fd => k = l
  BY DEF RecordInv, Enabled
<1>5. /\ f \in [Enabled -> clients] /\ clients = {f[k] : k \in Enabled}
      /\ \A k, l \in Enabled : f[k] = f[l] => k = l
  BY <1>1, <1>3
<1> HIDE DEF f
<1>4. IsFiniteSet(clients) /\ Cardinality(clients) = Cardinality(Enabled)
  BY <1>2, <1>5, OneForEach
<1> QED BY <1>1, <1>2, <1>4, ConstantsAre

LEMMA OpenMatch ==
  ASSUME Types, RecordInv, DescriptorInv
  PROVE  Cardinality(clients) = Cardinality(Open)
<1>1. IsFiniteSet(Open)
  BY ServerAssumption, FS_Subset DEF Open
<1> DEFINE f == [c \in Open |-> fd[c]]
<1>2. \A c, d \in Open : fd[c] = fd[d] => c = d
  BY DEF DescriptorInv, Open, HasFd
<1>3. clients = {fd[c] : c \in Open}
  BY DEF RecordInv
<1>4. /\ f \in [Open -> clients] /\ clients = {f[c] : c \in Open}
      /\ \A c, d \in Open : f[c] = f[d] => c = d
  BY <1>2, <1>3
<1> HIDE DEF f
<1> QED BY <1>1, <1>4, OneForEach

\* There are two descriptors more than mowers.
LEMMA OneIsLeft ==
  ASSUME Types, RecordInv, NEW x
  PROVE  Fds \ (clients \cup {x}) # {}
<1> SUFFICES ASSUME Fds \subseteq clients \cup {x} PROVE FALSE
  OBVIOUS
<1>1. /\ IsFiniteSet(clients) /\ Cardinality(clients) \in 0..MaxMowers
  BY EnabledMatch
<1>2. /\ IsFiniteSet(clients \cup {x})
      /\ Cardinality(clients \cup {x}) <= Cardinality(clients) + 1
  <2>1. IsFiniteSet(clients \cup {x})
        /\ Cardinality(clients \cup {x}) = IF x \in clients THEN Cardinality(clients)
                                           ELSE Cardinality(clients) + 1
    BY <1>1, FS_AddElement
  <2>2. Cardinality(clients) \in Nat
    BY <1>1, FS_CardinalityType
  <2> QED BY <2>1, <2>2
<1>3. Cardinality(Fds) <= Cardinality(clients \cup {x}) /\ Cardinality(clients \cup {x}) \in Nat
  BY <1>2, FS_Subset, FS_CardinalityType
<1> HIDE DEF Slots
<1> QED BY <1>1, <1>2, <1>3, ConstantsAre

\* The kernel and the server find the first that is free.
LEMMA LowestIsFree ==
  ASSUME FreeFds # {}
  PROVE  /\ LowestFree \in FreeFds /\ LowestFree \in Fds
         /\ \A f \in FreeFds : LowestFree <= f
         /\ LowestFree # file /\ \A c \in Clients : fd[c] # LowestFree
<1>1. FreeFds \subseteq Nat /\ FreeFds \subseteq Fds
  BY ConstantsAre DEF FreeFds
<1>2. \E f \in FreeFds : \A g \in FreeFds : f <= g
  BY <1>1, LeastOne
<1>3. LowestFree \in FreeFds /\ \A f \in FreeFds : LowestFree <= f
  BY <1>2, Zenon DEF LowestFree
<1> QED BY <1>1, <1>3 DEF FreeFds

LEMMA FirstIsFree ==
  ASSUME FreeSlots # {}
  PROVE  /\ FirstFree \in Slots /\ ~mowers[FirstFree].enabled
         /\ \A k \in Slots : k < FirstFree => mowers[k].enabled
<1>1. FreeSlots \subseteq Nat
  BY ConstantsAre DEF FreeSlots
<1>2. \E k \in FreeSlots : \A l \in FreeSlots : k <= l
  BY <1>1, LeastOne
<1>3. FirstFree \in FreeSlots /\ \A k \in FreeSlots : FirstFree <= k
  BY <1>2, Zenon DEF FirstFree
<1>4. ASSUME NEW k \in Slots, k < FirstFree PROVE mowers[k].enabled
  BY <1>1, <1>3, <1>4, ConstantsAre DEF FreeSlots
<1> QED BY <1>3, <1>4 DEF FreeSlots

\* The record of an open connection.
LEMMA MowerIs ==
  ASSUME RecordInv, NEW c \in Open
  PROVE  /\ MowerOf(fd[c]) \in Slots /\ mowers[MowerOf(fd[c])].enabled
         /\ mowers[MowerOf(fd[c])].fd = fd[c]
<1>1. \E k \in Slots : mowers[k].enabled /\ mowers[k].fd = fd[c]
  BY DEF RecordInv
<1> QED BY <1>1, Zenon DEF MowerOf

-----------------------------------------------------------------------------
\* The controllers.

\* AnswersAreOwed, for one connection.
Owed(c) == Connected(c) => Cardinality(waiting[c]) = down[c] + AnswersTo(up[c])

LEMMA OwedStays ==
  ASSUME IInv, NEW c \in Clients, alive'[c] = alive[c], conn'[c] = conn[c],
         waiting'[c] = waiting[c], down'[c] = down[c], up'[c] = up[c]
  PROVE  Owed(c)'
BY DEF IInv, AnswersAreOwed, Owed, Connected

\* What the controllers do leaves the descriptors and the records alone, as long
\* as the connection is not made an open one or an accepted one, or no longer one.
LEMMA RecordsStay ==
  ASSUME Types, DescriptorInv, RecordInv, NumbersInv, NobodyIsForgotten,
         UNCHANGED <<fd, mowers, clients, maxFd, file, perturbed>>,
         \A c \in Clients :
           \/ conn'[c] = conn[c]
           \/ {conn[c], conn'[c]} \cap {"accepted", "open"} = {}
  PROVE  /\ DescriptorInv' /\ RecordInv' /\ NumbersInv' /\ NobodyIsForgotten'
<1>1. \A c \in Clients : /\ conn'[c] = "accepted" <=> conn[c] = "accepted"
                         /\ conn'[c] = "open" <=> conn[c] = "open"
  OBVIOUS
<1>2. Open' = Open
  BY <1>1 DEF Open, HasFd
<1>3. DescriptorInv'
  BY <1>1 DEF DescriptorInv
<1>4. RecordInv'
  BY <1>2 DEF RecordInv
<1>5. NumbersInv'
  BY <1>1 DEF NumbersInv, FreeSlots, FirstFree
<1>6. NobodyIsForgotten'
  BY DEF NobodyIsForgotten
<1> QED BY <1>3, <1>4, <1>5, <1>6

\* A new connection waits behind those that do, with nothing under way.
LEMMA ConnectKeeps ==
  ASSUME IInv, NEW c \in Clients, Connect(c)
  PROVE  IInv'
<1>1. /\ conn[c] = "off" /\ ~alive[c]
      /\ conn' = [conn EXCEPT ![c] = "backlog"] /\ alive' = [alive EXCEPT ![c] = TRUE]
      /\ backlog' = Append(backlog, c)
      /\ UNCHANGED <<fd, mowers, clients, maxFd, pc, i, up, down, waiting, file, perturbed>>
  BY DEF Connect, server
<1>2. Types'
  BY <1>1 DEF IInv, Types
<1>3. Flag'
  BY <1>1, Zenon DEF IInv, Flag
<1>4. BacklogInv'
  <2>1. backlog \in Seq(Clients) /\ conn \in [Clients -> {"off", "backlog", "accepted", "open", "refused"}]
    BY DEF IInv, Types
  <2>2. /\ Len(backlog') = Len(backlog) + 1 /\ Len(backlog) \in Nat
        /\ \A j \in 1..Len(backlog) : backlog'[j] = backlog[j] /\ backlog[j] \in Clients
        /\ backlog'[Len(backlog) + 1] = c /\ backlog' # <<>>
    BY <1>1, <2>1
  <2>3. \A j \in 1..Len(backlog) : backlog[j] # c
    BY <1>1 DEF IInv, BacklogInv
  <2> DEFINE n == Len(backlog)
  <2>4. n \in Nat /\ \A j \in 1..Len(backlog') : j \in 1..n \/ j = n + 1
    BY <2>2
  <2>5. \A j \in 1..n : conn'[backlog[j]] = "backlog"
    BY <1>1, <2>1, <2>2, <2>3 DEF IInv, BacklogInv
  <2>6. conn'[c] = "backlog"
    BY <1>1, <2>1
  <2>7. \A j \in 1..Len(backlog') : conn'[backlog'[j]] = "backlog"
    BY <2>2, <2>4, <2>5, <2>6
  <2>8. ASSUME NEW j \in 1..Len(backlog'), NEW k \in 1..Len(backlog'), backlog'[j] = backlog'[k]
        PROVE  j = k
    <3>1. (j \in 1..n \/ j = n + 1) /\ (k \in 1..n \/ k = n + 1)
      BY <2>4
    <3>2. \A a \in 1..n, b \in 1..n : backlog[a] = backlog[b] => a = b
      BY DEF IInv, BacklogInv
    <3> QED BY <2>2, <2>3, <2>8, <3>1, <3>2
  <2> QED BY <2>2, <2>7, <2>8 DEF BacklogInv
<1>5. AcceptedInv'
  BY <1>1 DEF IInv, Types, AcceptedInv
<1>6. DescriptorInv' /\ RecordInv' /\ NumbersInv' /\ NobodyIsForgotten'
  <2>1. \A d \in Clients : \/ conn'[d] = conn[d]
                           \/ {conn[d], conn'[d]} \cap {"accepted", "open"} = {}
    BY <1>1 DEF IInv, Types
  <2> QED BY <1>1, <2>1, RecordsStay DEF IInv
<1>7. TrafficInv'
  BY <1>1 DEF IInv, Types, TrafficInv
<1>8. AnswersAreOwed'
  <2>1. ASSUME NEW d \in Clients, d # c PROVE Owed(d)'
    BY <1>1, <2>1, OwedStays DEF IInv, Types
  <2>2. Owed(c)'
    <3>1. waiting'[c] = {} /\ down'[c] = 0 /\ up'[c] = <<>>
      BY <1>1 DEF IInv, TrafficInv
    <3>2. AnswersTo(<<>>) = 0
      <4>1. <<>> \in Seq(Commands) /\ Len(<<>>) = 0
        OBVIOUS
      <4> QED BY <4>1, AnswersNone
    <3>3. Cardinality({}) = 0
      BY FS_EmptySet
    <3> QED BY <3>1, <3>2, <3>3 DEF Owed
  <2> QED BY <2>1, <2>2 DEF AnswersAreOwed, Owed
<1> QED BY <1>2, <1>3, <1>4, <1>5, <1>6, <1>7, <1>8 DEF IInv

\* What only the traffic of one connection sees.
LEMMA TrafficKeeps ==
  ASSUME IInv, NEW c \in Clients, NEW U \in Seq(Commands), NEW D \in Nat, NEW W \in SUBSET Threads,
         up' = [up EXCEPT ![c] = U], down' = [down EXCEPT ![c] = D],
         waiting' = [waiting EXCEPT ![c] = W],
         UNCHANGED <<conn, alive, fd, backlog, mowers, clients, maxFd, pc, i, file, perturbed>>,
         conn[c] # "open" => D = 0, conn[c] \in {"off", "refused"} => U = <<>>,
         ~alive[c] => W = {},
         Connected(c) => Cardinality(W) = D + AnswersTo(U)
  PROVE  IInv'
<1>1. up'[c] = U /\ down'[c] = D /\ waiting'[c] = W
  BY DEF IInv, Types
<1>2. \A d \in Clients \ {c} : up'[d] = up[d] /\ down'[d] = down[d] /\ waiting'[d] = waiting[d]
  BY DEF IInv, Types
<1>3. Types'
  BY DEF IInv, Types
<1>4. Flag'
  BY Zenon DEF IInv, Flag
<1>5. BacklogInv' /\ AcceptedInv'
  BY DEF IInv, BacklogInv, AcceptedInv
<1>6. DescriptorInv' /\ RecordInv' /\ NumbersInv' /\ NobodyIsForgotten'
  BY RecordsStay DEF IInv
<1>7. TrafficInv'
  BY <1>1, <1>2 DEF IInv, TrafficInv
<1>8. AnswersAreOwed'
  <2>1. ASSUME NEW d \in Clients, d # c PROVE Owed(d)'
    BY <1>2, <2>1, OwedStays
  <2>2. Owed(c)'
    BY <1>1 DEF Owed, Connected
  <2> QED BY <2>1, <2>2 DEF AnswersAreOwed, Owed
<1> QED BY <1>3, <1>4, <1>5, <1>6, <1>7, <1>8 DEF IInv

LEMMA SendWriteKeeps ==
  ASSUME IInv, NEW c \in Clients, NEW w \in Writes[c], SendWrite(c, w)
  PROVE  IInv'
<1> DEFINE U == Append(up[c], w)
           D == down[c]
           W == waiting[c]
<1>1. /\ Connected(c) /\ up' = [up EXCEPT ![c] = U]
      /\ UNCHANGED <<conn, alive, fd, backlog, mowers, clients, maxFd, pc, i, file, perturbed,
                     waiting, down>>
  BY DEF SendWrite, client, server
<1>2. w \in WriteCommands /\ w \in Commands
  BY ServerAssumption DEF Commands
<1>3. up[c] \in Seq(Commands) /\ U \in Seq(Commands) /\ D \in Nat /\ W \in SUBSET Threads
  BY <1>2 DEF IInv, Types
<1>4. down' = [down EXCEPT ![c] = D] /\ waiting' = [waiting EXCEPT ![c] = W]
  BY <1>1 DEF IInv, Types
<1>5. ~Answers(w)
  BY <1>2 DEF Answers, WriteCommands
<1>6. AnswersTo(U) = AnswersTo(up[c])
  <2>1. AnswersTo(U) = AnswersTo(up[c])
    BY <1>2, <1>3, <1>5, AnswersAppend
  <2>2. AnswersTo(up[c]) \in Nat
    BY <1>3, AnswersNat
  <2> HIDE DEF U
  <2> QED BY <2>1, <2>2
<1>7. Cardinality(W) = D + AnswersTo(U)
  BY <1>1, <1>6 DEF IInv, AnswersAreOwed
<1>8. (conn[c] # "open" => D = 0) /\ conn[c] \notin {"off", "refused"} /\ alive[c]
  BY <1>1 DEF IInv, TrafficInv, Connected
<1> HIDE DEF U, D, W
<1> QED BY <1>1, <1>3, <1>4, <1>7, <1>8, TrafficKeeps

\* A thread that waits adds one to those that wait, and back.
LEMMA OneMoreWaits ==
  ASSUME NEW W \in SUBSET Threads, NEW t \in Threads
  PROVE  /\ IsFiniteSet(W) /\ Cardinality(W) \in Nat
         /\ t \notin W => Cardinality(W \cup {t}) = Cardinality(W) + 1
         /\ t \in W => Cardinality(W \ {t}) = Cardinality(W) - 1
<1>1. IsFiniteSet(Threads)
  <2>1. IsFiniteSet({"communicator"})
    BY FS_Singleton
  <2>2. IsFiniteSet({"communicator"} \cup {"cli"})
    BY <2>1, FS_AddElement
  <2>3. Threads = {"communicator"} \cup {"cli"}
    BY DEF Threads
  <2> QED BY <2>2, <2>3
<1>2. IsFiniteSet(W)
  BY <1>1, FS_Subset
<1> QED BY <1>2, FS_CardinalityType, FS_AddElement, FS_RemoveElement

LEMMA SendReadKeeps ==
  ASSUME IInv, NEW c \in Clients, NEW t \in Threads, SendRead(c, t)
  PROVE  IInv'
<1> DEFINE U == Append(up[c], Read)
           D == down[c]
           W == waiting[c] \cup {t}
<1>1. /\ Connected(c) /\ t \notin waiting[c] /\ up' = [up EXCEPT ![c] = U]
      /\ waiting' = [waiting EXCEPT ![c] = W]
      /\ UNCHANGED <<conn, alive, fd, backlog, mowers, clients, maxFd, pc, i, file, perturbed,
                     down>>
  BY DEF SendRead, server
<1>2. Read \in Commands
  BY DEF Commands
<1>3. up[c] \in Seq(Commands) /\ U \in Seq(Commands) /\ D \in Nat /\ W \in SUBSET Threads
      /\ waiting[c] \in SUBSET Threads
  BY <1>2 DEF IInv, Types
<1>4. down' = [down EXCEPT ![c] = D]
  BY <1>1 DEF IInv, Types
<1>5. Answers(Read)
  BY DEF Answers, Read
<1>6. AnswersTo(U) = AnswersTo(up[c]) + 1 /\ AnswersTo(up[c]) \in Nat
  BY <1>2, <1>3, <1>5, AnswersAppend, AnswersNat
<1>7. Cardinality(waiting[c]) = D + AnswersTo(up[c])
  BY <1>1 DEF IInv, AnswersAreOwed
<1>8. Cardinality(W) = Cardinality(waiting[c]) + 1
  BY <1>1, <1>3, OneMoreWaits
<1>9. (conn[c] # "open" => D = 0) /\ conn[c] \notin {"off", "refused"} /\ alive[c]
  BY <1>1 DEF IInv, TrafficInv, Connected
<1> HIDE DEF U, D, W
<1>10. Cardinality(W) = D + AnswersTo(U)
  BY <1>3, <1>6, <1>7, <1>8
<1> QED BY <1>1, <1>3, <1>4, <1>9, <1>10, TrafficKeeps

\* Whose answer it is does not matter: one is taken, one waits less.
LEMMA TakeAnswerKeeps ==
  ASSUME IInv, NEW c \in Clients, NEW t \in Threads, TakeAnswer(c, t)
  PROVE  IInv'
<1> DEFINE U == up[c]
           D == down[c] - 1
           W == waiting[c] \ {t}
<1>1. /\ t \in waiting[c] /\ down[c] > 0 /\ down' = [down EXCEPT ![c] = D]
      /\ waiting' = [waiting EXCEPT ![c] = W]
      /\ UNCHANGED <<conn, alive, fd, backlog, mowers, clients, maxFd, pc, i, file, perturbed,
                     up>>
  BY DEF TakeAnswer, server
<1>2. U \in Seq(Commands) /\ down[c] \in Nat /\ D \in Nat /\ W \in SUBSET Threads
      /\ waiting[c] \in SUBSET Threads
  BY <1>1 DEF IInv, Types
<1>3. up' = [up EXCEPT ![c] = U]
  BY <1>1 DEF IInv, Types
<1>4. conn[c] = "open" /\ alive[c]
  BY <1>1, <1>2 DEF IInv, TrafficInv
<1>5. Cardinality(waiting[c]) = down[c] + AnswersTo(U) /\ AnswersTo(U) \in Nat
  BY <1>2, <1>4, AnswersNat DEF IInv, AnswersAreOwed, Connected
<1>6. Cardinality(W) = Cardinality(waiting[c]) - 1
  BY <1>1, <1>2, OneMoreWaits
<1>7. Cardinality(W) = D + AnswersTo(U)
  BY <1>2, <1>5, <1>6
<1> HIDE DEF U, D, W
<1> QED BY <1>1, <1>2, <1>3, <1>4, <1>7, TrafficKeeps

LEMMA EndOfStreamKeeps ==
  ASSUME IInv, NEW c \in Clients, NEW t \in Threads, EndOfStream(c, t)
  PROVE  IInv'
<1> DEFINE U == up[c]
           D == down[c]
           W == waiting[c] \ {t}
<1>1. /\ t \in waiting[c] /\ conn[c] = "refused" /\ waiting' = [waiting EXCEPT ![c] = W]
      /\ UNCHANGED <<conn, alive, fd, backlog, mowers, clients, maxFd, pc, i, file, perturbed,
                     up, down>>
  BY DEF EndOfStream, server
<1>2. U \in Seq(Commands) /\ D \in Nat /\ W \in SUBSET Threads
  BY DEF IInv, Types
<1>3. up' = [up EXCEPT ![c] = U] /\ down' = [down EXCEPT ![c] = D]
  BY <1>1 DEF IInv, Types
<1>4. U = <<>> /\ D = 0 /\ alive[c] /\ ~Connected(c)
  BY <1>1 DEF IInv, TrafficInv, Connected
<1> HIDE DEF U, D, W
<1> QED BY <1>1, <1>2, <1>3, <1>4, TrafficKeeps

\* What a controller leaves behind is not owed to anybody.
LEMMA ExitKeeps ==
  ASSUME IInv, NEW c \in Clients, Exit(c)
  PROVE  IInv'
<1>1. /\ alive[c] /\ alive' = [alive EXCEPT ![c] = FALSE]
      /\ waiting' = [waiting EXCEPT ![c] = {}] /\ down' = [down EXCEPT ![c] = 0]
      /\ conn' = [conn EXCEPT ![c] = IF conn[c] = "refused" THEN "off" ELSE conn[c]]
      /\ UNCHANGED <<fd, mowers, clients, maxFd, pc, i, up, backlog, file, perturbed>>
  BY DEF Exit, server
<1>2. Types'
  BY <1>1 DEF IInv, Types
<1>3. Flag'
  BY <1>1, Zenon DEF IInv, Flag
<1>4. \A d \in Clients : \/ conn'[d] = conn[d]
                         \/ d = c /\ conn[d] = "refused" /\ conn'[d] = "off"
  BY <1>1 DEF IInv, Types
<1>5. BacklogInv'
  <2>1. \A j \in 1..Len(backlog) : backlog[j] \in Clients /\ conn[backlog[j]] = "backlog"
    BY DEF IInv, BacklogInv, Types
  <2>2. \A j \in 1..Len(backlog) : conn'[backlog[j]] = "backlog"
    BY <1>4, <2>1
  <2> QED BY <1>1, <2>2 DEF IInv, BacklogInv
<1>6. AcceptedInv'
  BY <1>1, <1>4 DEF IInv, AcceptedInv
<1>7. DescriptorInv' /\ RecordInv' /\ NumbersInv' /\ NobodyIsForgotten'
  <2>1. \A d \in Clients : \/ conn'[d] = conn[d]
                           \/ {conn[d], conn'[d]} \cap {"accepted", "open"} = {}
    BY <1>4
  <2> QED BY <1>1, <2>1, RecordsStay DEF IInv
<1>8. TrafficInv'
  BY <1>1, <1>4 DEF IInv, Types, TrafficInv
<1>9. AnswersAreOwed'
  <2>1. ASSUME NEW d \in Clients, d # c PROVE Owed(d)'
    BY <1>1, <2>1, OwedStays DEF IInv, Types
  <2>2. Owed(c)'
    BY <1>1 DEF Owed, Connected, IInv, Types
  <2> QED BY <2>1, <2>2 DEF AnswersAreOwed, Owed
<1> QED BY <1>2, <1>3, <1>5, <1>6, <1>7, <1>8, <1>9 DEF IInv

LEMMA ControllerKeeps ==
  ASSUME IInv, NEW c \in Clients, Controller(c)
  PROVE  IInv'
BY ConnectKeeps, ExitKeeps, SendWriteKeeps, SendReadKeeps, TakeAnswerKeeps, EndOfStreamKeeps
   DEF Controller

-----------------------------------------------------------------------------
\* The window.

\* What takes the descriptor of a file or gives it back.
LEMMA FileKeeps ==
  ASSUME IInv, file' \in Fds \cup {NoFd}, \A c \in Clients : fd[c] = file' => file' = NoFd,
         UNCHANGED <<client, server, conn, up, down, backlog, perturbed>>
  PROVE  IInv'
<1>1. UNCHANGED <<conn, alive, fd, up, down, waiting, backlog, mowers, clients, maxFd, pc, i,
                  perturbed>>
  BY DEF client, server
<1>2. Types'
  BY <1>1 DEF IInv, Types
<1>3. Flag'
  BY <1>1, Zenon DEF IInv, Flag
<1>4. BacklogInv' /\ AcceptedInv' /\ DescriptorInv' /\ TrafficInv'
  BY <1>1 DEF IInv, BacklogInv, AcceptedInv, DescriptorInv, TrafficInv
<1>5. RecordInv'
  BY <1>1 DEF IInv, RecordInv, Open, HasFd
<1>6. NumbersInv' /\ NobodyIsForgotten'
  BY <1>1 DEF IInv, NumbersInv, NobodyIsForgotten, FreeSlots, FirstFree
<1>7. AnswersAreOwed'
  BY <1>1 DEF IInv, AnswersAreOwed, Connected
<1> QED BY <1>2, <1>3, <1>4, <1>5, <1>6, <1>7 DEF IInv

\* Besides the open connections only one is accepted at a time.
LEMMA RoomForFile ==
  ASSUME IInv, file = NoFd \/ pc = "accept"
  PROVE  FreeFds # {}
<1>1. PICK x : {fd[c] : c \in Clients} \cup {file} \subseteq clients \cup {NoFd} \cup {x}
  <2>1. ASSUME NEW c \in Clients PROVE fd[c] = NoFd \/ fd[c] \in clients \/ conn[c] = "accepted"
    BY DEF IInv, DescriptorInv, RecordInv, Open, HasFd
  <2>2. CASE \E a \in Clients : conn[a] = "accepted"
    <3>1. PICK a \in Clients : conn[a] = "accepted"
      BY <2>2
    <3>2. \A c \in Clients : conn[c] = "accepted" => c = a
      BY <3>1 DEF IInv, AcceptedInv
    <3>3. file = NoFd
      BY <3>1 DEF IInv, AcceptedInv
    <3>4. {fd[c] : c \in Clients} \cup {file} \subseteq clients \cup {NoFd} \cup {fd[a]}
      BY <2>1, <3>2, <3>3
    <3> QED BY <3>4
  <2>3. CASE \A a \in Clients : conn[a] # "accepted"
    <3>1. {fd[c] : c \in Clients} \cup {file} \subseteq clients \cup {NoFd} \cup {file}
      BY <2>1, <2>3
    <3> QED BY <3>1
  <2> QED BY <2>2, <2>3
<1>2. PICK f \in Fds : f \notin clients \cup {x}
  BY OneIsLeft DEF IInv
<1>3. f # NoFd
  BY ConstantsAre
<1> QED BY <1>1, <1>2, <1>3 DEF FreeFds

LEMMA OpenFileKeeps == IInv /\ OpenFile => IInv'
<1> SUFFICES ASSUME IInv, OpenFile PROVE IInv'
  OBVIOUS
<1>1. /\ file = NoFd /\ file' = LowestFree
      /\ UNCHANGED <<client, server, conn, up, down, backlog, perturbed>>
  BY DEF OpenFile, WindowIdle
<1>2. LowestFree \in Fds /\ \A c \in Clients : fd[c] # LowestFree
  BY <1>1, RoomForFile, LowestIsFree
<1> QED BY <1>1, <1>2, FileKeeps

LEMMA CloseFileKeeps == IInv /\ CloseFile => IInv'
<1> SUFFICES ASSUME IInv, CloseFile PROVE IInv'
  OBVIOUS
<1>1. file' = NoFd /\ UNCHANGED <<client, server, conn, up, down, backlog, perturbed>>
  BY DEF CloseFile
<1> QED BY <1>1, FileKeeps

-----------------------------------------------------------------------------
\* The server's thread.

\* A step of it that changes its own place only.
LEMMA PlaceKeeps ==
  ASSUME IInv, pc' \in {"select", "accept", "scan", "hung"}, pc # "enable",
         pc' = "accept" => backlog # <<>>,
         i' \in {Sock + 1} \cup {f + 1 : f \in Fds},
         UNCHANGED <<client, conn, fd, up, down, backlog, mowers, clients, maxFd, file, perturbed>>
  PROVE  IInv'
<1>1. UNCHANGED <<conn, alive, fd, up, down, waiting, backlog, mowers, clients, maxFd, file,
                  perturbed>>
  BY DEF client
<1>2. Types'
  BY <1>1 DEF IInv, Types
<1>3. Flag'
  BY <1>1, Zenon DEF IInv, Flag
<1>4. BacklogInv' /\ AcceptedInv' /\ TrafficInv'
  BY <1>1 DEF IInv, BacklogInv, AcceptedInv, TrafficInv
<1>5. DescriptorInv' /\ RecordInv' /\ NumbersInv' /\ NobodyIsForgotten'
  BY <1>1, RecordsStay DEF IInv
<1>6. AnswersAreOwed'
  BY <1>1 DEF IInv, AnswersAreOwed, Connected
<1> QED BY <1>2, <1>3, <1>4, <1>5, <1>6 DEF IInv

LEMMA SelectKeeps == IInv /\ Select => IInv'
<1> SUFFICES ASSUME IInv, Select PROVE IInv'
  OBVIOUS
<1>1. /\ pc = "select" /\ pc' = (IF backlog # <<>> THEN "accept" ELSE "scan") /\ i' = Sock + 1
      /\ UNCHANGED <<client, conn, fd, up, down, backlog, mowers, clients, maxFd, file, perturbed>>
  BY DEF Select
<1> QED BY <1>1, PlaceKeeps

LEMMA EndScanKeeps == IInv /\ EndScan => IInv'
<1> SUFFICES ASSUME IInv, EndScan PROVE IInv'
  OBVIOUS
<1>1. /\ pc = "scan" /\ pc' = "select" /\ i' = Sock + 1
      /\ UNCHANGED <<client, conn, fd, up, down, backlog, mowers, clients, maxFd, file, perturbed>>
  BY DEF EndScan
<1> QED BY <1>1, PlaceKeeps

LEMMA HangKeeps ==
  ASSUME IInv, NEW c \in Clients, Hang(c)
  PROVE  IInv'
<1>1. /\ pc = "scan" /\ pc' = "hung"
      /\ UNCHANGED <<client, conn, fd, up, down, backlog, mowers, clients, maxFd, file, perturbed, i>>
  BY DEF Hang, EndOfFile, Turn
<1>2. i' \in {Sock + 1} \cup {f + 1 : f \in Fds}
  BY <1>1 DEF IInv, Types
<1> QED BY <1>1, <1>2, PlaceKeeps

\* A connection gets the lowest descriptor, which is that of the first record
\* that is free if there has been no file.
LEMMA AcceptKeeps == IInv /\ Accept => IInv'
<1> SUFFICES ASSUME IInv, Accept PROVE IInv'
  OBVIOUS
<1>0. PICK c : c = Head(backlog)
  OBVIOUS
<1>1. /\ pc = "accept" /\ pc' = "enable"
      /\ conn' = [conn EXCEPT ![c] = "accepted"] /\ fd' = [fd EXCEPT ![c] = LowestFree]
      /\ backlog' = Tail(backlog) /\ perturbed' = (perturbed \/ file # NoFd)
      /\ UNCHANGED <<alive, waiting, up, down, mowers, clients, maxFd, i, file>>
  BY <1>0 DEF Accept, client
<1>2. /\ backlog # <<>> /\ backlog \in Seq(Clients)
      /\ \A j \in 1..Len(backlog) : conn[backlog[j]] = "backlog"
      /\ \A j, k \in 1..Len(backlog) : backlog[j] = backlog[k] => j = k
  BY <1>1 DEF IInv, BacklogInv, Types
<1>3. /\ c \in Clients /\ conn[c] = "backlog" /\ Len(backlog) \in Nat \ {0} /\ c = backlog[1]
      /\ backlog' \in Seq(Clients) /\ Len(backlog') = Len(backlog) - 1
      /\ \A j \in 1..Len(backlog') : backlog'[j] = backlog[j + 1] /\ j + 1 \in 1..Len(backlog)
  <2>1. c = backlog[1] /\ 1 \in 1..Len(backlog) /\ c \in Clients
    BY <1>0, <1>2
  <2> QED BY <1>1, <1>2, <2>1
<1>4. FreeFds # {}
  BY <1>1, RoomForFile
<1>5. /\ LowestFree \in Fds /\ LowestFree # file /\ \A d \in Clients : fd[d] # LowestFree
      /\ LowestFree # NoFd
  BY <1>4, LowestIsFree, ConstantsAre
<1>6. /\ conn'[c] = "accepted" /\ fd'[c] = LowestFree
      /\ \A d \in Clients : d # c => conn'[d] = conn[d] /\ fd'[d] = fd[d]
      /\ \A d \in Clients : conn[d] # "accepted"
  BY <1>1, <1>3 DEF IInv, Types, AcceptedInv
<1>7. Types'
  BY <1>1, <1>3, <1>5 DEF IInv, Types
<1>8. Flag'
  BY <1>1, Zenon DEF Flag
<1>9. BacklogInv'
  <2>1. ASSUME NEW j \in 1..Len(backlog') PROVE conn'[backlog'[j]] = "backlog"
    <3>1. backlog'[j] = backlog[j + 1] /\ j + 1 \in 1..Len(backlog) /\ j + 1 # 1
          /\ 1 \in 1..Len(backlog)
      BY <1>3
    <3>2. backlog[j + 1] # c /\ backlog[j + 1] \in Clients /\ conn[backlog[j + 1]] = "backlog"
      BY <1>2, <1>3, <3>1
    <3> QED BY <1>6, <3>1, <3>2
  <2>2. ASSUME NEW j \in 1..Len(backlog'), NEW k \in 1..Len(backlog'), backlog'[j] = backlog'[k]
        PROVE  j = k
    <3>1. j + 1 = k + 1
      BY <1>2, <1>3, <2>2
    <3> QED BY <3>1
  <2> QED BY <1>1, <2>1, <2>2 DEF BacklogInv
<1>10. AcceptedInv'
  BY <1>1, <1>6 DEF AcceptedInv
<1>11. DescriptorInv'
  <2>1. \A d \in Clients : fd'[d] # NoFd <=> conn'[d] \in {"accepted", "open"}
    BY <1>5, <1>6 DEF IInv, DescriptorInv
  <2>2. \A d, e \in Clients : fd'[d] = fd'[e] /\ fd'[d] # NoFd => d = e
    BY <1>5, <1>6 DEF IInv, DescriptorInv
  <2>3. \A d \in Clients : fd'[d] = file' => file' = NoFd
    BY <1>1, <1>5, <1>6 DEF IInv, DescriptorInv
  <2> QED BY <2>1, <2>2, <2>3 DEF DescriptorInv
<1>12. RecordInv'
  <2>1. Open' = Open /\ c \notin Open
    BY <1>3, <1>6 DEF Open, HasFd
  <2>2. \A d \in Open : fd'[d] = fd[d]
    BY <1>6, <2>1 DEF Open
  <2> QED BY <1>1, <2>1, <2>2 DEF IInv, RecordInv
<1>13. TrafficInv'
  BY <1>1, <1>3, <1>6 DEF IInv, TrafficInv
<1>14. AnswersAreOwed'
  <2>1. ASSUME NEW d \in Clients, d # c PROVE Owed(d)'
    BY <1>1, <1>6, <2>1, OwedStays
  <2>2. Owed(c)'
    BY <1>1, <1>3, <1>6 DEF IInv, AnswersAreOwed, Connected, Owed
  <2> QED BY <2>1, <2>2 DEF AnswersAreOwed, Owed
<1>15. NumbersInv'
  <2> SUFFICES ASSUME ~perturbed, file = NoFd
               PROVE  /\ \A k \in Slots : mowers[k].enabled => mowers[k].fd = Sock + 1 + k
                      /\ FreeSlots # {} => LowestFree = Sock + 1 + FirstFree
    BY <1>1, <1>6 DEF NumbersInv, FreeSlots, FirstFree
  <2>1. \A k \in Slots : mowers[k].enabled => mowers[k].fd = Sock + 1 + k
    BY DEF IInv, NumbersInv
  <2>2. ASSUME FreeSlots # {} PROVE LowestFree = Sock + 1 + FirstFree
    <3> DEFINE k == FirstFree
               f == Sock + 1 + k
    <3>1. /\ k \in Slots /\ ~mowers[k].enabled
          /\ \A l \in Slots : l < k => mowers[l].enabled
      BY <2>2, FirstIsFree
    <3>2. \A d \in Clients : fd[d] = NoFd \/ (d \in Open /\ fd[d] \in clients)
      BY <1>6 DEF IInv, DescriptorInv, RecordInv, Open, HasFd
    <3>3. clients = {mowers[l].fd : l \in Enabled}
      BY EnabledMatch DEF IInv
    <3>4. k \in Nat /\ f \in Fds /\ Sock \in Nat
      BY <3>1, ServerAssumption DEF Slots, Fds
    <3>5. f \notin clients
      <4> SUFFICES ASSUME NEW l \in Enabled, mowers[l].fd = f PROVE FALSE
        BY <3>3
      <4>1. l \in Slots /\ mowers[l].enabled /\ f = Sock + 1 + l
        BY <2>1 DEF Enabled
      <4>2. l = k
        BY <3>4, <4>1, ConstantsAre
      <4> HIDE DEF k
      <4> QED BY <3>1, <4>1, <4>2
    <3>6. f \in FreeFds
      BY <3>2, <3>4, <3>5, ConstantsAre DEF FreeFds
    <3>7. ASSUME NEW g \in FreeFds, g < f PROVE FALSE
      <4> DEFINE l == g - Sock - 1
      <4>1. l \in Slots /\ l < k /\ g = Sock + 1 + l
        BY <3>1, <3>4, <3>7, ServerAssumption DEF FreeFds, Fds, Slots
      <4>2. mowers[l].enabled /\ mowers[l].fd = g
        BY <2>1, <3>1, <4>1
      <4>3. g \in clients
        BY <3>3, <4>1, <4>2 DEF Enabled
      <4>4. PICK d \in Open : fd[d] = g
        BY <4>3 DEF IInv, RecordInv
      <4> QED BY <4>4 DEF FreeFds, Open
    <3>8. LowestFree \in Nat /\ f \in Nat
      BY <1>5, <3>4, ConstantsAre
    <3>9. LowestFree <= f /\ ~(LowestFree < f)
      BY <1>4, <3>6, <3>7, LowestIsFree
    <3> HIDE DEF f
    <3>10. LowestFree = f
      BY <3>8, <3>9
    <3> QED BY <3>10 DEF f
  <2> QED BY <2>1, <2>2
<1>16. NobodyIsForgotten'
  BY <1>1 DEF IInv, NobodyIsForgotten
<1> QED BY <1>7, <1>8, <1>9, <1>10, <1>11, <1>12, <1>13, <1>14, <1>15, <1>16 DEF IInv

\* The connection that was accepted gets the first free record ...
LEMMA EnableKeeps ==
  ASSUME IInv, NEW c \in Clients, Enable(c)
  PROVE  IInv'
<1>0. PICK k : k = FirstFree
  OBVIOUS
<1>1. /\ pc = "enable" /\ conn[c] = "accepted" /\ FreeSlots # {} /\ pc' = "scan"
      /\ mowers' = [mowers EXCEPT ![k].enabled = TRUE, ![k].fd = fd[c]]
      /\ clients' = clients \cup {fd[c]}
      /\ maxFd' = (IF fd[c] >= maxFd THEN fd[c] + 1 ELSE maxFd)
      /\ conn' = [conn EXCEPT ![c] = "open"]
      /\ UNCHANGED <<alive, waiting, fd, up, down, backlog, i, file, perturbed>>
  BY <1>0 DEF Enable, client
<1>2. k \in Slots /\ ~mowers[k].enabled
  BY <1>0, <1>1, FirstIsFree
<1>3. fd[c] \in Fds /\ fd[c] # NoFd
  BY <1>1 DEF IInv, Types, DescriptorInv
<1>4. /\ mowers'[k] \in Mowers /\ mowers'[k].enabled /\ mowers'[k].fd = fd[c]
      /\ \A l \in Slots : l # k => mowers'[l] = mowers[l]
  <2>1. mowers[k] \in Mowers
    BY <1>2 DEF IInv, Types
  <2>2. mowers'[k] = [mowers[k] EXCEPT !.enabled = TRUE, !.fd = fd[c]]
    BY <1>1, <1>2 DEF IInv, Types
  <2>3. mowers'[k] \in Mowers
    BY <1>3, <2>1, <2>2 DEF Mowers
  <2>4. mowers'[k].enabled /\ mowers'[k].fd = fd[c]
    BY <2>1, <2>2 DEF Mowers
  <2>5. \A l \in Slots : l # k => mowers'[l] = mowers[l]
    BY <1>1 DEF IInv, Types
  <2> QED BY <2>3, <2>4, <2>5
<1>5. /\ conn'[c] = "open"
      /\ \A d \in Clients : d # c => conn'[d] = conn[d] /\ conn[d] # "accepted" /\ fd[d] # fd[c]
  BY <1>1, <1>3 DEF IInv, Types, AcceptedInv, DescriptorInv
<1>6. Types'
  <2>1. mowers' \in [Slots -> Mowers]
    BY <1>1, <1>4 DEF IInv, Types
  <2>2. clients' \subseteq Fds
    BY <1>1, <1>3 DEF IInv, Types
  <2>3. maxFd' \in {Sock + 1} \cup {f + 1 : f \in Fds}
    BY <1>1, <1>3 DEF IInv, Types
  <2>4. conn' \in [Clients -> {"off", "backlog", "accepted", "open", "refused"}]
    BY <1>1 DEF IInv, Types
  <2> QED BY <1>1, <2>1, <2>2, <2>3, <2>4 DEF IInv, Types
<1>7. Flag'
  BY <1>1, Zenon DEF IInv, Flag
<1>8. BacklogInv'
  <2>1. \A j \in 1..Len(backlog) : backlog[j] \in Clients /\ conn[backlog[j]] = "backlog"
    BY DEF IInv, BacklogInv, Types
  <2>2. \A j \in 1..Len(backlog) : conn'[backlog[j]] = "backlog"
    BY <1>1, <1>5, <2>1
  <2> QED BY <1>1, <2>2 DEF IInv, BacklogInv
<1>9. AcceptedInv'
  BY <1>5 DEF AcceptedInv
<1>10. DescriptorInv'
  BY <1>1, <1>3, <1>5 DEF IInv, DescriptorInv
<1>11. RecordInv'
  <2>1. Open' = Open \cup {c} /\ c \notin Open
    BY <1>1, <1>5 DEF Open, HasFd
  <2>2. clients' = {fd'[d] : d \in Open'}
    BY <1>1, <2>1 DEF IInv, RecordInv
  <2>3. \A d \in Open' : \E l \in Slots : mowers'[l].enabled /\ mowers'[l].fd = fd'[d]
    <3> SUFFICES ASSUME NEW d \in Open'
                 PROVE  \E l \in Slots : mowers'[l].enabled /\ mowers'[l].fd = fd[d]
      BY <1>1
    <3>1. CASE d = c
      BY <1>2, <1>4, <3>1
    <3>2. CASE d \in Open
      <4>1. PICK l \in Slots : mowers[l].enabled /\ mowers[l].fd = fd[d]
        BY <3>2 DEF IInv, RecordInv
      <4>2. mowers'[l] = mowers[l]
        BY <1>2, <1>4, <4>1
      <4> QED BY <4>1, <4>2
    <3> QED BY <2>1, <3>1, <3>2
  <2>4. \A l \in Slots : mowers'[l].enabled => \E d \in Open' : fd'[d] = mowers'[l].fd
    <3> SUFFICES ASSUME NEW l \in Slots, mowers'[l].enabled
                 PROVE  \E d \in Open' : fd[d] = mowers'[l].fd
      BY <1>1
    <3>1. CASE l = k
      BY <1>4, <2>1, <3>1
    <3>2. CASE l # k
      <4>1. mowers'[l] = mowers[l]
        BY <1>4, <3>2
      <4>2. \E d \in Open : fd[d] = mowers[l].fd
        BY <4>1 DEF IInv, RecordInv
      <4> QED BY <2>1, <4>1, <4>2
    <3> QED BY <3>1, <3>2
  <2>5. \A l \in Slots : l # k /\ mowers[l].enabled => mowers[l].fd # fd[c]
    <3>1. \A d \in Open : fd[d] # fd[c]
      BY <1>5, <2>1 DEF Open
    <3> QED BY <3>1 DEF IInv, RecordInv
  <2>6. \A l, n \in Slots :
          mowers'[l].enabled /\ mowers'[n].enabled /\ mowers'[l].fd = mowers'[n].fd => l = n
    BY <1>4, <2>5 DEF IInv, RecordInv
  <2>7. \A l \in Slots : ~mowers'[l].enabled => mowers'[l] = Initial
    BY <1>4 DEF IInv, RecordInv
  <2> QED BY <2>2, <2>3, <2>4, <2>6, <2>7 DEF RecordInv
<1>12. TrafficInv'
  BY <1>1, <1>5 DEF IInv, TrafficInv
<1>13. AnswersAreOwed'
  <2>1. ASSUME NEW d \in Clients, d # c PROVE Owed(d)'
    BY <1>1, <1>5, <2>1, OwedStays
  <2>2. Owed(c)'
    BY <1>1, <1>5 DEF IInv, AnswersAreOwed, Connected, Owed
  <2> QED BY <2>1, <2>2 DEF AnswersAreOwed, Owed
<1>14. NumbersInv'
  <2> SUFFICES ASSUME ~perturbed
               PROVE  \A l \in Slots : mowers'[l].enabled => mowers'[l].fd = Sock + 1 + l
    BY <1>1, <1>5 DEF NumbersInv
  <2>1. fd[c] = Sock + 1 + k
    BY <1>0, <1>1 DEF IInv, NumbersInv
  <2> QED BY <1>4, <2>1 DEF IInv, NumbersInv
<1>15. NobodyIsForgotten'
  <2>1. Fds \subseteq Nat /\ maxFd \in Nat /\ clients \subseteq Nat
    BY ConstantsAre DEF IInv, Types
  <2>2. fd[c] < maxFd' /\ maxFd <= maxFd' /\ maxFd' \in Nat
    BY <1>1, <1>3, <2>1
  <2>3. ~perturbed => \A f \in clients : f < maxFd'
    BY <2>1, <2>2 DEF IInv, NobodyIsForgotten
  <2> QED BY <1>1, <2>2, <2>3 DEF NobodyIsForgotten
<1> QED BY <1>6, <1>7, <1>8, <1>9, <1>10, <1>11, <1>12, <1>13, <1>14, <1>15 DEF IInv

\* ... or is closed again.
LEMMA RefuseKeeps ==
  ASSUME IInv, NEW c \in Clients, Refuse(c)
  PROVE  IInv'
<1>1. /\ pc = "enable" /\ conn[c] = "accepted" /\ FreeSlots = {} /\ pc' = "scan"
      /\ conn' = [conn EXCEPT ![c] = IF alive[c] THEN "refused" ELSE "off"]
      /\ fd' = [fd EXCEPT ![c] = NoFd] /\ up' = [up EXCEPT ![c] = <<>>]
      /\ UNCHANGED <<alive, waiting, down, backlog, mowers, clients, maxFd, i, file, perturbed>>
  BY DEF Refuse, client
<1>2. /\ conn'[c] \in {"refused", "off"} /\ fd'[c] = NoFd /\ up'[c] = <<>>
      /\ \A d \in Clients : d # c => /\ conn'[d] = conn[d] /\ fd'[d] = fd[d] /\ up'[d] = up[d]
                                     /\ conn[d] # "accepted"
  BY <1>1 DEF IInv, Types, AcceptedInv
<1>3. Types'
  BY <1>1 DEF IInv, Types
<1>4. Flag'
  BY <1>1, Zenon DEF IInv, Flag
<1>5. BacklogInv'
  <2>1. \A j \in 1..Len(backlog) : backlog[j] \in Clients /\ conn[backlog[j]] = "backlog"
    BY DEF IInv, BacklogInv, Types
  <2>2. \A j \in 1..Len(backlog) : conn'[backlog[j]] = "backlog"
    BY <1>1, <1>2, <2>1
  <2> QED BY <1>1, <2>2 DEF IInv, BacklogInv
<1>6. AcceptedInv' /\ DescriptorInv' /\ TrafficInv'
  BY <1>1, <1>2 DEF IInv, AcceptedInv, DescriptorInv, TrafficInv
<1>7. RecordInv'
  <2>1. Open' = Open /\ \A d \in Open : fd'[d] = fd[d]
    BY <1>1, <1>2 DEF Open, HasFd
  <2> QED BY <1>1, <2>1 DEF IInv, RecordInv
<1>8. AnswersAreOwed'
  <2>1. ASSUME NEW d \in Clients, d # c PROVE Owed(d)'
    BY <1>1, <1>2, <2>1, OwedStays
  <2>2. Owed(c)'
    BY <1>2 DEF Connected, Owed
  <2> QED BY <2>1, <2>2 DEF AnswersAreOwed, Owed
<1>9. NumbersInv' /\ NobodyIsForgotten'
  BY <1>1, <1>2 DEF IInv, NumbersInv, NobodyIsForgotten, FreeSlots
<1> QED BY <1>3, <1>4, <1>5, <1>6, <1>7, <1>8, <1>9 DEF IInv

\* The commands of one read change the record of the connection only, and the
\* answers to them are no longer those to come.
LEMMA ServeKeeps ==
  ASSUME IInv, NEW c \in Clients, Serve(c)
  PROVE  IInv'
<1>0. PICK k, n, s : k = MowerOf(fd[c]) /\ n = AnswersTo(Taken(c)) /\ s = Taken(c)
  OBVIOUS
<1>1. /\ pc = "scan" /\ conn[c] = "open"
      /\ mowers' = [mowers EXCEPT ![k] = Obeyed(mowers[k], s)]
      /\ up' = [up EXCEPT ![c] = SubSeq(up[c], Size(c) + 1, Len(up[c]))]
      /\ down' = [down EXCEPT ![c] = down[c] + n]
      /\ pc' \in {"killed", "scan"}
      /\ i' = fd[c] + 1
      /\ UNCHANGED <<alive, waiting, conn, fd, backlog, clients, maxFd, file, perturbed>>
  BY <1>0 DEF Serve, Turn, HasFd, client
<1>2. up[c] \in Seq(Commands) /\ down[c] \in Nat
  BY DEF IInv, Types
<1>3. Size(c) \in 0..Len(up[c])
  <2>1. Batch \in Nat /\ Len(up[c]) \in Nat
    BY <1>2, ServerAssumption
  <2> QED BY <2>1 DEF Size
<1>4. /\ s \in Seq(Commands) /\ SubSeq(up[c], Size(c) + 1, Len(up[c])) \in Seq(Commands)
      /\ AnswersTo(up[c]) = n + AnswersTo(SubSeq(up[c], Size(c) + 1, Len(up[c])))
      /\ n \in Nat
  <2>1. /\ s \in Seq(Commands) /\ SubSeq(up[c], Size(c) + 1, Len(up[c])) \in Seq(Commands)
        /\ AnswersTo(up[c]) = n + AnswersTo(SubSeq(up[c], Size(c) + 1, Len(up[c])))
    BY <1>0, <1>2, <1>3, AnswersSplit DEF Taken
  <2> QED BY <1>0, <2>1, AnswersNat
<1>5. fd[c] \in Fds /\ c \in Open
  BY <1>1 DEF IInv, Types, DescriptorInv, Open, HasFd
<1>6. k \in Slots /\ mowers[k].enabled
  BY <1>0, <1>5, MowerIs DEF IInv
<1>7. /\ mowers' \in [Slots -> Mowers]
      /\ \A l \in Slots : /\ mowers'[l].enabled = mowers[l].enabled
                          /\ mowers'[l].fd = mowers[l].fd
                          /\ ~mowers[l].enabled => mowers'[l] = mowers[l]
  <2>1. mowers \in [Slots -> Mowers] /\ mowers[k] \in Mowers
    BY <1>6 DEF IInv, Types
  <2>2. /\ Obeyed(mowers[k], s) \in Mowers
        /\ Obeyed(mowers[k], s).enabled = mowers[k].enabled
        /\ Obeyed(mowers[k], s).fd = mowers[k].fd
    BY <1>4, <2>1, ObeyedKeeps
  <2>3. /\ mowers'[k] = Obeyed(mowers[k], s)
        /\ \A l \in Slots : l # k => mowers'[l] = mowers[l]
    BY <1>1, <1>6, <2>1
  <2>4. mowers' \in [Slots -> Mowers]
    BY <1>1, <2>1, <2>2
  <2> QED BY <1>6, <2>2, <2>3, <2>4
<1>8. Types'
  <2>1. up' \in [Clients -> Seq(Commands)]
    BY <1>1, <1>4 DEF IInv, Types
  <2>2. down' \in [Clients -> Nat]
    BY <1>1, <1>2, <1>4 DEF IInv, Types
  <2> QED BY <1>1, <1>5, <1>7, <2>1, <2>2 DEF IInv, Types
<1>9. Flag'
  BY <1>1, Zenon DEF IInv, Flag
<1>10. BacklogInv' /\ AcceptedInv' /\ DescriptorInv'
  BY <1>1 DEF IInv, BacklogInv, AcceptedInv, DescriptorInv
<1>11. RecordInv'
  <2>1. Open' = Open
    BY <1>1 DEF Open, HasFd
  <2> QED BY <1>1, <1>7, <2>1 DEF IInv, RecordInv
<1>12. TrafficInv'
  BY <1>1 DEF IInv, Types, TrafficInv
<1>13. AnswersAreOwed'
  <2>1. ASSUME NEW d \in Clients, d # c PROVE Owed(d)'
    BY <1>1, <2>1, OwedStays DEF IInv, Types
  <2>2. Owed(c)'
    <3> SUFFICES ASSUME Connected(c)' PROVE Cardinality(waiting'[c]) = down'[c] + AnswersTo(up'[c])
      BY DEF Owed
    <3> DEFINE u == SubSeq(up[c], Size(c) + 1, Len(up[c]))
    <3>1. Cardinality(waiting[c]) = down[c] + AnswersTo(up[c])
      BY <1>1 DEF IInv, AnswersAreOwed, Connected
    <3>2. waiting'[c] = waiting[c] /\ down'[c] = down[c] + n /\ up'[c] = u
      BY <1>1 DEF IInv, Types
    <3>3. AnswersTo(up[c]) = n + AnswersTo(u) /\ u \in Seq(Commands)
      BY <1>4
    <3> HIDE DEF u
    <3>4. AnswersTo(u) \in Nat
      BY <3>3, AnswersNat
    <3>5. down[c] + AnswersTo(up[c]) = down[c] + n + AnswersTo(u)
      BY <1>2, <1>4, <3>3, <3>4
    <3> QED BY <3>1, <3>2, <3>5
  <2> QED BY <2>1, <2>2 DEF AnswersAreOwed, Owed
<1>14. NumbersInv'
  <2>1. FreeSlots' = FreeSlots
    BY <1>7 DEF FreeSlots
  <2>2. FirstFree' = FirstFree
    BY <2>1, Zenon DEF FirstFree
  <2> QED BY <1>1, <1>7, <2>1, <2>2 DEF IInv, NumbersInv
<1>15. NobodyIsForgotten'
  BY <1>1 DEF IInv, NobodyIsForgotten
<1> QED BY <1>8, <1>9, <1>10, <1>11, <1>12, <1>13, <1>14, <1>15 DEF IInv

\* Only the connection of the first record is closed: the lowest descriptor, if
\* there has been no file, so that nobody is above the new bound unless it is
\* the old one.
LEMMA CloseKeeps ==
  ASSUME IInv, NEW c \in Clients, Close(c)
  PROVE  IInv'
<1>1. PICK k \in Slots :
      /\ pc = "scan" /\ conn[c] = "open" /\ up[c] = <<>> /\ ~alive[c]
      /\ k = 0 /\ mowers[k].enabled /\ mowers[k].fd = fd[c]
      /\ mowers' = [mowers EXCEPT ![k] = Initial]
      /\ clients' = clients \ {fd[c]}
      /\ maxFd' = (IF fd[c] + 1 >= maxFd THEN Sock + 1 ELSE maxFd)
      /\ conn' = [conn EXCEPT ![c] = "off"]
      /\ fd' = [fd EXCEPT ![c] = NoFd]
      /\ down' = [down EXCEPT ![c] = 0]
      /\ i' = fd[c] + 1
      /\ UNCHANGED <<alive, waiting, up, backlog, pc, file, perturbed>>
  BY DEF Close, EndOfFile, Turn, HasFd, Finds, Bound, client
<1>2. /\ conn'[c] = "off" /\ fd'[c] = NoFd /\ down'[c] = 0 /\ fd[c] \in Fds /\ fd[c] # NoFd
      /\ \A d \in Clients : d # c => /\ conn'[d] = conn[d] /\ fd'[d] = fd[d] /\ down'[d] = down[d]
                                     /\ fd[d] # fd[c]
      /\ \A d \in Clients : conn[d] # "accepted"
  BY <1>1 DEF IInv, Types, AcceptedInv, DescriptorInv
<1>3. /\ mowers'[k] = Initial /\ ~Initial.enabled
      /\ \A l \in Slots : l # k => mowers'[l] = mowers[l]
  BY <1>1 DEF IInv, Types, Initial
<1>4. Types'
  <2>1. mowers' \in [Slots -> Mowers]
    <3>1. Initial \in Mowers
      BY DEF Initial, Mowers
    <3> QED BY <1>1, <3>1 DEF IInv, Types
  <2> QED BY <1>1, <1>2, <2>1 DEF IInv, Types
<1>5. Flag'
  BY <1>1, Zenon DEF IInv, Flag
<1>6. BacklogInv'
  <2>1. \A j \in 1..Len(backlog) : backlog[j] \in Clients /\ conn[backlog[j]] = "backlog"
    BY DEF IInv, BacklogInv, Types
  <2>2. \A j \in 1..Len(backlog) : conn'[backlog[j]] = "backlog"
    BY <1>1, <1>2, <2>1
  <2> QED BY <1>1, <2>2 DEF IInv, BacklogInv
<1>7. AcceptedInv' /\ DescriptorInv' /\ TrafficInv'
  BY <1>1, <1>2 DEF IInv, AcceptedInv, DescriptorInv, TrafficInv
<1>8. RecordInv'
  <2>1. Open' = Open \ {c} /\ c \in Open
    BY <1>1, <1>2 DEF Open, HasFd
  <2>2. \A d \in Open' : fd'[d] = fd[d] /\ fd[d] # fd[c] /\ d \in Open
    BY <1>2, <2>1 DEF Open
  <2>3. clients' = {fd'[d] : d \in Open'}
    BY <1>1, <2>1, <2>2 DEF IInv, RecordInv
  <2>4. \A d \in Open' : \E l \in Slots : mowers'[l].enabled /\ mowers'[l].fd = fd'[d]
    BY <1>1, <1>3, <2>2 DEF IInv, RecordInv
  <2>5. \A l \in Slots : mowers'[l].enabled => mowers[l].enabled /\ l # k /\ mowers[l].fd # fd[c]
    BY <1>1, <1>3 DEF IInv, RecordInv
  <2>6. \A l \in Slots : mowers'[l].enabled => \E d \in Open' : fd'[d] = mowers'[l].fd
    BY <1>3, <2>1, <2>2, <2>5 DEF IInv, RecordInv
  <2>7. \A l, n \in Slots :
          mowers'[l].enabled /\ mowers'[n].enabled /\ mowers'[l].fd = mowers'[n].fd => l = n
    BY <1>3, <2>5 DEF IInv, RecordInv
  <2>8. \A l \in Slots : ~mowers'[l].enabled => mowers'[l] = Initial
    BY <1>3 DEF IInv, RecordInv
  <2> QED BY <2>3, <2>4, <2>6, <2>7, <2>8 DEF RecordInv
<1>9. AnswersAreOwed'
  <2>1. ASSUME NEW d \in Clients, d # c PROVE Owed(d)'
    BY <1>1, <1>2, <2>1, OwedStays
  <2>2. Owed(c)'
    BY <1>2 DEF Connected, Owed
  <2> QED BY <2>1, <2>2 DEF AnswersAreOwed, Owed
<1>10. NumbersInv'
  BY <1>1, <1>2, <1>3 DEF IInv, NumbersInv
<1>11. NobodyIsForgotten'
  <2> SUFFICES ASSUME ~perturbed, NEW f \in clients' PROVE f < maxFd'
    BY <1>1 DEF NobodyIsForgotten
  <2>1. f \in clients /\ f # fd[c] /\ f < maxFd
    BY <1>1 DEF IInv, NobodyIsForgotten
  <2>2. fd[c] = Sock + 1
    BY <1>1, ServerAssumption DEF IInv, NumbersInv
  <2>3. f \in Nat /\ f >= Sock + 1 /\ Sock \in Nat /\ maxFd \in Nat
    BY <2>1, ServerAssumption DEF IInv, Types, Fds
  <2> QED BY <1>1, <2>1, <2>2, <2>3
<1> QED BY <1>4, <1>5, <1>6, <1>7, <1>8, <1>9, <1>10, <1>11 DEF IInv

-----------------------------------------------------------------------------
LEMMA InitInvariant == Init => IInv
<1> SUFFICES ASSUME Init PROVE IInv
  OBVIOUS
<1>1. Types
  <2>1. Initial \in Mowers
    BY DEF Initial, Mowers
  <2>2. <<>> \in Seq(Commands) /\ <<>> \in Seq(Clients)
    OBVIOUS
  <2> QED BY <2>1, <2>2 DEF Init, Types
<1>2. Flag
  BY Zenon DEF Init, Flag
<1>3. BacklogInv /\ AcceptedInv /\ DescriptorInv /\ TrafficInv
  BY DEF Init, BacklogInv, AcceptedInv, DescriptorInv, TrafficInv
<1>4. RecordInv
  BY DEF Init, RecordInv, Open, HasFd, Initial
<1>5. AnswersAreOwed
  BY DEF Init, AnswersAreOwed, Connected
<1>6. NumbersInv /\ NobodyIsForgotten
  BY DEF Init, NumbersInv, NobodyIsForgotten, Initial
<1> QED BY <1>1, <1>2, <1>3, <1>4, <1>5, <1>6 DEF IInv

LEMMA NextKeeps == IInv /\ [Next]_vars => IInv'
<1> SUFFICES ASSUME IInv, [Next]_vars PROVE IInv'
  OBVIOUS
<1>1. CASE Select \/ Accept \/ EndScan
  BY <1>1, SelectKeeps, AcceptKeeps, EndScanKeeps
<1>2. ASSUME NEW c \in Clients, Enable(c) \/ Refuse(c) \/ Serve(c) \/ Close(c) \/ Hang(c)
      PROVE  IInv'
  BY <1>2, EnableKeeps, RefuseKeeps, ServeKeeps, CloseKeeps, HangKeeps
<1>3. CASE OpenFile \/ CloseFile
  BY <1>3, OpenFileKeeps, CloseFileKeeps
<1>4. ASSUME NEW c \in Clients, Controller(c) PROVE IInv'
  BY <1>4, ControllerKeeps
<1>5. CASE UNCHANGED vars
  <2>1. file' \in Fds \cup {NoFd} /\ \A c \in Clients : fd[c] = file' => file' = NoFd
    BY <1>5 DEF IInv, Types, DescriptorInv, vars
  <2> QED BY <1>5, <2>1, FileKeeps DEF vars, client, server
<1> QED BY <1>1, <1>2, <1>3, <1>4, <1>5 DEF Next, Network

\* The invariant: records, descriptors and traffic, kept by every connection
\* made, accepted, refused, served and closed and by every file of the window.
THEOREM Invariance == Spec => []IInv
<1> QED BY InitInvariant, NextKeeps, PTL DEF Spec

\* Every part of the state stays in its type; above all no thread takes an
\* answer that is not there.
THEOREM TypeCorrect == Spec => []TypeOK
<1>1. IInv => TypeOK
  BY Zenon DEF IInv, Types, Flag, TypeOK
<1> QED BY <1>1, Invariance, PTL

\* The records of the mowers, the set of the connections and the connections
\* themselves agree, and a record nobody uses is as init_mower leaves it.
THEOREM RecordsAgree == Spec => []RecordsMatchConnections
<1>1. IInv => RecordsMatchConnections
  <2> SUFFICES ASSUME IInv PROVE RecordsMatchConnections
    OBVIOUS
  <2>1. /\ clients = {mowers[k].fd : k \in Enabled}
        /\ Cardinality(clients) = Cardinality(Enabled) /\ Cardinality(clients) = Cardinality(Open)
    BY EnabledMatch, OpenMatch DEF IInv
  <2>2. clients = {fd[c] : c \in Open} /\ \A k \in Slots : ~mowers[k].enabled => mowers[k] = Initial
    BY DEF IInv, RecordInv
  <2> QED BY <2>1, <2>2 DEF RecordsMatchConnections, Enabled
<1> QED BY <1>1, Invariance, PTL

\* No connection is above the bound that select() gets, as long as no file of
\* the window has shifted the descriptors.
THEOREM NobodyForgotten == Spec => []NobodyIsForgotten
<1>1. IInv => NobodyIsForgotten
  BY DEF IInv
<1> QED BY <1>1, Invariance, PTL

\* What is under way to a controller is one answer for each thread that waits,
\* however reads, batches and ends of connections mix.
THEOREM AnswersOwed == Spec => []AnswersAreOwed
<1>1. IInv => AnswersAreOwed
  BY DEF IInv
<1> QED BY <1>1, Invariance, PTL
=============================================================================
