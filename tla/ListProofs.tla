----------------------------- MODULE ListProofs -----------------------------
(***************************************************************************)
(* Theorems about List, for any addresses, any data and any client of the  *)
(* three kinds: the two walks meet the items that the list has, an ordered *)
(* list is in order, and the list keeps the sequence of AbstractList.      *)
(*                                                                         *)
(* The invariant names the sequence s that the links stand for, so that    *)
(* each call is a change of s.  A walk is a recursive function; that it    *)
(* ends with s is an induction over its steps (WalkIs).                    *)
(***************************************************************************)
EXTENDS List, FiniteSetTheorems, SequenceTheorems, TLAPS

-----------------------------------------------------------------------------
\* The links lead from a along s to b, and nowhere from there.
Half(link, a, b, s) ==
  /\ a = IF s = << >> THEN NULL ELSE s[1]
  /\ b = IF s = << >> THEN NULL ELSE s[Len(s)]
  /\ \A k \in 1..Len(s) : link[s[k]] = IF k = Len(s) THEN NULL ELSE s[k + 1]

Once(s) == \A j, k \in 1..Len(s) : s[j] = s[k] => j = k

Sorted(s, held) ==
  /\ \A k \in 1..Len(s) : held[s[k]] \in Data
  /\ \A j, k \in 1..Len(s) : j < k => held[s[j]] <= held[s[k]]

\* The list stands for s: in both directions, or in the one that is left to a
\* client that removes at an end.
Shape(s) ==
  /\ s \in Seq(Items) /\ Once(s) /\ ToSet(s) = live
  /\ "remove_last" \notin calls => Half(next, first, last, s)
  /\ "remove_first" \notin calls => Half(previous, last, first, Reverse(s))
  /\ "add_ordered" \in calls => Sorted(s, data)
  /\ Len(s) <= items

Types ==
  /\ live \subseteq Items
  /\ next \in [Items -> Link] /\ previous \in [Items -> Link]
  /\ data \in [Items -> Data \cup {NULL}]
  /\ first \in Link /\ last \in Link /\ cursor \in Link
  /\ items \in Int /\ items <= MaxCount
  /\ calls \in Clients

IInv == Types /\ \E s \in Seq(Items) : Shape(s)

-----------------------------------------------------------------------------
\* Sequences: an item put in, one taken out, the other direction.
LEMMA InsertIs ==
  ASSUME NEW S, NEW s \in Seq(S), NEW j \in 1..(Len(s) + 1), NEW n \in S
  PROVE  /\ InsertAt(s, j, n) \in Seq(S) /\ Len(InsertAt(s, j, n)) = Len(s) + 1
         /\ \A k \in 1..(j - 1) : InsertAt(s, j, n)[k] = s[k]
         /\ InsertAt(s, j, n)[j] = n
         /\ \A k \in (j + 1)..(Len(s) + 1) : InsertAt(s, j, n)[k] = s[k - 1]
<1> DEFINE m == Len(s)
           p == SubSeq(s, 1, j - 1)
           q == SubSeq(s, j, m)
<1>1. /\ m \in Nat /\ j \in 1..(m + 1)
      /\ p \in Seq(S) /\ Len(p) = j - 1 /\ \A k \in 1..(j - 1) : p[k] = s[k]
      /\ q \in Seq(S) /\ Len(q) = m + 1 - j /\ \A k \in 1..(m + 1 - j) : q[k] = s[k + j - 1]
  OBVIOUS
<1>2. <<n>> \in Seq(S) /\ Len(<<n>>) = 1 /\ <<n>>[1] = n
  OBVIOUS
<1>3. InsertAt(s, j, n) = p \o <<n>> \o q
  BY DEF InsertAt
<1> HIDE DEF m, p, q
<1>4. /\ p \o <<n>> \in Seq(S) /\ Len(p \o <<n>>) = j
      /\ \A k \in 1..j : (p \o <<n>>)[k] = IF k < j THEN p[k] ELSE n
  <2>1. /\ p \o <<n>> \in Seq(S) /\ Len(p \o <<n>>) = Len(p) + Len(<<n>>)
        /\ \A k \in 1..(Len(p) + Len(<<n>>)) : (p \o <<n>>)[k] =
             IF k <= Len(p) THEN p[k] ELSE <<n>>[k - Len(p)]
    BY <1>1, <1>2, ConcatProperties
  <2> QED BY <1>1, <1>2, <2>1
<1> DEFINE t == p \o <<n>>
<1>t. /\ t \in Seq(S) /\ Len(t) = j
      /\ \A k \in 1..j : t[k] = IF k < j THEN p[k] ELSE n
  BY <1>4
<1> HIDE DEF t
<1>5. /\ t \o q \in Seq(S) /\ Len(t \o q) = m + 1
      /\ \A k \in 1..(m + 1) : (t \o q)[k] = IF k <= j THEN t[k] ELSE q[k - j]
  <2>1. /\ t \o q \in Seq(S) /\ Len(t \o q) = Len(t) + Len(q)
        /\ \A k \in 1..(Len(t) + Len(q)) : (t \o q)[k] =
             IF k <= Len(t) THEN t[k] ELSE q[k - Len(t)]
    <3>1. t \in Seq(S) /\ q \in Seq(S)
      BY <1>1, <1>t
    <3> QED BY <3>1, ConcatProperties, Zenon
  <2>2. Len(t) = j /\ Len(t) + Len(q) = m + 1
    BY <1>1, <1>t
  <2> QED BY <2>1, <2>2
<1>6. ASSUME NEW k \in 1..(j - 1) PROVE (t \o q)[k] = s[k]
  <2>1. k <= j /\ k \in 1..j /\ k < j /\ k \in 1..(m + 1)
    BY <1>1
  <2> QED BY <1>1, <1>t, <1>5, <2>1
<1>7. (t \o q)[j] = n
  <2>1. j <= j /\ j \in 1..j /\ ~(j < j) /\ j \in 1..(m + 1)
    BY <1>1
  <2> QED BY <1>t, <1>5, <2>1
<1>8. ASSUME NEW k \in (j + 1)..(m + 1) PROVE (t \o q)[k] = s[k - 1]
  <2>1. /\ ~(k <= j) /\ k \in 1..(m + 1)
        /\ k - j \in 1..(m + 1 - j) /\ (k - j) + j - 1 = k - 1
    BY <1>1
  <2> QED BY <1>1, <1>5, <2>1
<1> QED BY <1>3, <1>5, <1>6, <1>7, <1>8 DEF t, m

\* The same for items.
LEMMA InsertItems ==
  ASSUME NEW s \in Seq(Items), NEW j \in 1..(Len(s) + 1), NEW n \in Items
  PROVE  /\ InsertAt(s, j, n) \in Seq(Items) /\ Len(InsertAt(s, j, n)) = Len(s) + 1
         /\ \A k \in 1..(j - 1) : InsertAt(s, j, n)[k] = s[k]
         /\ InsertAt(s, j, n)[j] = n
         /\ \A k \in (j + 1)..(Len(s) + 1) : InsertAt(s, j, n)[k] = s[k - 1]
BY InsertIs

\* The items behind the one taken out move up.
LEMMA RemoveIs ==
  ASSUME NEW S, NEW s \in Seq(S), NEW j \in 1..Len(s)
  PROVE  /\ RemoveAt(s, j) \in Seq(S) /\ Len(RemoveAt(s, j)) = Len(s) - 1
         /\ \A k \in 1..(Len(s) - 1) :
              RemoveAt(s, j)[k] = IF k < j THEN s[k] ELSE s[k + 1]
<1> DEFINE m == Len(s)
           p == SubSeq(s, 1, j - 1)
           q == SubSeq(s, j + 1, m)
<1>1. /\ m \in Nat /\ j \in 1..m
      /\ p \in Seq(S) /\ Len(p) = j - 1 /\ \A k \in 1..(j - 1) : p[k] = s[k]
      /\ q \in Seq(S) /\ Len(q) = m - j /\ \A k \in 1..(m - j) : q[k] = s[k + j]
  OBVIOUS
<1>2. RemoveAt(s, j) = p \o q
  BY DEF RemoveAt
<1> HIDE DEF m, p, q
<1>3. /\ p \o q \in Seq(S) /\ Len(p \o q) = m - 1
      /\ \A k \in 1..(m - 1) : (p \o q)[k] = IF k < j THEN p[k] ELSE q[k - (j - 1)]
  <2>1. /\ p \o q \in Seq(S) /\ Len(p \o q) = Len(p) + Len(q)
        /\ \A k \in 1..(Len(p) + Len(q)) : (p \o q)[k] =
             IF k <= Len(p) THEN p[k] ELSE q[k - Len(p)]
    BY <1>1, ConcatProperties
  <2>2. Len(p) + Len(q) = m - 1
    BY <1>1
  <2> QED BY <1>1, <2>1, <2>2
<1>4. ASSUME NEW k \in 1..(m - 1)
      PROVE  (p \o q)[k] = IF k < j THEN s[k] ELSE s[k + 1]
  <2>1. CASE k < j
    BY <1>1, <1>3, <2>1
  <2>2. CASE k >= j
    <3>1. k - (j - 1) \in 1..(m - j) /\ (k - (j - 1)) + j = k + 1
      BY <1>1, <2>2
    <3> QED BY <1>1, <1>3, <2>2, <3>1
  <2> QED BY <1>1, <2>1, <2>2
<1> QED BY <1>2, <1>3, <1>4 DEF m

\* Reversing twice is nothing.
LEMMA ReverseIs ==
  ASSUME NEW S, NEW s \in Seq(S)
  PROVE  /\ Reverse(s) \in Seq(S) /\ Len(Reverse(s)) = Len(s)
         /\ \A k \in 1..Len(s) : Reverse(s)[k] = s[Len(s) + 1 - k]
         /\ Reverse(Reverse(s)) = s
<1>1. /\ Reverse(s) \in Seq(S) /\ Len(Reverse(s)) = Len(s)
      /\ \A k \in 1..Len(s) : Reverse(s)[k] = s[Len(s) + 1 - k]
  BY DEF Reverse
<1> DEFINE r == Reverse(s)
<1>r. r \in Seq(S) /\ Len(r) = Len(s)
  BY <1>1
<1> HIDE DEF r
<1>2. /\ Reverse(r) \in Seq(S) /\ Len(Reverse(r)) = Len(s)
      /\ \A k \in 1..Len(s) : Reverse(r)[k] = r[Len(s) + 1 - k]
  BY <1>r DEF Reverse
<1>3. ASSUME NEW k \in 1..Len(s) PROVE Reverse(r)[k] = s[k]
  <2>1. Len(s) + 1 - k \in 1..Len(s) /\ Len(s) + 1 - (Len(s) + 1 - k) = k
    OBVIOUS
  <2> QED BY <1>1, <1>2, <2>1 DEF r
<1>4. Reverse(r) = s
  BY <1>2, <1>3, SeqEqual
<1> QED BY <1>1, <1>4 DEF r

\* Putting in and taking out in the other direction.
LEMMA InsertReverse ==
  ASSUME NEW S, NEW s \in Seq(S), NEW j \in 1..(Len(s) + 1), NEW n \in S
  PROVE  Reverse(InsertAt(s, j, n)) = InsertAt(Reverse(s), Len(s) + 2 - j, n)
<1> DEFINE m == Len(s)
           r == Reverse(s)
           t == InsertAt(s, j, n)
           i == m + 2 - j
<1>1. m \in Nat /\ j \in 1..(m + 1) /\ i \in 1..(m + 1)
  OBVIOUS
<1>2. /\ r \in Seq(S) /\ Len(r) = m
      /\ \A k \in 1..m : r[k] = s[m + 1 - k]
  BY ReverseIs
<1>3. /\ t \in Seq(S) /\ Len(t) = m + 1
      /\ \A k \in 1..(j - 1) : t[k] = s[k]
      /\ t[j] = n
      /\ \A k \in (j + 1)..(m + 1) : t[k] = s[k - 1]
  BY InsertIs
<1> HIDE DEF m, r, t
<1>4. /\ Reverse(t) \in Seq(S) /\ Len(Reverse(t)) = m + 1
      /\ \A k \in 1..(m + 1) : Reverse(t)[k] = t[m + 2 - k]
  <2>1. /\ Reverse(t) \in Seq(S) /\ Len(Reverse(t)) = Len(t)
        /\ \A k \in 1..Len(t) : Reverse(t)[k] = t[Len(t) + 1 - k]
    <3>1. t \in Seq(S)
      BY <1>3
    <3> QED BY <3>1, ReverseIs, Zenon
  <2>2. Len(t) = m + 1 /\ \A k \in 1..(m + 1) : (m + 1) + 1 - k = m + 2 - k
    BY <1>1, <1>3
  <2> QED BY <2>1, <2>2
<1>5. /\ InsertAt(r, i, n) \in Seq(S) /\ Len(InsertAt(r, i, n)) = m + 1
      /\ \A k \in 1..(i - 1) : InsertAt(r, i, n)[k] = r[k]
      /\ InsertAt(r, i, n)[i] = n
      /\ \A k \in (i + 1)..(m + 1) : InsertAt(r, i, n)[k] = r[k - 1]
  <2>1. i \in 1..(Len(r) + 1)
    BY <1>1, <1>2
  <2> HIDE DEF i
  <2>2. /\ InsertAt(r, i, n) \in Seq(S) /\ Len(InsertAt(r, i, n)) = Len(r) + 1
        /\ \A k \in 1..(i - 1) : InsertAt(r, i, n)[k] = r[k]
        /\ InsertAt(r, i, n)[i] = n
        /\ \A k \in (i + 1)..(Len(r) + 1) : InsertAt(r, i, n)[k] = r[k - 1]
    <3>1. r \in Seq(S)
      BY <1>2
    <3>2. n \in S
      OBVIOUS
    <3> HIDE DEF m, t
    <3> QED BY ONLY <2>1, <3>1, <3>2, InsertIs
  <2> QED BY <1>2, <2>2
<1>6. ASSUME NEW k \in 1..(m + 1) PROVE Reverse(t)[k] = InsertAt(r, i, n)[k]
  <2>1. m + 2 - k \in 1..(m + 1) /\ Reverse(t)[k] = t[m + 2 - k]
    BY <1>1, <1>4
  <2>2. CASE k < i
    <3>1. /\ m + 2 - k \in (j + 1)..(m + 1) /\ m + 2 - k - 1 = m + 1 - k
          /\ k \in 1..(i - 1) /\ k \in 1..m
      BY <1>1, <2>2
    <3>2. t[m + 2 - k] = s[m + 2 - k - 1]
      <4> DEFINE l == m + 2 - k
      <4>1. l \in (j + 1)..(m + 1)
        BY <3>1
      <4> HIDE DEF l
      <4>2. t[l] = s[l - 1]
        BY <1>3, <4>1
      <4>3. t[m + 2 - k] = s[(m + 2 - k) - 1]
        BY <4>2 DEF l
      <4> QED BY <1>1, <4>3
    <3>3. InsertAt(r, i, n)[k] = s[m + 1 - k]
      BY <1>2, <1>5, <3>1
    <3> QED BY <2>1, <3>1, <3>2, <3>3
  <2>3. CASE k = i
    <3>1. m + 2 - k = j
      BY <1>1, <2>3
    <3> QED BY <1>3, <1>5, <2>1, <2>3, <3>1
  <2>4. CASE k > i
    <3>1. /\ m + 2 - k \in 1..(j - 1) /\ m + 1 - (k - 1) = m + 2 - k
          /\ k \in (i + 1)..(m + 1) /\ k - 1 \in 1..m
      BY <1>1, <2>4
    <3>2. Reverse(t)[k] = s[m + 2 - k]
      BY <1>3, <2>1, <3>1
    <3>3. InsertAt(r, i, n)[k] = r[k - 1]
      BY <1>5, <3>1
    <3>4. r[k - 1] = s[m + 2 - k]
      BY <1>2, <3>1
    <3> QED BY <3>2, <3>3, <3>4
  <2> QED BY <1>1, <2>2, <2>3, <2>4
<1> HIDE DEF i
<1>7. Reverse(t) = InsertAt(r, i, n)
  BY <1>4, <1>5, <1>6, SeqEqual
<1> QED BY <1>7 DEF m, r, t, i

\* What is removed at j goes at the mirror place of the other direction.
LEMMA RemoveReverse ==
  ASSUME NEW S, NEW s \in Seq(S), NEW j \in 1..Len(s)
  PROVE  Reverse(RemoveAt(s, j)) = RemoveAt(Reverse(s), Len(s) + 1 - j)
<1> DEFINE m == Len(s)
           r == Reverse(s)
           t == RemoveAt(s, j)
           i == m + 1 - j
<1>1. m \in Nat \ {0} /\ j \in 1..m /\ i \in 1..m
  OBVIOUS
<1>2. /\ r \in Seq(S) /\ Len(r) = m
      /\ \A k \in 1..m : r[k] = s[m + 1 - k]
  BY ReverseIs
<1>3. /\ t \in Seq(S) /\ Len(t) = m - 1
      /\ \A k \in 1..(m - 1) : t[k] = IF k < j THEN s[k] ELSE s[k + 1]
  BY RemoveIs
<1> HIDE DEF m, r, t
<1>4. /\ Reverse(t) \in Seq(S) /\ Len(Reverse(t)) = m - 1
      /\ \A k \in 1..(m - 1) : Reverse(t)[k] = t[m - k]
  <2>1. \A k \in 1..(m - 1) : (m - 1) + 1 - k = m - k
    BY <1>1
  <2> QED BY <1>3, <2>1, ReverseIs
<1>5. /\ RemoveAt(r, i) \in Seq(S) /\ Len(RemoveAt(r, i)) = m - 1
      /\ \A k \in 1..(m - 1) : RemoveAt(r, i)[k] = IF k < i THEN r[k] ELSE r[k + 1]
  <2> HIDE DEF i
  <2> QED BY <1>1, <1>2, RemoveIs
<1>6. ASSUME NEW k \in 1..(m - 1) PROVE Reverse(t)[k] = RemoveAt(r, i)[k]
  <2>1. m - k \in 1..(m - 1) /\ Reverse(t)[k] = t[m - k]
    BY <1>1, <1>4
  <2>2. CASE k < i
    <3>1. m - k >= j /\ k \in 1..m /\ m - k + 1 = m + 1 - k
      BY <1>1, <2>2
    <3>2. Reverse(t)[k] = s[m - k + 1]
      BY <1>3, <2>1, <3>1
    <3>3. RemoveAt(r, i)[k] = r[k]
      BY <1>5, <2>2
    <3>4. r[k] = s[m + 1 - k]
      BY <1>2, <3>1
    <3> QED BY <3>1, <3>2, <3>3, <3>4
  <2>3. CASE k >= i
    <3>1. m - k < j /\ k + 1 \in 1..m /\ m + 1 - (k + 1) = m - k /\ ~(k < i)
      BY <1>1, <2>3
    <3>2. Reverse(t)[k] = s[m - k]
      BY <1>3, <2>1, <3>1
    <3>3. RemoveAt(r, i)[k] = r[k + 1]
      BY <1>5, <3>1
    <3>4. r[k + 1] = s[m - k]
      BY <1>2, <3>1
    <3> QED BY <3>2, <3>3, <3>4
  <2> QED BY <1>1, <2>2, <2>3
<1> HIDE DEF i
<1>7. Reverse(t) = RemoveAt(r, i)
  BY <1>4, <1>5, <1>6, SeqEqual
<1> QED BY <1>7 DEF m, r, t, i

\* What is in a sequence after that.
LEMMA InsertOnce ==
  ASSUME NEW S, NEW s \in Seq(S), NEW j \in 1..(Len(s) + 1), NEW n \in S,
         Once(s), n \notin ToSet(s)
  PROVE  Once(InsertAt(s, j, n)) /\ ToSet(InsertAt(s, j, n)) = ToSet(s) \cup {n}
<1> DEFINE m == Len(s)
           t == InsertAt(s, j, n)
           from(k) == IF k < j THEN k ELSE k - 1
<1>1. m \in Nat /\ j \in 1..(m + 1)
  OBVIOUS
<1>2. /\ t \in Seq(S) /\ DOMAIN t = 1..(m + 1) /\ Len(t) = m + 1
      /\ \A k \in 1..(j - 1) : t[k] = s[k]
      /\ t[j] = n
      /\ \A k \in (j + 1)..(m + 1) : t[k] = s[k - 1]
  <2>1. /\ t \in Seq(S) /\ Len(t) = m + 1
        /\ \A k \in 1..(j - 1) : t[k] = s[k]
        /\ t[j] = n
        /\ \A k \in (j + 1)..(m + 1) : t[k] = s[k - 1]
    BY InsertIs
  <2> HIDE DEF m, t
  <2>2. DOMAIN t = 1..Len(t)
    BY <2>1, LenProperties
  <2> QED BY <2>1, <2>2
<1>3. DOMAIN s = 1..m
  OBVIOUS
<1> HIDE DEF m, t
<1>4. t[j] = n /\ j \in 1..(m + 1)
  BY <1>1, <1>2
<1>5. \A k \in 1..(m + 1) : k # j => from(k) \in 1..m /\ t[k] = s[from(k)]
  BY <1>1, <1>2
<1>6. \A k \in 1..m : s[k] # n
  BY <1>3 DEF ToSet
<1>7. ASSUME NEW k \in 1..(m + 1), NEW l \in 1..(m + 1), t[k] = t[l] PROVE k = l
  <2>1. CASE k = j \/ l = j
    BY <1>4, <1>5, <1>6, <1>7, <2>1
  <2>2. CASE k # j /\ l # j
    <3>1. s[from(k)] = s[from(l)] /\ from(k) \in 1..m /\ from(l) \in 1..m
      BY <1>5, <1>7, <2>2
    <3>2. from(k) = from(l)
      BY <3>1 DEF Once, m
    <3> QED BY <1>1, <2>2, <3>2
  <2> QED BY <2>1, <2>2
<1>8. ASSUME NEW k \in 1..m PROVE \E l \in 1..(m + 1) : t[l] = s[k]
  <2>1. CASE k < j
    BY <1>1, <1>2, <2>1
  <2>2. CASE k >= j
    <3>1. k + 1 \in 1..(m + 1) /\ k + 1 # j /\ from(k + 1) = k
      BY <1>1, <2>2
    <3> QED BY <1>5, <3>1
  <2> QED BY <1>1, <2>1, <2>2
<1>9. ToSet(t) = ToSet(s) \cup {n}
  <2>1. ASSUME NEW x \in ToSet(t) PROVE x \in ToSet(s) \cup {n}
    <3>1. PICK k \in 1..(m + 1) : x = t[k]
      BY <1>2 DEF ToSet
    <3>2. \A i \in 1..m : s[i] \in ToSet(s)
      BY <1>3 DEF ToSet
    <3> HIDE DEF from
    <3> QED BY <1>4, <1>5, <3>1, <3>2
  <2>2. \A x \in ToSet(s) : x \in ToSet(t)
    BY <1>2, <1>3, <1>8 DEF ToSet
  <2>3. n \in ToSet(t)
    BY <1>2, <1>4 DEF ToSet
  <2> QED BY <2>1, <2>2, <2>3
<1> QED BY <1>2, <1>7, <1>9 DEF Once, t

\* One removal takes one item away.
LEMMA RemoveOnce ==
  ASSUME NEW S, NEW s \in Seq(S), NEW j \in 1..Len(s), Once(s)
  PROVE  Once(RemoveAt(s, j)) /\ ToSet(RemoveAt(s, j)) = ToSet(s) \ {s[j]}
<1> DEFINE m == Len(s)
           t == RemoveAt(s, j)
           from(k) == IF k < j THEN k ELSE k + 1
<1>1. m \in Nat /\ j \in 1..m
  OBVIOUS
<1>2. /\ t \in Seq(S) /\ DOMAIN t = 1..(m - 1) /\ Len(t) = m - 1
      /\ \A k \in 1..(m - 1) : t[k] = IF k < j THEN s[k] ELSE s[k + 1]
  <2>1. t \in Seq(S) /\ Len(t) = m - 1
    BY RemoveIs
  <2>2. DOMAIN t = 1..Len(t)
    BY <2>1, LenProperties
  <2> QED BY <2>1, <2>2, RemoveIs
<1>3. DOMAIN s = 1..m
  OBVIOUS
<1> HIDE DEF m, t
<1>4. \A k \in 1..(m - 1) : from(k) \in 1..m /\ from(k) # j /\ t[k] = s[from(k)]
  BY <1>1, <1>2
<1>5. ASSUME NEW k \in 1..(m - 1), NEW l \in 1..(m - 1), t[k] = t[l] PROVE k = l
  <2>1. from(k) = from(l)
    BY <1>4, <1>5 DEF Once, m
  <2> QED BY <1>1, <2>1
<1>6. ASSUME NEW k \in 1..m, k # j PROVE \E l \in 1..(m - 1) : t[l] = s[k]
  <2>1. CASE k < j
    BY <1>1, <1>2, <2>1
  <2>2. CASE k > j
    <3>1. k - 1 \in 1..(m - 1) /\ from(k - 1) = k
      BY <1>1, <2>2
    <3> QED BY <1>4, <3>1
  <2> QED BY <1>1, <1>6, <2>1, <2>2
<1>7. \A k \in 1..(m - 1) : s[from(k)] # s[j]
  BY <1>1, <1>4 DEF Once, m
<1>8. ToSet(t) = ToSet(s) \ {s[j]}
  <2>1. ASSUME NEW x \in ToSet(t) PROVE x \in ToSet(s) /\ x # s[j]
    <3>1. PICK k \in 1..(m - 1) : x = t[k]
      BY <1>2 DEF ToSet
    <3>2. \A i \in 1..m : s[i] \in ToSet(s)
      BY <1>3 DEF ToSet
    <3> HIDE DEF from
    <3> QED BY <1>4, <1>7, <3>1, <3>2
  <2>2. ASSUME NEW x \in ToSet(s), x # s[j] PROVE x \in ToSet(t)
    <3>1. PICK k \in 1..m : x = s[k]
      BY <1>3 DEF ToSet
    <3>2. PICK l \in 1..(m - 1) : t[l] = x
      BY <1>6, <2>2, <3>1
    <3> QED BY <1>2, <3>2 DEF ToSet
  <2> QED BY <2>1, <2>2
<1> QED BY <1>2, <1>5, <1>8 DEF Once, t

\* The other direction has the same items.
LEMMA ReverseOnce ==
  ASSUME NEW S, NEW s \in Seq(S), Once(s)
  PROVE  Once(Reverse(s)) /\ ToSet(Reverse(s)) = ToSet(s)
<1> DEFINE m == Len(s)
           r == Reverse(s)
<1>1. /\ r \in Seq(S) /\ Len(r) = m /\ m \in Nat
      /\ \A k \in 1..m : r[k] = s[m + 1 - k]
  BY ReverseIs
<1>2. DOMAIN r = 1..m /\ DOMAIN s = 1..m
  BY <1>1, LenProperties
<1> HIDE DEF m, r
<1>3. \A k \in 1..m : m + 1 - k \in 1..m /\ m + 1 - (m + 1 - k) = k
  BY <1>1
<1>4. ASSUME NEW j \in 1..m, NEW k \in 1..m, r[j] = r[k] PROVE j = k
  <2>1. m + 1 - j = m + 1 - k
    BY <1>1, <1>3, <1>4 DEF Once, m
  <2> QED BY <1>1, <2>1
<1>5. ToSet(r) = ToSet(s)
  <2>1. \A x \in ToSet(r) : x \in ToSet(s)
    BY <1>1, <1>2, <1>3 DEF ToSet
  <2>2. \A k \in 1..m : r[m + 1 - k] = s[k]
    BY <1>1, <1>3
  <2>3. \A x \in ToSet(s) : x \in ToSet(r)
    BY <1>2, <1>3, <2>2 DEF ToSet
  <2> QED BY <2>1, <2>3
<1> QED BY <1>1, <1>4, <1>5 DEF Once, r

-----------------------------------------------------------------------------
\* The links after n went in at place j of s, and after place j went out.
Inserted(link, link2, s, j, n) ==
  /\ link2[n] = IF j = Len(s) + 1 THEN NULL ELSE s[j]
  /\ j > 1 => link2[s[j - 1]] = n
  /\ \A k \in 1..Len(s) : k # j - 1 => link2[s[k]] = link[s[k]]

Removed(link, link2, s, j) ==
  /\ j > 1 => link2[s[j - 1]] = link[s[j]]
  /\ \A k \in 1..Len(s) : k # j /\ k # j - 1 => link2[s[k]] = link[s[k]]

\* The ends of a sequence that is not empty.
LEMMA HalfEnds ==
  ASSUME NEW link, NEW a, NEW b, NEW s \in Seq(Items), Half(link, a, b, s)
  PROVE  /\ s = << >> <=> Len(s) = 0
         /\ Len(s) = 0 => a = NULL /\ b = NULL
         /\ Len(s) # 0 => a = s[1] /\ b = s[Len(s)]
         /\ \A k \in 1..Len(s) : k # Len(s) => link[s[k]] = s[k + 1]
         /\ Len(s) # 0 => link[s[Len(s)]] = NULL
<1>1. Len(s) \in Nat /\ (s = << >> <=> Len(s) = 0)
  BY EmptySeq
<1>2. Len(s) # 0 => Len(s) \in 1..Len(s)
  BY <1>1
<1> QED BY <1>1, <1>2 DEF Half

\* The same, to be shown of a new half.
LEMMA HalfIs ==
  ASSUME NEW link, NEW a, NEW b, NEW s \in Seq(Items), Len(s) # 0,
         a = s[1], b = s[Len(s)],
         \A k \in 1..Len(s) : k # Len(s) => link[s[k]] = s[k + 1],
         link[s[Len(s)]] = NULL
  PROVE  Half(link, a, b, s)
<1>1. s # << >>
  BY EmptySeq
<1>2. \A k \in 1..Len(s) : link[s[k]] = IF k = Len(s) THEN NULL ELSE s[k + 1]
  OBVIOUS
<1> QED BY <1>1, <1>2 DEF Half

\* An insertion that sets the links of the new item and of the one before it.
LEMMA HalfInsert ==
  ASSUME NEW link, NEW link2, NEW a, NEW b, NEW s \in Seq(Items),
         NEW j \in 1..(Len(s) + 1), NEW n \in Items,
         Half(link, a, b, s), Inserted(link, link2, s, j, n)
  PROVE  Half(link2, IF j = 1 THEN n ELSE a, IF j = Len(s) + 1 THEN n ELSE b,
              InsertAt(s, j, n))
<1> DEFINE m == Len(s)
           t == InsertAt(s, j, n)
<1>1. m \in Nat /\ j \in 1..(m + 1)
  OBVIOUS
<1>2. /\ t \in Seq(Items) /\ Len(t) = m + 1
      /\ \A k \in 1..(j - 1) : t[k] = s[k]
      /\ t[j] = n
      /\ \A k \in (j + 1)..(m + 1) : t[k] = s[k - 1]
  BY InsertItems
<1>3. /\ m # 0 => a = s[1] /\ b = s[m]
      /\ \A k \in 1..m : k # m => link[s[k]] = s[k + 1]
      /\ m # 0 => link[s[m]] = NULL
  BY HalfEnds
<1>4. /\ link2[n] = IF j = m + 1 THEN NULL ELSE s[j]
      /\ j > 1 => link2[s[j - 1]] = n
      /\ \A k \in 1..m : k # j - 1 => link2[s[k]] = link[s[k]]
  BY DEF Inserted
<1> HIDE DEF m, t
<1>5. t[1] = IF j = 1 THEN n ELSE a
  <2>1. j # 1 => 1 \in 1..(j - 1) /\ m # 0
    BY <1>1
  <2> QED BY <1>2, <1>3, <2>1
<1>6. t[m + 1] = IF j = m + 1 THEN n ELSE b
  <2>1. j # m + 1 => m + 1 \in (j + 1)..(m + 1) /\ (m + 1) - 1 = m /\ m # 0
    BY <1>1
  <2> QED BY <1>2, <1>3, <2>1
<1>7. ASSUME NEW k \in 1..(m + 1), k # m + 1 PROVE link2[t[k]] = t[k + 1]
  <2>1. CASE k < j - 1
    <3>1. /\ k \in 1..(j - 1) /\ k + 1 \in 1..(j - 1)
          /\ k \in 1..m /\ k # m /\ k # j - 1
      BY <1>1, <2>1
    <3>2. t[k] = s[k] /\ t[k + 1] = s[k + 1]
      BY <1>2, <3>1
    <3> QED BY <1>3, <1>4, <3>1, <3>2
  <2>2. CASE k = j - 1
    <3>1. k \in 1..(j - 1) /\ k + 1 = j /\ j > 1
      BY <1>1, <2>2
    <3> QED BY <1>2, <1>4, <2>2, <3>1
  <2>3. CASE k = j
    <3>1. k + 1 \in (j + 1)..(m + 1) /\ (k + 1) - 1 = j /\ j # m + 1
      BY <1>1, <1>7, <2>3
    <3>2. t[k + 1] = s[(k + 1) - 1]
      BY <1>2, <3>1
    <3> QED BY <1>2, <1>4, <2>3, <3>1, <3>2
  <2>4. CASE k > j
    <3>1. /\ k \in (j + 1)..(m + 1) /\ k + 1 \in (j + 1)..(m + 1)
          /\ k - 1 \in 1..m /\ k - 1 # m /\ k - 1 # j - 1
          /\ (k + 1) - 1 = k /\ (k - 1) + 1 = k
      BY <1>1, <1>7, <2>4
    <3>2. t[k] = s[k - 1]
      BY <1>2, <3>1
    <3>3. t[k + 1] = s[(k + 1) - 1]
      BY <1>2, <3>1
    <3>4. link2[s[k - 1]] = link[s[k - 1]]
      BY <1>4, <3>1
    <3>5. link[s[k - 1]] = s[(k - 1) + 1]
      BY <1>3, <3>1
    <3> QED BY <3>1, <3>2, <3>3, <3>4, <3>5
  <2> QED BY <1>1, <2>1, <2>2, <2>3, <2>4
<1>8. link2[t[m + 1]] = NULL
  <2>1. CASE j = m + 1
    BY <1>2, <1>4, <2>1
  <2>2. CASE j # m + 1
    <3>1. /\ m + 1 \in (j + 1)..(m + 1) /\ (m + 1) - 1 = m
          /\ m # 0 /\ m \in 1..m /\ m # j - 1
      BY <1>1, <2>2
    <3>2. t[m + 1] = s[m]
      BY <1>2, <3>1
    <3> QED BY <1>3, <1>4, <3>1, <3>2
  <2> QED BY <2>1, <2>2
<1>9. Half(link2, t[1], t[m + 1], t)
  <2>1. Len(t) # 0
    BY <1>1, <1>2
  <2> QED BY <1>2, <1>7, <1>8, <2>1, HalfIs
<1> QED BY <1>5, <1>6, <1>9 DEF m, t

\* A removal that sets the link of the item before.
LEMMA HalfRemove ==
  ASSUME NEW link, NEW link2, NEW a, NEW b, NEW s \in Seq(Items),
         NEW j \in 1..Len(s),
         Half(link, a, b, s), Removed(link, link2, s, j)
  PROVE  Half(link2, IF j = 1 THEN link[s[j]] ELSE a,
              IF j # Len(s) THEN b ELSE IF j = 1 THEN NULL ELSE s[j - 1],
              RemoveAt(s, j))
<1> DEFINE m == Len(s)
           t == RemoveAt(s, j)
<1>1. m \in Nat \ {0} /\ j \in 1..m
  OBVIOUS
<1>2. /\ t \in Seq(Items) /\ Len(t) = m - 1
      /\ \A k \in 1..(m - 1) : t[k] = IF k < j THEN s[k] ELSE s[k + 1]
  BY RemoveIs
<1>3. /\ a = s[1] /\ b = s[m]
      /\ \A k \in 1..m : k # m => link[s[k]] = s[k + 1]
      /\ link[s[m]] = NULL
  BY <1>1, HalfEnds
<1>4. /\ j > 1 => link2[s[j - 1]] = link[s[j]]
      /\ \A k \in 1..m : k # j /\ k # j - 1 => link2[s[k]] = link[s[k]]
  BY DEF Removed
<1> DEFINE a2 == IF j = 1 THEN link[s[j]] ELSE a
           b2 == IF j # m THEN b ELSE IF j = 1 THEN NULL ELSE s[j - 1]
<1>a. /\ j = 1 => a2 = link[s[1]]
      /\ j # 1 => a2 = a
      /\ j # m => b2 = b
      /\ j = m /\ j = 1 => b2 = NULL
      /\ j = m /\ j # 1 => b2 = s[m - 1]
  OBVIOUS
<1>b. /\ \A k \in 1..(m - 1) : k < j => t[k] = s[k]
      /\ \A k \in 1..(m - 1) : k >= j => t[k] = s[k + 1]
  BY <1>1, <1>2
<1> HIDE DEF m, t, a2, b2
<1>5. CASE m = 1
  <2>1. j = 1 /\ a2 = NULL /\ b2 = NULL
    BY <1>1, <1>3, <1>5, <1>a
  <2>2. Len(t) = 0 /\ t = << >>
    BY <1>2, <1>5, EmptySeq
  <2> QED BY <2>1, <2>2 DEF Half, m, t, a2, b2
<1>6. CASE m # 1
  <2>1. t[1] = a2
    <3>1. 1 \in 1..(m - 1) /\ 1 \in 1..m /\ 1 # m
      BY <1>1, <1>6
    <3>2. CASE j = 1
      <4>1. t[1] = s[1 + 1]
        BY <1>b, <3>1, <3>2
      <4>2. link[s[1]] = s[1 + 1]
        BY <1>3, <3>1
      <4> QED BY <1>a, <3>2, <4>1, <4>2
    <3>3. CASE j # 1
      <4>1. 1 < j
        BY <1>1, <3>3
      <4> QED BY <1>3, <1>a, <1>b, <3>1, <3>3, <4>1
    <3> QED BY <3>2, <3>3
  <2>2. t[m - 1] = b2
    <3>1. m - 1 \in 1..(m - 1) /\ (m - 1) + 1 = m
      BY <1>1, <1>6
    <3>2. CASE j = m
      <4>1. m - 1 < j /\ j # 1
        BY <1>1, <1>6, <3>2
      <4> QED BY <1>a, <1>b, <3>1, <3>2, <4>1
    <3>3. CASE j # m
      <4>1. m - 1 >= j
        BY <1>1, <3>3
      <4>2. t[m - 1] = s[(m - 1) + 1]
        BY <1>b, <3>1, <4>1
      <4> QED BY <1>3, <1>a, <3>1, <3>3, <4>2
    <3> QED BY <3>2, <3>3
  <2>3. ASSUME NEW k \in 1..(m - 1), k # m - 1 PROVE link2[t[k]] = t[k + 1]
    <3>0. k + 1 \in 1..(m - 1) /\ k \in 1..m /\ k + 1 \in 1..m /\ k # m /\ k + 1 # m
      BY <1>1, <2>3
    <3>1. CASE k < j - 1
      <4>1. k < j /\ k + 1 < j /\ k # j /\ k # j - 1
        BY <1>1, <3>1
      <4>2. t[k] = s[k] /\ t[k + 1] = s[k + 1]
        BY <1>b, <3>0, <4>1
      <4> QED BY <1>3, <1>4, <3>0, <4>1, <4>2
    <3>2. CASE k = j - 1
      <4>1. k < j /\ k + 1 >= j /\ j > 1 /\ j = k + 1
        BY <1>1, <3>2
      <4>2. t[k] = s[k]
        BY <1>b, <4>1
      <4>3. t[k + 1] = s[(k + 1) + 1]
        BY <1>b, <3>0, <4>1
      <4>4. link2[s[k]] = link[s[k + 1]]
        BY <1>4, <3>2, <4>1
      <4>5. link[s[k + 1]] = s[(k + 1) + 1]
        BY <1>3, <3>0
      <4> QED BY <4>2, <4>3, <4>4, <4>5
    <3>3. CASE k >= j
      <4>1. k + 1 >= j /\ k + 1 # j /\ k + 1 # j - 1
        BY <1>1, <3>3
      <4>2. t[k] = s[k + 1]
        BY <1>b, <3>3
      <4>3. t[k + 1] = s[(k + 1) + 1]
        BY <1>b, <3>0, <4>1
      <4>4. link2[s[k + 1]] = link[s[k + 1]]
        BY <1>4, <3>0, <4>1
      <4>5. link[s[k + 1]] = s[(k + 1) + 1]
        BY <1>3, <3>0
      <4> QED BY <4>2, <4>3, <4>4, <4>5
    <3> QED BY <1>1, <3>1, <3>2, <3>3
  <2>4. link2[t[m - 1]] = NULL
    <3>1. m - 1 \in 1..(m - 1) /\ (m - 1) + 1 = m /\ m \in 1..m
      BY <1>1, <1>6
    <3>2. CASE j = m
      <4>1. m - 1 < j /\ j > 1
        BY <1>1, <1>6, <3>2
      <4>2. t[m - 1] = s[m - 1]
        BY <1>b, <3>1, <4>1
      <4> QED BY <1>3, <1>4, <3>2, <4>1, <4>2
    <3>3. CASE j # m
      <4>1. m - 1 >= j /\ m # j /\ m # j - 1
        BY <1>1, <3>3
      <4>2. t[m - 1] = s[m]
        BY <1>b, <3>1, <4>1
      <4> QED BY <1>3, <1>4, <3>1, <4>1, <4>2
    <3> QED BY <3>2, <3>3
  <2>5. Half(link2, t[1], t[m - 1], t)
    <3>1. Len(t) # 0
      BY <1>1, <1>2, <1>6
    <3> QED BY <1>2, <2>3, <2>4, <3>1, HalfIs
  <2> QED BY <2>1, <2>2, <2>5 DEF m, t, a2, b2
<1> QED BY <1>5, <1>6

-----------------------------------------------------------------------------
\* Of natural numbers one is the least.
LEMMA LeastOne ==
  ASSUME NEW T, T \subseteq Nat, T # {}
  PROVE  \E x \in T : \A y \in T : x <= y
<1>1. PICK x \in T : \A y \in T : ~ (<<y, x>> \in OpToRel(<, Nat))
  BY NatLessThanWellFounded, WFMin
<1>2. ASSUME NEW y \in T PROVE x <= y
  <2>1. ~ (y < x)
    BY <1>1 DEF OpToRel
  <2> QED BY <2>1
<1> QED BY <1>2

\* A set of natural numbers with 0 and every successor has all of them.
LEMMA NatSet ==
  ASSUME NEW T, 0 \in T, \A n \in Nat : n \in T => n + 1 \in T
  PROVE  Nat \subseteq T
<1> SUFFICES ASSUME Nat \ T # {} PROVE FALSE
  OBVIOUS
<1>1. PICK x \in Nat \ T : \A y \in Nat \ T : x <= y
  BY LeastOne
<1>2. x # 0 /\ x - 1 \in Nat /\ x - 1 + 1 = x
  OBVIOUS
<1>3. x - 1 \in T
  BY <1>1, <1>2
<1> QED BY <1>2, <1>3

\* A list of items each once is no longer than there are items, so that the
\* bound of Walk is no bound.
LEMMA OnceFits ==
  ASSUME NEW s \in Seq(Items), Once(s)
  PROVE  Cardinality(Items) \in Nat /\ Len(s) <= Cardinality(Items)
<1>1. IsFiniteSet(Items)
  BY ListAssumption
<1>2. s \in Injection(1..Len(s), Items)
  <2>1. s \in [1..Len(s) -> Items]
    OBVIOUS
  <2> QED BY <2>1 DEF Injection, IsInjective, Once
<1>3. Cardinality(1..Len(s)) <= Cardinality(Items)
  BY <1>1, <1>2, FS_Injection
<1>4. Cardinality(1..Len(s)) = Len(s)
  <2>1. 1 \in Int /\ Len(s) \in Int /\ Len(s) >= 0
    OBVIOUS
  <2>2. Cardinality(1..Len(s)) = IF 1 > Len(s) THEN 0 ELSE Len(s) - 1 + 1
    BY <2>1, FS_Interval
  <2> QED BY <2>1, <2>2
<1> QED BY <1>1, <1>3, <1>4, FS_CardinalityType

\* One step of a walk, and the function of the steps.
WalkStep(w, n, link, start) ==
  IF n = 0 THEN IF start = NULL THEN << >> ELSE <<start>>
  ELSE IF w[n - 1] = << >> \/ link[Last(w[n - 1])] = NULL THEN w[n - 1]
       ELSE Append(w[n - 1], link[Last(w[n - 1])])
Walked(w, link, start) ==
  w = [n \in 0..Cardinality(Items) |-> WalkStep(w, n, link, start)]

\* What a walk along s has met after n steps.
Met(s, n) == SubSeq(s, 1, IF n < Len(s) THEN n + 1 ELSE Len(s))

\* The first item that a walk meets is the first of s.
LEMMA MetFirst ==
  ASSUME NEW link, NEW start, NEW b, NEW s \in Seq(Items), Half(link, start, b, s)
  PROVE  Met(s, 0) = IF start = NULL THEN << >> ELSE <<start>>
<1> DEFINE m == Len(s)
<1>0. (m = 0 => start = NULL) /\ (m # 0 => start = s[1])
  BY HalfEnds
<1>1. m \in Nat
  OBVIOUS
<1>2. CASE m = 0
  <2>1. start = NULL
    BY <1>0, <1>2
  <2>2. Met(s, 0) = SubSeq(s, 1, 0)
    BY <1>2 DEF Met
  <2>3. SubSeq(s, 1, 0) = << >>
    OBVIOUS
  <2> QED BY <2>1, <2>2, <2>3
<1>3. CASE m # 0
  <2>1. start = s[1] /\ s[1] \in Items /\ start # NULL
    BY <1>0, <1>1, <1>3, ListAssumption
  <2>2. Met(s, 0) = SubSeq(s, 1, 1)
    BY <1>1, <1>3 DEF Met
  <2>3. SubSeq(s, 1, 1) = <<s[1]>>
    <3> DEFINE p == SubSeq(s, 1, 1)
               q == <<s[1]>>
    <3>1. p \in Seq(Items) /\ Len(p) = 1 /\ p[1] = s[1]
      BY <1>1, <1>3
    <3>2. q \in Seq(Items) /\ Len(q) = 1 /\ q[1] = s[1]
      BY <2>1
    <3> HIDE DEF p, q
    <3>3. p = q
      BY <3>1, <3>2, SeqEqual
    <3> QED BY <3>3 DEF p, q
  <2> QED BY <2>1, <2>2, <2>3
<1> QED BY <1>2, <1>3

\* What it meets next is the next of s, and after the last one nothing.
LEMMA MetNext ==
  ASSUME NEW link, NEW start, NEW b, NEW s \in Seq(Items), Half(link, start, b, s),
         NEW n \in Nat, NEW w, w = Met(s, n)
  PROVE  /\ w = << >> \/ link[Last(w)] = NULL => Met(s, n + 1) = w
         /\ ~ (w = << >> \/ link[Last(w)] = NULL) =>
              Met(s, n + 1) = Append(w, link[Last(w)])
<1> DEFINE m == Len(s)
<1>1. m \in Nat
  OBVIOUS
<1>2. /\ \A k \in 1..m : k # m => link[s[k]] = s[k + 1]
      /\ m # 0 => link[s[m]] = NULL
  BY HalfEnds
<1>3. CASE n + 1 < m
  <2>1. w = SubSeq(s, 1, n + 1) /\ Met(s, n + 1) = SubSeq(s, 1, (n + 1) + 1)
    BY <1>1, <1>3 DEF Met
  <2>2. w \in Seq(Items) /\ Len(w) = n + 1 /\ w[n + 1] = s[n + 1] /\ w # << >>
    BY <1>1, <1>3, <2>1
  <2>3. link[Last(w)] = s[(n + 1) + 1]
    BY <1>1, <1>2, <1>3, <2>2 DEF Last
  <2>4. s[(n + 1) + 1] \in Items /\ s[(n + 1) + 1] # NULL
    BY <1>1, <1>3, ListAssumption
  <2>5. SubSeq(s, 1, (n + 1) + 1) = Append(SubSeq(s, 1, n + 1), s[(n + 1) + 1])
    BY <1>1, <1>3
  <2> QED BY <2>1, <2>2, <2>3, <2>4, <2>5
<1>4. CASE n + 1 >= m
  <2>1. w = SubSeq(s, 1, m) /\ Met(s, n + 1) = SubSeq(s, 1, m)
    BY <1>1, <1>4 DEF Met
  <2>2. w = s
    BY <2>1
  <2>3. m = 0 => w = << >>
    BY <2>2, EmptySeq
  <2>4. m # 0 => link[Last(w)] = NULL
    BY <1>2, <2>2 DEF Last
  <2> QED BY <2>1, <2>3, <2>4
<1> QED BY <1>1, <1>3, <1>4

\* A walk along the links of a half is its sequence.
LEMMA WalkIs ==
  ASSUME NEW link, NEW start, NEW b, NEW s \in Seq(Items), Once(s),
         Half(link, start, b, s)
  PROVE  Walk(link, start) = s
<1> DEFINE N == Cardinality(Items)
<1>1. N \in Nat /\ Len(s) \in Nat /\ Len(s) <= N
  BY OnceFits
<1> HIDE DEF N
<1>2. ASSUME NEW w, NEW n \in 0..N, n # 0 => w[n - 1] = Met(s, n - 1)
      PROVE  WalkStep(w, n, link, start) = Met(s, n)
  <2>1. CASE n = 0
    BY <2>1, MetFirst DEF WalkStep
  <2>2. CASE n # 0
    <3>1. n - 1 \in Nat /\ (n - 1) + 1 = n /\ w[n - 1] = Met(s, n - 1)
      BY <1>1, <1>2, <2>2
    <3> DEFINE v == w[n - 1]
               l == n - 1
    <3>2. /\ v = << >> \/ link[Last(v)] = NULL => Met(s, l + 1) = v
          /\ ~ (v = << >> \/ link[Last(v)] = NULL) =>
               Met(s, l + 1) = Append(v, link[Last(v)])
      <4>1. l \in Nat /\ v = Met(s, l)
        BY <3>1
      <4> HIDE DEF v, l
      <4>2. s \in Seq(Items) /\ Half(link, start, b, s)
        OBVIOUS
      <4> QED BY ONLY <4>1, <4>2, MetNext
    <3>3. l + 1 = n
      BY <3>1
    <3> HIDE DEF l
    <3> QED BY <2>2, <3>2, <3>3 DEF WalkStep
  <2> QED BY <2>1, <2>2
<1>3. \E w : Walked(w, link, start)
  <2> DEFINE w == [n \in 0..N |-> Met(s, n)]
  <2>1. ASSUME NEW n \in 0..N PROVE w[n] = WalkStep(w, n, link, start)
    <3>1. n # 0 => n - 1 \in 0..N
      BY <1>1
    <3>2. n # 0 => w[n - 1] = Met(s, n - 1)
      BY <3>1
    <3>3. w[n] = Met(s, n)
      OBVIOUS
    <3> HIDE DEF w
    <3> QED BY <1>2, <3>2, <3>3
  <2>2. w = [n \in 0..N |-> w[n]]
    OBVIOUS
  <2> HIDE DEF w
  <2>3. Walked(w, link, start)
    BY <2>1, <2>2 DEF Walked, N
  <2> QED BY <2>3
<1>4. ASSUME NEW w, Walked(w, link, start) PROVE w[N] = s
  <2> DEFINE T == {n \in Nat : n \in 0..N => w[n] = Met(s, n)}
  <2>1. \A n \in 0..N : w[n] = WalkStep(w, n, link, start)
    BY <1>4, Zenon DEF Walked, N
  <2>2. 0 \in T
    <3>1. 0 \in 0..N
      BY <1>1
    <3>2. WalkStep(w, 0, link, start) = Met(s, 0)
      BY <1>2, <3>1
    <3> QED BY <2>1, <3>1, <3>2
  <2>3. ASSUME NEW n \in Nat, n \in T PROVE n + 1 \in T
    <3>1. CASE n + 1 \in 0..N
      <4>1. n \in 0..N /\ (n + 1) - 1 = n
        BY <1>1, <3>1
      <4>2. w[(n + 1) - 1] = Met(s, (n + 1) - 1)
        BY <2>3, <4>1
      <4>3. WalkStep(w, n + 1, link, start) = Met(s, n + 1)
        BY <1>2, <3>1, <4>2
      <4> QED BY <2>1, <3>1, <4>3
    <3>2. CASE n + 1 \notin 0..N
      BY <3>2
    <3> QED BY <3>1, <3>2
  <2>4. Nat \subseteq T
    <3> HIDE DEF T
    <3> QED BY <2>2, <2>3, NatSet
  <2>5. w[N] = Met(s, N)
    BY <1>1, <2>4
  <2>6. Met(s, N) = SubSeq(s, 1, Len(s))
    BY <1>1 DEF Met
  <2> QED BY <2>5, <2>6
<1>5. Walk(link, start) = (CHOOSE w : Walked(w, link, start))[N]
  BY Zenon DEF Walk, Walked, WalkStep, N
<1>6. Walked(CHOOSE w : Walked(w, link, start), link, start)
  BY <1>3, Zenon
<1> QED BY <1>4, <1>5, <1>6

-----------------------------------------------------------------------------
\* What else a client calls that removes at an end or adds in order.
LEMMA ClientKinds ==
  ASSUME calls \in Clients
  PROVE  /\ "remove_last" \in calls =>
              calls \cap {"add_last", "add_after", "add_ordered", "remove_first",
                          "remove_at", "destroy", "find", "move_next"} = {}
         /\ "remove_first" \in calls =>
              calls \cap {"add_first", "add_before", "add_ordered", "remove_last",
                          "remove_at", "find_reverse", "move_previous"} = {}
         /\ "add_ordered" \in calls =>
              calls \cap {"add_last", "add_first", "add_after", "add_before",
                          "remove_first", "remove_last"} = {}
<1>1. \/ calls \subseteq FirstOut \/ calls \subseteq LastOut
      \/ /\ calls \cap {"remove_first", "remove_last"} = {}
         /\ "add_ordered" \in calls =>
              calls \cap {"add_last", "add_first", "add_after", "add_before"} = {}
  BY ClientAssumption
<1>2. CASE calls \subseteq FirstOut
  BY <1>2 DEF FirstOut
<1>3. CASE calls \subseteq LastOut
  BY <1>3 DEF LastOut
<1>4. CASE /\ calls \cap {"remove_first", "remove_last"} = {}
           /\ "add_ordered" \in calls =>
                calls \cap {"add_last", "add_first", "add_after", "add_before"} = {}
  BY <1>4
<1> QED BY <1>1, <1>2, <1>3, <1>4

\* Both ends of the list are the ends of s, whoever the client is.
LEMMA EndsAre ==
  ASSUME NEW s, Types, Shape(s)
  PROVE  /\ Len(s) \in Nat
         /\ first = NULL <=> Len(s) = 0
         /\ last = NULL <=> Len(s) = 0
         /\ Len(s) # 0 => first = s[1] /\ last = s[Len(s)]
         /\ s = << >> <=> Len(s) = 0
<1>0. s \in Seq(Items) /\ Len(s) \in Nat /\ (s = << >> <=> Len(s) = 0)
  BY EmptySeq DEF Shape
<1>1. \A k \in 1..Len(s) : s[k] \in Items /\ s[k] # NULL
  BY <1>0, ListAssumption
<1>2. CASE "remove_last" \notin calls
  <2>1. /\ Len(s) = 0 => first = NULL /\ last = NULL
        /\ Len(s) # 0 => first = s[1] /\ last = s[Len(s)]
    BY <1>0, <1>2, HalfEnds DEF Shape
  <2> QED BY <1>0, <1>1, <2>1
<1>3. CASE "remove_last" \in calls
  <2>1. "remove_first" \notin calls
    BY <1>3, ClientKinds DEF Types
  <2> DEFINE r == Reverse(s)
  <2>2. /\ r \in Seq(Items) /\ Len(r) = Len(s)
        /\ \A k \in 1..Len(s) : r[k] = s[Len(s) + 1 - k]
    BY <1>0, ReverseIs
  <2>3. Half(previous, last, first, r)
    BY <2>1 DEF Shape
  <2> HIDE DEF r
  <2>4. /\ Len(s) = 0 => last = NULL /\ first = NULL
        /\ Len(s) # 0 => last = r[1] /\ first = r[Len(s)]
    BY <2>2, <2>3, HalfEnds
  <2>5. Len(s) # 0 => r[1] = s[Len(s)] /\ r[Len(s)] = s[1]
    BY <1>0, <2>2
  <2> QED BY <1>0, <1>1, <2>4, <2>5
<1> QED BY <1>2, <1>3

\* What the walks meet is s.
LEMMA ContentsIs ==
  ASSUME NEW s, Types, Shape(s)
  PROVE  /\ AsRead = s
         /\ "remove_last" \notin calls => Forward = s
         /\ "remove_first" \notin calls => Backward = Reverse(s)
<1>1. s \in Seq(Items) /\ Once(s)
  BY DEF Shape
<1>2. /\ Reverse(s) \in Seq(Items) /\ Once(Reverse(s)) /\ Reverse(Reverse(s)) = s
  BY <1>1, ReverseIs, ReverseOnce
<1>3. ASSUME "remove_last" \notin calls PROVE Forward = s
  BY <1>1, <1>3, WalkIs DEF Shape, Forward
<1>4. ASSUME "remove_first" \notin calls PROVE Backward = Reverse(s)
  BY <1>2, <1>4, WalkIs DEF Shape, Backward
<1>5. "remove_last" \in calls => "remove_first" \notin calls
  BY ClientKinds DEF Types
<1> QED BY <1>2, <1>3, <1>4, <1>5 DEF AsRead

\* The same after a step.
LEMMA ContentsBecome ==
  ASSUME NEW s, Types', Shape(s)'
  PROVE  AsRead' = s
<1>1. s \in Seq(Items) /\ Once(s)
  BY DEF Shape
<1>2. /\ Reverse(s) \in Seq(Items) /\ Once(Reverse(s)) /\ Reverse(Reverse(s)) = s
  BY <1>1, ReverseIs, ReverseOnce
<1>3. ASSUME "remove_last" \notin calls' PROVE Walk(next', first') = s
  BY <1>1, <1>3, WalkIs DEF Shape
<1>4. ASSUME "remove_first" \notin calls' PROVE Walk(previous', last') = Reverse(s)
  BY <1>2, <1>4, WalkIs DEF Shape
<1>5. "remove_last" \in calls' => "remove_first" \notin calls'
  <2>1. calls' \in Clients
    BY DEF Types
  <2>2. \/ calls' \subseteq FirstOut \/ calls' \subseteq LastOut
        \/ calls' \cap {"remove_first", "remove_last"} = {}
    BY <2>1, ClientAssumption
  <2> QED BY <2>2 DEF FirstOut, LastOut
<1> QED BY <1>2, <1>3, <1>4, <1>5 DEF AsRead, Forward, Backward

-----------------------------------------------------------------------------
\* Linking n behind item i of s: f leads along s and g back.
LinkedAlong(f, e, n) == [f EXCEPT ![n] = f[e], ![e] = n]
LinkedBack(f, g, e, n) ==
  [i \in Items |-> IF i = n THEN e ELSE IF i = f[e] THEN n ELSE g[i]]

\* In the direction of the link used, n comes behind item i.
LEMMA LinkAlongInserts ==
  ASSUME NEW f \in [Items -> Link], NEW a, NEW b, NEW s \in Seq(Items), Once(s),
         Half(f, a, b, s), NEW i \in 1..Len(s), NEW n \in Items, n \notin ToSet(s)
  PROVE  Half(LinkedAlong(f, s[i], n), a, IF i = Len(s) THEN n ELSE b,
              InsertAt(s, i + 1, n))
<1> DEFINE m == Len(s)
           e == s[i]
           f2 == LinkedAlong(f, e, n)
<1>1. m \in Nat /\ i \in 1..m /\ i + 1 \in 1..(m + 1) /\ m # 0 /\ e \in Items
  OBVIOUS
<1>2. \A k \in 1..m : s[k] # n /\ s[k] \in Items
  BY DEF ToSet
<1>3. \A k \in 1..m : k # i => s[k] # e
  BY DEF Once
<1>4. /\ \A k \in 1..m : k # m => f[s[k]] = s[k + 1]
      /\ f[s[m]] = NULL
  BY <1>1, HalfEnds
<1> HIDE DEF m
<1>5. /\ f2[n] = f[e] /\ f2[e] = n
      /\ \A x \in Items : x # n /\ x # e => f2[x] = f[x]
  BY <1>1, <1>2 DEF LinkedAlong
<1> HIDE DEF f2
<1>6. Inserted(f, f2, s, i + 1, n)
  <2>1. f2[n] = IF i + 1 = m + 1 THEN NULL ELSE s[i + 1]
    BY <1>1, <1>4, <1>5
  <2>2. f2[s[(i + 1) - 1]] = n
    <3>1. (i + 1) - 1 = i
      BY <1>1
    <3> QED BY <1>5, <3>1
  <2>3. \A k \in 1..m : k # (i + 1) - 1 => f2[s[k]] = f[s[k]]
    BY <1>1, <1>2, <1>3, <1>5
  <2> QED BY <2>1, <2>2, <2>3 DEF Inserted, m
<1>7. Half(f2, IF i + 1 = 1 THEN n ELSE a, IF i + 1 = m + 1 THEN n ELSE b,
           InsertAt(s, i + 1, n))
  BY <1>1, <1>6, HalfInsert DEF m
<1>8. i + 1 # 1 /\ (i + 1 = m + 1 <=> i = m)
  BY <1>1
<1> QED BY <1>7, <1>8 DEF m, f2

\* In the other one, where the neighbour is found by that link, n comes before it.
LEMMA LinkBackInserts ==
  ASSUME NEW f \in [Items -> Link], NEW g \in [Items -> Link], NEW a, NEW b,
         NEW s \in Seq(Items), Once(s),
         Half(f, a, b, s), Half(g, b, a, Reverse(s)),
         NEW i \in 1..Len(s), NEW n \in Items, n \notin ToSet(s)
  PROVE  Half(LinkedBack(f, g, s[i], n), IF i = Len(s) THEN n ELSE b, a,
              Reverse(InsertAt(s, i + 1, n)))
<1> DEFINE m == Len(s)
           e == s[i]
           g2 == LinkedBack(f, g, e, n)
           r == Reverse(s)
           h == m + 1 - i
<1>1. /\ m \in Nat /\ i \in 1..m /\ i + 1 \in 1..(m + 1) /\ m # 0 /\ e \in Items
      /\ h \in 1..m /\ h \in 1..(m + 1) /\ m + 2 - (i + 1) = h
  OBVIOUS
<1>2. /\ r \in Seq(Items) /\ Len(r) = m
      /\ \A k \in 1..m : r[k] = s[m + 1 - k]
  BY ReverseIs
<1>3. Once(r) /\ ToSet(r) = ToSet(s)
  BY ReverseOnce
<1>4. /\ \A k \in 1..m : k # m => f[s[k]] = s[k + 1]
      /\ f[s[m]] = NULL
  BY <1>1, HalfEnds
<1>5. Reverse(InsertAt(s, i + 1, n)) = InsertAt(r, h, n)
  <2>1. i + 1 \in 1..(Len(s) + 1)
    BY <1>1
  <2>2. Reverse(InsertAt(s, i + 1, n)) = InsertAt(Reverse(s), Len(s) + 2 - (i + 1), n)
    BY <2>1, InsertReverse
  <2> QED BY <1>1, <2>2
<1>6. Half(g, b, a, r)
  OBVIOUS
<1> HIDE DEF m, r
<1>7. \A k \in 1..m : r[k] # n /\ r[k] \in Items /\ r[k] # NULL
  <2>1. DOMAIN r = 1..m
    BY <1>2, LenProperties
  <2>2. n \notin ToSet(r)
    BY <1>3
  <2>3. \A k \in 1..m : r[k] \in Items
    BY <1>2
  <2> QED BY <2>1, <2>2, <2>3, ListAssumption DEF ToSet
<1>8. r[h] = e /\ n # e
  <2>1. m + 1 - h = i
    BY <1>1
  <2> QED BY <1>1, <1>2, <1>7, <2>1
<1>9. (h = 1 => f[e] = NULL) /\ (h # 1 => f[e] = r[h - 1])
  <2>1. CASE h = 1
    <3>1. i = m
      BY <1>1, <2>1
    <3> QED BY <1>4, <2>1, <3>1
  <2>2. CASE h # 1
    <3>1. h - 1 \in 1..m /\ m + 1 - (h - 1) = i + 1 /\ i # m
      BY <1>1, <2>2
    <3>2. r[h - 1] = s[m + 1 - (h - 1)]
      BY <1>2, <3>1
    <3> QED BY <1>1, <1>4, <2>2, <3>1, <3>2
  <2> QED BY <2>1, <2>2
<1>10. /\ g2[n] = e
       /\ \A x \in Items : x # n /\ x = f[e] => g2[x] = n
       /\ \A x \in Items : x # n /\ x # f[e] => g2[x] = g[x]
  BY DEF LinkedBack
<1> HIDE DEF g2, h
<1>11. Inserted(g, g2, r, h, n)
  <2>1. g2[n] = IF h = m + 1 THEN NULL ELSE r[h]
    BY <1>1, <1>8, <1>10
  <2>2. ASSUME h > 1 PROVE g2[r[h - 1]] = n
    <3>1. h - 1 \in 1..m /\ h # 1
      BY <1>1, <2>2
    <3> QED BY <1>7, <1>9, <1>10, <3>1
  <2>3. ASSUME NEW k \in 1..m, k # h - 1 PROVE g2[r[k]] = g[r[k]]
    <3>1. CASE h = 1
      BY <1>7, <1>9, <1>10, <3>1
    <3>2. CASE h # 1
      <4>1. h - 1 \in 1..m
        BY <1>1, <3>2
      <4>2. r[k] # r[h - 1]
        BY <1>2, <1>3, <2>3, <4>1 DEF Once
      <4> QED BY <1>7, <1>9, <1>10, <3>2, <4>2
    <3> QED BY <3>1, <3>2
  <2> QED BY <1>2, <2>1, <2>2, <2>3 DEF Inserted
<1>12. Half(g2, IF h = 1 THEN n ELSE b, IF h = m + 1 THEN n ELSE a, InsertAt(r, h, n))
  <2>1. h \in 1..(Len(r) + 1) /\ Len(r) = m
    BY <1>1, <1>2
  <2> QED BY <1>2, <1>6, <1>11, <2>1, HalfInsert
<1>13. (h = 1 <=> i = m) /\ h # m + 1
  BY <1>1 DEF h
<1> QED BY <1>5, <1>12, <1>13 DEF m, g2

\* Unlinking item j of s.
Unlinked(f, before, after) ==
  [i \in Items |-> IF i = before THEN after ELSE f[i]]

\* The item before j is given the link of item j.
LEMMA UnlinkRemoves ==
  ASSUME NEW f \in [Items -> Link], NEW a, NEW b, NEW s \in Seq(Items), Once(s),
         Half(f, a, b, s), NEW j \in 1..Len(s),
         NEW before, j = 1 => before = NULL, j # 1 => before = s[j - 1]
  PROVE  Half(Unlinked(f, before, f[s[j]]), IF j = 1 THEN f[s[j]] ELSE a,
              IF j = Len(s) THEN before ELSE b, RemoveAt(s, j))
<1> DEFINE m == Len(s)
           after == f[s[j]]
           f2 == Unlinked(f, before, after)
<1>1. m \in Nat /\ j \in 1..m
  OBVIOUS
<1>2. \A k \in 1..m : s[k] \in Items /\ s[k] # NULL
  BY ListAssumption
<1>3. /\ \A x \in Items : x = before => f2[x] = after
      /\ \A x \in Items : x # before => f2[x] = f[x]
  BY DEF Unlinked
<1> HIDE DEF f2, after
<1>4. Removed(f, f2, s, j)
  <2>1. ASSUME j > 1 PROVE f2[s[j - 1]] = after
    <3>1. j - 1 \in 1..m /\ j # 1
      BY <1>1, <2>1
    <3> QED BY <1>2, <1>3, <3>1
  <2>2. ASSUME NEW k \in 1..m, k # j, k # j - 1 PROVE f2[s[k]] = f[s[k]]
    <3>1. s[k] # before
      <4>1. CASE j = 1
        BY <1>2, <4>1
      <4>2. CASE j # 1
        <5>1. j - 1 \in 1..m
          BY <1>1, <4>2
        <5> QED BY <2>2, <4>2, <5>1 DEF Once
      <4> QED BY <4>1, <4>2
    <3> QED BY <1>2, <1>3, <3>1
  <2> QED BY <2>1, <2>2 DEF Removed, after
<1>5. Half(f2, IF j = 1 THEN f[s[j]] ELSE a,
           IF j # Len(s) THEN b ELSE IF j = 1 THEN NULL ELSE s[j - 1], RemoveAt(s, j))
  BY <1>4, HalfRemove
<1>6. (IF j # Len(s) THEN b ELSE IF j = 1 THEN NULL ELSE s[j - 1]) =
      (IF j = Len(s) THEN before ELSE b)
  OBVIOUS
<1> QED BY <1>5, <1>6, Zenon DEF f2, after

-----------------------------------------------------------------------------
\* The calls that add an item: n goes in at some place of s.
LEMMA LinkAfterKeeps ==
  ASSUME NEW s, Types, Shape(s), "remove_last" \notin calls,
         NEW i \in 1..Len(s), NEW n \in Items, n \notin live,
         LinkAfter(s[i], n), first' = first, last' = IF i = Len(s) THEN n ELSE last
  PROVE  /\ next' \in [Items -> Link] /\ previous' \in [Items -> Link]
         /\ first' \in Link /\ last' \in Link
         /\ Half(next', first', last', InsertAt(s, i + 1, n))
         /\ "remove_first" \notin calls =>
              Half(previous', last', first', Reverse(InsertAt(s, i + 1, n)))
<1>1. /\ s \in Seq(Items) /\ Once(s) /\ n \notin ToSet(s) /\ s[i] \in Items
      /\ Half(next, first, last, s)
  BY DEF Shape
<1>2. next' = LinkedAlong(next, s[i], n) /\ previous' = LinkedBack(next, previous, s[i], n)
  BY DEF LinkAfter, LinkedAlong, LinkedBack
<1>3. next \in [Items -> Link] /\ previous \in [Items -> Link]
  BY DEF Types
<1>4. next' \in [Items -> Link] /\ previous' \in [Items -> Link]
  BY <1>1, <1>2, <1>3 DEF LinkedAlong, LinkedBack, Link
<1>5. first' \in Link /\ last' \in Link
  BY DEF Types, Link
<1>6. Half(next', first', last', InsertAt(s, i + 1, n))
  BY <1>1, <1>2, <1>3, LinkAlongInserts
<1>7. ASSUME "remove_first" \notin calls
      PROVE  Half(previous', last', first', Reverse(InsertAt(s, i + 1, n)))
  <2>1. Half(previous, last, first, Reverse(s))
    BY <1>7 DEF Shape
  <2> QED BY <1>1, <1>2, <1>3, <2>1, LinkBackInserts
<1> QED BY <1>4, <1>5, <1>6, <1>7

\* list_add_before: the mirror image.
LEMMA LinkBeforeKeeps ==
  ASSUME NEW s, Types, Shape(s), "remove_first" \notin calls,
         NEW i \in 1..Len(s), NEW n \in Items, n \notin live,
         LinkBefore(s[i], n), last' = last, first' = IF i = 1 THEN n ELSE first
  PROVE  /\ next' \in [Items -> Link] /\ previous' \in [Items -> Link]
         /\ first' \in Link /\ last' \in Link
         /\ "remove_last" \notin calls =>
              Half(next', first', last', InsertAt(s, i, n))
         /\ Half(previous', last', first', Reverse(InsertAt(s, i, n)))
<1> DEFINE m == Len(s)
           r == Reverse(s)
           h == m + 1 - i
<1>1. /\ s \in Seq(Items) /\ Once(s) /\ n \notin ToSet(s) /\ s[i] \in Items
      /\ Half(previous, last, first, r)
  BY DEF Shape
<1>2. /\ r \in Seq(Items) /\ Len(r) = m /\ Reverse(r) = s
      /\ \A k \in 1..m : r[k] = s[m + 1 - k]
  BY <1>1, ReverseIs
<1>3. Once(r) /\ ToSet(r) = ToSet(s)
  BY <1>1, ReverseOnce
<1>4. /\ m \in Nat /\ h \in 1..m /\ m + 1 - h = i /\ h + 1 = m + 2 - i
      /\ (h = m <=> i = 1) /\ i \in 1..(m + 1)
  BY <1>1
<1>5. /\ InsertAt(s, i, n) \in Seq(Items)
      /\ Reverse(InsertAt(s, i, n)) = InsertAt(r, h + 1, n)
      /\ Reverse(InsertAt(r, h + 1, n)) = InsertAt(s, i, n)
  <2>1. InsertAt(s, i, n) \in Seq(Items)
    BY <1>1, <1>4, InsertIs
  <2>2. Reverse(InsertAt(s, i, n)) = InsertAt(r, m + 2 - i, n)
    BY <1>1, <1>4, InsertReverse
  <2>3. Reverse(Reverse(InsertAt(s, i, n))) = InsertAt(s, i, n)
    BY <2>1, ReverseIs
  <2> QED BY <1>4, <2>1, <2>2, <2>3
<1>6. r[h] = s[i]
  BY <1>2, <1>4
<1>7. /\ previous' = LinkedAlong(previous, r[h], n)
      /\ next' = LinkedBack(previous, next, r[h], n)
  BY <1>6 DEF LinkBefore, LinkedAlong, LinkedBack
<1>8. next \in [Items -> Link] /\ previous \in [Items -> Link]
  BY DEF Types
<1>9. next' \in [Items -> Link] /\ previous' \in [Items -> Link]
  BY <1>1, <1>6, <1>7, <1>8 DEF LinkedAlong, LinkedBack, Link
<1>10. first' \in Link /\ last' \in Link
  BY DEF Types, Link
<1> HIDE DEF m, r, h
<1>11. h \in 1..Len(r) /\ n \notin ToSet(r) /\ first' = IF h = Len(r) THEN n ELSE first
  BY <1>1, <1>2, <1>3, <1>4
<1>12. Half(previous', last', first', Reverse(InsertAt(s, i, n)))
  <2>1. Half(previous', last, first', InsertAt(r, h + 1, n))
    BY <1>1, <1>2, <1>3, <1>7, <1>8, <1>11, LinkAlongInserts
  <2> QED BY <1>5, <2>1
<1>13. ASSUME "remove_last" \notin calls
       PROVE  Half(next', first', last', InsertAt(s, i, n))
  <2>1. Half(next, first, last, Reverse(r))
    BY <1>2, <1>13 DEF Shape
  <2>2. Half(next', first', last, Reverse(InsertAt(r, h + 1, n)))
    <3>1. /\ r \in Seq(Items) /\ Once(r) /\ h \in 1..Len(r) /\ n \notin ToSet(r)
          /\ Half(previous, last, first, r) /\ Half(next, first, last, Reverse(r))
          /\ previous \in [Items -> Link] /\ next \in [Items -> Link] /\ n \in Items
      BY <1>1, <1>2, <1>3, <1>8, <1>11, <2>1
    <3>2. Half(LinkedBack(previous, next, r[h], n), IF h = Len(r) THEN n ELSE first, last,
               Reverse(InsertAt(r, h + 1, n)))
      BY ONLY <3>1, LinkBackInserts
    <3> QED BY <1>7, <1>11, <3>2
  <2> QED BY <1>5, <2>2
<1> QED BY <1>9, <1>10, <1>12, <1>13

\* The first item of a list is both ends of it.
LEMMA LinkAloneKeeps ==
  ASSUME NEW s, Types, Shape(s), Len(s) = 0, NEW n \in Items, LinkAlone(n)
  PROVE  /\ next' \in [Items -> Link] /\ previous' \in [Items -> Link]
         /\ first' \in Link /\ last' \in Link
         /\ Half(next', first', last', InsertAt(s, 1, n))
         /\ Half(previous', last', first', Reverse(InsertAt(s, 1, n)))
<1> DEFINE t == InsertAt(s, 1, n)
           r == Reverse(t)
<1>1. s \in Seq(Items) /\ 1 \in 1..(Len(s) + 1)
  BY DEF Shape
<1>2. t \in Seq(Items) /\ Len(t) = 1 /\ t[1] = n
  <2>1. t \in Seq(Items) /\ Len(t) = Len(s) + 1 /\ t[1] = n
    <3>1. n \in Items
      OBVIOUS
    <3> QED BY ONLY <1>1, <3>1, InsertIs
  <2> QED BY <2>1
<1>3. r \in Seq(Items) /\ Len(r) = 1 /\ r[1] = n
  <2>1. /\ r \in Seq(Items) /\ Len(r) = Len(t)
        /\ \A k \in 1..Len(t) : r[k] = t[Len(t) + 1 - k]
    BY <1>2, ReverseIs
  <2> QED BY <1>2, <2>1
<1>4. /\ next' \in [Items -> Link] /\ previous' \in [Items -> Link]
      /\ first' = n /\ last' = n /\ next'[n] = NULL /\ previous'[n] = NULL
  BY DEF LinkAlone, Types, Link
<1> HIDE DEF t, r
<1>5. Half(next', first', last', t)
  <2>1. Len(t) # 0 /\ \A k \in 1..Len(t) : k = Len(t)
    BY <1>2
  <2> QED BY <1>2, <1>4, <2>1, HalfIs
<1>6. Half(previous', last', first', r)
  <2>1. Len(r) # 0 /\ \A k \in 1..Len(r) : k = Len(r)
    BY <1>3
  <2> QED BY <1>3, <1>4, <2>1, HalfIs
<1> QED BY <1>4, <1>5, <1>6 DEF t, r, Link

\* With the links in place the list has grown, for its client too.
LEMMA Grown ==
  ASSUME NEW s, Types, Shape(s), NEW j \in 1..(Len(s) + 1), NEW n \in Items,
         NEW d \in Data \cup {NULL}, NEW counted \in {1, 2},
         Allocate(n, d, counted), UNCHANGED <<cursor, calls>>,
         next' \in [Items -> Link], previous' \in [Items -> Link],
         first' \in Link, last' \in Link,
         "remove_last" \notin calls => Half(next', first', last', InsertAt(s, j, n)),
         "remove_first" \notin calls =>
           Half(previous', last', first', Reverse(InsertAt(s, j, n))),
         "add_ordered" \in calls => Sorted(InsertAt(s, j, n), data')
  PROVE  /\ Types' /\ Shape(InsertAt(s, j, n))'
         /\ AsRead = s /\ n \in View!Fresh /\ View!Insert(j, n, d)
<1> DEFINE t == InsertAt(s, j, n)
<1>1. s \in Seq(Items) /\ Len(s) \in Nat /\ Once(s) /\ ToSet(s) = live /\ Len(s) <= items
  BY DEF Shape
<1>2. /\ n \notin live /\ live' = live \cup {n} /\ data' = [data EXCEPT ![n] = d]
      /\ items' = items + counted /\ items' <= MaxCount
      /\ cursor' = cursor /\ calls' = calls
  BY DEF Allocate
<1>3. t \in Seq(Items) /\ Len(t) = Len(s) + 1
  BY <1>1, InsertIs
<1>4. Once(t) /\ ToSet(t) = live'
  BY <1>1, <1>2, InsertOnce
<1> HIDE DEF t
<1>5. Types'
  BY <1>2 DEF Types, Link
<1>6. Len(t) <= items'
  BY <1>1, <1>2, <1>3 DEF Types
<1>7. Shape(t)'
  BY <1>2, <1>3, <1>4, <1>6 DEF Shape, t
<1>8. AsRead = s
  BY ContentsIs
<1>9. AsRead' = t
  BY <1>5, <1>7, ContentsBecome
<1>10. n \in View!Fresh
  BY <1>1, <1>2, <1>8 DEF View!Fresh, View!ToSet, ToSet
<1>11. View!Insert(j, n, d)
  BY <1>2, <1>8, <1>9 DEF View!Insert, View!Place, View!InsertAt, InsertAt, t
<1> QED BY <1>5, <1>7, <1>8, <1>10, <1>11 DEF t

-----------------------------------------------------------------------------
\* The invariant after a step, from the sequence that the list is then.
LEMMA Becomes ==
  ASSUME NEW t, Types', Shape(t)'
  PROVE  IInv'
BY DEF IInv, Shape

\* An item that is in use has a place in s, and is last or first there only.
LEMMA PlaceOf ==
  ASSUME NEW s, Types, Shape(s), NEW e \in live
  PROVE  \E i \in 1..Len(s) :
           /\ e = s[i]
           /\ e = last <=> i = Len(s)
           /\ e = first <=> i = 1
<1>1. s \in Seq(Items) /\ Once(s) /\ DOMAIN s = 1..Len(s) /\ Len(s) \in Nat
  BY LenProperties DEF Shape
<1>2. PICK i \in 1..Len(s) : e = s[i]
  BY <1>1 DEF Shape, ToSet
<1>3. Len(s) # 0 /\ 1 \in 1..Len(s) /\ Len(s) \in 1..Len(s)
  BY <1>1
<1>4. first = s[1] /\ last = s[Len(s)]
  BY <1>3, EndsAre
<1> QED BY <1>1, <1>2, <1>3, <1>4 DEF Once

\* list_add_last
LEMMA AddLastKeeps ==
  ASSUME NEW s, Types, Shape(s), NEW n \in Items, NEW d \in Data,
         AddLast(n, d), UNCHANGED calls
  PROVE  IInv' /\ n \in View!Fresh /\ View!AddLast(n, d)
<1> DEFINE m == Len(s)
<1>1. /\ "remove_last" \notin calls /\ "add_ordered" \notin calls
      /\ UNCHANGED <<cursor, calls>>
  BY ClientKinds DEF AddLast, Types
<1>2. /\ m \in Nat /\ (first = NULL <=> m = 0) /\ (m # 0 => last = s[m])
      /\ s \in Seq(Items) /\ m + 1 \in 1..(m + 1)
  BY EndsAre DEF Shape
<1>3. ASSUME NEW counted \in {1, 2}, Allocate(n, d, counted),
             next' \in [Items -> Link], previous' \in [Items -> Link],
             first' \in Link, last' \in Link,
             Half(next', first', last', InsertAt(s, m + 1, n)),
             "remove_first" \notin calls =>
               Half(previous', last', first', Reverse(InsertAt(s, m + 1, n)))
      PROVE  IInv' /\ n \in View!Fresh /\ View!AddLast(n, d)
  <2>1. /\ Types' /\ Shape(InsertAt(s, m + 1, n))'
        /\ AsRead = s /\ n \in View!Fresh /\ View!Insert(m + 1, n, d)
    BY <1>1, <1>2, <1>3, Grown
  <2>2. IInv'
    BY <2>1, Becomes
  <2> QED BY <2>1, <2>2 DEF View!AddLast
<1>4. CASE first = NULL /\ LinkAlone(n) /\ Allocate(n, d, 1)
  <2>1. m = 0 /\ m + 1 = 1
    BY <1>2, <1>4
  <2> QED BY <1>3, <1>4, <2>1, LinkAloneKeeps
<1>5. CASE /\ first # NULL
           /\ LinkAfter(last, n) /\ last' = n /\ UNCHANGED first
           /\ Allocate(n, d, 2)
  <2>1. m \in 1..m /\ last = s[m]
    BY <1>2, <1>5
  <2>2. n \notin live
    BY <1>5 DEF Allocate
  <2> QED BY <1>1, <1>3, <1>5, <2>1, <2>2, LinkAfterKeeps
<1> QED BY <1>4, <1>5 DEF AddLast

\* list_add_first
LEMMA AddFirstKeeps ==
  ASSUME NEW s, Types, Shape(s), NEW n \in Items, NEW d \in Data,
         AddFirst(n, d), UNCHANGED calls
  PROVE  IInv' /\ n \in View!Fresh /\ View!AddFirst(n, d)
<1> DEFINE m == Len(s)
<1>1. /\ "remove_first" \notin calls /\ "add_ordered" \notin calls
      /\ UNCHANGED <<cursor, calls>>
  BY ClientKinds DEF AddFirst, Types
<1>2. /\ m \in Nat /\ (first = NULL <=> m = 0) /\ (m # 0 => first = s[1])
      /\ s \in Seq(Items) /\ 1 \in 1..(m + 1)
  BY EndsAre DEF Shape
<1>3. ASSUME NEW counted \in {1, 2}, Allocate(n, d, counted),
             next' \in [Items -> Link], previous' \in [Items -> Link],
             first' \in Link, last' \in Link,
             "remove_last" \notin calls =>
               Half(next', first', last', InsertAt(s, 1, n)),
             Half(previous', last', first', Reverse(InsertAt(s, 1, n)))
      PROVE  IInv' /\ n \in View!Fresh /\ View!AddFirst(n, d)
  <2>1. /\ Types' /\ Shape(InsertAt(s, 1, n))'
        /\ AsRead = s /\ n \in View!Fresh /\ View!Insert(1, n, d)
    BY <1>1, <1>2, <1>3, Grown
  <2>2. IInv'
    BY <2>1, Becomes
  <2> QED BY <2>1, <2>2 DEF View!AddFirst
<1>4. CASE first = NULL /\ LinkAlone(n) /\ Allocate(n, d, 1)
  BY <1>2, <1>3, <1>4, LinkAloneKeeps
<1>5. CASE /\ first # NULL
           /\ LinkBefore(first, n) /\ first' = n /\ UNCHANGED last
           /\ Allocate(n, d, 2)
  <2>1. 1 \in 1..m /\ first = s[1]
    BY <1>2, <1>5
  <2>2. n \notin live
    BY <1>5 DEF Allocate
  <2> QED BY <1>1, <1>3, <1>5, <2>1, <2>2, LinkBeforeKeeps
<1> QED BY <1>4, <1>5 DEF AddFirst

\* list_add_after
LEMMA AddAfterKeeps ==
  ASSUME NEW s, Types, Shape(s), NEW n \in Items,
         AddAfterIterator(n), UNCHANGED calls
  PROVE  IInv' /\ n \in View!Fresh /\ View!PlaceAfter(n)
<1> DEFINE m == Len(s)
<1>1. /\ "remove_last" \notin calls /\ "add_ordered" \notin calls
      /\ UNCHANGED <<cursor, calls>> /\ cursor \in live
      /\ LinkAfter(cursor, n) /\ first' = first
      /\ last' = IF cursor = last THEN n ELSE last
      /\ Allocate(n, NULL, 2) /\ n \notin live
  BY ClientKinds DEF AddAfterIterator, Types, Allocate
<1>2. PICK i \in 1..m : cursor = s[i] /\ (cursor = last <=> i = m)
  BY <1>1, PlaceOf
<1>3. m \in Nat /\ i + 1 \in 1..(m + 1)
  BY <1>2, EndsAre
<1>4. /\ next' \in [Items -> Link] /\ previous' \in [Items -> Link]
      /\ first' \in Link /\ last' \in Link
      /\ Half(next', first', last', InsertAt(s, i + 1, n))
      /\ "remove_first" \notin calls =>
           Half(previous', last', first', Reverse(InsertAt(s, i + 1, n)))
  BY <1>1, <1>2, LinkAfterKeeps
<1>5. /\ Types' /\ Shape(InsertAt(s, i + 1, n))'
      /\ AsRead = s /\ n \in View!Fresh /\ View!Insert(i + 1, n, NULL)
  BY <1>1, <1>3, <1>4, Grown
<1>6. View!PlaceAfter(n)
  BY <1>2, <1>5 DEF View!PlaceAfter, View!Insert, View!Positions, View!Here
<1> QED BY <1>5, <1>6, Becomes

\* list_add_before
LEMMA AddBeforeKeeps ==
  ASSUME NEW s, Types, Shape(s), NEW n \in Items,
         AddBeforeIterator(n), UNCHANGED calls
  PROVE  IInv' /\ n \in View!Fresh /\ View!PlaceBefore(n)
<1> DEFINE m == Len(s)
<1>1. /\ "remove_first" \notin calls /\ "add_ordered" \notin calls
      /\ UNCHANGED <<cursor, calls>> /\ cursor \in live
      /\ LinkBefore(cursor, n) /\ last' = last
      /\ first' = IF cursor = first THEN n ELSE first
      /\ Allocate(n, NULL, 2) /\ n \notin live
  BY ClientKinds DEF AddBeforeIterator, Types, Allocate
<1>2. PICK i \in 1..m : cursor = s[i] /\ (cursor = first <=> i = 1)
  BY <1>1, PlaceOf
<1>3. m \in Nat /\ i \in 1..(m + 1)
  BY <1>2, EndsAre
<1>4. /\ next' \in [Items -> Link] /\ previous' \in [Items -> Link]
      /\ first' \in Link /\ last' \in Link
      /\ "remove_last" \notin calls =>
           Half(next', first', last', InsertAt(s, i, n))
      /\ Half(previous', last', first', Reverse(InsertAt(s, i, n)))
  BY <1>1, <1>2, LinkBeforeKeeps
<1>5. /\ Types' /\ Shape(InsertAt(s, i, n))'
      /\ AsRead = s /\ n \in View!Fresh /\ View!Insert(i, n, NULL)
  BY <1>1, <1>3, <1>4, Grown
<1>6. View!PlaceBefore(n)
  BY <1>2, <1>5 DEF View!PlaceBefore, View!Insert, View!Positions, View!Here
<1> QED BY <1>5, <1>6, Becomes

-----------------------------------------------------------------------------
\* The place that SelectInSeq finds is the least of those it may find.
LEMMA FirstOf ==
  ASSUME NEW I, I \subseteq Nat, I # {}
  PROVE  Min(I) \in I /\ \A k \in I : Min(I) <= k
<1>1. \E x \in I : \A k \in I : x <= k
  BY LeastOne
<1> QED BY <1>1 DEF Min

\* Where list_add_ordered stops: at the first item that d is not greater than.
Stop(s, d) == SelectInSeq(s, LAMBDA i : d <= data[i])
\* All that stand before are less.
LEMMA StopIs ==
  ASSUME NEW s \in Seq(Items), NEW d
  PROVE  /\ Stop(s, d) \in 0..Len(s)
         /\ Stop(s, d) # 0 => d <= data[s[Stop(s, d)]]
         /\ \A k \in 1..Len(s) :
              Stop(s, d) = 0 \/ k < Stop(s, d) => ~ (d <= data[s[k]])
<1> DEFINE I == {i \in 1..Len(s) : d <= data[s[i]]}
<1>1. Stop(s, d) = IF I # {} THEN Min(I) ELSE 0
  BY Zenon DEF Stop, SelectInSeq
<1>2. I \subseteq 1..Len(s) /\ I \subseteq Nat
  OBVIOUS
<1>3. /\ \A k \in I : d <= data[s[k]]
      /\ \A k \in 1..Len(s) : k \notin I => ~ (d <= data[s[k]])
  OBVIOUS
<1> HIDE DEF I
<1>4. CASE I = {}
  BY <1>1, <1>3, <1>4
<1>5. CASE I # {}
  <2>1. Min(I) \in I /\ \A k \in I : Min(I) <= k
    BY <1>2, <1>5, FirstOf
  <2>2. Stop(s, d) = Min(I)
    BY <1>1, <1>5
  <2>3. Stop(s, d) \in 1..Len(s) /\ d <= data[s[Stop(s, d)]]
    BY <1>2, <1>3, <2>1, <2>2
  <2>4. ASSUME NEW k \in 1..Len(s), k < Stop(s, d) PROVE ~ (d <= data[s[k]])
    <3>1. k \notin I
      BY <2>1, <2>2, <2>3, <2>4
    <3> QED BY <1>3, <3>1
  <2> QED BY <2>3, <2>4
<1> QED BY <1>4, <1>5

\* What keeps a list in order.
LEMMA SortedInsert ==
  ASSUME NEW s \in Seq(Items), NEW n \in Items, n \notin ToSet(s),
         data \in [Items -> Data \cup {NULL}], Sorted(s, data), NEW d \in Data,
         NEW j \in 1..(Len(s) + 1),
         \A k \in 1..(j - 1) : data[s[k]] <= d,
         \A k \in j..Len(s) : d <= data[s[k]]
  PROVE  Sorted(InsertAt(s, j, n), [data EXCEPT ![n] = d])
<1> DEFINE m == Len(s)
           t == InsertAt(s, j, n)
           held == [data EXCEPT ![n] = d]
           from(k) == IF k < j THEN k ELSE k - 1
<1>1. m \in Nat /\ j \in 1..(m + 1) /\ d \in Int /\ Data \subseteq Int
  BY ListAssumption
<1>2. /\ t \in Seq(Items) /\ Len(t) = m + 1
      /\ \A k \in 1..(j - 1) : t[k] = s[k]
      /\ t[j] = n
      /\ \A k \in (j + 1)..(m + 1) : t[k] = s[k - 1]
  BY InsertItems
<1>3. \A k \in 1..m : s[k] \in Items /\ s[k] # n
  <2>1. DOMAIN s = 1..m
    BY LenProperties
  <2> QED BY <2>1 DEF ToSet
<1>4. /\ \A k \in 1..m : data[s[k]] \in Data
      /\ \A k, l \in 1..m : k < l => data[s[k]] <= data[s[l]]
  BY DEF Sorted
<1>5. held[n] = d /\ \A x \in Items : x # n => held[x] = data[x]
  OBVIOUS
<1> HIDE DEF m, t, held
<1>6. ASSUME NEW k \in 1..(m + 1), k # j PROVE from(k) \in 1..m /\ t[k] = s[from(k)]
  <2>1. CASE k < j
    BY <1>1, <1>2, <2>1
  <2>2. CASE k > j
    <3>1. k \in (j + 1)..(m + 1) /\ from(k) = k - 1 /\ k - 1 \in 1..m
      BY <1>1, <2>2
    <3> QED BY <1>2, <3>1
  <2> QED BY <1>1, <1>6, <2>1, <2>2
<1>7. \A k \in 1..(m + 1) : k # j => held[t[k]] = data[s[from(k)]]
  BY <1>3, <1>5, <1>6
<1>8. held[t[j]] = d
  BY <1>2, <1>5
<1>9. ASSUME NEW k \in 1..(m + 1) PROVE held[t[k]] \in Data
  BY <1>4, <1>6, <1>7, <1>8
<1>10. ASSUME NEW k \in 1..(m + 1), NEW l \in 1..(m + 1), k < l
       PROVE  held[t[k]] <= held[t[l]]
  <2>1. CASE k = j
    <3>1. l # j /\ from(l) \in j..m
      BY <1>1, <1>10, <2>1
    <3>2. d <= data[s[from(l)]]
      BY <3>1 DEF m
    <3> QED BY <1>7, <1>8, <2>1, <3>1, <3>2
  <2>2. CASE l = j
    <3>1. k # j /\ from(k) \in 1..(j - 1)
      BY <1>1, <1>10, <2>2
    <3>2. data[s[from(k)]] <= d
      BY <3>1
    <3> QED BY <1>7, <1>8, <2>2, <3>1, <3>2
  <2>3. CASE k # j /\ l # j
    <3>1. from(k) < from(l) /\ from(k) \in 1..m /\ from(l) \in 1..m
      BY <1>1, <1>10, <2>3
    <3> HIDE DEF from
    <3>2. data[s[from(k)]] <= data[s[from(l)]]
      BY <1>4, <3>1
    <3> QED BY <1>7, <2>3, <3>2
  <2> QED BY <2>1, <2>2, <2>3
<1> QED BY <1>2, <1>9, <1>10 DEF Sorted, t, held

\* list_add_ordered
LEMMA AddOrderedKeeps ==
  ASSUME NEW s, Types, Shape(s), NEW n \in Items, NEW d \in Data,
         AddOrdered(n, d), UNCHANGED calls
  PROVE  IInv' /\ n \in View!Fresh /\ View!AddOrdered(n, d)
<1> DEFINE m == Len(s)
           stop == Stop(s, d)
<1>1. /\ "remove_first" \notin calls /\ "remove_last" \notin calls
      /\ "add_ordered" \in calls
      /\ UNCHANGED <<cursor, calls>>
  BY ClientKinds DEF AddOrdered, Types
<1>2. /\ m \in Nat /\ (first = NULL <=> m = 0)
      /\ (m # 0 => first = s[1] /\ last = s[m]) /\ m + 1 \in 1..(m + 1)
  BY EndsAre
<1>3. /\ s \in Seq(Items) /\ Once(s) /\ Sorted(s, data) /\ ToSet(s) = live
      /\ Half(next, first, last, s)
      /\ \A k \in 1..m : data[s[k]] \in Data
      /\ Data \subseteq Int /\ d \in Int
      /\ data \in [Items -> Data \cup {NULL}]
  BY <1>1, ListAssumption DEF Shape, Types, Sorted
<1>4. Forward = s
  BY <1>1, ContentsIs
<1>5. /\ stop \in 0..m
      /\ stop # 0 => d <= data[s[stop]]
      /\ \A k \in 1..m : stop = 0 \/ k < stop => data[s[k]] <= d
  <2>1. \A k \in 1..m : data[s[k]] \in Int
    BY <1>3
  <2>2. /\ stop \in 0..m
        /\ stop # 0 => d <= data[s[stop]]
        /\ \A k \in 1..m : stop = 0 \/ k < stop => ~ (d <= data[s[k]])
    BY <1>3, StopIs
  <2> QED BY <1>3, <2>1, <2>2
<1>6. n \notin live /\ data' = [data EXCEPT ![n] = d] /\ Allocate(n, d, 1)
  BY DEF AddOrdered, Allocate
<1>7. ASSUME NEW j \in 1..(m + 1),
             next' \in [Items -> Link], previous' \in [Items -> Link],
             first' \in Link, last' \in Link,
             Half(next', first', last', InsertAt(s, j, n)),
             Half(previous', last', first', Reverse(InsertAt(s, j, n))),
             \A k \in 1..(j - 1) : data[s[k]] <= d,
             \A k \in j..m : d <= data[s[k]]
      PROVE  IInv' /\ n \in View!Fresh /\ View!AddOrdered(n, d)
  <2>1. Sorted(InsertAt(s, j, n), data')
    BY <1>3, <1>6, <1>7, SortedInsert
  <2>2. /\ Types' /\ Shape(InsertAt(s, j, n))'
        /\ AsRead = s /\ n \in View!Fresh /\ View!Insert(j, n, d)
    BY <1>1, <1>3, <1>6, <1>7, <2>1, Grown
  <2>3. AsRead' = InsertAt(s, j, n)
    BY <2>2, ContentsBecome
  <2>4. View!Ordered(AsRead, data) /\ View!Ordered(AsRead', data')
    BY <1>3, <2>1, <2>2, <2>3 DEF View!Ordered, Sorted
  <2>5. View!AddOrdered(n, d)
    BY <2>2, <2>4 DEF View!AddOrdered
  <2> QED BY <2>2, <2>5, Becomes
<1>8. AddOrdered(n, d) =>
        \/ first = NULL /\ LinkAlone(n)
        \/ /\ first # NULL /\ stop # 0 /\ d < data[s[stop]]
           /\ LinkBefore(s[stop], n) /\ last' = last
           /\ first' = IF first = s[stop] THEN n ELSE first
        \/ /\ first # NULL
           /\ stop = 0 \/ (d = data[s[stop]] /\ next[s[stop]] = NULL)
           /\ LinkAfter(last, n) /\ last' = n /\ first' = first
  BY <1>4 DEF AddOrdered, Stop
<1> HIDE DEF stop
<1>9. CASE first = NULL /\ LinkAlone(n)
  <2>1. m = 0 /\ 1 \in 1..(m + 1) /\ 1..(1 - 1) = {} /\ 1..m = {}
    BY <1>2, <1>9
  <2> QED BY <1>7, <1>9, <2>1, LinkAloneKeeps
<1>10. CASE /\ first # NULL /\ stop # 0 /\ d < data[s[stop]]
            /\ LinkBefore(s[stop], n) /\ last' = last
            /\ first' = IF first = s[stop] THEN n ELSE first
  <2>1. stop \in 1..m /\ stop \in 1..(m + 1) /\ m # 0 /\ 1 \in 1..m
    BY <1>2, <1>5, <1>10
  <2>2. first = s[stop] <=> stop = 1
    BY <1>2, <1>3, <2>1 DEF Once
  <2>3. /\ next' \in [Items -> Link] /\ previous' \in [Items -> Link]
        /\ first' \in Link /\ last' \in Link
        /\ Half(next', first', last', InsertAt(s, stop, n))
        /\ Half(previous', last', first', Reverse(InsertAt(s, stop, n)))
    BY <1>1, <1>6, <1>10, <2>1, <2>2, LinkBeforeKeeps
  <2>4. \A k \in 1..(stop - 1) : data[s[k]] <= d
    BY <1>2, <1>5, <2>1
  <2>5. ASSUME NEW k \in stop..m PROVE d <= data[s[k]]
    <3>1. k \in 1..m /\ (k = stop \/ stop < k)
      BY <1>2, <2>1
    <3>2. data[s[k]] \in Int /\ data[s[stop]] \in Int
      BY <1>3, <2>1, <3>1
    <3>3. data[s[stop]] <= data[s[k]]
      <4>1. \A i, l \in 1..m : i < l => data[s[i]] <= data[s[l]]
        BY <1>3 DEF Sorted
      <4>2. CASE k = stop
        BY <3>2, <4>2
      <4>3. CASE stop < k
        BY <2>1, <3>1, <4>1, <4>3
      <4> QED BY <3>1, <4>2, <4>3
    <3> QED BY <1>3, <1>10, <3>2, <3>3
  <2> QED BY <1>7, <2>1, <2>3, <2>4, <2>5
<1>11. CASE /\ first # NULL
            /\ stop = 0 \/ (d = data[s[stop]] /\ next[s[stop]] = NULL)
            /\ LinkAfter(last, n) /\ last' = n /\ first' = first
  <2>1. m \in 1..m /\ m # 0 /\ last = s[m]
    BY <1>2, <1>11
  <2>2. /\ next' \in [Items -> Link] /\ previous' \in [Items -> Link]
        /\ first' \in Link /\ last' \in Link
        /\ Half(next', first', last', InsertAt(s, m + 1, n))
        /\ Half(previous', last', first', Reverse(InsertAt(s, m + 1, n)))
    BY <1>1, <1>6, <1>11, <2>1, LinkAfterKeeps
  <2>3. ASSUME stop # 0 PROVE stop = m
    <3>1. \A k \in 1..m : k # m => next[s[k]] = s[k + 1]
      BY <1>3, HalfEnds
    <3>2. \A k \in 1..m : k # m => s[k + 1] \in Items /\ s[k + 1] # NULL
      BY <1>2, <1>3, ListAssumption
    <3>3. stop \in 1..m /\ next[s[stop]] = NULL
      BY <1>2, <1>5, <1>11, <2>3
    <3> QED BY <3>1, <3>2, <3>3
  <2>4. ASSUME NEW k \in 1..((m + 1) - 1) PROVE data[s[k]] <= d
    <3>1. k \in 1..m
      BY <1>2
    <3>2. CASE stop = 0 \/ k < stop
      BY <1>5, <3>1, <3>2
    <3>3. CASE stop # 0 /\ ~ (k < stop)
      <4>1. k = m /\ k = stop /\ d = data[s[stop]]
        BY <1>2, <1>11, <2>3, <3>1, <3>3
      <4> QED BY <1>3, <4>1
    <3> QED BY <3>2, <3>3
  <2>5. (m + 1)..m = {}
    BY <1>2
  <2> QED BY <1>2, <1>7, <2>2, <2>4, <2>5
<1> QED BY <1>8, <1>9, <1>10, <1>11

-----------------------------------------------------------------------------
\* The items beside item j, in the directions that the client goes.
LEMMA NeighboursAre ==
  ASSUME NEW s, Types, Shape(s), NEW j \in 1..Len(s)
  PROVE  /\ "remove_last" \notin calls =>
              /\ j = Len(s) => next[s[j]] = NULL
              /\ j # Len(s) => next[s[j]] = s[j + 1]
         /\ "remove_first" \notin calls =>
              /\ j = 1 => previous[s[j]] = NULL
              /\ j # 1 => previous[s[j]] = s[j - 1]
<1> DEFINE m == Len(s)
           r == Reverse(s)
           h == m + 1 - j
<1>1. s \in Seq(Items) /\ m \in Nat /\ m # 0 /\ j \in 1..m
  BY DEF Shape
<1>2. /\ r \in Seq(Items) /\ Len(r) = m
      /\ \A k \in 1..m : r[k] = s[m + 1 - k]
  BY <1>1, ReverseIs
<1>3. ASSUME "remove_last" \notin calls
      PROVE  /\ j = m => next[s[j]] = NULL
             /\ j # m => next[s[j]] = s[j + 1]
  BY <1>1, <1>3, HalfEnds DEF Shape
<1>4. ASSUME "remove_first" \notin calls
      PROVE  /\ j = 1 => previous[s[j]] = NULL
             /\ j # 1 => previous[s[j]] = s[j - 1]
  <2>1. Half(previous, last, first, r)
    BY <1>4 DEF Shape
  <2> HIDE DEF m, r
  <2>2. /\ \A k \in 1..m : k # m => previous[r[k]] = r[k + 1]
        /\ previous[r[m]] = NULL
    <3>1. r \in Seq(Items) /\ Len(r) = m /\ Len(r) # 0
      BY <1>1, <1>2
    <3>2. /\ \A k \in 1..Len(r) : k # Len(r) => previous[r[k]] = r[k + 1]
          /\ Len(r) # 0 => previous[r[Len(r)]] = NULL
      BY <2>1, <3>1, HalfEnds
    <3> QED BY <3>1, <3>2
  <2>3. h \in 1..m /\ m + 1 - h = j /\ (h = m <=> j = 1)
    BY <1>1
  <2>4. r[h] = s[j]
    BY <1>2, <2>3
  <2>5. CASE h = m
    BY <2>2, <2>3, <2>4, <2>5
  <2>6. CASE h # m
    <3>1. h + 1 \in 1..m /\ m + 1 - (h + 1) = j - 1
      BY <1>1, <2>3, <2>6
    <3>2. r[h + 1] = s[m + 1 - (h + 1)]
      BY <1>2, <3>1
    <3>3. previous[r[h]] = r[h + 1]
      BY <2>2, <2>3, <2>6
    <3> QED BY <2>3, <2>4, <2>6, <3>1, <3>2, <3>3
  <2> QED BY <2>5, <2>6
<1> QED BY <1>3, <1>4

\* The calls that move the iterator only.
LEMMA Pointed ==
  ASSUME NEW s, Types, Shape(s), NEW c \in Link, cursor' = c,
         UNCHANGED <<live, links, data, items, calls>>
  PROVE  IInv' /\ AsRead = s /\ View!Point(c)
<1>1. Types' /\ Shape(s)'
  BY DEF Types, Shape, links
<1>2. AsRead = s /\ AsRead' = s
  BY <1>1, ContentsIs, ContentsBecome
<1> QED BY <1>1, <1>2, Becomes DEF View!Point

\* list_get_iterator
LEMMA SetIteratorKeeps ==
  ASSUME NEW s, Types, Shape(s), SetIterator, UNCHANGED calls
  PROVE  IInv' /\ View!SetIterator
<1>1. UNCHANGED <<live, links, data, items, calls>> /\ first # NULL
  BY DEF SetIterator
<1>2. /\ first \in Link /\ last \in Link /\ s # << >>
      /\ first = s[1] /\ last = s[Len(s)]
  BY <1>1, EndsAre DEF Types
<1>3. ASSUME NEW c \in Link, cursor' = c, c = s[1] \/ c = s[Len(s)]
      PROVE  IInv' /\ View!SetIterator
  <2>1. IInv' /\ AsRead = s /\ View!Point(c)
    BY <1>1, <1>3, Pointed
  <2> QED BY <1>2, <1>3, <2>1 DEF View!SetIterator, View!Last
<1>4. cursor' = first \/ cursor' = last
  BY DEF SetIterator
<1> QED BY <1>2, <1>3, <1>4

\* list_move_next, list_move_previous
LEMMA MoveIteratorKeeps ==
  ASSUME NEW s, Types, Shape(s), MoveIterator, UNCHANGED calls
  PROVE  IInv' /\ View!MoveIterator
<1>1. UNCHANGED <<live, links, data, items, calls>> /\ cursor \in live
  BY DEF MoveIterator
<1>2. PICK j \in 1..Len(s) : cursor = s[j]
  BY <1>1, PlaceOf
<1>3. cursor \in Items /\ next[cursor] \in Link /\ previous[cursor] \in Link
  BY <1>1 DEF Types
<1>4. ASSUME NEW c \in Link, cursor' = c,
             \/ c = IF j = Len(s) THEN NULL ELSE s[j + 1]
             \/ c = IF j = 1 THEN NULL ELSE s[j - 1]
      PROVE  IInv' /\ View!MoveIterator
  <2>1. IInv' /\ AsRead = s /\ View!Point(c)
    BY <1>1, <1>4, Pointed
  <2> QED BY <1>2, <1>4, <2>1 DEF View!MoveIterator, View!Positions, View!Here
<1>5. CASE "move_next" \in calls /\ cursor' = next[cursor]
  <2>1. "remove_last" \notin calls
    BY <1>5, ClientKinds DEF Types
  <2>2. next[cursor] = IF j = Len(s) THEN NULL ELSE s[j + 1]
    BY <1>2, <2>1, NeighboursAre
  <2> QED BY <1>3, <1>4, <1>5, <2>2
<1>6. CASE "move_previous" \in calls /\ cursor' = previous[cursor]
  <2>1. "remove_first" \notin calls
    BY <1>6, ClientKinds DEF Types
  <2>2. previous[cursor] = IF j = 1 THEN NULL ELSE s[j - 1]
    BY <1>2, <2>1, NeighboursAre
  <2> QED BY <1>3, <1>4, <1>6, <2>2
<1> QED BY <1>5, <1>6 DEF MoveIterator

\* The search finds the first place that holds d, or NULL when none does.
LEMMA FirstOnIs ==
  ASSUME NEW way \in Seq(Items), NEW d
  PROVE  \/ FirstOn(way, d) = NULL /\ \A k \in 1..Len(way) : data[way[k]] # d
         \/ \E k \in 1..Len(way) :
              /\ FirstOn(way, d) = way[k] /\ data[way[k]] = d
              /\ \A l \in 1..Len(way) : data[way[l]] = d => k <= l
<1> DEFINE I == {k \in 1..Len(way) : data[way[k]] = d}
           at == IF I # {} THEN Min(I) ELSE 0
<1>1. FirstOn(way, d) = IF at = 0 THEN NULL ELSE way[at]
  BY Zenon DEF FirstOn, SelectInSeq
<1>2. I \subseteq 1..Len(way) /\ I \subseteq Nat
  OBVIOUS
<1>3. \A k \in 1..Len(way) : k \in I <=> data[way[k]] = d
  OBVIOUS
<1> HIDE DEF I
<1>4. CASE I = {}
  BY <1>1, <1>3, <1>4
<1>5. CASE I # {}
  <2>1. at = Min(I) /\ Min(I) \in I /\ \A k \in I : Min(I) <= k
    BY <1>2, <1>5, FirstOf
  <2>2. at \in 1..Len(way) /\ at # 0 /\ data[way[at]] = d
    BY <1>2, <1>3, <2>1
  <2>3. \A l \in 1..Len(way) : data[way[l]] = d => at <= l
    BY <1>3, <2>1
  <2> HIDE DEF at
  <2>4. FirstOn(way, d) = way[at]
    BY <1>1, <2>2
  <2> QED BY <2>2, <2>3, <2>4
<1> QED BY <1>4, <1>5

\* list_find_item, list_find_item_reverse
LEMMA FindKeeps ==
  ASSUME NEW s, Types, Shape(s), NEW d \in Data, Find(d), UNCHANGED calls
  PROVE  IInv' /\ View!Find(d)
<1> DEFINE m == Len(s)
           r == Reverse(s)
<1>1. UNCHANGED <<live, links, data, items, calls>>
  BY DEF Find
<1>2. s \in Seq(Items) /\ m \in Nat
  BY DEF Shape
<1>3. /\ r \in Seq(Items) /\ Len(r) = m
      /\ \A k \in 1..m : r[k] = s[m + 1 - k]
  BY <1>2, ReverseIs
<1>4. \A k \in 1..m : s[k] \in Link
  BY <1>2 DEF Link
<1> HIDE DEF r
<1>5. ASSUME cursor' = NULL, \A k \in 1..m : data[s[k]] # d
      PROVE  IInv' /\ View!Find(d)
  <2>1. NULL \in Link
    BY DEF Link
  <2>2. IInv' /\ AsRead = s /\ View!Point(NULL)
    BY <1>1, <1>5, <2>1, Pointed
  <2>3. View!Holding(d) = {}
    BY <1>5, <2>2 DEF View!Holding, View!Positions
  <2> QED BY <2>2, <2>3 DEF View!Find
<1>6. ASSUME NEW k \in 1..m, cursor' = s[k], data[s[k]] = d,
             \/ \A l \in 1..m : data[s[l]] = d => k <= l
             \/ \A l \in 1..m : data[s[l]] = d => l <= k
      PROVE  IInv' /\ View!Find(d)
  <2>1. IInv' /\ AsRead = s /\ View!Point(s[k])
    BY <1>1, <1>4, <1>6, Pointed
  <2>2. /\ k \in View!Holding(d)
        /\ \A l \in View!Holding(d) : l \in 1..m /\ data[s[l]] = d
    BY <1>6, <2>1 DEF View!Holding, View!Positions
  <2> QED BY <1>6, <2>1, <2>2 DEF View!Find
<1>7. CASE "find" \in calls /\ cursor' = FirstOn(Forward, d)
  <2>1. Forward = s
    BY <1>7, ClientKinds, ContentsIs DEF Types
  <2>2. \/ FirstOn(s, d) = NULL /\ \A k \in 1..m : data[s[k]] # d
        \/ \E k \in 1..m :
             /\ FirstOn(s, d) = s[k] /\ data[s[k]] = d
             /\ \A l \in 1..m : data[s[l]] = d => k <= l
    BY <1>2, FirstOnIs
  <2> QED BY <1>5, <1>6, <1>7, <2>1, <2>2
<1>8. CASE "find_reverse" \in calls /\ cursor' = FirstOn(Backward, d)
  <2>1. Backward = r
    BY <1>8, ClientKinds, ContentsIs DEF Types, r
  <2>2. \A k \in 1..m : m + 1 - k \in 1..m /\ s[k] = r[m + 1 - k]
    <3>1. \A k \in 1..m : m + 1 - k \in 1..m /\ m + 1 - (m + 1 - k) = k
      BY <1>2
    <3> QED BY <1>3, <3>1
  <2>3. CASE FirstOn(r, d) = NULL /\ \A k \in 1..m : data[r[k]] # d
    BY <1>5, <1>8, <2>1, <2>2, <2>3
  <2>4. ASSUME NEW k \in 1..m, FirstOn(r, d) = r[k], data[r[k]] = d,
               \A l \in 1..m : data[r[l]] = d => k <= l
        PROVE  IInv' /\ View!Find(d)
    <3> DEFINE i == m + 1 - k
    <3>1. i \in 1..m /\ cursor' = s[i] /\ data[s[i]] = d
      BY <1>2, <1>3, <1>8, <2>1, <2>4
    <3>2. ASSUME NEW l \in 1..m, data[s[l]] = d PROVE l <= i
      <4>1. k <= m + 1 - l
        BY <2>2, <2>4, <3>2
      <4> QED BY <1>2, <4>1
    <3> HIDE DEF i
    <3> QED BY <1>6, <3>1, <3>2
  <2>5. \/ FirstOn(r, d) = NULL /\ \A k \in 1..m : data[r[k]] # d
        \/ \E k \in 1..m :
             /\ FirstOn(r, d) = r[k] /\ data[r[k]] = d
             /\ \A l \in 1..m : data[r[l]] = d => k <= l
    <3>1. r \in Seq(Items) /\ Len(r) = m
      BY <1>3
    <3>2. \/ FirstOn(r, d) = NULL /\ \A k \in 1..Len(r) : data[r[k]] # d
          \/ \E k \in 1..Len(r) :
               /\ FirstOn(r, d) = r[k] /\ data[r[k]] = d
               /\ \A l \in 1..Len(r) : data[r[l]] = d => k <= l
      BY <3>1, FirstOnIs, Zenon
    <3> QED BY <3>1, <3>2
  <2> QED BY <2>3, <2>4, <2>5
<1> QED BY <1>7, <1>8 DEF Find

-----------------------------------------------------------------------------
\* The calls that remove items.
LEMMA SortedRemove ==
  ASSUME NEW s \in Seq(Items), NEW j \in 1..Len(s), Sorted(s, data)
  PROVE  Sorted(RemoveAt(s, j), data)
<1> DEFINE m == Len(s)
           t == RemoveAt(s, j)
           from(k) == IF k < j THEN k ELSE k + 1
<1>1. m \in Nat /\ j \in 1..m
  OBVIOUS
<1>2. /\ Len(t) = m - 1
      /\ \A k \in 1..(m - 1) : t[k] = IF k < j THEN s[k] ELSE s[k + 1]
  BY RemoveIs
<1>3. /\ \A k \in 1..m : data[s[k]] \in Data
      /\ \A k, l \in 1..m : k < l => data[s[k]] <= data[s[l]]
  BY DEF Sorted
<1> HIDE DEF m, t
<1>4. \A k \in 1..(m - 1) : from(k) \in 1..m /\ t[k] = s[from(k)]
  BY <1>1, <1>2
<1>5. ASSUME NEW k \in 1..(m - 1), NEW l \in 1..(m - 1), k < l
      PROVE  data[t[k]] <= data[t[l]]
  <2>1. from(k) < from(l) /\ from(k) \in 1..m /\ from(l) \in 1..m
    BY <1>1, <1>4, <1>5
  <2> HIDE DEF from
  <2> QED BY <1>3, <1>4, <2>1
<1>6. \A k \in 1..(m - 1) : data[t[k]] \in Data
  BY <1>3, <1>4
<1> QED BY <1>2, <1>5, <1>6 DEF Sorted, t

\* With the links in place the list has shrunk, for its client too.
LEMMA Shrunk ==
  ASSUME NEW s, Types, Shape(s), NEW j \in 1..Len(s),
         live' = live \ {s[j]}, items' = items - 1, UNCHANGED <<data, calls>>,
         next' \in [Items -> Link], previous' \in [Items -> Link],
         first' \in Link, last' \in Link, cursor' \in Link,
         "remove_last" \notin calls => Half(next', first', last', RemoveAt(s, j)),
         "remove_first" \notin calls =>
           Half(previous', last', first', Reverse(RemoveAt(s, j)))
  PROVE  IInv' /\ AsRead = s /\ AsRead' = RemoveAt(s, j)
<1> DEFINE t == RemoveAt(s, j)
<1>1. s \in Seq(Items) /\ Len(s) \in Nat /\ Once(s) /\ ToSet(s) = live /\ Len(s) <= items
  BY DEF Shape
<1>2. t \in Seq(Items) /\ Len(t) = Len(s) - 1
  BY <1>1, RemoveIs
<1>3. Once(t) /\ ToSet(t) = live'
  BY <1>1, RemoveOnce
<1>4. "add_ordered" \in calls => Sorted(t, data)
  BY <1>1, SortedRemove DEF Shape
<1> HIDE DEF t
<1>5. Types'
  BY ListAssumption DEF Types
<1>6. Len(t) <= items'
  BY <1>1, <1>2 DEF Types
<1>7. Shape(t)'
  BY <1>2, <1>3, <1>4, <1>6 DEF Shape, t
<1>8. AsRead = s /\ AsRead' = t
  BY <1>5, <1>7, ContentsIs, ContentsBecome
<1> QED BY <1>5, <1>7, <1>8, Becomes DEF t

\* list_remove_first: what is left has the first link of the item taken.
LEMMA RemoveFirstKeeps ==
  ASSUME NEW s, Types, Shape(s), ListRemoveFirst, UNCHANGED calls
  PROVE  IInv' /\ View!ListRemoveFirst
<1> DEFINE m == Len(s)
<1>1. /\ "remove_first" \in calls /\ "remove_last" \notin calls /\ first # NULL
      /\ first' = next[first] /\ last' = IF next[first] = NULL THEN NULL ELSE last
      /\ live' = live \ {first} /\ items' = items - 1
      /\ UNCHANGED <<next, previous, data, cursor, calls>>
  BY ClientKinds DEF ListRemoveFirst, Types
<1>2. /\ s \in Seq(Items) /\ m \in Nat /\ m # 0 /\ first = s[1] /\ s # << >>
      /\ 1 \in 1..m /\ s[1] \in Items /\ Half(next, first, last, s)
  BY <1>1, EndsAre DEF Shape
<1>3. /\ m = 1 => next[s[1]] = NULL
      /\ m # 1 => next[s[1]] = s[2] /\ s[2] # NULL
  <2>1. m # 1 => 2 \in 1..m
    <3>1. m \in Nat /\ m # 0
      BY <1>2
    <3> HIDE DEF m
    <3> QED BY <3>1
  <2> QED BY <1>1, <1>2, <2>1, NeighboursAre, ListAssumption
<1>4. Half(next, next[s[1]], IF 1 # m THEN last ELSE NULL, RemoveAt(s, 1))
  <2>1. Removed(next, next, s, 1)
    BY <1>2 DEF Removed
  <2> QED BY <1>2, <2>1, HalfRemove
<1>5. Half(next', first', last', RemoveAt(s, 1))
  BY <1>1, <1>2, <1>3, <1>4
<1>6. /\ next' \in [Items -> Link] /\ previous' \in [Items -> Link]
      /\ first' \in Link /\ last' \in Link /\ cursor' \in Link
  BY <1>1, <1>2 DEF Types, Link
<1>7. IInv' /\ AsRead = s /\ AsRead' = RemoveAt(s, 1)
  BY <1>1, <1>2, <1>5, <1>6, Shrunk
<1>8. RemoveAt(s, 1) = Tail(s)
  <2>1. /\ RemoveAt(s, 1) \in Seq(Items) /\ Len(RemoveAt(s, 1)) = m - 1
        /\ \A k \in 1..(m - 1) : RemoveAt(s, 1)[k] = s[k + 1]
    BY <1>2, RemoveIs
  <2>2. /\ Tail(s) \in Seq(Items) /\ Len(Tail(s)) = m - 1
        /\ \A k \in 1..(m - 1) : Tail(s)[k] = s[k + 1]
    BY <1>2
  <2> QED BY <2>1, <2>2, SeqEqual
<1> QED BY <1>1, <1>2, <1>7, <1>8 DEF View!ListRemoveFirst

\* list_remove_last
LEMMA RemoveLastKeeps ==
  ASSUME NEW s, Types, Shape(s), ListRemoveLast, UNCHANGED calls
  PROVE  IInv' /\ View!ListRemoveLast
<1> DEFINE m == Len(s)
           r == Reverse(s)
<1>1. /\ "remove_last" \in calls /\ "remove_first" \notin calls /\ last # NULL
      /\ last' = previous[last] /\ first' = IF previous[last] = NULL THEN NULL ELSE first
      /\ live' = live \ {last} /\ items' = items - 1
      /\ UNCHANGED <<next, previous, data, cursor, calls>>
  BY ClientKinds DEF ListRemoveLast, Types
<1>2. /\ s \in Seq(Items) /\ m \in Nat /\ m # 0 /\ last = s[m] /\ s # << >>
      /\ m \in 1..m /\ s[m] \in Items /\ Half(previous, last, first, r)
  BY <1>1, EndsAre DEF Shape
<1>3. /\ r \in Seq(Items) /\ Len(r) = m /\ 1 \in 1..m /\ r[1] = s[m]
  <2>1. /\ r \in Seq(Items) /\ Len(r) = m
        /\ \A k \in 1..m : r[k] = s[m + 1 - k]
    BY <1>2, ReverseIs
  <2>2. 1 \in 1..m /\ m + 1 - 1 = m
    BY <1>2
  <2> QED BY <2>1, <2>2
<1>4. /\ m = 1 => previous[s[m]] = NULL
      /\ m # 1 => previous[s[m]] = s[m - 1] /\ s[m - 1] # NULL
  <2>1. m # 1 => m - 1 \in 1..m
    <3>1. m \in Nat /\ m # 0
      BY <1>2
    <3> HIDE DEF m
    <3> QED BY <3>1
  <2> QED BY <1>1, <1>2, <2>1, NeighboursAre, ListAssumption
<1>5. Reverse(RemoveAt(s, m)) = RemoveAt(r, 1)
  <2>1. Reverse(RemoveAt(s, m)) = RemoveAt(Reverse(s), Len(s) + 1 - m)
    BY <1>2, RemoveReverse
  <2>2. Len(s) + 1 - m = 1
    BY <1>2
  <2> QED BY <2>1, <2>2
<1> HIDE DEF r
<1>6. Half(previous, previous[r[1]], IF 1 # m THEN first ELSE NULL, RemoveAt(r, 1))
  <2>1. Removed(previous, previous, r, 1)
    BY <1>3 DEF Removed
  <2> QED BY <1>2, <1>3, <2>1, HalfRemove
<1>7. Half(previous', last', first', Reverse(RemoveAt(s, m)))
  BY <1>1, <1>2, <1>3, <1>4, <1>5, <1>6
<1>8. /\ next' \in [Items -> Link] /\ previous' \in [Items -> Link]
      /\ first' \in Link /\ last' \in Link /\ cursor' \in Link
  BY <1>1, <1>2 DEF Types, Link
<1>9. IInv' /\ AsRead = s /\ AsRead' = RemoveAt(s, m)
  BY <1>1, <1>2, <1>7, <1>8, Shrunk
<1>10. RemoveAt(s, m) = SubSeq(s, 1, m - 1)
  <2>1. /\ RemoveAt(s, m) \in Seq(Items) /\ Len(RemoveAt(s, m)) = m - 1
        /\ \A k \in 1..(m - 1) : RemoveAt(s, m)[k] = IF k < m THEN s[k] ELSE s[k + 1]
    BY <1>2, RemoveIs
  <2>2. \A k \in 1..(m - 1) : RemoveAt(s, m)[k] = s[k]
    BY <1>2, <2>1
  <2>3. /\ SubSeq(s, 1, m - 1) \in Seq(Items) /\ Len(SubSeq(s, 1, m - 1)) = m - 1
        /\ \A k \in 1..(m - 1) : SubSeq(s, 1, m - 1)[k] = s[k]
    <3>1. s \in Seq(Items) /\ m \in Nat /\ m # 0 /\ m = Len(s)
      BY <1>2
    <3>2. m - 1 \in 0..Len(s)
      <4> HIDE DEF m
      <4> QED BY <3>1
    <3> DEFINE l == m - 1
    <3>3. l \in 0..Len(s)
      BY <3>2
    <3> HIDE DEF l
    <3>4. /\ SubSeq(s, 1, l) \in Seq(Items) /\ Len(SubSeq(s, 1, l)) = l
          /\ \A k \in 1..l : SubSeq(s, 1, l)[k] = s[k]
      BY <3>1, <3>3
    <3> QED BY <3>4 DEF l
  <2> QED BY <2>1, <2>2, <2>3, SeqEqual
<1> QED BY <1>1, <1>2, <1>9, <1>10 DEF View!ListRemoveLast, View!Front

\* list_remove_item
LEMMA RemoveAtKeeps ==
  ASSUME NEW s, Types, Shape(s), RemoveAtIterator, UNCHANGED calls
  PROVE  IInv' /\ View!RemoveHere
<1> DEFINE m == Len(s)
           r == Reverse(s)
           after == next[cursor]
           before == previous[cursor]
<1>1. /\ "remove_at" \in calls /\ cursor \in live /\ cursor' = after
      /\ previous' = Unlinked(previous, after, before)
      /\ next' = Unlinked(next, before, after)
      /\ first' = IF first = cursor THEN after ELSE first
      /\ last' = IF last = cursor THEN before ELSE last
      /\ live' = live \ {cursor} /\ items' = items - 1 /\ UNCHANGED <<data, calls>>
  BY DEF RemoveAtIterator, Unlinked
<1>2. "remove_last" \notin calls /\ "remove_first" \notin calls
  BY <1>1, ClientKinds DEF Types
<1>3. PICK j \in 1..m : /\ cursor = s[j]
                        /\ cursor = last <=> j = m
                        /\ cursor = first <=> j = 1
  BY <1>1, PlaceOf
<1> DEFINE h == m + 1 - j
<1>4. /\ s \in Seq(Items) /\ Once(s) /\ m \in Nat /\ j \in 1..m /\ m # 0
      /\ Half(next, first, last, s) /\ Half(previous, last, first, r)
  BY <1>2, <1>3 DEF Shape
<1>5. /\ h \in 1..m /\ m + 1 - h = j /\ (h = m <=> j = 1) /\ (h = 1 <=> j = m)
  BY <1>4
<1>6. /\ r \in Seq(Items) /\ Len(r) = m /\ Once(r) /\ r[h] = s[j]
      /\ \A k \in 1..m : r[k] = s[m + 1 - k]
  BY <1>4, <1>5, ReverseIs, ReverseOnce
<1>7. /\ j = m => after = NULL
      /\ j # m => after = s[j + 1]
      /\ j = 1 => before = NULL
      /\ j # 1 => before = s[j - 1]
  BY <1>2, <1>3, NeighboursAre
<1>8. h # 1 => after = r[h - 1]
  <2>1. h # 1 => h - 1 \in 1..m /\ m + 1 - (h - 1) = j + 1
    BY <1>4, <1>5
  <2> QED BY <1>5, <1>6, <1>7, <2>1
<1>9. Reverse(RemoveAt(s, j)) = RemoveAt(r, h)
  BY <1>4, RemoveReverse
<1>10. /\ cursor \in Items /\ after \in Link /\ before \in Link
       /\ next \in [Items -> Link] /\ previous \in [Items -> Link]
       /\ first \in Link /\ last \in Link
  BY <1>1 DEF Types
<1> HIDE DEF m, r, h, after, before
<1>11. Half(next', first', last', RemoveAt(s, j))
  <2>1. Half(Unlinked(next, before, next[s[j]]), IF j = 1 THEN next[s[j]] ELSE first,
             IF j = Len(s) THEN before ELSE last, RemoveAt(s, j))
    BY <1>4, <1>7, <1>10, UnlinkRemoves DEF m
  <2>2. next[s[j]] = after /\ Len(s) = m
    BY <1>3 DEF after, m
  <2> QED BY <1>1, <1>3, <2>1, <2>2
<1>12. Half(previous', last', first', RemoveAt(r, h))
  <2>1. Half(Unlinked(previous, after, previous[r[h]]),
             IF h = 1 THEN previous[r[h]] ELSE last,
             IF h = Len(r) THEN after ELSE first, RemoveAt(r, h))
    BY <1>4, <1>5, <1>6, <1>7, <1>8, <1>10, UnlinkRemoves
  <2>2. previous[r[h]] = before /\ Len(r) = m
    BY <1>3, <1>6 DEF before
  <2> QED BY <1>1, <1>3, <1>5, <2>1, <2>2
<1>13. /\ next' \in [Items -> Link] /\ previous' \in [Items -> Link]
       /\ first' \in Link /\ last' \in Link /\ cursor' \in Link
  BY <1>1, <1>10 DEF Unlinked
<1>14. IInv' /\ AsRead = s /\ AsRead' = RemoveAt(s, j)
  BY <1>1, <1>3, <1>9, <1>11, <1>12, <1>13, Shrunk DEF m
<1>15. View!RemoveAt(s, j) = RemoveAt(s, j)
  BY DEF View!RemoveAt, RemoveAt
<1> QED BY <1>1, <1>3, <1>7, <1>14, <1>15 DEF View!RemoveHere, View!Positions, View!Here, m

\* list_destroy
LEMMA DestroyKeeps ==
  ASSUME NEW s, Types, Shape(s), Destroy, UNCHANGED calls
  PROVE  IInv' /\ View!Destroy
<1>1. "remove_last" \notin calls
  BY ClientKinds DEF Destroy, Types
<1>2. Forward = s /\ ToSet(s) = live
  BY <1>1, ContentsIs DEF Shape
<1>3. /\ live' = {} /\ first' = NULL /\ last' = NULL /\ items' = 0 /\ cursor' = NULL
      /\ UNCHANGED <<next, previous, data, calls>>
  BY <1>2 DEF Destroy
<1>4. Types'
  BY <1>3, ListAssumption DEF Types, Link
<1>5. Shape(<< >>)'
  <2>1. /\ << >> \in Seq(Items) /\ Len(<< >>) = 0 /\ ToSet(<< >>) = {} /\ 1..0 = {}
    BY DEF ToSet
  <2>2. Reverse(<< >>) = << >>
    BY <2>1, ReverseIs, EmptySeq
  <2> QED BY <1>3, <2>1, <2>2 DEF Shape, Once, Half, Sorted
<1>6. AsRead' = << >>
  BY <1>4, <1>5, ContentsBecome
<1> QED BY <1>3, <1>4, <1>5, <1>6, Becomes DEF View!Destroy

-----------------------------------------------------------------------------
\* An empty list stands for the empty sequence.
LEMMA InitKeeps ==
  ASSUME Init
  PROVE  Types /\ Shape(<< >>)
<1>1. Types
  BY ListAssumption DEF Init, Types, Link
<1>2. /\ << >> \in Seq(Items) /\ Len(<< >>) = 0 /\ ToSet(<< >>) = {} /\ 1..0 = {}
  BY DEF ToSet
<1>3. Reverse(<< >>) = << >>
  BY <1>2, ReverseIs, EmptySeq
<1>4. /\ live = {} /\ first = NULL /\ last = NULL /\ items = 0
  BY DEF Init
<1> QED BY <1>1, <1>2, <1>3, <1>4 DEF Shape, Once, Half, Sorted

\* What is promised of a step to the client.
Kept ==
  /\ (\A n \in Items : ~AddsBeside(n)) => View!Next
  /\ \A n \in Items :
       /\ AddAfterIterator(n) => n \in View!Fresh /\ View!PlaceAfter(n)
       /\ AddBeforeIterator(n) => n \in View!Fresh /\ View!PlaceBefore(n)

\* Every call keeps the invariant and is, but for the two that add at the
\* iterator, a call on the sequence; those put their item in its place.
LEMMA CallKeeps ==
  ASSUME IInv, Next
  PROVE  IInv' /\ Kept
<1>1. PICK s \in Seq(Items) : Types /\ Shape(s)
  BY DEF IInv
<1>2. UNCHANGED calls
  BY DEF Next
<1>3. ASSUME NEW n \in Items, NEW d \in Data, AddLast(n, d) PROVE IInv' /\ View!Next
  BY <1>1, <1>2, <1>3, AddLastKeeps DEF View!Next
<1>4. ASSUME NEW n \in Items, NEW d \in Data, AddFirst(n, d) PROVE IInv' /\ View!Next
  BY <1>1, <1>2, <1>4, AddFirstKeeps DEF View!Next
<1>5. ASSUME NEW n \in Items, NEW d \in Data, AddOrdered(n, d) PROVE IInv' /\ View!Next
  BY <1>1, <1>2, <1>5, AddOrderedKeeps DEF View!Next
<1>6. ASSUME NEW n \in Items, AddAfterIterator(n)
      PROVE  IInv' /\ n \in View!Fresh /\ View!PlaceAfter(n)
  BY <1>1, <1>2, <1>6, AddAfterKeeps
<1>7. ASSUME NEW n \in Items, AddBeforeIterator(n)
      PROVE  IInv' /\ n \in View!Fresh /\ View!PlaceBefore(n)
  BY <1>1, <1>2, <1>7, AddBeforeKeeps
<1>8. ASSUME ListRemoveFirst PROVE IInv' /\ View!Next
  BY <1>1, <1>2, <1>8, RemoveFirstKeeps DEF View!Next
<1>9. ASSUME ListRemoveLast PROVE IInv' /\ View!Next
  BY <1>1, <1>2, <1>9, RemoveLastKeeps DEF View!Next
<1>10. ASSUME RemoveAtIterator PROVE IInv' /\ View!Next
  BY <1>1, <1>2, <1>10, RemoveAtKeeps DEF View!Next
<1>11. ASSUME Destroy PROVE IInv' /\ View!Next
  BY <1>1, <1>2, <1>11, DestroyKeeps DEF View!Next
<1>12. ASSUME SetIterator PROVE IInv' /\ View!Next
  BY <1>1, <1>2, <1>12, SetIteratorKeeps DEF View!Next
<1>13. ASSUME MoveIterator PROVE IInv' /\ View!Next
  BY <1>1, <1>2, <1>13, MoveIteratorKeeps DEF View!Next
<1>14. ASSUME NEW d \in Data, Find(d) PROVE IInv' /\ View!Next
  BY <1>1, <1>2, <1>14, FindKeeps DEF View!Next
<1>15. Call
  BY DEF Next
<1>16. IInv' /\ (View!Next \/ \E n \in Items : AddsBeside(n))
  BY <1>3, <1>4, <1>5, <1>6, <1>7, <1>8, <1>9, <1>10, <1>11, <1>12, <1>13, <1>14,
     <1>15 DEF Call, AddsBeside
<1> QED BY <1>6, <1>7, <1>16 DEF Kept

\* A step that leaves the list alone leaves the sequence alone.
LEMMA StutterKeeps ==
  ASSUME IInv, UNCHANGED vars
  PROVE  IInv' /\ UNCHANGED View!vars
<1>1. PICK s \in Seq(Items) : Types /\ Shape(s)
  BY DEF IInv
<1>2. Types' /\ Shape(s)'
  BY <1>1 DEF vars, links, Types, Shape
<1>3. AsRead = s /\ AsRead' = s
  BY <1>1, <1>2, ContentsIs, ContentsBecome
<1> QED BY <1>2, <1>3, Becomes DEF View!vars, vars

\* At any time the links stand for one sequence of the items in use, in every
\* direction that the client goes, and the counter is no less than its length.
THEOREM Invariance == Spec => []IInv
<1>1. Init => IInv
  <2>1. << >> \in Seq(Items)
    OBVIOUS
  <2> QED BY <2>1, InitKeeps DEF IInv
<1>2. IInv /\ [Next]_vars => IInv'
  BY CallKeeps, StutterKeeps
<1> QED BY <1>1, <1>2, PTL DEF Spec

\* The type of every variable: the counter, too, stays within its bound and
\* never sinks below 0, though the calls that add at an end count twice.
THEOREM TypeCorrect == Spec => []TypeOK
<1>1. IInv => TypeOK
  <2> SUFFICES ASSUME IInv PROVE TypeOK
    OBVIOUS
  <2>1. PICK s \in Seq(Items) : Types /\ Shape(s)
    BY DEF IInv
  <2>2. Len(s) \in Nat /\ Len(s) <= items
    BY <2>1 DEF Shape
  <2>3. items \in -MaxCount..MaxCount
    BY <2>1, <2>2, ListAssumption DEF Types
  <2> QED BY <2>1, <2>3 DEF Types, TypeOK
<1> QED BY <1>1, Invariance, PTL

\* The two walks of a client that does not remove at the ends meet all items in
\* use, each once, in opposite orders.
THEOREM WalksCorrect == Spec => []WalksAgree
<1>1. IInv => WalksAgree
  <2> SUFFICES ASSUME IInv, calls \cap {"remove_first", "remove_last"} = {}
               PROVE  /\ Backward = Reverse(Forward)
                      /\ IsInjective(Forward)
                      /\ ToSet(Forward) = live
    BY DEF WalksAgree
  <2>1. PICK s \in Seq(Items) : Types /\ Shape(s)
    BY DEF IInv
  <2>2. Forward = s /\ Backward = Reverse(s)
    BY <2>1, ContentsIs
  <2>3. Once(s) /\ ToSet(s) = live /\ DOMAIN s = 1..Len(s)
    BY <2>1 DEF Shape
  <2> QED BY <2>2, <2>3 DEF Once, IsInjective
<1> QED BY <1>1, Invariance, PTL

\* The list of a client that adds in order is in order.
THEOREM OrderCorrect == Spec => []SortedList
<1>1. IInv => SortedList
  <2> SUFFICES ASSUME IInv, "add_ordered" \in calls
               PROVE  \A m, n \in 1..Len(Forward) :
                        m < n => data[Forward[m]] <= data[Forward[n]]
    BY DEF SortedList
  <2>1. PICK s \in Seq(Items) : Types /\ Shape(s)
    BY DEF IInv
  <2>2. "remove_last" \notin calls
    BY <2>1, ClientKinds DEF Types
  <2>3. Forward = s
    BY <2>1, <2>2, ContentsIs
  <2> QED BY <2>1, <2>3 DEF Shape, Sorted
<1> QED BY <1>1, Invariance, PTL

\* To its client the list is a sequence with one iterator on it.  Every call but
\* the two that add at the iterator is one step of AbstractList or none, and
\* those two put their item in its place.
THEOREM Refinement == Spec => KeepsTheSequence
<1>1. Init => View!Init
  <2> SUFFICES ASSUME Init PROVE View!Init
    OBVIOUS
  <2>1. AsRead = << >>
    BY InitKeeps, ContentsIs
  <2> QED BY <2>1 DEF Init, View!Init
<1>2. IInv /\ [Next]_vars => [Kept]_(View!vars)
  BY CallKeeps, StutterKeeps
<1>3. /\ [Kept]_(View!vars) => [(\A n \in Items : ~AddsBeside(n)) => View!Next]_(View!vars)
      /\ [Kept]_(View!vars) =>
           [\A n \in Items :
              /\ AddAfterIterator(n) => n \in View!Fresh /\ View!PlaceAfter(n)
              /\ AddBeforeIterator(n) => n \in View!Fresh /\ View!PlaceBefore(n)]_(View!vars)
  BY DEF Kept
<1> QED BY <1>1, <1>2, <1>3, Invariance, PTL DEF Spec, KeepsTheSequence

=============================================================================
