---------------------------- MODULE AbstractList ----------------------------
(***************************************************************************)
(* What raspberry_pi/utils/list.h offers, without the pointers: a sequence *)
(* of items and one iterator on it.  A call that the code answers with an  *)
(* error code and without an effect is a stuttering step.                  *)
(***************************************************************************)
EXTENDS Integers, SequencesExt

CONSTANTS
  Items,   \* the addresses malloc may give to a struct list_item
  Data,    \* what an item may hold, ordered by the comparator
  NULL

VARIABLES
  contents,  \* the items from first to last
  data,      \* data[i]: what item i holds, NULL until it is used
  cursor     \* the item the iterator points at, NULL when at none

vars == <<contents, data, cursor>>

Init ==
  /\ contents = << >>
  /\ data = [i \in Items |-> NULL]
  /\ cursor = NULL

Fresh == Items \ ToSet(contents)
Positions == 1..Len(contents)
Here(n) == n \in Positions /\ contents[n] = cursor

Place(n, i) == contents' = InsertAt(contents, n, i) /\ UNCHANGED cursor
Insert(n, i, d) == Place(n, i) /\ data' = [data EXCEPT ![i] = d]

AddFirst(i, d) == Insert(1, i, d)
AddLast(i, d) == Insert(Len(contents) + 1, i, d)

\* Next to the iterator.
PlaceAfter(i) == \E n \in Positions : Here(n) /\ Place(n + 1, i)
PlaceBefore(i) == \E n \in Positions : Here(n) /\ Place(n, i)

AddAfter(i, d) == PlaceAfter(i) /\ data' = [data EXCEPT ![i] = d]
AddBefore(i, d) == PlaceBefore(i) /\ data' = [data EXCEPT ![i] = d]

\* Anywhere that keeps the order.
Ordered(s, held) ==
  /\ \A n \in 1..Len(s) : held[s[n]] \in Data
  /\ \A m, n \in 1..Len(s) : m < n => held[s[m]] <= held[s[n]]

AddOrdered(i, d) ==
  /\ Ordered(contents, data)
  /\ \E n \in 1..(Len(contents) + 1) : Insert(n, i, d)
  /\ Ordered(contents', data')

ListRemoveFirst ==
  contents # << >> /\ contents' = Tail(contents) /\ UNCHANGED <<data, cursor>>
ListRemoveLast ==
  contents # << >> /\ contents' = Front(contents) /\ UNCHANGED <<data, cursor>>
Destroy ==
  contents' = << >> /\ cursor' = NULL /\ UNCHANGED data

\* The iterator goes on to the next item.
RemoveHere ==
  /\ \E n \in Positions :
       /\ Here(n)
       /\ contents' = RemoveAt(contents, n)
       /\ cursor' = IF n = Len(contents) THEN NULL ELSE contents[n + 1]
  /\ UNCHANGED data

Point(newCursor) == cursor' = newCursor /\ UNCHANGED <<contents, data>>

SetIterator ==
  contents # << >> /\ (Point(contents[1]) \/ Point(Last(contents)))

MoveIterator ==
  \E n \in Positions :
    /\ Here(n)
    /\ \/ Point(IF n = Len(contents) THEN NULL ELSE contents[n + 1])
       \/ Point(IF n = 1 THEN NULL ELSE contents[n - 1])

\* The first or the last item that holds d, or none when there is none.
Holding(d) == {n \in Positions : data[contents[n]] = d}

Find(d) ==
  \/ Holding(d) = {} /\ Point(NULL)
  \/ \E n \in Holding(d) :
       /\ (\A m \in Holding(d) : n <= m) \/ (\A m \in Holding(d) : m <= n)
       /\ Point(contents[n])

Next ==
  \/ \E i \in Fresh, d \in Data :
       \/ AddFirst(i, d) \/ AddLast(i, d) \/ AddOrdered(i, d)
       \/ AddAfter(i, d) \/ AddBefore(i, d)
  \/ ListRemoveFirst \/ ListRemoveLast \/ RemoveHere \/ Destroy
  \/ SetIterator \/ MoveIterator
  \/ \E d \in Data : Find(d)

Spec == Init /\ [][Next]_vars

=============================================================================
