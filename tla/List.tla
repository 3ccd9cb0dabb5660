-------------------------------- MODULE List --------------------------------
(***************************************************************************)
(* raspberry_pi/utils/list.c: the doubly linked list behind the CLI, the   *)
(* phases of modules.c and the configuration, with one iterator on it.     *)
(* Items are addresses, so that a freed one may come back from malloc, and *)
(* a freed struct keeps its fields until then.                             *)
(*                                                                         *)
(* A client makes some of the calls only: `calls' names them.              *)
(***************************************************************************)
EXTENDS Integers, SequencesExt

CONSTANTS
  Items,    \* the addresses malloc may give to a struct list_item
  Data,     \* what an item may hold, ordered by the comparator
  NULL,
  Clients,  \* the sets of calls that clients make
  MaxCount  \* bound of the counter `items'

ASSUME ListAssumption ==
  /\ IsFiniteSet(Items) /\ Data \subseteq Int
  /\ NULL \notin Items /\ NULL \notin Data
  /\ MaxCount \in Nat

\* Who removes at an end leaves the neighbour there a stale link, and therefore
\* adds at the other end and walks from there; who adds in order adds in no
\* other way.
FirstOut == {"add_last", "add_after", "remove_first", "destroy",
             "find", "set_first", "set_last", "move_next"}
LastOut == {"add_first", "add_before", "remove_last",
            "find_reverse", "set_first", "set_last", "move_previous"}
ASSUME ClientAssumption ==
  \A c \in Clients :
    \/ c \subseteq FirstOut \/ c \subseteq LastOut
    \/ /\ c \cap {"remove_first", "remove_last"} = {}
       /\ "add_ordered" \in c =>
            c \cap {"add_last", "add_first", "add_after", "add_before"} = {}

VARIABLES
  live,            \* the items that are allocated
  next, previous,  \* struct list_item
  data,
  first, last,     \* struct list
  items,
  cursor,          \* struct list_iterator: item
  calls            \* the client's; never changes

links == <<next, previous, first, last>>
vars == <<live, links, data, items, cursor, calls>>

Init ==
  /\ live = {}
  /\ next = [i \in Items |-> NULL] /\ previous = [i \in Items |-> NULL]
  /\ data = [i \in Items |-> NULL]
  /\ first = NULL /\ last = NULL
  /\ items = 0
  /\ cursor = NULL
  /\ calls \in Clients

-----------------------------------------------------------------------------
\* list_create_item, list_add_after, list_add_before: the links of the new
\* item n, and of its neighbours.  A stale link may lead to n itself.

LinkAfter(e, n) ==
  /\ next' = [next EXCEPT ![n] = next[e], ![e] = n]
  /\ previous' = [i \in Items |-> IF i = n THEN e
                                  ELSE IF i = next[e] THEN n ELSE previous[i]]

\* Mutant: the item before e keeps its link to e.
LinkBeforeOneWay(e, n) ==
  /\ previous' = [previous EXCEPT ![n] = previous[e], ![e] = n]
  /\ next' = [next EXCEPT ![n] = e]

LinkBefore(e, n) ==
  /\ previous' = [previous EXCEPT ![n] = previous[e], ![e] = n]
  /\ next' = [i \in Items |-> IF i = n THEN e
                              ELSE IF i = previous[e] THEN n ELSE next[i]]

LinkAlone(n) ==
  /\ next' = [next EXCEPT ![n] = NULL]
  /\ previous' = [previous EXCEPT ![n] = NULL]
  /\ first' = n /\ last' = n

\* malloc gives an item that is not in use, and the counter grows.
Allocate(n, d, counted) ==
  /\ n \notin live
  /\ live' = live \cup {n}
  /\ data' = [data EXCEPT ![n] = d]
  /\ items + counted <= MaxCount
  /\ items' = items + counted

\* list_add_last and list_add_first count the item they have linked to
\* another one twice.
AddLast(n, d) ==
  /\ "add_last" \in calls
  /\ \/ first = NULL /\ LinkAlone(n) /\ Allocate(n, d, 1)
     \/ /\ first # NULL
        /\ LinkAfter(last, n) /\ last' = n /\ UNCHANGED first
        /\ Allocate(n, d, 2)
  /\ UNCHANGED cursor

\* Mutant: `first' stays where it was.
AddFirstKeepingFirst(n, d) ==
  /\ "add_first" \in calls
  /\ \/ first = NULL /\ LinkAlone(n) /\ Allocate(n, d, 1)
     \/ /\ first # NULL
        /\ LinkBefore(first, n) /\ UNCHANGED <<first, last>>
        /\ Allocate(n, d, 2)
  /\ UNCHANGED cursor

AddFirst(n, d) ==
  /\ "add_first" \in calls
  /\ \/ first = NULL /\ LinkAlone(n) /\ Allocate(n, d, 1)
     \/ /\ first # NULL
        /\ LinkBefore(first, n) /\ first' = n /\ UNCHANGED last
        /\ Allocate(n, d, 2)
  /\ UNCHANGED cursor

\* The calls on the iterator do not use their parameter `data': the item keeps
\* what list_create_item gave it.
AddAfterIterator(n) ==
  /\ "add_after" \in calls
  /\ cursor \in live
  /\ LinkAfter(cursor, n)
  /\ last' = IF cursor = last THEN n ELSE last
  /\ Allocate(n, NULL, 2)
  /\ UNCHANGED <<first, cursor>>

AddBeforeIterator(n) ==
  /\ "add_before" \in calls
  /\ cursor \in live
  /\ LinkBefore(cursor, n)
  /\ first' = IF cursor = first THEN n ELSE first
  /\ Allocate(n, NULL, 2)
  /\ UNCHANGED <<last, cursor>>

-----------------------------------------------------------------------------
\* Walks along the links.

\* The items met on the way from `start', at most one more than there are.
Walk(link, start) ==
  LET w[n \in 0..Cardinality(Items)] ==
        IF n = 0 THEN IF start = NULL THEN << >> ELSE <<start>>
        ELSE LET before == w[n - 1]
             IN IF before = << >> \/ link[Last(before)] = NULL THEN before
                ELSE Append(before, link[Last(before)])
  IN w[Cardinality(Items)]

Forward == Walk(next, first)
Backward == Walk(previous, last)

\* The loop of list_add_ordered: go on while d is greater, stop before the
\* first item that is, stop with err_ALREADY_IN_LIST at an equal one; but when
\* the item it stops at is the last, add after it all the same.
\* Mutant: an item that is equal or greater goes first.
AddOrderedFirst(n, d) ==
  /\ "add_ordered" \in calls
  /\ \/ first = NULL /\ LinkAlone(n) /\ Allocate(n, d, 1)
     \/ /\ first # NULL /\ d >= data[first]
        /\ LinkBefore(first, n) /\ first' = n /\ UNCHANGED last
        /\ Allocate(n, d, 1)
     \/ /\ first # NULL /\ d < data[first]
        /\ LinkAfter(last, n) /\ last' = n /\ UNCHANGED first
        /\ Allocate(n, d, 1)
  /\ UNCHANGED cursor

AddOrdered(n, d) ==
  /\ "add_ordered" \in calls
  /\ LET stop == SelectInSeq(Forward, LAMBDA i : d <= data[i])
         e == Forward[stop]
     IN \/ first = NULL /\ LinkAlone(n) /\ Allocate(n, d, 1)
        \/ /\ first # NULL /\ stop # 0 /\ d < data[e]
           /\ LinkBefore(e, n) /\ UNCHANGED last
           /\ first' = IF first = e THEN n ELSE first
           /\ Allocate(n, d, 1)
        \/ /\ first # NULL
           /\ IF stop = 0 THEN TRUE ELSE d = data[e] /\ next[e] = NULL
           /\ LinkAfter(last, n) /\ last' = n /\ UNCHANGED first
           /\ Allocate(n, d, 1)
  /\ UNCHANGED cursor

\* list_find_item, list_find_item_reverse
FirstOn(way, d) ==
  LET at == SelectInSeq(way, LAMBDA i : data[i] = d)
  IN IF at = 0 THEN NULL ELSE way[at]

Find(d) ==
  /\ first # NULL
  /\ \/ "find" \in calls /\ cursor' = FirstOn(Forward, d)
     \/ "find_reverse" \in calls /\ cursor' = FirstOn(Backward, d)
  /\ UNCHANGED <<live, links, data, items>>

-----------------------------------------------------------------------------
\* The neighbours of a removed item at an end keep their links to it.

ListRemoveFirst ==
  /\ "remove_first" \in calls
  /\ first # NULL
  /\ first' = next[first]
  /\ last' = IF next[first] = NULL THEN NULL ELSE last
  /\ live' = live \ {first}
  /\ items' = items - 1
  /\ UNCHANGED <<next, previous, data, cursor>>

ListRemoveLast ==
  /\ "remove_last" \in calls
  /\ last # NULL
  /\ last' = previous[last]
  /\ first' = IF previous[last] = NULL THEN NULL ELSE first
  /\ live' = live \ {last}
  /\ items' = items - 1
  /\ UNCHANGED <<next, previous, data, cursor>>

\* Mutant: the item is counted off twice.
RemoveAtIteratorTwice ==
  /\ "remove_at" \in calls
  /\ cursor \in live
  /\ LET after == next[cursor]
         before == previous[cursor]
     IN /\ cursor' = after
        /\ previous' = [i \in Items |-> IF i = after THEN before ELSE previous[i]]
        /\ next' = [i \in Items |-> IF i = before THEN after ELSE next[i]]
        /\ first' = IF first = cursor THEN after ELSE first
        /\ last' = IF last = cursor THEN before ELSE last
  /\ live' = live \ {cursor}
  /\ items' = items - 2
  /\ UNCHANGED data

RemoveAtIterator ==
  /\ "remove_at" \in calls
  /\ cursor \in live
  /\ LET after == next[cursor]
         before == previous[cursor]
     IN /\ cursor' = after
        /\ previous' = [i \in Items |-> IF i = after THEN before ELSE previous[i]]
        /\ next' = [i \in Items |-> IF i = before THEN after ELSE next[i]]
        /\ first' = IF first = cursor THEN after ELSE first
        /\ last' = IF last = cursor THEN before ELSE last
  /\ live' = live \ {cursor}
  /\ items' = items - 1
  /\ UNCHANGED data

\* list_destroy: list_remove_first until the list is empty; then a new list
\* and a new iterator.
Destroy ==
  /\ "destroy" \in calls
  /\ live' = live \ ToSet(Forward)
  /\ first' = NULL /\ last' = NULL /\ items' = 0 /\ cursor' = NULL
  /\ UNCHANGED <<next, previous, data>>

SetIterator ==
  /\ first # NULL /\ last # NULL
  /\ \/ "set_first" \in calls /\ cursor' = first
     \/ "set_last" \in calls /\ cursor' = last
  /\ UNCHANGED <<live, links, data, items>>

MoveIterator ==
  /\ cursor \in live
  /\ \/ "move_next" \in calls /\ cursor' = next[cursor]
     \/ "move_previous" \in calls /\ cursor' = previous[cursor]
  /\ UNCHANGED <<live, links, data, items>>

Call ==
  \/ \E n \in Items, d \in Data : AddLast(n, d) \/ AddFirst(n, d) \/ AddOrdered(n, d)
  \/ \E n \in Items : AddAfterIterator(n) \/ AddBeforeIterator(n)
  \/ ListRemoveFirst \/ ListRemoveLast \/ RemoveAtIterator \/ Destroy
  \/ SetIterator \/ MoveIterator
  \/ \E d \in Data : Find(d)

Next == Call /\ UNCHANGED calls

Spec == Init /\ [][Next]_vars

-----------------------------------------------------------------------------
(***************************************************************************)
(* Properties.                                                             *)
(***************************************************************************)

Link == Items \cup {NULL}

\* The type of every variable.
TypeOK ==
  /\ live \subseteq Items
  /\ next \in [Items -> Link] /\ previous \in [Items -> Link]
  /\ data \in [Items -> Data \cup {NULL}]
  /\ first \in Link /\ last \in Link /\ cursor \in Link
  /\ items \in -MaxCount..MaxCount
  /\ calls \in Clients

\* Both walks meet the items in use, all of them and each once, and they meet
\* them in opposite orders, as long as nobody removes at the ends.
WalksAgree ==
  calls \cap {"remove_first", "remove_last"} = {} =>
    /\ Backward = Reverse(Forward)
    /\ IsInjective(Forward)
    /\ ToSet(Forward) = live

\* list_add_ordered keeps its list in order, with removals in between.
SortedList ==
  "add_ordered" \in calls =>
    \A m, n \in 1..Len(Forward) : m < n => data[Forward[m]] <= data[Forward[n]]

\* A client that removes at the end reads from there.
AsRead == IF "remove_last" \in calls THEN Reverse(Backward) ELSE Forward

View == INSTANCE AbstractList WITH contents <- AsRead

\* To its client the list is the sequence that list.h offers, and every item
\* holds the data that came with the call that added it.
IsTheSequence == View!Spec

AddsBeside(n) == AddAfterIterator(n) \/ AddBeforeIterator(n)

\* In spite of the links left behind to freed items every call but those that
\* add at the iterator is a step of that sequence, also when such items are in
\* it, and those put their item on the right side of the iterator.
KeepsTheSequence ==
  /\ View!Init
  /\ [][(\A n \in Items : ~AddsBeside(n)) => View!Next]_(View!vars)
  /\ [][\A n \in Items :
          /\ AddAfterIterator(n) => n \in View!Fresh /\ View!PlaceAfter(n)
          /\ AddBeforeIterator(n) => n \in View!Fresh /\ View!PlaceBefore(n)]_(View!vars)

=============================================================================
