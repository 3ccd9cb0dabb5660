------------------------------- MODULE MCList -------------------------------
(***************************************************************************)
(* Clients of List for TLC.                                                *)
(***************************************************************************)
EXTENDS List, TLC

CONSTANTS i1, i2, i3

MCItems == {i1, i2, i3}
MCSymmetry == Permutations(MCItems)

\* Three, so that an ordered list has an inside.
MCData == {1, 2, 3}
\* Bound: the others do with two.
MCTwoOfThem == "add_ordered" \in calls \/ \A i \in Items : data[i] # 3

\* cli.c: an ordered list of commands.
Commands == {"add_ordered", "find", "set_first", "move_next", "remove_at", "destroy"}
\* modules.c, config.c, test.c and more: all but the removals at the ends.
Inner == {"add_last", "add_first", "add_after", "add_before", "set_first", "set_last",
          "move_next", "move_previous", "remove_at", "destroy"}
\* Queues: in at one end, out at the other, read in that direction.
In == {"add_last", "remove_first", "find", "set_first", "move_next"}
Out == {"add_first", "remove_last", "find_reverse", "set_last", "move_previous"}

MCClients == {Commands, Inner, In, Out}
=============================================================================
