------------------------------ MODULE MCServer ------------------------------
(***************************************************************************)
(* Three controllers for two mowers: the third is refused.  One read of    *)
(* the server takes one command of the two a controller may have sent.     *)
(***************************************************************************)
EXTENDS Server

CONSTANTS c1, c2, c3

MCOperated == {c1}
MCPending == [c \in Clients |-> CASE c = c1 -> 2 [] c = c2 -> 0 [] c = c3 -> 0]
MCWrites == [c \in Clients |->
  IF c = c1 THEN {[op |-> "motor", side |-> "left", value |-> 255]} ELSE {}]
=============================================================================
