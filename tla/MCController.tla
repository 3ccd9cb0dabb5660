---------------------------- MODULE MCController ----------------------------
(***************************************************************************)
(* One restart, a value besides the default one, two descriptors left, and *)
(* a file that is missing or was edited by hand.                           *)
(***************************************************************************)
EXTENDS Controller

MCDefault == [n \in Items |-> 1]
MCFiles ==
  {NoFile,
   FileOf(<<[name |-> Names[2], type |-> "unknown", value |-> 2],
            [name |-> "unknown", type |-> "int", value |-> 2],
            LineOf(Names[1], 3), LineOf(Names[1], 2)>>)}
=============================================================================
