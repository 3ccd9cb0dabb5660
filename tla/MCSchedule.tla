---------------------------- MODULE MCSchedule ------------------------------
(***************************************************************************)
(* Two days of four steps; rows within the morning, within the afternoon,  *)
(* across noon, switched off, and an invalid one; three calls of           *)
(* initScheduler in one process.                                           *)
(***************************************************************************)
EXTENDS Schedule

MCRow(b, e, a) == [start |-> b, stop |-> e, active |-> a]
MCRows == {MCRow(0, 1, TRUE), MCRow(1, 3, TRUE), MCRow(2, 3, FALSE), MCRow(3, 0, TRUE)}
MCFirstRow == [d \in Day |-> IF d = 0 THEN MCRow(2, 3, TRUE) ELSE MCRow(1, 2, FALSE)]
=============================================================================
