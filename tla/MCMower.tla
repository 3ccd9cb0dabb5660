------------------------------- MODULE MCMower -------------------------------
(***************************************************************************)
(* Instances of Mower for TLC.                                             *)
(***************************************************************************)
EXTENDS Mower

MCReplyQueues == {"range", "bwf"}

\* Clear, in the hysteresis (the range sensor), too close, next to the limits.
MCReadings == [s \in {"range", "bwf"} |->
                 IF s = "range" THEN {279, 280, 380} ELSE {945, 902}]

\* A failed read over the network leaves the buffer's zeroes.
MCNetFailure == {0}

MCTight == [q \in {"main", "comm", "range", "bwf"} |-> 1]

MCCli == {[op |-> "stop"]}
=============================================================================
