--------------------------- MODULE MCCommunicator ---------------------------
(***************************************************************************)
(* The instance of Communicator for TLC.                                   *)
(***************************************************************************)
EXTENDS Communicator

\* Above the clamp, below it, and one that the CLI accepts and a byte does not.
MCSpeeds == {300, 90, -1}

\* The thread passes a reading on; it never looks at it.
MCReadings == {500}
=============================================================================
