----------------------------- MODULE MCMotorFSM -----------------------------
EXTENDS MotorFSM

\* On top of the move forward that the service begins with.
MCRequests ==
  {MoveEvent(FullSpeed, FullSpeed, "LEFT"), IncrementEvent("BACKWARD"),
   CutterUp, CutterDown}
=============================================================================
