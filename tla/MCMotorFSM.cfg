CONSTANTS
  FullSpeed = 245
  Requests <- MCRequests
  MaxEvents = 2
  MaxLate = 1
  MaxFailures = 1
SPECIFICATION Spec
INVARIANTS TypeOK StateIsTheMotion
PROPERTIES SwitchedAtRest StopIsCarriedOut PostponedMovesSettle ShutdownEnds
CHECK_DEADLOCK FALSE
