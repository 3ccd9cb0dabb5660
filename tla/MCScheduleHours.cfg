CONSTANTS
  Days = 2
  HalfDay = 2
  Rows <- MCRows
  FirstRow <- MCFirstRow
  MaxInits = 3
SPECIFICATION Spec
INVARIANT TimersKeepTheHour
