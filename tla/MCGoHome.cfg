CONSTANTS
  FullSpeed = 245
  Wires <- MCHomeWires
  BwfLimit = 400
  GoHomeOffset = 600
  GoHomeHysteres = 10
  NegNarrow = 100
  PosNarrow = 80
  NegWide = 200
  PosWide = 170
  Buttons <- MCHomeButton
  TimerBound = 4
  HomeBound = 2
  MaxDisturbances = 1
SPECIFICATION Spec
PROPERTIES CenteredDrivesStraight
