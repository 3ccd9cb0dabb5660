CONSTANTS
  FullSpeed = 245
  Wires <- MCWires
  BwfLimit = 400
  GoHomeOffset = 600
  GoHomeHysteres = 10
  NegNarrow = 100
  PosNarrow = 80
  NegWide = 200
  PosWide = 170
  Buttons <- MCButtons
  TimerBound = 3
  HomeBound = 1
  MaxDisturbances = 2
SPECIFICATION Spec
INVARIANTS TypeOK ManoeuvreGoesOn OneManoeuvre NotIntoTheObstacle
PROPERTIES MowsAgain
