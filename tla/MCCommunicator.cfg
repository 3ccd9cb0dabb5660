CONSTANTS
  Speeds <- MCSpeeds
  Readings <- MCReadings
  ReplyQueues = {q}
  Capacity = 1
  Lossy = TRUE
SPECIFICATION FairSpec
INVARIANTS TypeOK WheelsFollowDirection MotorsFollowOrder TurnsTheRightWay
PROPERTIES RelaySwitchedUnpowered ImplementsDrive InboxDrains
