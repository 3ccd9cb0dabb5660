CONSTANTS
  Speeds = {}
  ReplyQueues <- MCReplyQueues
  Readings <- MCReadings
  FailedReads <- MCNetFailure
  Capacity <- MCTight
  CliRequests <- MCCli
  MaxEvents = 1
  MaxCrashes = 1
SPECIFICATION FairSpec
INVARIANTS TypeOK DecisionsAlternate DriveFollowsMow StuckOnlyInCycle
PROPERTIES CarriedOutUnlessStuck FollowsTheWorld
CHECK_DEADLOCK FALSE
