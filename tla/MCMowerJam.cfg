CONSTANTS
  Speeds = {}
  ReplyQueues <- MCReplyQueues
  Readings <- MCReadings
  FailedReads = {}
  Capacity <- MCTight
  CliRequests = {}
  MaxEvents = 1
  MaxCrashes = 0
SPECIFICATION FairSpec
PROPERTY DecisionsCarriedOut
CHECK_DEADLOCK FALSE
