CONSTANTS
  c1 = c1
  c2 = c2
  c3 = c3
  Clients = {c1, c2, c3}
  MaxMowers = 2
  Sock = 0
  Writes <- MCWrites
  Batch = 1
  Operated <- MCOperated
  MaxPending <- MCPending
SPECIFICATION FairSpec
INVARIANTS TypeOK RecordsMatchConnections NobodyIsForgotten AnswersAreOwed
PROPERTY AnswersArrive
CHECK_DEADLOCK FALSE
