CONSTANTS
  Default <- MCDefault
  Values = {2}
  Files <- MCFiles
  Transports = {"net", "i2c"}
  MaxFiles = 2
  MaxRestarts = 1
SPECIFICATION FairSpec
INVARIANTS TypeOK StartedInOrder SavedValuesReturn
PROPERTY NobodyWaitsForever
CHECK_DEADLOCK FALSE
