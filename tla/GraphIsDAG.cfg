SPECIFICATION Spec
CONSTANTS
  Name <- MCName
  Empty = ""
  UnknownQueue = "unknown"
  OwnDatabase <- MCOwnDatabase
  Traces <- MCCallbacks
  Changes <- MCChanges
  SeedType <- MCSeedType
  SeedCalls <- MCSeedCalls
  MaxBuilds = 2
INVARIANTS
  GraphIsDAG
CHECK_DEADLOCK FALSE
