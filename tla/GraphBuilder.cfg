SPECIFICATION Spec
CONSTANTS
  Name <- MCName
  Empty = ""
  UnknownQueue = "unknown"
  OwnDatabase <- MCOwnDatabase
  Traces <- MCTraces
  Changes <- MCChanges
  SeedType <- MCSeedType
  SeedCalls <- MCSeedCalls
  MaxBuilds = 2
INVARIANTS
  TypeOK
  EventsAreThisBuilds
  
CHECK_DEADLOCK FALSE
