SPECIFICATION Spec
CONSTANTS
  Databases <- MCDatabases
  Dependencies <- MCDependencies
  Priorities <- MCPriorities
INVARIANTS
  TypeOK
  TypeRestsOnEvidence
  OnlyTheWindowCounts
  WorstDecides
