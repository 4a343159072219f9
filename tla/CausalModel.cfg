SPECIFICATION Spec
CONSTANTS
  Node <- MCNode
  Incidents <- MCIncidents
  Candidates <- MCCandidates
  TopK = 3
INVARIANTS
  TypeOK
  ExplainedByOtherRoots
  CulpritBeatsVictim
  CreditMatchesGuilt
  HopsAreShortest
