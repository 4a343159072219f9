SPECIFICATION Spec
CONSTANTS
  Node <- MCNode
  TypeOf <- MCTypeOf
  Incidents <- MCIncidents
  Evidence <- MCEvidence
  MAX_ITERATIONS = 3
  TopK = 2
  EngineFaults = {"db"}
  ScanFaults = {"pay"}
INVARIANT
  TwoDomainsAreMultiFactor
