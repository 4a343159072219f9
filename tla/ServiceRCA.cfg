SPECIFICATION Spec
CONSTANTS
  Incidents <- MCIncidents
  FUNCTIONS <- MCFunctions
  DEPLOYS <- MCDeploys
  FILES <- MCFiles
INVARIANTS
  TypeOK
  EvidenceMatchesTelemetry
  OnlyAnswersCount
  SmokingGunDecides
  DomainMatchesEvidence
  FlagsAreAssessedFirst
