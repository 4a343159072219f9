SPECIFICATION Spec
CONSTANTS
  Live <- MCLive
  Hero <- MCHero
  Others <- MCOthers
  MaxFetches = 4
  MaxLoads = 2
INVARIANTS
  TypeOK
  OneFetchPerIncident
  LoadingWhileInFlight
  ShowsLastReply
PROPERTIES
  ResultsStay
  Settles
