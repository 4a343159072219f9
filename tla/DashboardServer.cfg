SPECIFICATION Spec
CONSTANTS
  Series <- MCSeries
  SpanId = {"s1", "s2", "s3", "bad"}
  EventId = {"e1", "e2"}
  Now <- MCNow
  IncidentId = {"i"}
  FreshId = {"f1", "f2"}
  Offers <- MCOffers
  MaxRestarts = 1
INVARIANTS
  TypeOK
  FeedbackLasts
  ReadsAreRecent
  GarbageChangesNothing
CHECK_DEADLOCK FALSE
