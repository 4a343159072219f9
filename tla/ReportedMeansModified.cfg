SPECIFICATION Spec
CONSTANTS
  Name = {"none", "f", "g", "a", "b", "c", "d", "e"}
  Language = {"python", "rust"}
  Parsers = {"python"}
  Events <- MCRemovals
INVARIANTS
  ReportedMeansModified
CHECK_DEADLOCK FALSE
