SPECIFICATION Spec
CONSTANTS
  Name = {"none", "f", "g", "a", "b", "c", "d", "e"}
  Language = {"python", "rust"}
  Parsers = {"python"}
  Events <- MCEvents
INVARIANTS
  TypeOK
  NumbersAreTrue
  RecordsPointAtDefinitions
  ShownChangesAreReported
CHECK_DEADLOCK FALSE
