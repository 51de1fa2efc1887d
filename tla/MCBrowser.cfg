SPECIFICATION Spec
CONSTANTS
  Person = {"ann", "bob"}
  NoUser = "nobody"
  Scenarios <- MCScenarios
  MaxDocs = 2
  Call = {1, 2}
  Tick = {1, 2}
\* The users have logged in often enough.
CHECK_DEADLOCK FALSE
INVARIANTS
  TypeOK
  ShownUserOwnsToken
  UnfinishedIsWatched
PROPERTIES
  SessionKept
  ShownSettles
