SPECIFICATION Spec
CONSTANTS
  c1 = c1
  c2 = c2
  u1 = u1
  u2 = u2
  p1 = p1
  p2 = p2
  NoSession = NoSession
  Client = {c1, c2}
  Account = {u1, u2}
  Email = {"e"}
  Password = {p1, p2}
  Role <- MCRole
  Browser = {c1}
  Base = {"b"}
  Name = {"x", "y"}
  Description = {"", "x"}
  MaxWrites = 3
SYMMETRY Symmetry
INVARIANTS
  TypeOK
  OneAccountPerEmail
  SessionOpensAgain
PROPERTIES
  SerialUpdateIsExact
  RevivedOnlyByOverlap
