SPECIFICATION Spec
CONSTANTS
  MaxLen = 6
  Texts <- MCTexts
  Settings <- MCSettings
\* Split returns.
CHECK_DEADLOCK FALSE
INVARIANTS
  TypeOK
  PiecesFit
  NothingLost
  ParagraphsAsSplit
  SharedOverlap
PROPERTIES
  Terminates
