SPECIFICATION Spec
CONSTANTS
  MaxTurns = 1
  MaxCalls = 0
  MaxTokens = 1
  MaxVotes = 1
  FaultModels <- NoMishap
  Namings <- SentNamings
CHECK_DEADLOCK FALSE
INVARIANTS
  FeedbackAfterDone
