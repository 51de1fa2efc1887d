SPECIFICATION Spec
CONSTANTS
  MaxTurns = 2
  MaxCalls = 1
  MaxTokens = 2
  MaxVotes = 2
  FaultModels <- MCFaultModels
  Namings <- MCNamings
\* The user may stop asking.
CHECK_DEADLOCK FALSE
INVARIANTS
  TypeOK
  ToldIsLogged
  AskingIffStreaming
  ShownVoteIsStored
  TurnIsFed
PROPERTIES
  SettledTurnKeepsAnswer
  TurnEnds
  ImplementsTranscript
