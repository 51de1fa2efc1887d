SPECIFICATION FairSpec
CONSTANTS
  j1 = j1
  j2 = j2
  w1 = w1
  w2 = w2
  NoJob = NoJob
  Job <- MCJob
  Worker <- MCWorker
  Capacity = 2
  MaxRetries = 3
INVARIANTS
  TypeOK
  NothingLeftBehind
PROPERTIES
  StopDrains
  AcceptedIsReceived
  StopReturns
