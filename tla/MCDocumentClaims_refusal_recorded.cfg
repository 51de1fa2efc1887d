SPECIFICATION Spec
CONSTANTS
  d1 = d1
  d2 = d2
  h1 = h1
  h2 = h2
  w1 = w1
  w2 = w2
  NoDoc = NoDoc
  Doc <- OneDoc
  Pieces <- PiecesOfOne
  Handler <- OneHandler
  Worker <- OneWorker
  Capacity = 1
  MaxRetries = 3
  MaxReindex = 0
  FaultModels <- ClientsLeave
INVARIANTS
  RefusalIsRecorded
