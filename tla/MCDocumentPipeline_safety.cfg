SPECIFICATION Spec
CONSTANTS
  d1 = d1
  d2 = d2
  h1 = h1
  h2 = h2
  w1 = w1
  w2 = w2
  NoDoc = NoDoc
  Doc <- OneDoc
  Pieces <- PiecesOfOne
  Handler <- TwoHandlers
  Worker <- TwoWorkers
  Capacity = 1
  MaxRetries = 2
  MaxReindex = 1
  FaultModels <- Anything
INVARIANTS
  TypeOK
  ChunkCountBacked
  IndexedIsSearchable
  SourceFileKept
  IndexingHasOwner
  NoOrphanObjects
PROPERTIES
  ImplementsLibrary
SYMMETRY Symmetric
