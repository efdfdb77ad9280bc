SPECIFICATION Spec
CONSTANTS
  Messages <- TwoStreams
  StreamOf <- TheStreams
  RecordsOf <- TheRecords
  Poison = {}
  MayAge = {}
  w1 = w1
  w2 = w2
  Workers = {w1, w2}
  QueueDepth = 1
  BatchSize = 3
  MaxAttempts = 2
  StreamCacheSize = 1
  CopyMode = "staging"
  MaxDeliveries = 3
  MaxFaults = 1
  MaxRestarts = 1
INVARIANT AckedIsDurable
INVARIANT OneTerminator
INVARIANT StreamsFirst
INVARIANT CleanShutdownSettles
INVARIANT DiscardNeedsSignal
SYMMETRY WorkerSymmetry
CHECK_DEADLOCK FALSE
