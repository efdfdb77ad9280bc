SPECIFICATION FairSpec
CONSTANTS
  Messages <- WithPoison
  StreamOf <- TheStreams
  RecordsOf <- TheRecords
  Poison = {"m3"}
  MayAge = {"r1"}
  w1 = w1
  w2 = w2
  Workers = {w1, w2}
  QueueDepth = 1
  BatchSize = 2
  MaxAttempts = 1
  StreamCacheSize = 1
  CopyMode = "direct"
  MaxDeliveries = 3
  MaxFaults = 1
  MaxRestarts = 1
INVARIANT IInv
PROPERTY QueueDrains
CHECK_DEADLOCK FALSE
