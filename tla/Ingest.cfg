SPECIFICATION MCSpec
CONSTANTS
  s1 = s1
  s2 = s2
  Streams = {s1, s2}
  Publishers = {p1, p2}
  BufferSize = 1
  MaxBatches <- MostBatches
  MaxBufs = 5
INVARIANT PayloadIntact
INVARIANT ShutdownOrdered
PROPERTY AckContract
PROPERTY ShutdownReturns
CHECK_DEADLOCK FALSE
