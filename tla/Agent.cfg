\* The agent: its pipeline of goroutines through every shutdown interleaving,
\* in both joiner modes, and the liveness of its shipper.
SPECIFICATION MCSpec
CONSTANTS
  Sources <- MCSources
  Setups <- MCSetups
  StdinSources <- MCStdinSources
  MayWedge = TRUE
  QueueCapacity = 1
  HandoffCap = 1
  MaxFaults = 1
  MaxMessageLen = 4
  MaxLines = 2
  MaxBatchRecords = 1
  AckWindow = 2
  MaxLine = 3
  MaxShipperFaults = 2
  MaxRestarts = 1
INVARIANT NoPanic
INVARIANT RecordsAreWhole
INVARIANT StopsHonestly
PROPERTY AckDiscipline
 
CHECK_DEADLOCK FALSE
