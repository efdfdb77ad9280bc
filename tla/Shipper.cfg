\* The shipper through a crash, and with every kind of line and answer.
SPECIFICATION MCSpec
CONSTANTS
  Labels <- TwoStreams
  LineKinds = {"valid"}
  Fits = {TRUE}
  MaxBatchRecords = 2
  AckWindow = 4
  AckCodes = {"ACCEPTED", "OVERLOADED", "INVALID"}
  SpoolCap = 9
  SpoolFaults = {"append", "corrupt"}
  PauseOutlastsAcks = TRUE
  RotateAfter = 9
  MaxLine = 2
  MaxFaults = 1
  MaxRestarts = 1
INVARIANT StateAligned
INVARIANT CheckpointIsSafe
INVARIANT NoneInLimbo
 
