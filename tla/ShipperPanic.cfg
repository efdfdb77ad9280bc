SPECIFICATION Spec
CONSTANTS
  Labels <- OneSource
  LineKinds = {"valid"}
  Fits = {TRUE}
  MaxBatchRecords = 1
  AckWindow = 4
  AckCodes = {"ACCEPTED"}
  SpoolCap = 9
  SpoolFaults = {}
  PauseOutlastsAcks = FALSE
  RotateAfter = 9
  MaxLine = 3
  MaxFaults = 2
  MaxRestarts = 1
INVARIANT ShutdownCompletes
