\* The spool through crashes, failing file operations and power losses.
SPECIFICATION MCSpec
CONSTANTS
  Sizes = {1, 2}
  SegmentBytes = 3
  MaxBytes = 5
  CursorDurableInterval = 2
  MaxStops = 2
  MaxEntries = 4
  Faults = {"open", "persist"}
  PowerEntries = 3
  PowerFaults = {"power", "write", "remove"}
INVARIANT OrderKept
INVARIANT BookkeepingExact
INVARIANT ReleasesStick
PROPERTY CrashSafeFifo
