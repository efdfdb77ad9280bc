SPECIFICATION Spec
CONSTANTS
  Sizes = {1, 2}
  SegmentBytes = 3
  MaxBytes = 5
  CursorDurableInterval = 2
  MaxEntries = 4
  MaxStops = 2
  Faults = {"power"}
INVARIANT NothingVanishes
