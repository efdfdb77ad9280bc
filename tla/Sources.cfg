\* The agent's file and container sources.
SPECIFICATION MCSpec
CONSTANTS
  Inodes = {1, 2}
  HeadLen = 2
  MaxMessageLen = 2
  ReadMax = 4
  OneRotationAtATime = TRUE
  MaxParts = 3
  MaxUnits = 3
  MaxEvents = 2
  LongUnits = 4
  LongEvents = 1
  Second = 2
  MaxLines = 3
  MaxCuts = 2
  MaxRestarts = 1
INVARIANT TailLosesNothing
INVARIANT ReplayIsStable
INVARIANT ContainerLosesNothing
PROPERTY RewritesNoticed
PROPERTY SourcesCatchUp
CHECK_DEADLOCK FALSE
