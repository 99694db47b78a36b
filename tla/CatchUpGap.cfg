CONSTANTS
  Threshold = 3
  Prefetch = 2
  Chunk = 2
  BatchSize = 2
  Base = 1
  MaxTip = 8
  MaxFailures = 2
SPECIFICATION Spec
INVARIANTS
  NoGapOnRestart
