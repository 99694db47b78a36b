CONSTANTS
  StartHeight = 2
  QueueLength = 1
  MaxTip = 3
  MaxReorgs = 0
  MaxFailures = 0
SPECIFICATION Spec
INVARIANT NothingBelowStart
