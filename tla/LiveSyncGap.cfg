CONSTANTS
  StartHeight = 1
  QueueLength = 2
  MaxTip = 3
  MaxReorgs = 0
  MaxFailures = 0
SPECIFICATION Spec
PROPERTY FallbackCompletes
