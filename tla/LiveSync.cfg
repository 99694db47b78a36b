CONSTANTS
  StartHeight = 1
  QueueLength = 2
  MaxTip = 4
  MaxReorgs = 1
  MaxFailures = 2
SPECIFICATION Spec
INVARIANTS
  TypeOK
  StaleOnlyReorged
  GapHasCause
PROPERTY TipReached
