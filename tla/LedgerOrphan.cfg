CONSTANTS
  funding = funding
  transfer = transfer
  rival = rival
  child = child
  o1 = o1
  o2 = o2
  o3 = o3
  o4 = o4
  a1 = a1
  a2 = a2
  NoAddr = NoAddr
  NoTx = NoTx
  Tx <- MCTx
  Out <- MCOut
  Addr <- MCAddr
  Creator <- MCCreator
  Spends <- MCSpends
  Owner <- MCOwner
  Value <- MCValue
  MaxHeight = 3
  BatchSize = 2
  MaxBase = 1
SPECIFICATION Spec
INVARIANTS
  MempoolSpendLeavesUtxo
