CONSTANTS
  t1 = t1
  t2 = t2
  pay = pay
  gather = gather
  last = last
  a1 = a1
  a2 = a2
  b1 = b1
  b2 = b2
  p1 = p1
  l1 = l1
  Tx <- MCTx
  Out <- MCOut
  Creator <- MCCreator
  Spends <- MCSpends
  Addressed <- MCAddressed
  MaxEntries = 3
SPECIFICATION Spec
INVARIANTS
  TypeOK
  RefcountExact
  CacheBounded
  CachedAreUnspent
  ResolutionExact
