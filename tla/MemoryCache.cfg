SPECIFICATION FairSpec
CONSTANTS
  k1 = k1
  k2 = k2
  v1 = v1
  Key = {k1, k2}
  Value = {v1}
  TTL <- MCTTL
  StaleBuffer = 1
  NoItem = NoItem
  MaxTime = 4
INVARIANTS
  CacheInv
PROPERTIES
  LosesOnlyCondemned
  Reclaimed
  CleanerExits
