SPECIFICATION MetricsSpec
CONSTANTS
  r1 = r1
  r2 = r2
  f1 = f1
  f2 = f2
  f3 = f3
  k1 = k1
  k2 = k2
  Request = {r1, r2}
  Feed = {f1, f2, f3}
  Key = {k1, k2}
  CacheKeyOf <- MCCacheKeyOf
  TTL <- MCTTL
  StaleBuffer = 1
  NoItem = NoItem
  MaxConcurrent = 1
  NoContent = NoContent
  MaxTime = 4
  MaxVersion = 2
SYMMETRY Symmetry
INVARIANTS
  ServedOwnFeed
  MissIsFresh
  InstantWhenCached
  ServiceInv
  SlotAccounting
  GaugeBalanced
  CountersAgree
PROPERTIES
  RefreshIsFresh
  ErrorOnlyWithoutCopy
