SPECIFICATION Spec
CONSTANTS
  r1 = r1
  r2 = r2
  f1 = f1
  f2 = f2
  f3 = f3
  k1 = k1
  k2 = k2
  Request = {r1, r2}
  Feed = {f1}
  Key = {k1}
  CacheKeyOf <- MCOneKeyOf
  TTL <- MCCached
  StaleBuffer = 1
  NoItem = NoItem
  MaxConcurrent = 1
  NoContent = NoContent
  MaxTime = 2
  MaxVersion = 0
PROPERTIES
  StaleMeansExpired
