SPECIFICATION AccessSpec
CONSTANTS
  a1 = a1
  a2 = a2
  proxy = proxy
  r1 = r1
  r2 = r2
  r3 = r3
  Request = {r1, r2, r3}
  Address = {a1, a2, proxy}
  NoAddress = NoAddress
  Rate = 2
  Cost = 3
  RateBurst = 2
  NoBucket = NoBucket
  MaxTime = 2
  Config <- MCConfig
  Proxy = proxy
  Forwarded <- MCForwarded
  Ways <- MCWays
  Blank = Blank
  Invalid = Invalid
  FirstBits = {proxy}
  Untold = Untold
SYMMETRY MCSymmetry
INVARIANTS AccessInv WithinRate LimitInv ListDecides OriginLimited
PROPERTIES ImplementsAllowance
CHECK_DEADLOCK FALSE
