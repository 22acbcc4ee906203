SPECIFICATION Spec
CONSTANTS
  c1 = c1
  c2 = c2
  r1 = r1
  Call = {c1, c2}
  Reader = {r1}
  TTL <- MCTTL
  StaleBuffer = 1
  Tries = 2
  NoItem = NoItem
  Missing = Missing
  Failure = Failure
  MaxTime = 3
SYMMETRY MCSymmetry
INVARIANTS RedisInv AcknowledgedWins CopiesTogether StaleKept
CHECK_DEADLOCK FALSE
