SPECIFICATION FairSpec
CONSTANTS
  r1 = r1
  r2 = r2
  Request = {r1, r2}
  MaxSignals = 3
INVARIANTS LifeInv HandlersFinishFirst CleanExit
PROPERTIES Stops
CHECK_DEADLOCK FALSE
