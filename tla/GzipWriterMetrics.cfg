SPECIFICATION Spec
CONSTANTS
  r1 = r1
  r2 = r2
  g1 = g1
  g2 = g2
  Request = {r1}
  Writer = {g1}
  Handler <- MCHandlers
  Sizes = {1, 2}
  MinSize = 2
  None = None
SYMMETRY MCSymmetry
INVARIANTS DecodesOnce
CHECK_DEADLOCK FALSE
