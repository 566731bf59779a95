CONSTANTS
  a = a  b = b
  Conns = {a, b}
  Modes = {"fifo"}
  ChanCap = 2
  AllowClose = FALSE
  MaxFrames = 3
  NoFrame = NoFrame
  MaxOpens = 1
SPECIFICATION Spec
SYMMETRY ConnSymmetry
INVARIANTS OneAtATime
PROPERTIES InOrder
CHECK_DEADLOCK FALSE
