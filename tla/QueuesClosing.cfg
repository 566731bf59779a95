CONSTANTS
  a = a  b = b
  Conns = {a}
  Modes = {"fifo", "concurrent"}
  ChanCap = 2
  AllowClose = TRUE
  MaxFrames = 3
  NoFrame = NoFrame
  MaxOpens = 1
SPECIFICATION FairSpec
INVARIANTS EntryIsDrained
PROPERTIES ServedOnce TakenIsServed
CHECK_DEADLOCK FALSE
