CONSTANTS
  c1 = c1  c2 = c2  read = read
  Callers = {c1, c2}
  Kinds = {read}
  Masters <- LiveMasters
  MaxTid = 1
  ChanCap = 1
  StartOpen = TRUE
  AllowCancel = TRUE
  MaxCalls = 2
  MaxOpens = 1
SPECIFICATION FairSpec
PROPERTIES CallReturns ClosedIsQuiet
CHECK_DEADLOCK FALSE
