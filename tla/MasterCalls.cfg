CONSTANTS
  c1 = c1  c2 = c2  read = read
  Callers = {c1, c2}
  Kinds = {read}
  Masters <- CallsMasters
  MaxTid = 3
  ChanCap = 1
  StartOpen = TRUE
  AllowCancel = FALSE
  MaxCalls = 3
  MaxOpens = 0
SPECIFICATION Spec
SYMMETRY CallerSymmetry
INVARIANTS AwaitingIsArmed OwnResponse NotDropped
PROPERTIES ImplementsService
CHECK_DEADLOCK FALSE
