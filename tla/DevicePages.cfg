CONSTANTS
  Ids = {0, 9, 128, 255}
  Sizes = {118, 241, 243, 246}
  Codes = {1, 3, 4, 5}
  Starts = {0, 3, 7}
  MaxChanges = 1
SPECIFICATION FairPagingSpec
INVARIANTS NothingIsSkipped PagesAreFramed
PROPERTIES PagingEnds
CHECK_DEADLOCK FALSE
