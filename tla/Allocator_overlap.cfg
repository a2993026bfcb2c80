SPECIFICATION Spec
CONSTANTS
  Gone = Gone
  Kinds = {"thread"}
  HeaderSize = 2
  PageSize = 8
  End = 24
  Sizes = {1, 10}
  TotalPages = 4
INVARIANT Disjoint
CHECK_DEADLOCK FALSE
