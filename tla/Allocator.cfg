SPECIFICATION Spec
CONSTANTS
  Gone = Gone
  Kinds = {"thread", "library", "shared"}
  HeaderSize = 2
  PageSize = 4
  End = 15
  Sizes = {1, 3, 15}
  TotalPages = 4
CONSTRAINT UntilStray
INVARIANTS TypeOK BlocksDisjoint LiveListed Coalesced PagesCounted NothingLeaks
CHECK_DEADLOCK FALSE
