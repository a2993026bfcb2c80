CONSTANTS
  Thread = {1, 2, 3, 4}
  Main = 1
SPECIFICATION HFairSpec
INVARIANTS OncePerRound BoundedOvertaking
PROPERTY ServedInTime
CHECK_DEADLOCK FALSE
