CONSTANTS
  N = 3
  Quantum <- RealQuantum
  Budget = 6
  AgeLimit = 4
  SkipUnfit = FALSE
  Windows = {"test", "head", "link", "tail", "switch"}
  StaleMemory = TRUE
SPECIFICATION Spec
INVARIANTS RunningIsCurrent SliceAccounting SchedulerInv
