CONSTANTS
  N = 4
  Quantum <- RealQuantum
  Budget = 12
  AgeLimit = 15
  SkipUnfit = FALSE
  Windows = {"test"}
  StaleMemory = FALSE
SPECIFICATION Spec
INVARIANT NeverHangs
