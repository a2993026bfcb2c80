CONSTANTS
  N = 3
  Quantum <- RealQuantum
  Budget = 12
  AgeLimit = 5
  SkipUnfit = FALSE
  Windows = {"test"}
  StaleMemory = FALSE
SPECIFICATION FairSpec
INVARIANTS TypeOK QueuedOnce TailEndsList ContextsIntact FiledByPriority StaysUp
PROPERTIES KeepsPromise NoStarvation
