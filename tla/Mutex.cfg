CONSTANTS
  Worker = {w1, w2, w3}
  Manager = {m}
  StaleDestroyed = TRUE
  IgnoreErrors = FALSE
  MaxId = 4
SPECIFICATION FairSpec
INVARIANTS MutualExclusion HandleIsId MutexInv
PROPERTIES UniqueIds Released
CHECK_DEADLOCK FALSE
