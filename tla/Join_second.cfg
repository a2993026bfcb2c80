SPECIFICATION Spec
CONSTANTS
  Thread = {t1, t2, t3}
  Null = Null
  Windows = {}
INVARIANT NobodyLeftWaiting
CHECK_DEADLOCK FALSE
