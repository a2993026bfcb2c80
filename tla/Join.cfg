SPECIFICATION FairSpec
CONSTANTS
  Thread = {t1, t2, t3}
  Null = Null
  Windows = {"linked", "leave", "take"}
INVARIANTS TypeOK JoinsListed WaitedFor ValueOnce
PROPERTY JoinReturns
CHECK_DEADLOCK FALSE
