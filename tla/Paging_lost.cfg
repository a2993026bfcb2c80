SPECIFICATION Spec
CONSTANTS
  Thread = {t1, t2}
  Free = Free
  NFrames = 3
  NSlots = 0
  FileSlots = 0
  MaxPages = 2
INVARIANT PagesKept
