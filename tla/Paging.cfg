SPECIFICATION Spec
CONSTANTS
  Thread = {t1, t2, t3}
  Free = Free
  NFrames = 2
  NSlots = 3
  FileSlots = 1
  MaxPages = 2
SYMMETRY Symmetry
CONSTRAINT UntilMisfiled
INVARIANTS TypeOK NoPageLost Isolated OnePageEach GrantedPagesExist
