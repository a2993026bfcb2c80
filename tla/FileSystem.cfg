SPECIFICATION Spec
CONSTANTS
  Caller = {c1, c2}
  Name = {x}
  NInodes = 5
  NData = 3
  MapSpan = 2
  PerBlock = 2
  NSlots = 2
SYMMETRY Symmetry
CONSTRAINT UntilRaced
INVARIANTS TypeOK EntriesAllocated OneOwner CreatedKept EntriesComplete
