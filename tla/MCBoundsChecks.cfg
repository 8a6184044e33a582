SPECIFICATION Spec
CONSTANTS
  p = p
  q = q
  none = none
  Local = {p, q}
  Words = 8
  LinearBytes = 4
  InitialBytes = 4
  Lengths = {4}
  MemoryCanGrow = FALSE
  WordBytes = 2
  Widths = {1, 2}
  Offsets = {0, 2}
  Literals = {6}
  Results = {3}
  Foreign = {1}
  MaxChecked = 1
  MaxPending = 1
  AssignsOperands = FALSE
  ReassignsAliases = FALSE
  InheritsIdentities = FALSE
  CrossesEnd = FALSE
  None = none
INVARIANTS TypeOK FactsHold InBounds RightAddress TrapsJustified
CHECK_DEADLOCK FALSE
