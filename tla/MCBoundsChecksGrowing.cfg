SPECIFICATION Spec
CONSTANTS
  p = p
  q = q
  none = none
  Local = {p}
  Words = 8
  LinearBytes = 4
  InitialBytes = 2
  Lengths = {2, 4}
  MemoryCanGrow = TRUE
  WordBytes = 2
  Widths = {1, 2}
  Offsets = {0, 3}
  Literals = {6}
  Results = {3, 6}
  Foreign = {1}
  MaxChecked = 2
  MaxPending = 2
  AssignsOperands = FALSE
  ReassignsAliases = FALSE
  InheritsIdentities = FALSE
  CrossesEnd = FALSE
  None = none
INVARIANT InBounds
CHECK_DEADLOCK FALSE
