CONSTANTS
  none = none
  Local = {0, 1, 2}
  Bits = 5
  Memory = 16
  Sizes = {12, 16}
  GroupLimit = 2
  Loops <- MCLoops
  Starts <- MCStarts
  Contents <- MCContents
SPECIFICATION Spec
INVARIANTS TypeOK UncheckedAccessesSafe LocalsAgree
CHECK_DEADLOCK FALSE
