SPECIFICATION Spec
CONSTANTS
  zero = zero
  junk = junk
  a = a
  PageUnits = 2
  InitialPages = 1
  MaxPages = 4
  RegionPages = 5
  Starts = {0, 3}
  Ends = {0, 9}
  Sizes = {1, 2, 3}
  Data <- MCData
  Zero = zero
  Junk = junk
INVARIANTS TypeOK Tiled Linked InRange FreeRunsServe
PROPERTY KeepsPromise
CHECK_DEADLOCK FALSE
