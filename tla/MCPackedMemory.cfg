SPECIFICATION FairSpec
CONSTANTS
  zero = zero
  one = one
  Byte = {zero, one}
  Zero = zero
  PageWords = 1
  InitialPages = 1
  MaxPages = 2
  RamWords = 4
  Base = 1
  Images <- MCImages
  Addresses = {0, 1, 3, 4}
  Stores <- MCStores
  Modulus = 32
  Arguments = {0, 1, 3, 9, 31}
  Leftovers <- MCLeftovers
  Overruns = FALSE
INVARIANT TypeOK
PROPERTIES OutsideUntouched HelpersReturn KeepsPromise
CHECK_DEADLOCK FALSE
