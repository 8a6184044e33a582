CONSTANTS
  Bits = 4
  Samples <- MCSamples
SPECIFICATION PairsSpec
INVARIANT AgreesWithWasm
CHECK_DEADLOCK FALSE
