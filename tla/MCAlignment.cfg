CONSTANTS
  p = p
  x = x
  y = y
  result = result
  Local = {p, x, y}
  Parameter = {p}
  Bits = 3
  Programs <- MCPrograms
SPECIFICATION Spec
INVARIANTS TypeOK FactsHold
PROPERTY Analysed
CHECK_DEADLOCK FALSE
