CONSTANTS
  main = main
  callee = callee
  other = other
  plain = plain
  binary = binary
  none = none
  Entry = main
  Fn <- MCFn
  Type <- MCType
  Inputs <- MCInputs
  MaxPages = 1
SPECIFICATION Spec
INVARIANTS TypeOK Linked SupportedOnly ImageKept
PROPERTY Finishes
CHECK_DEADLOCK FALSE
