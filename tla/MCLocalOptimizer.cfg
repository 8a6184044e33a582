SPECIFICATION Spec
CONSTANTS
  r0 = r0
  r1 = r1
  s0 = s0
  s1 = s1
  SP = SP
  BP = BP
  NoConstant = NoConstant
  NoMove = NoMove
  General <- MCGeneral
  Slot <- MCSlot
  Word <- MCWord
  FoldOps <- MCFoldOps
  Fold <- MCFold
  FactLimit = 1
  NumberBound = 5
SYMMETRY MCSymmetry
CHECK_DEADLOCK FALSE
INVARIANTS
  TypeOK
  Equivalent
  EqualNumbersEqualWords
  KnownConstantsHold
