SPECIFICATION FrameSpec
CONSTANTS
  s0 = s0
  s1 = s1
  Slot <- MCSlot
  Word <- MCWord
  NodeCount = 4
  Programs <- MCPrograms
  SlotLimit = 2
  AliasedLoads = FALSE
CHECK_DEADLOCK FALSE
INVARIANTS
  FrameTypeOK
  SameRegisters
  LiveWordsAgree
PROPERTIES
  LiveSetsGrow
  PassReturns
