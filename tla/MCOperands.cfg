CONSTANTS
  Local = {x, y}
  TempSlots = 4
  Menus <- MCMenus
  Size = 7
  Special = {}
SPECIFICATION Spec
INVARIANTS TypeOK OperandsExact SlotsAccounted
