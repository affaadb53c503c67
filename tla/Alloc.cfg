CONSTANTS
  N = 6
  MaxN = 2
  Fits = {"first", "best"}
  LeaveTop = TRUE
  UNIT = 2
  U = 6
  NPages = 4
  Sizes = {1, 6, 9, 12, 13}
  MaxHeld = 5
SPECIFICATION MCSpec
INVARIANTS
  FreeListInv SlobInv Lab2Inv
PROPERTIES
  PageManagerSpec
CHECK_DEADLOCK FALSE
