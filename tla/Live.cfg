CONSTANTS
  SemaN = 4
  SemaTimes = 1
  CondvarN = 3
  CondvarTimes = 2
  Proc = {"p1", "p2", "p3"}
  Obj = {"o1", "o2"}
  None = "none"
  MaxVer = 2
SPECIFICATION MCSpec
INVARIANTS
  SemaTable CondvarTable CacheInv
PROPERTIES
  AllFinish UnusedReclaimed
CHECK_DEADLOCK FALSE
