CONSTANTS
  Proc = {"p1", "p2", "p3"}
  Main = "p1"
  NV = 2
  Writable = {2}
  Cleared = {1}
  Page = {1, 2, 3, 4}
  Value = {"z", "x"}
  Zero = "z"
  NoMem = NoMem
  Task = {"p0", "p1", "p2"}
  First = "p0"
  NPage = 10
  NVirt = 2
  PerPt = 2
  PerPd = 2
  KSTACKPAGE = 1
  Programs <- FewPrograms
  Failures = {"proc", "mm", "vma", "files", "symbols", "read"}
SPECIFICATION MCSpec
INVARIANTS
  MmInv NoPageLost LoadInv CowInv
PROPERTIES
  PrivateMemory
CHECK_DEADLOCK FALSE
