SPECIFICATION MCSpec
CONSTANTS
  MAX_PROCESS = 5
  MAX_PID = 8
  UserProcs = {a, b, c, d, e}
  idleproc = idle
  initproc = init
  NULL = NULL
  Timers = {t1, t2, t3}
  MaxSleep = 4
  Procs = {q1, q2, q3}
  Sems = {mutex, slots}
  mutex = mutex
  slots = slots
  Units <- LockUnits
INVARIANTS
  PidsUnique LinksInv UnitsInv DownAssert
PROPERTIES
  PidAllocSpec GetPidReturns CountdownSpec WaiterEnters
