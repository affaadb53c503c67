SPECIFICATION Spec
CONSTANTS
  idleproc = idle
  initproc = init
  AnyChild = any
  UserProcs = {a, b, c}
  Killable = {a, b, c, init}
  MAX_PROCESS = 5
  MAX_TIME_SLICE = 1
  MaxSleep = 2
SYMMETRY Symmetry
INVARIANTS
  TypeOK RunQueueExact FamilyInv WakeupLegal TimerInv QuitClean
