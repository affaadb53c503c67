SPECIFICATION FairSpec
CONSTANTS
  idleproc = idle
  initproc = init
  AnyChild = any
  UserProcs = {a, b}
  Killable = {a, b}
  MAX_PROCESS = 5
  MAX_TIME_SLICE = 1
  MaxSleep = 1
PROPERTIES
  KilledExits
