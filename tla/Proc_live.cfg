SPECIFICATION FairSpec
CONSTANTS
  idleproc = idle
  initproc = init
  AnyChild = any
  UserProcs = {a, b}
  Killable = {a, b}
  MAX_PROCESS = 5
  MAX_TIME_SLICE = 2
  MaxSleep = 2
PROPERTIES
  QueuedRuns SleeperWakes WaitReturns KilledSleeperExits
