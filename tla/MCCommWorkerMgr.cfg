SPECIFICATION FairSpec
CONSTANTS
  c1 = c1
  c2 = c2
  t1 = t1
  t2 = t2
  k1 = k1
  x = x
  Comms = {c1, c2}
  Callers = {t1, t2}
  Cleaners = {k1}
  Exiter = x
  MaxOps = 1
  MaxCleanups = 1
  MaxWorkers = 3
INVARIANTS
  TypeOK
  NoTagNoWorker
  NoDanglingUse
  OneWorkerPerComm
  ExitLeavesNoThread
PROPERTIES
  EveryoneReturns
CHECK_DEADLOCK FALSE
