CONSTANTS
  Submitters = {s1, s2}
  Worker = w
  MaxSubmits = 2
  MaxShutdowns = 2
  TaskCodes = {"HCCL_SUCCESS", "HCCL_E_UNAVAIL"}
  NoCode = NoCode

SPECIFICATION FairSpec

INVARIANTS
  TypeOK
  ReturnsAfterRun
  RunsOnce
  NoTaskLost

PROPERTIES
  EveryCallReturns

CHECK_DEADLOCK FALSE
