CONSTANTS
  Submitters = {s1, s2}
  Worker = w
  MaxSubmits = 1
  MaxShutdowns = 0
  TaskCodes = {"HCCL_SUCCESS", "HCCL_E_UNAVAIL"}
  NoCode = NoCode

SPECIFICATION Spec

INVARIANT
  OwnResult

CHECK_DEADLOCK FALSE
