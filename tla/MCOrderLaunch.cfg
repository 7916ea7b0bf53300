SPECIFICATION FairSpec
CONSTANTS
  d1 = d1
  d2 = d2
  a = a
  b = b
  Devices = {d1, d2}
  Comms = {a, b}
  Instances <- InstancesChosen
  Faulty = {d1}
INVARIANTS
  TypeOK
  KernelsStartInOrder
  NoNotifyLost
PROPERTIES
  EveryKernelEnds
CHECK_DEADLOCK FALSE
