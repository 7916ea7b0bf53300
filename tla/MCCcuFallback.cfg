CONSTANTS
  r1 = r1
  r2 = r2
  Ranks = {r1, r2}
  Algs <- MCAlgs
  Types = {"fp32", "int8"}
  Kinds <- MCAlignedKinds
  OnlySets <- MCOnlySets
  MaxCalls = 3
  Errors = TRUE
  NoChoice = NoChoice

SPECIFICATION FairSpec

INVARIANTS
  TypeOK
  Agreement
  SameExchange
  StaleContextsShadowed
  LowestCommonConfig

PROPERTIES
  ProgramEnds

CHECK_DEADLOCK FALSE
