CONSTANTS
  r1 = r1
  r2 = r2
  Ranks = {r1, r2}
  Algs <- MCAlgs
  Types = {"fp32"}
  Kinds <- MCMixedKinds
  OnlySets = {{}}
  MaxCalls = 3
  Errors = FALSE
  NoChoice = NoChoice

SPECIFICATION FairSpec

INVARIANT
  EveryoneExchanges

CHECK_DEADLOCK FALSE
