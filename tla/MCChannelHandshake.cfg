CONSTANTS
  N = 4
  NoPeer = NoPeer
  Ranks <- MCRanks
  Steps <- MCSteps
  Mode <- MCMode
  Tx <- MCTx
  Rx <- MCRx

SPECIFICATION FairSpec

INVARIANTS
  TypeOK
  NoSignalLost
  TransferGranted
  RegistersClean

PROPERTY
  EveryStepEnds
