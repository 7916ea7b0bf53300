CONSTANTS
  N = 2
  U32 = 65536
  Channels = 2
  MaxRounds = 2
  Options <- AllModes

SPECIFICATION FairSpec

INVARIANTS
  NoMemoryConflict
  NoNotifyLost
