CONSTANTS
  N = 4
  U32 = 65536
  Channels = 1
  MaxRounds = 2
  Options <- SomeModes

SPECIFICATION FairSpec

INVARIANTS
  TypeOK
  NoMemoryConflict

PROPERTIES
  DeliversTheSum
  PlaysTheHandshake
