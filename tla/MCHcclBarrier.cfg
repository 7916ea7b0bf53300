CONSTANTS
  Ranks = {0, 1, 2, 3, 4, 5}
  Layouts <- MCLayouts
  Rounds = 2

SPECIFICATION FairSpec

INVARIANTS
  TypeOK

PROPERTIES
  IsABarrier
