CONSTANTS
  MaxN = 33
  U32 = 65536

SPECIFICATION Spec

INVARIANTS
  TablesAgree
  EachContributionOnce
  SavedCopiesUnused
