SPECIFICATION FairSpec
CONSTANTS
  Writers <- FiveWriters
  Scenarios <- Patient
  StartHeight = 2
  Json = {1}
  MaxHeight = 4
CHECK_DEADLOCK FALSE
INVARIANT NobodyDies
PROPERTY RoundsGoOn
