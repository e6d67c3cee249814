SPECIFICATION FairSpec
CONSTANTS
  Threads = {t1, t2}
  Operator = op
  InitialNodes = 1
  InitialWriters <- FirstWriter
  NewKeys = {k1, k2}
  Engines = {e}
  MaxVersions = 3
  MaxResets = 2
  MaxRestarts = 1
CHECK_DEADLOCK FALSE
INVARIANTS VersionsUnbroken ListsAreSound AnsweredIsStored NoExtraReset
PROPERTY ResetReachesAll
