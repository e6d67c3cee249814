SPECIFICATION FairSpec
CONSTANTS
  Workers = {w1, w2}
  Threads = {t1}
  Kinds = {"block", "wide", "long", "verify"}
  MaxRequests = 3
  MaxRestarts = 1
  MaxCommitFailures = 1
INVARIANTS PayloadsInOrder RepliesMatch ChainWithoutGap
PROPERTY EveryRequestAnswered
CHECK_DEADLOCK FALSE
