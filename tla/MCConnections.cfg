SPECIFICATION FairSpec
CONSTANTS
  Nodes = {1, 2}
  Unaware <- EitherLate
  Conns = {c1, c2, c3, c4, c5}
  MaxTryConn = 2
  MaxBacklog = 2
  Kinds = {"lost", "crash", "slow", "split"}
  MaxSends = 2
  MaxFaults = 3
INVARIANTS OneConnectionPerPair ReceivedInOrder
PROPERTY ConnectedForGood
CHECK_DEADLOCK FALSE
