SPECIFICATION FairSpec
CONSTANTS
  Network <- MainChain
  PeerList <- ThreePeers
  Scenarios <- AllStarts
  InitialHeight = 3
  MaxFailures = 2
  MaxPostFailures = 1
CHECK_DEADLOCK FALSE
INVARIANTS  InSyncMeansCaughtUp ActivatedCaughtUp
PROPERTY EventuallyActivated
