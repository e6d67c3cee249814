SPECIFICATION FairSpec
CONSTANTS
  Genesis = {1, 2, 3}
  Joiners = {4}
  Scenarios <- JoinOrLeave
  Rounds = 4
  Json = {1, 3}
  MaxMAFailures = 0
CHECK_DEADLOCK FALSE
INVARIANTS SameMembers ChainsAgree EveryoneListens
PROPERTIES JoinedUpToDate 
