SPECIFICATION Spec
CONSTANTS
  Genesis = {1, 3}
  Joiners = {2, 4}
  Scenarios <- JoinBoth
  Rounds = 3
  Json = {1, 3}
  MaxMAFailures = 1
CHECK_DEADLOCK FALSE
INVARIANT ChainsAgree
