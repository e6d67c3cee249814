\* Three writers and one reset ordered at any moment.
CONSTANTS
  Modulus = 2
  PadBits = 1
  WriterList <- List3
  InitialChain <- FreshStart
  Payloads = {p1}
  Rounds = 3
  MaxResets = 1
SPECIFICATION Spec
INVARIANTS
  PayloadNeverTwice
  ChainsOfOneStartAgree
PROPERTIES
  NeverSentTwice
\* The engines may wait for ever after a reset: see section 5 of README.md.
CHECK_DEADLOCK FALSE
