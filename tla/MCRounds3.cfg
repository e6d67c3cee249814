\* Three writers from empty databases through rounds 0, 2 and 3.
CONSTANTS
  Modulus = 3
  PadBits = 2
  WriterList <- List3
  InitialChain <- FreshStart
  Payloads = {p1, p2}
  Rounds = 3
  MaxResets = 0
SPECIFICATION FairSpec
INVARIANTS
  TypeOK
  Agreement
  Lockstep
  ChainVerifies
  NoStaleMessages
  IInv
  PayloadExactlyOnce
PROPERTIES
  AllRoundsComplete
  RefinesLedger
