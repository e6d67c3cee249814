\* Three writers, numbers 0..4 on a ring of odd size that is not a power of
\* two, so that the XOR can exceed the modulus as it can with 65537.
CONSTANTS
  Modulus = 5
  PadBits = 3
  Ids = {1, 2, 3}
SPECIFICATION Spec
INVARIANTS
  OutcomeMatchesReference
  VerificationIsExact
\* The list is complete when every writer has replied.
CHECK_DEADLOCK FALSE
