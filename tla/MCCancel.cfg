SPECIFICATION Spec
CONSTANTS
  Writers <- FiveWriters
  Scenarios <- Impatient
  StartHeight = 2
  Json = {1}
  MaxHeight = 3
CHECK_DEADLOCK FALSE
INVARIANTS SameVerdict OnlyTheFaultySanctioned
