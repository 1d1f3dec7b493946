\* Longs and shorts; the account is cleared when nothing is working.
SPECIFICATION Spec
CONSTANTS
  Symbol = {a, b}
  Initial <- Positions
  MaxCalls = 3
  Patient = TRUE
INVARIANTS
  TypeOK
  NoReversal
  LongsLeave
PROPERTIES
  BlockedIsInert
