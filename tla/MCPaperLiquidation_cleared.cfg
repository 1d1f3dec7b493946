\* Clearing an account with shorts.
SPECIFICATION Spec
CONSTANTS
  Symbol = {a, b}
  Initial <- Positions
  MaxCalls = 1
  Patient = TRUE
INVARIANTS
  AccountCleared
