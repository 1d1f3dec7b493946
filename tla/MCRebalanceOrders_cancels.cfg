\* Cancelled orders that filled in part.
SPECIFICATION Spec
CONSTANTS
  Symbol = {a, b}
  Safe = b
  Premium = 1
  Threshold = 1
  MinNotional = 3
  Reserve = 4
  Option = {}
  Notional <- NoOption
  Holdings = {0, 2}
  Quotes = {7}
  Costs = {7, 20}
  Targets = {0, 12, 25}
  Cashes <- Solvent
  Slips = {0, 1}
  CancelsPartly = TRUE
INVARIANTS
  StatusTruthful
