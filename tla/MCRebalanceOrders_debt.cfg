\* An account whose cash is negative.
SPECIFICATION Spec
CONSTANTS
  Symbol = {a, b}
  Safe = b
  Premium = 1
  Threshold = 1
  MinNotional = 3
  Reserve = 0
  Option = {}
  Notional <- NoOption
  Holdings = {0, 2}
  Quotes = {0, 7, 10}
  Costs = {7, 20}
  Targets = {0, 12, 25}
  Cashes <- Indebted
  Slips = {0, 1}
  CancelsPartly = FALSE
INVARIANTS
  BuysNeverBorrow
