\* An account without debt, shares and an option.
SPECIFICATION Spec
CONSTANTS
  Symbol = {a, b}
  Safe = b
  Premium = 1
  Threshold = 1
  MinNotional = 3
  Reserve = 4
  Option = {o1}
  Notional <- OneOption
  Holdings = {0, 2}
  Quotes = {0, 7, 10}
  Costs = {7, 20}
  Targets = {0, 12, 25}
  Cashes <- Solvent
  Slips = {0, 3}
  CancelsPartly = FALSE
INVARIANTS
  TypeOK
  ReserveKept
  OptionsCovered
  StatusTruthful
  WithinTarget
