\* Two containers of one service: every cycle ends, whatever fails, and the
\* protocol implements OneShotExecution.
SPECIFICATION FairSpec
CONSTANTS
  Cycle = {c1, c2}
  Instance = {i1, i2}
  Profile = {pA}
  Scope = {sA}
  TradeDate = {d1}
  Snapshot = {f1}
  Symbol = {x1}
  Deployment <- Mixed
  PaperScope = paper
  Account = {acct}
  NoAccount = noAccount
  NoOwner = noOwner
  Nobody = nobody
  Burnt = burnt
  i1 = i1
  i2 = i2
  i3 = i3
  i4 = i4
  i5 = i5
  pA = pA
  pB = pB
  sA = sA
  sB = sB
  acct = acct
PROPERTIES
  EveryCycleEnds
  ImplementsOneShot
