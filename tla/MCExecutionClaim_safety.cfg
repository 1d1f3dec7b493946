\* Two cycles of one trade date on any two of the five containers of Mixed.
SPECIFICATION Spec
CONSTANTS
  Cycle = {c1, c2}
  Instance = {i1, i2, i3, i4, i5}
  Profile = {pA, pB}
  Scope = {sA, sB}
  TradeDate = {d1}
  Snapshot = {f1}
  Symbol = {x1, x2}
  Deployment <- Mixed
  PaperScope = paper
  Account = {acct}
  NoAccount = noAccount
  NoOwner = noOwner
  Nobody = nobody
  Burnt = burnt
  i1 = i1
  i2 = i2
  i3 = i3
  i4 = i4
  i5 = i5
  pA = pA
  pB = pB
  sA = sA
  sB = sB
  acct = acct
SYMMETRY CycleSymmetry
INVARIANTS
  TypeOK
  OneSubmitterPerKey
  OneProfilePerAccount
  FailClosed
  LiveMarkersComeFromSubmitters
  AnswersAreTrue
PROPERTIES
  ClaimPrecedesSubmission
