INIT MCInit
NEXT MCNext
CONSTANTS
  b = b
  x = x
  k1 = k1
  w = w
  Service = {a, b}
  Busy = {a}
  Digest = {x, y}
  Object = {o}
  MaxAge = 1
  MaxTime = 2
  MaxChanges = 3
  MaxReceipts = 2
  MaxCandidates = 1
  MaxConfirmations = 1
  MaxPlans = 1

  Target <- MCTarget
  Cron <- MCCron
  JobAtRoot = {"s1", "s4"}
  Session <- MCSession
  SharedSchedule = FALSE
  Explicit = {}
  Named = {"s3", "s4"}
  StrayCron <- MCStrayCron
  Lookback = 3
  Grace = 1
  Period = 2
  Cap = 1
  MaxSlot = 4
  MaxReports = 2

  NamedService = {u, v, w}
  GuardTarget <- MCGuardTarget
  Window = 2
  Every = 1
  Late = 1
  Near = 1
  Limit = 1
  RequireSuccess = FALSE
  MaxHour = 3
  MaxEntries = 2
  MaxRevisions = 1

  CloudService = {"c1"}
  Ref = {u, v}
  Commit = {k1, k2}
  Item <- MCItem
  Deployed <- MCDeployed
  Job = {"main"}
  Modes <- MCModes
  MaxRuns = 2
  MaxRevised = 1

  PaperSymbol = {u, v}
  MaxShares = 1
  PaperQuote = {0, 1}
  PaperTarget = {0, 1}
INVARIANTS
  OperationsTypeOK
  ActivationIsReviewed
  MissedRunsAreReported
  FailuresAreAlarmed
  SuccessMeansDeployed
PROPERTIES
  ImplementsReviewed
  AlarmsHaveCause
  ResumedBehindTraffic
  ReducingOrdersReduce
SYMMETRY Symmetric
CHECK_DEADLOCK FALSE
