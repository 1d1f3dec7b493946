\* Two serving threads, one of them the main thread.
SPECIFICATION FairSpec
CONSTANTS
  Request = {r1, r2}
  Thread = {main, t2}
  MainThread = main
  NoThread = noThread
  NoRequest = noRequest
  MaxLocal = 2
  RemoteRaises = FALSE
INVARIANTS
  TypeOK
  OneCycleAtATime
  LeakIsRecycled
  ReportsPersistedOnce
PROPERTIES
  InterruptedWorkerIsRecycled
  LeakHeals
  EveryRequestEnds
