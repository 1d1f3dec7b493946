\* Two revisions of a service; the environment settles in the end.
SPECIFICATION FairSpec
CONSTANTS
  Worker = {w1, w2}
  BaseId <- SameBase
  Offset = 100
  MaxAttempts = 2
  Address = {a1, a2}
  Name = name
  Unset = unset
  Nobody = nobody
  Gone = gone
  Purpose = {"dry"}
  Misfit = {}
  MaxFaults = 2
PROPERTIES
  LeaksAreFreed
  RetriesSuffice
