\* Two services; the Gateway user does not see the accounts of one.
SPECIFICATION Spec
CONSTANTS
  Worker = {w1, w2}
  BaseId <- SameBase
  Offset = 100
  MaxAttempts = 2
  Address = {a1, a2}
  Name = name
  Unset = unset
  Nobody = nobody
  Gone = gone
  Purpose = {"live", "dry"}
  Misfit = {w2}
  MaxFaults = 2
INVARIANTS
  TypeOK
  NoForgottenSession
  HeldIsProven
PROPERTIES
  LastKnownGoodKept
