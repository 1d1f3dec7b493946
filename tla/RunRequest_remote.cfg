\* The remote half of a monitor dispatch may raise.
SPECIFICATION Spec
CONSTANTS
  Request = {r1, r2}
  Thread = {main}
  MainThread = main
  NoThread = noThread
  NoRequest = noRequest
  MaxLocal = 1
  RemoteRaises = TRUE
PROPERTIES
  InterruptedWorkerIsRecycled
