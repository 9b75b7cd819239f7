\* One productions directory; time-outs, crashes, failing renders and lock files.
SPECIFICATION FairSpec
CONSTANTS
  a = a
  b = b
  k = k
  server_dir = server_dir
  other_dir = other_dir
  NoOne = NoOne
  Requests = {a, b}
  Clis = {k}
  Dir <- OneDir
  Scripts <- Films
  TimesOut = TRUE
  LockIoFails = TRUE
  Crashes = TRUE
INVARIANT OwnOrStrayImage
INVARIANT LockIsInUse
PROPERTY LeaseSpec
PROPERTY EveryJobEnds
CHECK_DEADLOCK FALSE
