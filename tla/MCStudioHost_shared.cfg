\* A request, a run of the command line, two long clips and two voice calls.
SPECIFICATION FairHostSpec
CONSTANTS
  a = a
  k = k
  x = x
  y = y
  u = u
  v = v
  server_dir = server_dir
  NoOne = NoOne
  NoCall = NoCall
  NoFrame = NoFrame
  Requests = {a}
  Clis = {k}
  Dir <- OneDir
  Scripts <- Shorts
  TimesOut = FALSE
  LockIoFails = FALSE
  Crashes = FALSE
  Calls = {u, v}
  Extends = {x, y}
  Segments = 2
  OwnNames = TRUE
  Parties = 3
INVARIANT HostTypeOK
INVARIANT AloneInComfy
INVARIANT VoiceGivesWay
INVARIANT ContinuesItself
INVARIANT CallHasEngine
PROPERTY IdleIsFreed
CHECK_DEADLOCK FALSE
