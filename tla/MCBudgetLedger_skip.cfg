SPECIFICATION Spec
CONSTANTS
  a = a
  b = b
  timer = timer
  NoLine = NoLine
  Requests <- MCRequests
  Updaters <- MCUpdaters
  DiesAt <- MCNowhere
  MaxBoots = 1
  BufMax = 2
  Crashes = FALSE
  Torn = FALSE
INVARIANT NeverSkipped
