SPECIFICATION FairSpec
CONSTANTS
  a = a
  b = b
  timer = timer
  NoLine = NoLine
  Requests <- MCRequests
  Updaters <- MCUpdaters
  DiesAt <- MCDiesAt
  MaxBoots = 2
  BufMax = 2
  Crashes = TRUE
  Torn = TRUE
INVARIANT CreditedOnce
INVARIANT PinHolds
INVARIANT RowsAligned
INVARIANT CleanLosesNothing
PROPERTY CatchesUp
CONSTRAINT AFirst
CONSTRAINT OneTorn
CONSTRAINT LastBootWorks
