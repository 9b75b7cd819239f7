\* One run at a time, as the test console starts them.
SPECIFICATION FairSpec
CONSTANTS
  r1 = r1
  r2 = r2
  r3 = r3
  c1 = c1
  c2 = c2
  NoRun = NoRun
  Runs = {r1, r2, r3}
  Cancels = {c1, c2}
  Unreadable = {r1}
  Overlapping = FALSE
  CallersCancel = TRUE
INVARIANT DoneMeansExited
INVARIANT CancelIsHeard
PROPERTY NoIdleCancel
PROPERTY CancelEndsRun
CHECK_DEADLOCK FALSE
