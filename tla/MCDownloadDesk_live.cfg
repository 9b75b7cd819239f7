\* Two downloads and their cancels over one runner; a fair loop.
SPECIFICATION FairDeskSpec
CONSTANTS
  r1 = r1
  r2 = r2
  r3 = r3
  c1 = c1
  c2 = c2
  a = a
  b = b
  NoRun = NoRun
  NoSlug = NoSlug
  Runs = {r1, r2}
  Cancels = {c1}
  Slugs = {a, b}
  Slug <- SlugOfTwo
  Unreadable = {r1, r2}
  Overlapping = TRUE
  CallersCancel = TRUE
PROPERTY LeftIsLookedUp
PROPERTY GoneIsNoticed
CHECK_DEADLOCK FALSE
