\* Three attempts at two slugs, one of which is cancelled, over one runner.
SPECIFICATION DeskSpec
CONSTANTS
  r1 = r1
  r2 = r2
  r3 = r3
  c1 = c1
  c2 = c2
  a = a
  b = b
  NoRun = NoRun
  NoSlug = NoSlug
  Runs = {r1, r2, r3}
  Cancels = {c1}
  Slugs = {a, b}
  Slug <- SlugOf
  Unreadable = {}
  Overlapping = TRUE
  CallersCancel = TRUE
SYMMETRY Alike
CONSTRAINT NoOrphans
INVARIANT TrackedIsWatched
INVARIANT OneWorkerPerSlug
CHECK_DEADLOCK FALSE
