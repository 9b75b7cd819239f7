\* Everything may go wrong: failed calls, elapsed TTLs, cancelled dispatches.
SPECIFICATION Spec
CONSTANTS
  w1 = w1
  w2 = w2
  Writes = {w1, w2}
  Plans <- AllPlans
  Estate = Estate
  NoWrite = NoWrite
  Exclusive = TRUE
  CallsFail = TRUE
  TtlElapses = TRUE
  BootTimesOut = TRUE
SYMMETRY Interchangeable
INVARIANT ClaimCoversFlight
INVARIANT NoOverlap
CHECK_DEADLOCK FALSE
