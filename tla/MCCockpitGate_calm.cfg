\* Every call answers and no TTL runs out; the loop and the commands go on.
SPECIFICATION FairSpec
CONSTANTS
  w1 = w1
  w2 = w2
  Writes = {w1, w2}
  Plans <- ServeAndPinPlans
  Estate = Estate
  NoWrite = NoWrite
  Exclusive = TRUE
  CallsFail = FALSE
  TtlElapses = FALSE
  BootTimesOut = FALSE
PROPERTY LeaseSpec
PROPERTY EveryPlanSettles
PROPERTY ClaimOfExecutedReleased
CHECK_DEADLOCK FALSE
