\* Two pulls that overlap, but not while the lock changes hands.
SPECIFICATION FairPipeSpec
CONSTANTS
  a = a
  b = b
  weights = weights
  config = config
  NoPid = NoPid
  NoLock = NoLock
  NoTree = NoTree
  NoContainer = NoContainer
  Callers = {a, b}
  Files = {weights, config}
  Safetensors = {weights}
  Faults = {"crash", "bytes", "read"}
  Overlapping = FALSE
  BootFaults = {"docker", "engine", "raise"}
INVARIANT NoOrphan
INVARIANT AliveForTheBody
PROPERTY PassedIsVerified
PROPERTY VerifiedIsPublished
PROPERTY BootedIsTornDown
CHECK_DEADLOCK FALSE
