\* Three pulls that overlap, but not while the lock changes hands.
SPECIFICATION Spec
CONSTANTS
  a = a
  b = b
  c = c
  weights = weights
  config = config
  NoPid = NoPid
  NoLock = NoLock
  NoTree = NoTree
  Callers = {a, b, c}
  Files = {weights, config}
  Safetensors = {weights}
  Faults = {"crash", "disk", "hub", "bytes", "read"}
  Overlapping = FALSE
SYMMETRY AnyCaller
INVARIANT NothingUnverified
INVARIANT WholeUnlessKilled
PROPERTY NoResidue
PROPERTY StaleIsReclaimed
PROPERTY LeaseSpec
CHECK_DEADLOCK FALSE
