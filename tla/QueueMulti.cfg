SPECIFICATION Spec
CONSTANTS
  Jobs <- OneJob
  Owners = {a, b, c}
  NoOwner = NoOwner
  LeaseTicks = 2
  MaxConcurrency = 2
  MaxLive = 2
  MaxAttempts = 1
  Stalling = {c}
SYMMETRY OwnerSymmetry
INVARIANTS SingleRun RunsAreLeased
PROPERTIES ImplementsLeaseLock OnlyHolderReleases
CHECK_DEADLOCK FALSE
