SPECIFICATION Spec
CONSTANTS
  Jobs <- ThreeJobs
  None = None
  Profiles = {p, q}
  Callers = {a, b}
  MaxAttempts = 3
  MaxRoots = 1
INVARIANTS OneChild
CHECK_DEADLOCK FALSE
