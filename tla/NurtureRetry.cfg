SPECIFICATION Spec
CONSTANTS
  Batches <- OneBatch
  Jobs <- TwoJobs
  BatchOf <- InOne
  Owners = {a}
  None = None
  LeaseTicks = 2
  MaxLive = 1
  Timely = TRUE
PROPERTIES RetryWaitsForRun
CHECK_DEADLOCK FALSE
