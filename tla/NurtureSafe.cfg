SPECIFICATION FairSpec
CONSTANTS
  Batches <- OneBatch
  Jobs <- TwoJobs
  BatchOf <- InOne
  Owners = {a, b}
  None = None
  LeaseTicks = 2
  MaxLive = 1
  Timely = FALSE
INVARIANTS TypeOK EndedBatchAddsUp
PROPERTIES CancelHolds CompletedIsNotRepeated RunsEnd QueuedIsServed ImplementsLeaseLock
CHECK_DEADLOCK FALSE
