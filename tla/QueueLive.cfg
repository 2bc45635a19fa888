SPECIFICATION FairSpec
CONSTANTS
  Jobs <- OneJob
  Owners = {a, b}
  NoOwner = NoOwner
  LeaseTicks = 2
  MaxConcurrency = 1
  MaxLive = 1
  MaxAttempts = 2
  Stalling = {}
INVARIANTS TypeOK CompletedHasResult OneWatermarkRetry
PROPERTIES BudgetIsTotal PhaseNeverGoesBack RunsEnd QueuedIsServed
CHECK_DEADLOCK FALSE
