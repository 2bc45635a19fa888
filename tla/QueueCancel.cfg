SPECIFICATION Spec
CONSTANTS
  Jobs <- OneJob
  Owners = {a}
  NoOwner = NoOwner
  LeaseTicks = 2
  MaxConcurrency = 1
  MaxLive = 1
  MaxAttempts = 2
  Stalling = {}
PROPERTIES CanceledIsFinal
CHECK_DEADLOCK FALSE
