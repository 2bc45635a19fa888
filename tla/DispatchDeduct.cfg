SPECIFICATION Spec
CONSTANTS
  Accounts = {"window"}
  Jobs = {x, y}
  Procs = {a}
  None = None
  Kinds = {"overload"}
  Cooldown <- Rests
  Lookback = 1
  LogSpan = 1
  MinRemaining = 1
  Grace = 0
  Quota = {0, 1, 2}
  Releases = {1}
  MaxTime = 1
PROPERTIES SubmitIsDeducted
CHECK_DEADLOCK FALSE
