SPECIFICATION Spec
CONSTANTS
  None = None
  Procs = {a, b}
  Accounts = {"window"}
  Jobs = {x, y}
  Kinds = {"overload", "page"}
  Cooldown <- Rests
  Lookback = 2
  LogSpan = 2
  MinRemaining = 2
  Grace = 0
  Quota = {0, 1}
  Releases = {1}
  DispatchTime = 2
  RetryJobs <- FourJobs
  RetryAccounts = {x, y, u, v}
  MaxTries = 3
  MaxRoots = 1
  ScanSlots = {1, 5}
  SlotLen = 3
  ScanTTL = 3
  ScanTime = 8
  Interval = 3
  RecoveryTTL = 2
  RecoveryTime = 9
  MaxLag = 2
  Profiles = {x, y}
  Scanners = {"scanner"}
  QuotaHeard = {0}
  KeepScans = 2
  CacheTtl = 1
  Backfills = {TRUE}
  HistoryTime = 1
  Keys = {x, y}
  Passwords = {"pw"}
  RowIds = {1, 2}
  IxIds = {1, 2}
  Pushers = {"push"}
  GroupTTL = 2
  Short = 1
  MaxCall = 1
  GroupTime = 6
  Windows = {"window"}
  Proxies = {x, y}
  KeepEvents = 2
  MaxEvents = 5
  Checked = {"proxy"}
  CheckSlots = 1
  Reuse = 1
  CheckTime = 2
  Flags = {"tor"}
  Penalty <- Findings
  Risks = {100}
SYMMETRY Symmetry
INVARIANTS TypeOK PicksAreRight AncestorsAvoided LineIsBounded FollowedJobIsTheLive SlotsAreServedOnce HistoryIsOne ProxiesAreSingle ShownIsCurrent
PROPERTIES ChildIsFinal KnownIsKept
CHECK_DEADLOCK FALSE
