SPECIFICATION FairSpec
CONSTANTS
  None = None
  Groups = {"group"}
  MaxJobs = 2
  MaxWindows = 2
  Clients = {"page"}
  MaxTime = 4
  DraftTries = 2
  MaxReconnects = 2
  Full = 2
  MaxAttempts = 2
  MaxReopen = 1
  PostAttempts = 3
  Pubs = {"p", "q"}
  MaxTries = 2
  MaxRestarts = 1
  Users = {"a", "b"}
  Attempts = 2
  Callers = {"a", "b", "c"}
  Slots <- Gates
  MaxBusy = 2
  Windows = {1, 2}
  Proxies = {"p", "q", "r"}
  SwitchSlots = 1
  Jobs = {1, 2}
  Phases = {"run", "done"}
  Shown = {"run"}
  Limit = 1
  Batch = 1
  MaxEvents = 4
  Readers = {"a", "b"}
  Tries = 2
INVARIANTS TypeOK ReportsAreTrue WindowsAreReturned ScarceIsShared
PROPERTIES SoraIsSpared WorkersKeepApart AnswerDecides NothingGoesBack PageCatchesUp EverythingEnds
CHECK_DEADLOCK FALSE
