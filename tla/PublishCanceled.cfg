SPECIFICATION FairSpec
CONSTANTS
  Pubs = {p, q}
  MaxTries = 2
  MaxRestarts = 0
  None = None
INVARIANTS PublishingIsAlive
CHECK_DEADLOCK FALSE
