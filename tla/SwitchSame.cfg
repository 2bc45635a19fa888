SPECIFICATION FairSpec
CONSTANTS
  Windows = {1, 2}
  Proxies = {p, q, r}
  Slots = 1
  None = None
INVARIANTS SwitchedIsChanged
CHECK_DEADLOCK FALSE
