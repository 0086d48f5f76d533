SPECIFICATION FairSpec
CONSTANTS
  None = None
  Addons = {a1, a2}
  Owned = {a2}
  Cleaner = TRUE
  Manager = TRUE
  Timeout = 1
  Grace = 1
  MaxCalls = 2
INVARIANTS
  SteamIsReleased
  ExclusionBalanced
  SettledHolds
PROPERTIES
  WaitEnds
CHECK_DEADLOCK FALSE
