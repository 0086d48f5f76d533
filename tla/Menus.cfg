SPECIFICATION Spec
CONSTANTS
  MAXPLAYERS = 2
  MaxInstances = 2
  MaxMenus = 5
  MaxDepth = 6
  ChainsAtUnload = {"Cancelled"}
INVARIANTS
  OwnsWhatIsShown
  HostIsUsedWell
  NothingLeftAtTheHost
CHECK_DEADLOCK FALSE
