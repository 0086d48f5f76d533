SPECIFICATION Spec
CONSTANTS
  Plugins = {p1, p2}
INVARIANTS
  ExclusionOutlastsTheWait
CHECK_DEADLOCK FALSE
