SPECIFICATION Spec
CONSTANTS
  Plugins = {p1, p2}
  Lists = {l1, l2}
  Blockable = {l1}
  Empty = Empty
  MaxAdds = 3
  MaxDepth = 2
INVARIANTS
  NothingUnmappedRuns
PROPERTIES
  RefinesFiring
SYMMETRY Symmetry
CHECK_DEADLOCK FALSE
