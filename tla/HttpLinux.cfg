SPECIFICATION Spec
CONSTANTS
  Workers = {w1, w2, w3}
  Game = Game
  MaxRequests = 4
  MaxLoads = 2
  Silent = {2}
  Windows = FALSE
  CallbackSends = TRUE
INVARIANTS
  ShutdownQuiesces
  NothingOutlivesUnload
PROPERTIES
  RefinesLedger
SYMMETRY Symmetry
CHECK_DEADLOCK FALSE
