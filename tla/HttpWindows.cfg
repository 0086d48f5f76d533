SPECIFICATION FairSpec
CONSTANTS
  Workers = {w1, w2}
  Game = Game
  MaxRequests = 3
  MaxLoads = 2
  Silent = {2}
  Windows = TRUE
  CallbackSends = FALSE
INVARIANTS
  HandleClosedOnce
PROPERTIES
  RequestsSettle
  ShutdownReturnsUnlessParking
CHECK_DEADLOCK FALSE
