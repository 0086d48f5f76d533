SPECIFICATION Spec
CONSTANTS
  Workers = {w1, w2}
  Game = Game
  MaxRequests = 2
  MaxLoads = 1
  Silent = {}
  Windows = FALSE
  CallbackSends = TRUE
PROPERTIES
  NeverRestarts
CHECK_DEADLOCK FALSE
