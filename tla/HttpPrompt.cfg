SPECIFICATION Spec
CONSTANTS
  Workers = {w1, w2}
  Game = Game
  MaxRequests = 2
  MaxLoads = 1
  Silent = {}
  Windows = TRUE
  CallbackSends = FALSE
INVARIANT JoinIsPrompt
CHECK_DEADLOCK FALSE
