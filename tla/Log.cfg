SPECIFICATION FairSpec
CONSTANTS
  Workers = {w1, w2}
  Game = Game
  NewFilePerDay = TRUE
  MaxDays = 3
  MaxLoads = 2
  Retentions = {0, 2}
INVARIANTS
  QuietAfterShutdown
  OneStrayAtMidnight
  LinesAreKept
PROPERTIES
  ShutdownReturns
CHECK_DEADLOCK FALSE
