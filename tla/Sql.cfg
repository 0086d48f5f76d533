SPECIFICATION FairSpec
CONSTANTS
  RetrySeconds = 2
  Setup = 1
  MaxConnects = 2
  MaxQueries = 4
  MaxLoads = 3
INVARIANTS
  NothingDangles
  StaysShut
  SentAreWaiting
  FailsOnce
  RetryWasAnnounced
PROPERTIES
  RefinesQueryLedger
  ForgetsOnlyWhenAsked
  ConnectHeard
  Reconnects
CHECK_DEADLOCK FALSE
