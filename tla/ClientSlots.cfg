SPECIFICATION FairSpec
CONSTANTS
  p1 = p1
  p2 = p2
  None = None
  Slots <- TwoSlots
  People <- TwoPeople
  Seats <- TwoSeats
  kOperatingSystemCounter = 3
  JoinersAtLoad = FALSE
  MaxQueries = 2
  MaxLoads = 2
  MaxWire <- TwoWires
INVARIANTS
  SlotsAreTheOccupants
  OnlyConfirmedAreTrusted
  ToldOnce
PROPERTIES
  AnswersReachTheirCallback
  ConfirmedAreTold
CHECK_DEADLOCK FALSE
