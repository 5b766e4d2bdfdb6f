CONSTANTS
  People = {p1, p2, p3, p4}
  NoSeat = NoSeat
  MaxSeats = 6
  MaxBots = 2
  LastLevel = 1
  StartSizes = {4}
  MaxAway = 1
  MaxInFlight = 1
SPECIFICATION Spec
INVARIANTS
  ShuffledCanBeDealt
SYMMETRY PeopleSymmetry
CHECK_DEADLOCK FALSE
