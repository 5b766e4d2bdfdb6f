CONSTANTS
  People = {p1, p2, p3}
  NoSeat = NoSeat
  MaxSeats = 6
  MaxBots = 3
  LastLevel = 1
  StartSizes = {4}
  MaxAway = 1
  MaxInFlight = 2
SPECIFICATION Spec
INVARIANTS
  TypeOK
  RosterKept
  ResultCarriedOver
  TributeFollowsPlaces
  StaleSeatKeepsTeam
CHECK_DEADLOCK FALSE
SYMMETRY PeopleSymmetry
