CONSTANTS
  PlayerCount = 6
  NoSeat = NoSeat
  HandSize = 2
  Robots = {}
  NearFinish = 1
SPECIFICATION Spec
INVARIANTS
  BothTeamsHoldCards
CHECK_DEADLOCK FALSE
