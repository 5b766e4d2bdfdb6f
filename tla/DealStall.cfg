CONSTANTS
  PlayerCount = 4
  NoSeat = NoSeat
  HandSize = 2
  Robots = {1, 2, 3}
  NearFinish = 1
SPECIFICATION Spec
INVARIANTS
  RobotsResolved
CHECK_DEADLOCK FALSE
