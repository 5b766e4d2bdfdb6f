CONSTANTS
  PlayerCount = 4
  NoSeat = NoSeat
  HandSize = 3
  Robots = {1, 3}
  NearFinish = 1
SPECIFICATION FairSpec
INVARIANTS
  TypeOK
  TurnHasCards
  PassesCountTheSilent
  FinishOrderExact
  SettlementAgreesWithCore
  RobotsResolvedForHumans
PROPERTIES
  TurnGoesRound
  ImplementsTrickButDeclines
  TrickCloses
CHECK_DEADLOCK FALSE
