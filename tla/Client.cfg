CONSTANTS
  MaxDrops = 2
  MaxNews = 1
  MaxClicks = 2
  TimersOnTime = TRUE
SPECIFICATION FairSpec
INVARIANTS
  TypeOK
  JoinsOnce
  JoinedMeansMember
  RestMeansJoined
PROPERTIES
  EventuallyJoined
CHECK_DEADLOCK FALSE
