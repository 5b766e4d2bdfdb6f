CONSTANTS
  MaxSends = 2
  MaxNews = 2
SPECIFICATION FairSpec
INVARIANTS
  TypeOK
  LatestShown
PROPERTIES
  NoFalseAlarm
  SilenceNoticed
CHECK_DEADLOCK FALSE
