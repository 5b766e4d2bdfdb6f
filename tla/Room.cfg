CONSTANTS
  Conns = {c1, c2}
  Names = {n1, n2}
  NoName = NoName
  MaxWaiting = 9
SPECIFICATION FairSpec
INVARIANTS
  TypeOK
  NoMissedUpdate
  PresenceExact
PROPERTIES
  ViewsGoForward
  EventuallyShown
CHECK_DEADLOCK FALSE
