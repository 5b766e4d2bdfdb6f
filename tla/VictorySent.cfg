CONSTANTS
  Addresses = {a1, a2}
  Nobody = Nobody
  MaxMatches = 2
  MaxWins = 2
  MaxRequests = 2
  MaxPerWindow = 1
SPECIFICATION Spec
INVARIANT
  ShownIsSent
CHECK_DEADLOCK FALSE
