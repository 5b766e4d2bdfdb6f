CONSTANTS
  Level = 5
  Hands <- MCHands
  Plays <- MCPlays
  Returns <- MCReturns
  MaxRounds = 1
  MaxClicks = 3
SPECIFICATION Spec
INVARIANTS
  TypeOK
  HintIsTrue
  SuggestionAccepted
  PlaysShownCards
CHECK_DEADLOCK FALSE
