CONSTANTS
  PlayerCount = 4
  Cards <- Deck
  Level = 5
  Deals <- AllDeals
  NoCard = NoCard
SPECIFICATION Spec
INVARIANTS
  TypeOK
  CardsConserved
  TributeByRules
  OpenerPaidMost
CHECK_DEADLOCK FALSE
