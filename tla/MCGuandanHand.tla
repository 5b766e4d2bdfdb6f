--------------------------- MODULE MCGuandanHand ---------------------------
(* Level 5: the five of hearts is wild.                                    *)
EXTENDS GuandanHand

Clubs(ranks)    == [k \in DOMAIN ranks |-> [suit |-> 0, rank |-> ranks[k]]]
Diamonds(ranks) == [k \in DOMAIN ranks |-> [suit |-> 1, rank |-> ranks[k]]]
Spades(ranks)   == [k \in DOMAIN ranks |-> [suit |-> 2, rank |-> ranks[k]]]
WildCard        == [suit |-> Hearts, rank |-> Level]
FourJokers      == <<SmallJoker, SmallJoker, BigJoker, BigJoker>>

MCHands ==
  {Clubs(<<9, 14>>) \o Diamonds(<<9>>) \o Spades(<<9>>) \o <<WildCard>>,
   Spades(<<6, 8, 9>>) \o <<WildCard, WildCard, BigJoker>>,
   Clubs(<<3, 7>>) \o Diamonds(<<3, 7>>) \o Spades(<<3>>) \o <<WildCard>>,
   FourJokers \o Clubs(<<5>>),
   Clubs(<<8, 8>>) \o Diamonds(<<8, 8>>) \o Spades(<<8, 8>>) \o <<WildCard>>}

MCPlays ==
  {<<SmallJoker>>, Clubs(<<8>>) \o Spades(<<8>>),
   Clubs(<<4, 6>>) \o Diamonds(<<4, 6>>) \o Spades(<<4>>),
   Clubs(<<6, 7, 8, 9>>) \o <<WildCard>>,
   Clubs(<<6, 7>>) \o Spades(<<6, 7>>) \o <<WildCard, WildCard>>,
   Clubs(<<4, 4>>) \o Spades(<<4, 4>>),
   Clubs(<<7, 7>>) \o Spades(<<7, 7>>) \o <<WildCard>>,
   Clubs(<<3, 3>>) \o Spades(<<3, 3>>) \o Diamonds(<<3, 3>>),
   FourJokers}

MCReturns ==
  {<<>>, Clubs(<<8>>) \o Spades(<<8>>), Clubs(<<4, 4>>) \o Spades(<<4, 4>>)}

=============================================================================
