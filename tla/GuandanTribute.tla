--------------------------- MODULE GuandanTribute ---------------------------
(***************************************************************************)
(* The tribute exchange before a deal is played, at the level of single    *)
(* cards.  DealNextRound decides from the last finish order who owes whom; *)
(* every giver lays a card, then every receiver lays one, and the last of  *)
(* these moves all of them at once.  GuandanMatch has the same exchange    *)
(* with its cards left out.                                                *)
(***************************************************************************)
EXTENDS GuandanTable

CONSTANTS
  Cards,      \* the deck: records of a rank, a heart or not, and a copy
  Level,      \* the level of the deal, a rank from 2 to 14 (Ace)
  Deals,      \* bound: the deals that are checked, functions of Seats
  NoCard      \* a seat that has laid nothing

SmallJoker == 16
BigJoker   == 17

ASSUME CardsAssumption ==
  /\ IsFiniteSet(Cards)
  /\ \A c \in Cards : c.rank \in 2 .. 14 \cup {SmallJoker, BigJoker}
  /\ \A c \in Cards : c.heart \in BOOLEAN
  /\ NoCard \notin Cards
ASSUME LevelAssumption == Level \in 2 .. 14
ASSUME DealsAssumption ==
  \A h \in Deals : /\ h \in [Seats -> SUBSET Cards]
                   /\ UNION Range(h) = Cards
                   /\ \A s, t \in Seats : s # t => h[s] \cap h[t] = {}

VARIABLES
  phase,      \* awaitingDeal, exchange, play
  order,      \* the complete finish order of the last deal
  hands,      \* the set of cards of each seat
  givers,     \* pending_tribute: who pays
  receivers,  \* pending_tribute: who returns a card
  paid,       \* tribute_cards: the card each seat has laid
  returned,   \* return_cards
  turn,       \* the seat that opens the deal
  dealt       \* history: the hands as they were dealt

vars == <<phase, order, hands, givers, receivers, paid, returned, turn, dealt>>

TypeOK ==
  /\ phase \in {"awaitingDeal", "exchange", "play"}
  /\ order \in Outcomes
  /\ hands \in [Seats -> SUBSET Cards]
  /\ givers \subseteq Seats
  /\ receivers \subseteq Seats
  /\ paid \in [Seats -> Cards \cup {NoCard}]
  /\ returned \in [Seats -> Cards \cup {NoCard}]
  /\ \A s \in Seats : /\ paid[s] # NoCard => s \in givers
                      /\ returned[s] # NoCard => s \in receivers
  /\ turn \in Seats
  /\ dealt \in Deals

NothingLaid == [s \in Seats |-> NoCard]

(* ShuffleNextRound has dealt; the last settlement left the turn at the    *)
(* winner and the sides of no exchange.                                    *)
Init ==
  /\ phase = "awaitingDeal"
  /\ hands \in Deals
  /\ dealt = hands
  /\ order \in Outcomes
  /\ givers = {} /\ receivers = {}
  /\ paid = NothingLaid /\ returned = NothingLaid
  /\ turn = order[1]

-----------------------------------------------------------------------------
(* Single cards.                                                           *)

(* main_power of a single card at the level.                               *)
Power(c) == IF c.rank = Level THEN 15 ELSE c.rank

(* is_wild_level_card                                                      *)
Wild(c) == c.heart /\ c.rank = Level

(* The deck has too few wild cards to fill a hand.                         *)
ASSUME HandsAssumption == \A h \in Deals, s \in Seats : \E c \in h[s] : ~Wild(c)

(* legal_tribute_card: a strongest card of the hand, wild cards aside.     *)
LegalTribute(hand, c) ==
  /\ ~Wild(c)
  /\ \A d \in hand : Wild(d) \/ Power(d) <= Power(c)

(* legal_return_card: a suited card of rank 2 to 10, not of the level.     *)
LegalReturn(c) == c.rank \in 2 .. 10 /\ c.rank # Level

BigJokersOf(S) == {c \in UNION {hands[s] : s \in S} : c.rank = BigJoker}

(* can_resist_tribute: the givers hold two big jokers between them.        *)
Resists(S) == Cardinality(BigJokersOf(S)) >= 2

-----------------------------------------------------------------------------
(* The exchange.                                                           *)

(* DealNextRound: play opens with the winner, unless tribute is owed and   *)
(* not resisted.                                                           *)
Deal ==
  /\ phase = "awaitingDeal"
  /\ LET plan == PaysWhom(order)
     IN IF plan.givers # {} /\ ~Resists(plan.givers)
        THEN /\ phase' = "exchange"
             /\ givers' = plan.givers
             /\ receivers' = plan.receivers
        ELSE phase' = "play" /\ UNCHANGED <<givers, receivers>>
  /\ UNCHANGED <<order, hands, paid, returned, turn, dealt>>

(* Mutant of Take: the card stays in the hand as well.                     *)
TakeNothing(s, c) == UNCHANGED hands

(* A card leaves the hand when it is laid.                                 *)
Take(s, c) == hands' = [hands EXCEPT ![s] = @ \ {c}]

(* submit_tribute_card                                                     *)
SubmitTribute(s, c) ==
  /\ phase = "exchange"
  /\ s \in givers /\ paid[s] = NoCard
  /\ c \in hands[s] /\ LegalTribute(hands[s], c)
  /\ Take(s, c)
  /\ paid' = [paid EXCEPT ![s] = c]
  /\ UNCHANGED <<phase, order, givers, receivers, returned, turn, dealt>>

(* Mutant of Outranks: the later seat wins a tie.                          *)
OutranksLaterSeat(g, h) ==
  \/ Power(paid[g]) > Power(paid[h])
  \/ Power(paid[g]) = Power(paid[h]) /\ g > h

(* Givers by the power of their card, equal ones by seat.                  *)
Outranks(g, h) ==
  \/ Power(paid[g]) > Power(paid[h])
  \/ Power(paid[g]) = Power(paid[h]) /\ g < h

(* Mutant of PlaceOf: givers in seat order, whatever they paid.            *)
PlaceBySeat(g) == 1 + Cardinality({h \in givers : h < g})

PlaceOf(g) == 1 + Cardinality({h \in givers : Outranks(h, g)})

(* The receivers are the first places of the order: the first gets the     *)
(* strongest card, and so on.                                              *)
PartnerOf(g) == order[PlaceOf(g)]

(* The card a giver gets back, of the cards the receivers have laid.       *)
ReturnFor(g, laid) == laid[PartnerOf(g)]

(* finalize_tribute_exchange, with the receivers' cards laid and r's last  *)
(* one, c, gone from its hand.                                             *)
Finalize(r, c, laid) ==
  /\ hands' = [s \in Seats |->
       (hands[s] \ IF s = r THEN {c} ELSE {})
         \cup {paid[g] : g \in {x \in givers : PartnerOf(x) = s}}
         \cup {ReturnFor(g, laid) : g \in givers \cap {s}}]
  /\ turn' = CHOOSE g \in givers : PlaceOf(g) = 1
  /\ phase' = "play"
  /\ givers' = {} /\ receivers' = {}
  /\ paid' = NothingLaid /\ returned' = NothingLaid

(* Mutant of MayReturn: any seat may return a card.                        *)
MayReturnAnyone(s) ==
  /\ \A g \in givers : paid[g] # NoCard
  /\ returned[s] = NoCard

(* Returns wait for the last tribute card.                                 *)
MayReturn(s) ==
  /\ \A g \in givers : paid[g] # NoCard
  /\ s \in receivers /\ returned[s] = NoCard

(* submit_return_card, and the exchange when it was the last one.          *)
SubmitReturn(s, c) ==
  /\ phase = "exchange"
  /\ MayReturn(s)
  /\ c \in hands[s] /\ LegalReturn(c)
  /\ LET laid == [returned EXCEPT ![s] = c]
     IN IF \A r \in receivers : laid[r] # NoCard
        THEN Finalize(s, c, laid)
        ELSE /\ Take(s, c)
             /\ returned' = laid
             /\ UNCHANGED <<phase, givers, receivers, paid, turn>>
  /\ UNCHANGED <<order, dealt>>

Next ==
  \/ Deal
  \/ \E s \in Seats : \E c \in hands[s] : SubmitTribute(s, c) \/ SubmitReturn(s, c)

Spec == Init /\ [][Next]_vars

-----------------------------------------------------------------------------
(* Safety.                                                                 *)

(* What an exchange took from a seat and what it brought.                  *)
Lost(s) == dealt[s] \ hands[s]
Got(s)  == hands[s] \ dealt[s]

(* The last exchange moved cards.                                          *)
Exchanged == phase = "play" /\ hands # dealt

Laid(s) == {paid[s], returned[s]} \ {NoCard}

(* No card is lost or doubled: at any time every card is in one hand or    *)
(* laid by one seat, and when play opens every seat has as many cards as   *)
(* it was dealt.                                                           *)
CardsConserved ==
  /\ UNION {hands[s] \cup Laid(s) : s \in Seats} = Cards
  /\ \A s, t \in Seats :
       s # t => (hands[s] \cup Laid(s)) \cap (hands[t] \cup Laid(t)) = {}
  /\ \A s \in Seats : hands[s] \cap Laid(s) = {}
  /\ phase = "play" =>
       \A s \in Seats : Cardinality(hands[s]) = Cardinality(dealt[s])

(* Nobody keeps back a card stronger than the tribute paid (but a wild     *)
(* one), in the order the level sets, and what comes back is no honour.    *)
StrongestPaid ==
  Exchanged => LET paying == PaysWhom(order).givers
               IN  /\ \A g \in paying : \A d \in dealt[g], c \in Lost(g) :
                        Wild(d) \/ Power(d) <= Power(c)
                   /\ \A g \in paying : \A c \in Got(g) : c.rank \in 2 .. 10

(* "First place receives the larger card": no receiver gets a weaker one   *)
(* than a receiver placed behind.                                          *)
BetterPlaceGetsMore ==
  Exchanged =>
    LET n == Cardinality(PaysWhom(order).receivers)
    IN  \A i, j \in 1 .. n : i < j =>
          \A c \in Got(order[i]), d \in Got(order[j]) : Power(c) >= Power(d)

(* Two seats exchange: who pays a receiver gets that receiver's card back. *)
ExchangeIsMutual ==
  Exchanged =>
    \A g \in PaysWhom(order).givers, r \in PaysWhom(order).receivers :
      Lost(g) = Got(r) <=> Lost(r) = Got(g)

(* "The highest tribute giver opens the next deal", the lower seat of two  *)
(* equal ones; without an exchange the winner opens it.                    *)
OpenerPaidMost ==
  phase = "play" =>
    IF ~Exchanged THEN turn = order[1]
    ELSE LET paying == PaysWhom(order).givers
         IN  /\ turn \in paying
             /\ \A g \in paying : \A c \in Lost(turn), d \in Lost(g) :
                  \/ Power(c) > Power(d)
                  \/ Power(c) = Power(d) /\ turn <= g

(* An exchange is never stuck at a giver: whoever still has to pay holds a *)
(* card that may be paid.                                                  *)
GiverCanPay ==
  phase = "exchange" =>
    \A g \in givers : paid[g] = NoCard =>
      \E c \in hands[g] : LegalTribute(hands[g], c)

(* "Holding both big jokers on the tribute side resists tribute": who pays *)
(* never had two of them among the dealt cards.                            *)
PayersLackBothJokers ==
  phase = "exchange" \/ Exchanged =>
    Cardinality({c \in UNION {dealt[g] : g \in PaysWhom(order).givers} :
                   c.rank = BigJoker}) < 2

(* An exchange, once it is over, went by the rules between every two       *)
(* seats, and while it goes on it can.                                     *)
TributeByRules ==
  /\ StrongestPaid /\ BetterPlaceGetsMore /\ ExchangeIsMutual
  /\ GiverCanPay /\ PayersLackBothJokers
=============================================================================
