-------------------------- MODULE MCGuandanTribute --------------------------
(***************************************************************************)
(* Decks and deals of GuandanTribute for TLC.  Two cards a seat are enough *)
(* for a wild card beside an eligible one, ties between givers, the level  *)
(* above Ace, and two big jokers on either side: two givers can tie with   *)
(* the plain level cards while each receiver has a card to return.         *)
(* Two copies of one card differ in nothing but their name, so of two      *)
(* deals that swap them only the one with the copies in seat order counts. *)
(***************************************************************************)
EXTENDS GuandanTribute

Card(rank, heart, copy) == [rank |-> rank, heart |-> heart, copy |-> copy]

(* Level Five: every deal of two cards a seat.                             *)
Deck ==
  {Card(17, FALSE, 1), Card(17, FALSE, 2), Card(5, TRUE, 1), Card(5, FALSE, 1),
   Card(5, FALSE, 2), Card(14, FALSE, 1), Card(10, FALSE, 1), Card(3, TRUE, 1)}

(* The copies of a card lie in seat order.                                 *)
CopiesInOrder(h) ==
  \A s, t \in DOMAIN h : \A c \in h[s], d \in h[t] :
    c.rank = d.rank /\ c.heart = d.heart /\ c.copy < d.copy => s <= t

HandsOfTwo == {h \in SUBSET Deck : Cardinality(h) = 2}

AllDeals ==
  {h \in [0 .. 3 -> HandsOfTwo] :
     /\ \A s, t \in 0 .. 3 : s # t => h[s] \cap h[t] = {}
     /\ CopiesInOrder(h)}
=============================================================================
