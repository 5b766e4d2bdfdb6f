--------------------------- MODULE GuandanHandProofs ---------------------------
(***************************************************************************)
(* Theorems about GuandanHand, for any hands and plays of a deal and any   *)
(* number of clicks and rounds: the page's state keeps its types, and a    *)
(* play that is judged in the round it was pressed in takes the cards the  *)
(* page showed.  For hands with few wild cards (three decks or fewer) the  *)
(* hint is true and its suggestion accepted: the lemmas about GuandanHint  *)
(* say what the cards of a hand can be read as, where the bombs of a hand  *)
(* are, and that a smallest score exists.                                  *)
(***************************************************************************)
EXTENDS GuandanHand, FiniteSetTheorems, SequenceTheorems, WellFoundedInduction, TLAPS

-----------------------------------------------------------------------------
(* Sets in an order.                                                       *)

(* In a finite set with a strict order, for each k some member has exactly *)
(* k - 1 members below it.                                                 *)
LEMMA EachPlaceTaken ==
  ASSUME NEW S, IsFiniteSet(S), NEW below \in [S -> SUBSET S],
         \A i \in S : i \notin below[i],
         \A i, j \in S : i # j => i \in below[j] \/ j \in below[i],
         \A i, j \in S : i \in below[j] => below[i] \subseteq below[j],
         NEW k \in 1 .. Cardinality(S)
  PROVE  \E i \in S : Cardinality(below[i]) = k - 1
<1> DEFINE P == 1 .. Cardinality(S)
           f == [i \in S |-> Cardinality(below[i]) + 1]
<1>1. Cardinality(S) \in Nat
  BY FS_CardinalityType
<1>2. IsFiniteSet(P) /\ Cardinality(P) = Cardinality(S)
  BY <1>1, FS_Interval
<1>3. ASSUME NEW i \in S
      PROVE  /\ IsFiniteSet(below[i]) /\ Cardinality(below[i]) \in Nat
             /\ Cardinality(below[i]) + 1 \in P
  <2>1. below[i] \subseteq S \ {i}
    OBVIOUS
  <2>2. IsFiniteSet(S \ {i}) /\ Cardinality(S \ {i}) = Cardinality(S) - 1
    BY FS_RemoveElement
  <2>3. IsFiniteSet(below[i]) /\ Cardinality(below[i]) <= Cardinality(S) - 1
    BY <2>1, <2>2, FS_Subset
  <2>4. Cardinality(below[i]) \in Nat
    BY <2>3, FS_CardinalityType
  <2>5. QED
    BY <1>1, <2>3, <2>4
<1>4. ASSUME NEW i \in S, NEW j \in S, i \in below[j]
      PROVE  Cardinality(below[i]) < Cardinality(below[j])
  <2>1. below[i] \subseteq below[j] \ {i}
    BY <1>4
  <2>2. IsFiniteSet(below[j] \ {i})
        /\ Cardinality(below[j] \ {i}) = Cardinality(below[j]) - 1
    BY <1>3, <1>4, FS_RemoveElement
  <2>3. Cardinality(below[i]) <= Cardinality(below[j]) - 1
    BY <2>1, <2>2, FS_Subset
  <2>4. Cardinality(below[i]) \in Nat /\ Cardinality(below[j]) \in Nat
    BY <1>3
  <2>5. QED
    BY <2>3, <2>4
<1>5. ASSUME NEW i \in S, NEW j \in S, f[i] = f[j]
      PROVE  i = j
  <2>1. Cardinality(below[i]) \in Nat /\ Cardinality(below[j]) \in Nat
    BY <1>3
  <2>2. Cardinality(below[i]) = Cardinality(below[j])
    BY <1>5, <2>1
  <2>3. ~(i \in below[j]) /\ ~(j \in below[i])
    BY <1>4, <2>1, <2>2
  <2>4. QED
    BY <2>3
<1>6. f \in [S -> P] /\ \A i \in S : f[i] = Cardinality(below[i]) + 1
  BY <1>3
<1> HIDE DEF P, f
<1>7. f \in Injection(S, P)
  BY <1>5, <1>6 DEF Injection, IsInjective
<1>8. f \in Surjection(S, P)
  BY <1>2, <1>7, FS_Injection
<1>9. PICK i \in S : f[i] = k
  BY <1>8 DEF Surjection, P
<1>10. Cardinality(below[i]) \in Nat /\ Cardinality(below[i]) + 1 = k
  BY <1>3, <1>6, <1>9
<1>11. QED
  BY <1>10

(* Numbers in increasing order are a sequence of them, each of them once.  *)
LEMMA NumbersInOrder ==
  ASSUME NEW S \in SUBSET Nat, IsFiniteSet(S)
  PROVE  /\ InOrder(S, <) \in [1 .. Cardinality(S) -> S]
         /\ \A j, k \in 1 .. Cardinality(S) :
              InOrder(S, <)[j] = InOrder(S, <)[k] => j = k
<1> DEFINE below == [i \in S |-> {j \in S : j < i}]
<1>1. below \in [S -> SUBSET S]
  OBVIOUS
<1>2. \A i \in S : below[i] = {j \in S : j < i}
  OBVIOUS
<1> HIDE DEF below
<1>3. \A i \in S : i \in Nat
  OBVIOUS
<1>4. /\ \A i \in S : i \notin below[i]
      /\ \A i, j \in S : i # j => i \in below[j] \/ j \in below[i]
      /\ \A i, j \in S : i \in below[j] => below[i] \subseteq below[j]
  <2>1. \A i, j \in S : j \in below[i] <=> j < i
    BY <1>2
  <2>2. \A i \in S : i \notin below[i]
    BY <1>3, <2>1
  <2>3. \A i, j \in S : i # j => i \in below[j] \/ j \in below[i]
    BY <1>3, <2>1
  <2>4. ASSUME NEW i \in S, NEW j \in S, i \in below[j], NEW h \in below[i]
        PROVE  h \in below[j]
    <3>1. h \in S /\ h \in Nat /\ i \in Nat /\ j \in Nat
      BY <1>1, <1>3
    <3>2. h < i /\ i < j
      BY <2>1, <2>4, <3>1
    <3>3. QED
      BY <2>1, <3>1, <3>2
  <2>5. QED
    BY <2>2, <2>3, <2>4
<1>5. \A k \in 1 .. Cardinality(S) : \E i \in S : Cardinality(below[i]) = k - 1
  BY <1>1, <1>4, EachPlaceTaken
<1>6. \A k \in 1 .. Cardinality(S) :
        (CHOOSE i \in S : Cardinality({j \in S : j < i}) = k - 1) \in S
  BY <1>2, <1>5
<1>7. \A k \in 1 .. Cardinality(S) :
        LET i == CHOOSE i \in S : Cardinality({j \in S : j < i}) = k - 1
        IN  Cardinality({j \in S : j < i}) = k - 1
  BY <1>2, <1>5
<1>8. Cardinality(S) \in Nat
  BY FS_CardinalityType
<1>9. \A k \in 1 .. Cardinality(S) :
        InOrder(S, <)[k] = CHOOSE i \in S : Cardinality({j \in S : j < i}) = k - 1
  BY DEF InOrder
<1>10. ASSUME NEW j \in 1 .. Cardinality(S), NEW k \in 1 .. Cardinality(S),
              InOrder(S, <)[j] = InOrder(S, <)[k]
       PROVE  j = k
  <2>1. j - 1 = k - 1
    BY <1>7, <1>9, <1>10
  <2>2. QED
    BY <1>8, <2>1
<1>11. QED
  BY <1>6, <1>10 DEF InOrder

(* A card's place in the sorted hand is a number.                          *)
LEMMA SortValueType ==
  ASSUME NEW card \in Cards
  PROVE  SortValue(card) \in Int
BY LevelAssumption
   DEF SortValue, IsJoker, Cards, Suits, Hearts, NoSuit, Ranks, SmallJoker, BigJoker

(* A hand in the order of the page shows each card at a place of its own.  *)
LEMMA CardsOrdered ==
  ASSUME NEW cards \in Seq(Cards), NEW direction \in {1, -1}
  PROVE  Ordered(cards, direction) \in [1 .. Len(cards) -> DOMAIN cards]
<1> DEFINE S == DOMAIN cards
           value == [i \in S |-> direction * SortValue(cards[i])]
           below == [i \in S |->
                       {j \in S : \/ value[j] < value[i]
                                  \/ value[j] = value[i] /\ j < i}]
<1>1. S = 1 .. Len(cards) /\ Len(cards) \in Nat
  OBVIOUS
<1>2. \A i \in S : SortValue(cards[i]) \in Int
  BY SortValueType
<1>3. \A i \in S : value[i] \in Int
  BY <1>2
<1>4. IsFiniteSet(S) /\ Cardinality(S) = Len(cards)
  BY <1>1, FS_Interval
<1>5. \A i, j \in S :
        j \in below[i] <=>
          LET v == SortValue(cards[j])
              w == SortValue(cards[i])
          IN  direction * v < direction * w \/ (v = w /\ j < i)
  BY <1>1, <1>2, <1>3
<1>6. below \in [S -> SUBSET S]
  OBVIOUS
<1> HIDE DEF value
<1>7. /\ \A i \in S : i \notin below[i]
      /\ \A i, j \in S : i # j => i \in below[j] \/ j \in below[i]
      /\ \A i, j \in S : i \in below[j] => below[i] \subseteq below[j]
  BY <1>1, <1>3
<1> HIDE DEF below
<1>8. \A k \in 1 .. Len(cards) : \E i \in S : Cardinality(below[i]) = k - 1
  <2> HIDE DEF S
  <2>1. QED
    BY <1>4, <1>6, <1>7, EachPlaceTaken
<1>9. \A i \in S :
        below[i] = {j \in S : LET v == SortValue(cards[j])
                                  w == SortValue(cards[i])
                              IN  direction * v < direction * w \/ (v = w /\ j < i)}
  BY <1>5, <1>6
<1>10. \A k \in 1 .. Len(cards) :
         (CHOOSE i \in S :
            Cardinality({j \in S : LET v == SortValue(cards[j])
                                       w == SortValue(cards[i])
                                   IN  \/ direction * v < direction * w
                                       \/ (v = w /\ j < i)}) = k - 1) \in S
  BY <1>8, <1>9
<1>11. QED
  BY <1>4, <1>10 DEF Ordered, InOrder

-----------------------------------------------------------------------------
(* The inductive invariant.                                                *)

Page     == [hand : Seq(Cards), table : Seq(Cards), mine : BOOLEAN, round : Nat]
Messages == [kind : {"state", "hand"}, hand : Seq(Cards), table : Seq(Cards),
             mine : BOOLEAN, round : Nat]
Commands == [do : {"play", "pass"}, indexes : SUBSET Indices, shown : Seq(Cards),
             round : Nat]

ServerType ==
  /\ hand \in Seq(Cards) /\ table \in Seq(Cards)
  /\ mine \in BOOLEAN /\ robots \in BOOLEAN
  /\ rounds \in 0 .. MaxRounds

WireType == upstream \in Seq(Commands) /\ downlink \in Seq(Messages)

PageType ==
  /\ page \in Page
  /\ canBeat \in BOOLEAN /\ dealing \in BOOLEAN
  /\ order \in {"asc", "desc"} /\ button \in BOOLEAN
  /\ selected \subseteq Indices
  /\ clicks \in 0 .. MaxClicks

(* A hand that is spoken of, h of round r, is of a round that has come     *)
(* (now), and while the player is on turn (asked) one of this round is the *)
(* hand the server holds.                                                  *)
Known(h, r, now, asked, held) == r <= now /\ (asked /\ r = now => h = held)

(* So it is with the page, and with whatever is on its way.                *)
OneHand ==
  /\ Known(page.hand, page.round, rounds, mine, hand)
  /\ \A n \in DOMAIN downlink :
       Known(downlink[n].hand, downlink[n].round, rounds, mine, hand)
  /\ \A n \in DOMAIN upstream :
       Known(upstream[n].shown, upstream[n].round, rounds, mine, hand)

IInv == ServerType /\ WireType /\ PageType /\ OneHand

-----------------------------------------------------------------------------
(* What the page and the server do to a hand.                              *)

(* What others lay is a play of the deal, or nothing.                      *)
LEMMA ReturnedPlays ==
  /\ Hands \subseteq Seq(Cards) /\ Plays \subseteq Seq(Cards)
  /\ Returns \subseteq Seq(Cards)
  /\ MaxRounds \in Nat /\ MaxClicks \in Nat
<1>1. Hands \subseteq Seq(Cards) /\ Plays \subseteq Seq(Cards)
  BY HandsAssumption
<1>2. <<>> \in Seq(Cards)
  OBVIOUS
<1>3. Returns \subseteq Seq(Cards)
  BY <1>1, <1>2, ReturnsAssumption
<1>4. MaxRounds \in Nat /\ MaxClicks \in Nat
  BY BoundsAssumption
<1>5. QED
  BY <1>1, <1>3, <1>4

(* The places of the cards on the page are numbers from 1.                 *)
LEMMA VisiblePlaces ==
  ASSUME PageType
  PROVE  \A n \in DOMAIN Visible : Visible[n] \in Indices
<1> DEFINE cards == Shown(page.hand)
           direction == IF order = "asc" THEN 1 ELSE -1
<1>1. page.hand \in Seq(Cards)
  BY DEF PageType, Page
<1>2. cards \in Seq(Cards)
  <2>1. CASE ~dealing
    BY <1>1, <2>1 DEF Shown
  <2>2. CASE dealing
    <3>1. /\ Len(page.hand) \in Nat
          /\ Len(page.hand) \div 2 \in Nat
          /\ Len(page.hand) \div 2 <= Len(page.hand)
      <4>1. Len(page.hand) \in Nat
        BY <1>1
      <4>2. \A l \in Nat : l \div 2 \in Nat /\ l \div 2 <= l
        OBVIOUS
      <4>3. QED
        BY <4>1, <4>2
    <3>2. /\ 1 \in Int /\ Len(page.hand) \div 2 \in Int
          /\ \A i \in 1 .. Len(page.hand) \div 2 : i \in 1 .. Len(page.hand)
      <4> DEFINE half == Len(page.hand) \div 2
      <4>1. half \in Nat /\ half <= Len(page.hand) /\ Len(page.hand) \in Nat
        BY <3>1
      <4> HIDE DEF half
      <4>2. 1 \in Int /\ half \in Int
            /\ \A i \in 1 .. half : i \in 1 .. Len(page.hand)
        BY <4>1
      <4>3. QED
        BY <4>2 DEF half
    <3>3. \A i \in 1 .. Len(page.hand) \div 2 : page.hand[i] \in Cards
      <4>1. \A i \in 1 .. Len(page.hand) : page.hand[i] \in Cards
        BY <1>1
      <4>2. QED
        BY <3>2, <4>1
    <3>4. SubSeq(page.hand, 1, Len(page.hand) \div 2) \in Seq(Cards)
      BY <3>2, <3>3, SubSeqProperties
    <3>5. QED
      BY <2>2, <3>4 DEF Shown
  <2>3. QED
    BY <2>1, <2>2
<1>3. direction \in {1, -1}
  OBVIOUS
<1>4. Visible = Ordered(cards, direction)
  BY DEF Visible
<1> HIDE DEF cards, direction
<1>5. Visible \in [1 .. Len(cards) -> DOMAIN cards]
  BY <1>2, <1>3, <1>4, CardsOrdered
<1>6. DOMAIN cards \subseteq Indices
  BY <1>2 DEF Indices
<1>7. QED
  BY <1>5, <1>6

(* Taking cards out of a hand, or all others, leaves a hand.               *)
LEMMA WithoutType ==
  ASSUME NEW cards \in Seq(Cards), NEW gone
  PROVE  Without(cards, gone) \in Seq(Cards)
<1> DEFINE S == DOMAIN cards \ gone
           m == Cardinality(S)
           kept == InOrder(S, <)
<1>1. DOMAIN cards = 1 .. Len(cards) /\ Len(cards) \in Nat
  OBVIOUS
<1>2. IsFiniteSet(S) /\ S \in SUBSET Nat
  <2>1. IsFiniteSet(1 .. Len(cards))
    BY <1>1, FS_Interval
  <2>2. QED
    BY <1>1, <2>1, FS_Subset
<1>3. m \in Nat
  BY <1>2, FS_CardinalityType
<1>4. kept \in [1 .. m -> S]
  BY <1>2, NumbersInOrder
<1>5. Without(cards, gone) = [k \in DOMAIN kept |-> cards[kept[k]]]
  BY DEF Without
<1>6. \A s \in S : cards[s] \in Cards
  OBVIOUS
<1> HIDE DEF kept, m, S
<1>7. Without(cards, gone) \in [1 .. m -> Cards]
  BY <1>4, <1>5, <1>6
<1>8. QED
  BY <1>3, <1>7

(* A publication puts the table first and the hand after it, at the end of *)
(* what is on its way.                                                     *)
LEMMA Published ==
  ASSUME downlink \in Seq(Messages), NEW h \in Seq(Cards), NEW t \in Seq(Cards),
         NEW b \in BOOLEAN, rounds' \in Nat, Publish(h, t, b)
  PROVE  /\ downlink' \in Seq(Messages)
         /\ \A n \in DOMAIN downlink' :
              \/ n \in DOMAIN downlink /\ downlink'[n] = downlink[n]
              \/ /\ downlink'[n].hand = h /\ downlink'[n].table = t
                 /\ downlink'[n].mine = b /\ downlink'[n].round = rounds'
<1> DEFINE m == [kind |-> "state", hand |-> h, table |-> t, mine |-> b,
                 round |-> rounds']
           w == [m EXCEPT !.kind = "hand"]
           two == <<m, w>>
           l == Len(downlink)
<1>1. downlink' = downlink \o two
  BY DEF Publish
<1>2. /\ m \in Messages /\ w \in Messages
      /\ m.hand = h /\ w.hand = h /\ m.round = rounds' /\ w.round = rounds'
      /\ m.table = t /\ w.table = t /\ m.mine = b /\ w.mine = b
  BY DEF Messages
<1> HIDE DEF m, w
<1>3. two \in Seq(Messages) /\ Len(two) = 2 /\ two[1] = m /\ two[2] = w
  BY <1>2
<1>4. l \in Nat /\ DOMAIN downlink = 1 .. l
  OBVIOUS
<1> HIDE DEF two
<1>5. /\ downlink' \in Seq(Messages) /\ Len(downlink') = l + 2
      /\ \A n \in 1 .. l + 2 :
           downlink'[n] = IF n <= l THEN downlink[n] ELSE two[n - l]
  <2>1. /\ downlink \o two \in Seq(Messages)
        /\ Len(downlink \o two) = Len(downlink) + Len(two)
        /\ \A n \in 1 .. Len(downlink) + Len(two) :
             (downlink \o two)[n] =
               IF n <= Len(downlink) THEN downlink[n] ELSE two[n - Len(downlink)]
    BY <1>3, ConcatProperties
  <2>2. QED
    BY <1>1, <1>3, <2>1
<1>6. DOMAIN downlink' = 1 .. l + 2
  BY <1>4, <1>5
<1> HIDE DEF l
<1>8. ASSUME NEW n \in 1 .. l + 2
      PROVE  \/ n \in 1 .. l /\ downlink'[n] = downlink[n]
             \/ /\ downlink'[n].hand = h /\ downlink'[n].table = t
                /\ downlink'[n].mine = b /\ downlink'[n].round = rounds'
  <2>1. CASE n <= l
    BY <1>4, <1>5, <2>1
  <2>2. CASE ~(n <= l)
    <3>1. n - l = 1 \/ n - l = 2
      BY <1>4, <2>2
    <3>2. downlink'[n] = m \/ downlink'[n] = w
      BY <1>3, <1>5, <2>2, <3>1
    <3>3. QED
      BY <1>2, <3>2
  <2>3. QED
    BY <2>1, <2>2
<1>9. QED
  BY <1>4, <1>5, <1>6, <1>8

(* A hand stays known when the player's turn is over, and when a new round *)
(* comes.                                                                  *)
LEMMA StaysKnown ==
  ASSUME NEW now \in Nat, NEW next, NEW asked, NEW askedNext, NEW held, NEW heldNext,
         (~askedNext /\ next = now) \/ next = now + 1
  PROVE  \A h, r : r \in Nat /\ Known(h, r, now, asked, held)
                    => Known(h, r, next, askedNext, heldNext)
<1> SUFFICES ASSUME NEW h, NEW r \in Nat, Known(h, r, now, asked, held)
             PROVE  Known(h, r, next, askedNext, heldNext)
  OBVIOUS
<1>1. r <= now
  BY DEF Known
<1>2. r <= now + 1 /\ r # now + 1
  BY <1>1
<1>3. QED
  BY <1>1, <1>2 DEF Known

(* A turn that ends or comes back keeps the invariant, whoever moved.      *)
LEMMA MoveKeeps ==
  ASSUME IInv, NEW h \in Seq(Cards), NEW t \in Seq(Cards), NEW b \in BOOLEAN,
         hand' = h, table' = t, mine' = b, rounds' \in 0 .. MaxRounds,
         Publish(h, t, b), (~b /\ UNCHANGED rounds) \/ rounds' = rounds + 1,
         upstream' \in Seq(Commands),
         \A n \in DOMAIN upstream' :
           \E k \in DOMAIN upstream : upstream'[n] = upstream[k],
         UNCHANGED <<robots, page, canBeat, dealing, order, selected, button, clicks>>
  PROVE  IInv'
<1>1. ServerType /\ WireType /\ PageType /\ OneHand
  BY DEF IInv
<1>2. ServerType' /\ PageType'
  BY <1>1 DEF ServerType, PageType
<1>3. rounds \in Nat /\ rounds' \in Nat
  BY <1>1, ReturnedPlays DEF ServerType
<1>4. /\ downlink' \in Seq(Messages)
      /\ \A n \in DOMAIN downlink' :
           \/ n \in DOMAIN downlink /\ downlink'[n] = downlink[n]
           \/ downlink'[n].hand = h /\ downlink'[n].round = rounds'
  BY <1>1, <1>3, Published DEF WireType
<1>5. WireType'
  BY <1>4 DEF WireType
<1>6. \A g, r : r \in Nat /\ Known(g, r, rounds, mine, hand)
                => Known(g, r, rounds', b, h)
  BY <1>3, StaysKnown
<1>7. Known(page.hand, page.round, rounds', b, h)
  <2>1. page.round \in Nat
    BY <1>1 DEF PageType, Page
  <2>2. QED
    BY <2>1, <1>1, <1>6 DEF OneHand
<1>8. ASSUME NEW n \in DOMAIN downlink'
      PROVE  Known(downlink'[n].hand, downlink'[n].round, rounds', b, h)
  <2>1. CASE downlink'[n].hand = h /\ downlink'[n].round = rounds'
    BY <2>1, <1>3 DEF Known
  <2>2. CASE n \in DOMAIN downlink /\ downlink'[n] = downlink[n]
    <3>1. downlink[n] \in Messages
      BY <2>2, <1>1 DEF WireType
    <3>2. downlink[n].round \in Nat
      BY <3>1 DEF Messages
    <3>3. QED
      BY <2>2, <3>2, <1>1, <1>6 DEF OneHand
  <2>3. QED
    BY <1>4, <2>1, <2>2
<1>9. ASSUME NEW n \in DOMAIN upstream'
      PROVE  Known(upstream'[n].shown, upstream'[n].round, rounds', b, h)
  <2>1. PICK k \in DOMAIN upstream : upstream'[n] = upstream[k]
    OBVIOUS
  <2>2. upstream[k] \in Commands
    BY <1>1 DEF WireType
  <2>3. upstream[k].round \in Nat
    BY <2>2 DEF Commands
  <2>4. QED
    BY <2>1, <2>3, <1>1, <1>6 DEF OneHand
<1>10. OneHand'
  BY <1>7, <1>8, <1>9 DEF OneHand
<1>11. QED
  BY <1>2, <1>5, <1>10 DEF IInv

-----------------------------------------------------------------------------
(* The steps.                                                              *)

(* The page starts on the hand and the table the server has.               *)
LEMMA InitInv ==
  ASSUME Init
  PROVE  IInv
<1>1. /\ hand \in Seq(Cards) /\ table \in Seq(Cards)
      /\ MaxRounds \in Nat /\ MaxClicks \in Nat
  BY ReturnedPlays DEF Init
<1>2. ServerType
  BY <1>1 DEF Init, ServerType
<1>3. /\ page = [hand |-> hand, table |-> table, mine |-> TRUE, round |-> 0]
      /\ page \in Page
  BY <1>1 DEF Init, Page
<1>4. canBeat \in BOOLEAN
  BY DEF Init, Memo
<1>5. PageType
  <2>1. dealing \in BOOLEAN /\ order \in {"asc", "desc"}
        /\ selected = {} /\ button = FALSE /\ clicks = 0
    BY DEF Init
  <2>2. clicks \in 0 .. MaxClicks
    BY <1>1, <2>1
  <2>3. button \in BOOLEAN
    BY <2>1
  <2>4. QED
    BY <1>3, <1>4, <2>1, <2>2, <2>3 DEF PageType
<1>6. WireType
  BY DEF Init, WireType
<1>7. OneHand
  <2>1. Known(page.hand, page.round, rounds, mine, hand)
    BY <1>3 DEF Init, Known
  <2>2. DOMAIN upstream = {} /\ DOMAIN downlink = {}
    BY DEF Init
  <2>3. QED
    BY <2>1, <2>2 DEF OneHand
<1>8. QED
  BY <1>2, <1>5, <1>6, <1>7 DEF IInv

(* What is pressed on the page, short of a command, stays on the page.     *)
LEMMA PageKeeps ==
  ASSUME IInv, UNCHANGED <<server, upstream, downlink, page>>, PageType'
  PROVE  IInv'
<1>1. UNCHANGED <<hand, table, mine, robots, rounds>>
  BY DEF server
<1>2. ServerType' /\ WireType' /\ OneHand'
  BY <1>1 DEF IInv, ServerType, WireType, OneHand, Known
<1>3. QED
  BY <1>2 DEF IInv

(* Cards picked one by one or suggested are cards the page shows.          *)
LEMMA SelectKeeps ==
  ASSUME IInv, Click, NEW new \in SUBSET Indices, Select(new),
         UNCHANGED <<server, upstream, downlink, page, canBeat, dealing, order>>
  PROVE  IInv'
<1>1. clicks' \in 0 .. MaxClicks
  BY ReturnedPlays DEF IInv, PageType, Click
<1>2. selected' \subseteq Indices /\ button' \in BOOLEAN
  BY DEF Select, IInv, PageType
<1>3. PageType'
  BY <1>1, <1>2 DEF IInv, PageType
<1>4. QED
  BY <1>3, PageKeeps

(* A card is selected or let go by its place.                              *)
LEMMA ToggleCardKeeps ==
  ASSUME IInv, ToggleCard
  PROVE  IInv'
<1>1. PICK i \in ToSet(Visible) : Select(SymDiff(selected, {i}))
  BY DEF ToggleCard
<1>2. i \in Indices
  BY VisiblePlaces DEF IInv, ToSet
<1>3. SymDiff(selected, {i}) \in SUBSET Indices
  BY <1>2 DEF SymDiff, IInv, PageType
<1>4. QED
  BY <1>1, <1>3, SelectKeeps DEF ToggleCard

(* A suggestion selects places of the hand on show.                        *)
LEMMA ShowSuggestionKeeps ==
  ASSUME IInv, ShowSuggestion
  PROVE  IInv'
<1>1. PICK suggested : Select(Pressed(suggested))
  BY DEF ShowSuggestion
<1>2. \A n \in DOMAIN Visible : Visible[n] \in Indices
  BY VisiblePlaces DEF IInv
<1>3. Pressed(suggested) \in SUBSET Indices
  BY <1>2 DEF Pressed, IInv, PageType
<1>4. QED
  BY <1>1, <1>3, SelectKeeps DEF ShowSuggestion

(* Sorting the other way keeps the selected places.                        *)
LEMMA ToggleOrderKeeps ==
  ASSUME IInv, ToggleOrder
  PROVE  IInv'
<1>1. clicks' \in 0 .. MaxClicks
  BY ReturnedPlays DEF IInv, PageType, ToggleOrder, Click
<1>2. PageType'
  BY <1>1 DEF IInv, PageType, ToggleOrder
<1>3. QED
  BY <1>2, PageKeeps DEF ToggleOrder

(* The end of the dealing animation shows the rest of the hand.            *)
LEMMA EndDealingKeeps ==
  ASSUME IInv, EndDealing
  PROVE  IInv'
<1>1. PageType'
  BY DEF IInv, PageType, EndDealing
<1>2. QED
  BY <1>1, PageKeeps DEF EndDealing

(* A command carries the hand the page shows.                              *)
LEMMA SendKeeps ==
  ASSUME IInv, NEW do \in {"play", "pass"}, NEW indexes \in SUBSET Indices,
         Send(do, indexes), UNCHANGED <<server, downlink, shown>>
  PROVE  IInv'
<1> DEFINE c == [do |-> do, indexes |-> indexes, shown |-> page.hand,
                 round |-> page.round]
<1>1. /\ upstream' = Append(upstream, c)
      /\ UNCHANGED <<hand, table, mine, robots, rounds, downlink>>
      /\ UNCHANGED <<page, canBeat, dealing, order, selected, button>>
      /\ clicks' \in 0 .. MaxClicks
  BY ReturnedPlays DEF Send, Click, server, shown, IInv, PageType
<1>2. page.hand \in Seq(Cards) /\ page.round \in Nat
  BY DEF IInv, PageType, Page
<1>3. c \in Commands /\ c.shown = page.hand /\ c.round = page.round
  BY <1>2 DEF Commands
<1> HIDE DEF c
<1>4. upstream \in Seq(Commands)
  BY DEF IInv, WireType
<1>5. /\ upstream' \in Seq(Commands)
      /\ \A n \in DOMAIN upstream' :
           \/ n \in DOMAIN upstream /\ upstream'[n] = upstream[n]
           \/ upstream'[n] = c
  <2>1. /\ Append(upstream, c) \in Seq(Commands)
        /\ Len(Append(upstream, c)) = Len(upstream) + 1
        /\ \A n \in 1 .. Len(upstream) : Append(upstream, c)[n] = upstream[n]
        /\ Append(upstream, c)[Len(upstream) + 1] = c
    BY <1>3, <1>4, AppendProperties
  <2>2. /\ Len(upstream) \in Nat /\ DOMAIN upstream = 1 .. Len(upstream)
        /\ DOMAIN Append(upstream, c) = 1 .. Len(upstream) + 1
    BY <1>4, <2>1
  <2>3. \A n \in 1 .. Len(upstream) + 1 :
          n \in 1 .. Len(upstream) \/ n = Len(upstream) + 1
    BY <2>2
  <2>4. QED
    BY <1>1, <2>1, <2>2, <2>3
<1>6. ServerType' /\ WireType'
  BY <1>1, <1>5 DEF IInv, ServerType, WireType
<1>7. PageType'
  BY <1>1 DEF IInv, PageType
<1>8. OneHand'
  BY <1>1, <1>3, <1>5 DEF IInv, OneHand, Known
<1>9. QED
  BY <1>6, <1>7, <1>8 DEF IInv

(* Play sends the selected places.                                         *)
LEMMA PressPlayKeeps ==
  ASSUME IInv, PressPlay
  PROVE  IInv'
<1>1. selected \in SUBSET Indices
  BY DEF IInv, PageType
<1>2. QED
  BY <1>1, SendKeeps DEF PressPlay

(* Pass sends no places.                                                   *)
LEMMA PressPassKeeps ==
  ASSUME IInv, PressPass
  PROVE  IInv'
BY SendKeeps DEF PressPass

(* What is left of the messages or commands once the first has been taken. *)
LEMMA Taken ==
  ASSUME NEW X, NEW q \in Seq(X), q # <<>>
  PROVE  /\ Head(q) \in X /\ Tail(q) \in Seq(X)
         /\ 1 \in DOMAIN q /\ Head(q) = q[1]
         /\ \A n \in DOMAIN Tail(q) : n + 1 \in DOMAIN q /\ Tail(q)[n] = q[n + 1]
<1>1. /\ Head(q) \in X /\ Tail(q) \in Seq(X)
      /\ Len(Tail(q)) = Len(q) - 1
      /\ \A i \in 1 .. Len(Tail(q)) : Tail(q)[i] = q[i + 1]
  BY HeadTailProperties
<1>2. Len(q) \in Nat /\ Len(q) >= 1 /\ DOMAIN q = 1 .. Len(q) /\ Head(q) = q[1]
  OBVIOUS
<1>3. DOMAIN Tail(q) = 1 .. Len(q) - 1
  BY <1>1
<1>4. \A i \in 1 .. Len(q) - 1 : i + 1 \in 1 .. Len(q)
  BY <1>2
<1>5. QED
  BY <1>1, <1>2, <1>3, <1>4

(* A message shows the table, the hand or both.                            *)
LEMMA ReceiveKeeps ==
  ASSUME IInv, Receive
  PROVE  IInv'
<1> DEFINE m == Head(downlink)
<1>1. downlink \in Seq(Messages) /\ downlink # <<>> /\ downlink' = Tail(downlink)
  BY DEF IInv, WireType, Receive
<1>2. /\ m \in Messages /\ Tail(downlink) \in Seq(Messages)
      /\ 1 \in DOMAIN downlink /\ m = downlink[1]
      /\ \A n \in DOMAIN Tail(downlink) :
           n + 1 \in DOMAIN downlink /\ Tail(downlink)[n] = downlink[n + 1]
  BY <1>1, Taken
<1>3. /\ page' = [page EXCEPT
                    !.hand = IF m.kind = "hand" \/ m.hand = <<>> THEN m.hand ELSE @,
                    !.round = IF m.kind = "hand" \/ m.hand = <<>> THEN m.round ELSE @,
                    !.table = IF m.kind = "state" THEN m.table ELSE @,
                    !.mine = IF m.kind = "state" THEN m.mine ELSE @]
      /\ canBeat' = Memo(page')
      /\ selected' = {} \/ selected' = selected
      /\ button' \in BOOLEAN
      /\ UNCHANGED <<hand, table, mine, robots, rounds, upstream, dealing, order,
                     clicks>>
  BY DEF Receive, server
<1> HIDE DEF m
<1>4. page \in Page
  BY DEF IInv, PageType
<1>5. /\ page' \in Page
      /\ \/ page'.hand = m.hand /\ page'.round = m.round
         \/ page'.hand = page.hand /\ page'.round = page.round
  BY <1>2, <1>3, <1>4 DEF Page, Messages
<1>6. canBeat' \in BOOLEAN
  BY <1>3 DEF Memo
<1>7. PageType'
  BY <1>3, <1>5, <1>6 DEF IInv, PageType
<1>8. ServerType' /\ WireType'
  BY <1>1, <1>2, <1>3 DEF IInv, ServerType, WireType
<1>9. OneHand'
  BY <1>1, <1>2, <1>3, <1>5 DEF IInv, OneHand, Known
<1>10. QED
  BY <1>7, <1>8, <1>9 DEF IInv

(* The server answers a move with its new hand; the player's turn is over  *)
(* then, or comes back in a new round.                                     *)
LEMMA HandleCommandKeeps ==
  ASSUME IInv, HandleCommand
  PROVE  IInv'
<1> DEFINE c == Head(upstream)
           kept == Without(hand, c.indexes)
           laid == IF c.do = "play" THEN Without(hand, DOMAIN hand \ c.indexes)
                   ELSE table
<1>1. /\ upstream \in Seq(Commands) /\ upstream # <<>>
      /\ upstream' = Tail(upstream)
      /\ downlink \in Seq(Messages)
      /\ UNCHANGED <<robots, page, canBeat, dealing, order, selected, button,
                     clicks>>
  BY DEF IInv, WireType, HandleCommand, shown
<1>2. /\ upstream' \in Seq(Commands)
      /\ \A n \in DOMAIN upstream' :
           n + 1 \in DOMAIN upstream /\ upstream'[n] = upstream[n + 1]
  BY <1>1, Taken
<1>3. /\ hand \in Seq(Cards) /\ table \in Seq(Cards) /\ mine \in BOOLEAN
      /\ robots \in BOOLEAN /\ rounds \in 0 .. MaxRounds
  BY DEF IInv, ServerType
<1>4. kept \in Seq(Cards) /\ laid \in Seq(Cards)
  BY <1>3, WithoutType
<1>5. \/ UNCHANGED <<hand, table, mine, robots, rounds, downlink>>
      \/ /\ hand' = kept /\ table' = laid /\ mine' = FALSE
         /\ UNCHANGED rounds /\ Publish(kept, laid, FALSE)
      \/ /\ robots /\ rounds < MaxRounds /\ rounds' = rounds + 1
         /\ \E t \in Returns :
              hand' = kept /\ table' = t /\ mine' = TRUE /\ Publish(kept, t, TRUE)
  BY DEF HandleCommand, server
<1> HIDE DEF c, kept, laid
<1>6. CASE UNCHANGED <<hand, table, mine, robots, rounds, downlink>>
  <2>1. ServerType' /\ WireType' /\ PageType'
    BY <1>1, <1>2, <1>6 DEF IInv, ServerType, WireType, PageType
  <2>2. OneHand'
    BY <1>1, <1>2, <1>6 DEF IInv, OneHand
  <2>3. QED
    BY <2>1, <2>2 DEF IInv
<1>7. \A n \in DOMAIN upstream' : \E k \in DOMAIN upstream : upstream'[n] = upstream[k]
  BY <1>2
<1>8. CASE /\ hand' = kept /\ table' = laid /\ mine' = FALSE
           /\ UNCHANGED rounds /\ Publish(kept, laid, FALSE)
  <2>1. rounds' \in 0 .. MaxRounds
    BY <1>3, <1>8
  <2>2. QED
    BY <1>1, <1>2, <1>4, <1>7, <1>8, <2>1, MoveKeeps
<1>9. CASE /\ robots /\ rounds < MaxRounds /\ rounds' = rounds + 1
           /\ \E t \in Returns :
                hand' = kept /\ table' = t /\ mine' = TRUE /\ Publish(kept, t, TRUE)
  <2>1. PICK t \in Returns :
          hand' = kept /\ table' = t /\ mine' = TRUE /\ Publish(kept, t, TRUE)
    BY <1>9
  <2>2. t \in Seq(Cards) /\ rounds' \in 0 .. MaxRounds
    BY <1>3, <1>9, ReturnedPlays
  <2>3. QED
    BY <1>1, <1>2, <1>4, <1>7, <1>9, <2>1, <2>2, MoveKeeps
<1>10. QED
  BY <1>5, <1>6, <1>8, <1>9

(* The turn comes back, whatever is on its way.                            *)
LEMMA OthersMoveKeeps ==
  ASSUME IInv, OthersMove
  PROVE  IInv'
<1>1. /\ rounds < MaxRounds /\ rounds' = rounds + 1 /\ mine' = TRUE
      /\ UNCHANGED <<hand, robots, upstream, page, canBeat, dealing, order,
                     selected, button, clicks>>
  BY DEF OthersMove, shown
<1>2. PICK t \in Returns : table' = t /\ Publish(hand, t, TRUE)
  BY DEF OthersMove
<1>3. hand \in Seq(Cards) /\ rounds \in 0 .. MaxRounds /\ upstream \in Seq(Commands)
  BY DEF IInv, ServerType, WireType
<1>4. t \in Seq(Cards) /\ rounds' \in 0 .. MaxRounds
  BY <1>1, <1>3, ReturnedPlays
<1>5. /\ upstream' \in Seq(Commands)
      /\ \A n \in DOMAIN upstream' : \E k \in DOMAIN upstream : upstream'[n] = upstream[k]
  BY <1>1, <1>3
<1>6. QED
  BY <1>1, <1>2, <1>3, <1>4, <1>5, MoveKeeps

-----------------------------------------------------------------------------
(* The theorems.                                                           *)

(* One hand at a time is spoken of, in every reachable state.              *)
THEOREM Invariant == Spec => []IInv
<1>1. Init => IInv
  BY InitInv
<1>2. IInv /\ [Next]_vars => IInv'
  <2> SUFFICES ASSUME IInv, [Next]_vars PROVE IInv'
    OBVIOUS
  <2>1. CASE ToggleCard
    BY <2>1, ToggleCardKeeps
  <2>2. CASE ToggleOrder
    BY <2>2, ToggleOrderKeeps
  <2>3. CASE EndDealing
    BY <2>3, EndDealingKeeps
  <2>4. CASE ShowSuggestion
    BY <2>4, ShowSuggestionKeeps
  <2>5. CASE PressPlay
    BY <2>5, PressPlayKeeps
  <2>6. CASE PressPass
    BY <2>6, PressPassKeeps
  <2>7. CASE Receive
    BY <2>7, ReceiveKeeps
  <2>8. CASE HandleCommand
    BY <2>8, HandleCommandKeeps
  <2>9. CASE OthersMove
    BY <2>9, OthersMoveKeeps
  <2>10. CASE UNCHANGED vars
    <3>1. PageType'
      BY <2>10 DEF vars, shown, IInv, PageType
    <3>2. QED
      BY <2>10, <3>1, PageKeeps DEF vars, shown
  <2>11. QED
    BY <2>1, <2>2, <2>3, <2>4, <2>5, <2>6, <2>7, <2>8, <2>9, <2>10 DEF Next
<1>3. QED
  BY <1>1, <1>2, PTL DEF Spec

(* The hands of the server and the page, and those on the wire, are hands; *)
(* the selection is one of places.                                         *)
THEOREM TypeCorrect == Spec => []TypeOK
<1>1. IInv => TypeOK
  <2> SUFFICES ASSUME IInv PROVE TypeOK
    OBVIOUS
  <2>1. ServerType /\ WireType /\ PageType /\ OneHand
    BY DEF IInv
  <2>2. rounds \in Nat
    BY <2>1, ReturnedPlays DEF ServerType
  <2>3. ASSUME NEW c \in ToSet(upstream)
        PROVE  /\ c.do \in {"play", "pass"} /\ c.indexes \subseteq Indices
               /\ c.shown \in Seq(Cards) /\ c.round \in 0 .. rounds
    <3>1. PICK n \in DOMAIN upstream : upstream[n] = c
      BY DEF ToSet
    <3>2. c \in Commands /\ c.round <= rounds
      BY <3>1, <2>1 DEF WireType, OneHand, Known
    <3>3. QED
      BY <3>2, <2>2 DEF Commands
  <2>4. ASSUME NEW m \in ToSet(downlink)
        PROVE  m.table \in Seq(Cards) /\ m.hand \in Seq(Cards) /\ m.round \in 0 .. rounds
    <3>1. PICK n \in DOMAIN downlink : downlink[n] = m
      BY DEF ToSet
    <3>2. m \in Messages /\ m.round <= rounds
      BY <3>1, <2>1 DEF WireType, OneHand, Known
    <3>3. QED
      BY <3>2, <2>2 DEF Messages
  <2>5. /\ page.hand \in Seq(Cards) /\ page.table \in Seq(Cards)
        /\ page.mine \in BOOLEAN /\ page.round \in 0 .. rounds
    BY <2>1, <2>2 DEF PageType, Page, OneHand, Known
  <2>6. QED
    BY <2>1, <2>3, <2>4, <2>5 DEF TypeOK, ServerType, PageType
<1>2. QED
  BY <1>1, Invariant, PTL

(* For any hands, plays and number of rounds, with people or robots, and   *)
(* however often the button is pressed: a play command that is judged in   *)
(* the round of the hand it was pressed on names its cards by the places   *)
(* they have in the server's own hand.                                     *)
THEOREM PlaysWhatIsShown == Spec => []PlaysShownCards
<1>1. IInv => PlaysShownCards
  <2> SUFFICES ASSUME IInv, NEW c \in ToSet(upstream), c.round = rounds, Admits(c)
               PROVE  c.shown = hand
    BY DEF PlaysShownCards
  <2>1. mine
    BY DEF Admits
  <2>2. PICK n \in DOMAIN upstream : upstream[n] = c
    BY DEF ToSet
  <2>3. QED
    BY <2>1, <2>2 DEF IInv, OneHand, Known
<1>2. QED
  BY <1>1, Invariant, PTL

-----------------------------------------------------------------------------
(* Numbers.                                                                *)

(* A set of naturals that is not empty has a least member.                 *)
LEMMA LeastNatural ==
  ASSUME NEW T \in SUBSET Nat, T # {}
  PROVE  \E m \in T : \A n \in T : m <= n
<1>1. PICK m \in T : \A n \in T : ~ (<<n, m>> \in OpToRel(<, Nat))
  BY NatLessThanWellFounded, WFMin, Zenon
<1>2. ASSUME NEW n \in T PROVE m <= n
  <2>1. ~ (n < m)
    BY <1>1, <1>2 DEF OpToRel
  <2>2. QED
    BY <2>1
<1>3. QED
  BY <1>2

(* What the cards at some places of a hand are worth in the sorting order. *)
Worth(h, S) == MapThenSumSet(LAMBDA i : SortValue(h[i]), S)

(* The fold that sums the sort values of some cards of a hand ends in a    *)
(* number: by the least size of a set of places it does not sum.           *)
LEMMA SumType ==
  ASSUME NEW S, IsFiniteSet(S), NEW h, \A i \in S : SortValue(h[i]) \in Nat
  PROVE  Worth(h, S) \in Nat
<1> DEFINE value(i) == SortValue(h[i])
           pick(s) == CHOOSE x \in s : TRUE
           Step(g) == [s \in SUBSET S |->
                         IF s = {} THEN 0 ELSE value(pick(s)) + g[s \ {pick(s)}]]
           iter == CHOOSE g : g = Step(g)
           Upto(k) == {s \in SUBSET S : Cardinality(s) <= k}
           Sums(g, k) ==
             /\ g \in [Upto(k) -> Nat]
             /\ \A s \in Upto(k) :
                  g[s] = IF s = {} THEN 0 ELSE value(pick(s)) + g[s \ {pick(s)}]
           bad == {k \in Nat : ~ \E g : Sums(g, k)}
<1>1. Worth(h, S) = iter[S]
  BY DEF Worth, MapThenSumSet, MapThenFoldSet
<1>2. \A i \in S : value(i) \in Nat
  OBVIOUS
<1>3. \A s \in SUBSET S : s # {} => pick(s) \in s
  OBVIOUS
<1>4. \A s \in SUBSET S : IsFiniteSet(s) /\ Cardinality(s) \in Nat
  BY FS_Subset, FS_CardinalityType
<1>5. Cardinality({}) = 0 /\ \A s \in SUBSET S : Cardinality(s) = 0 => s = {}
  BY <1>4, FS_EmptySet
<1>6. \A s \in SUBSET S : s # {} =>
        /\ s \ {pick(s)} \in SUBSET S
        /\ Cardinality(s \ {pick(s)}) = Cardinality(s) - 1
        /\ Cardinality(s) >= 1
  <2> SUFFICES ASSUME NEW s \in SUBSET S, s # {}
               PROVE  /\ Cardinality(s \ {pick(s)}) = Cardinality(s) - 1
                      /\ Cardinality(s) >= 1
    OBVIOUS
  <2>1. pick(s) \in s
    BY <1>3
  <2> HIDE DEF pick
  <2>2. Cardinality(s \ {pick(s)}) = Cardinality(s) - 1
    BY <1>4, <2>1, FS_RemoveElement
  <2>3. Cardinality(s) \in Nat /\ Cardinality(s) # 0
    BY <1>4, <1>5
  <2>4. QED
    BY <2>2, <2>3
<1> HIDE DEF value, pick
<1>7. bad = {}
  <2> SUFFICES ASSUME bad # {} PROVE FALSE
    OBVIOUS
  <2>1. PICK k \in bad : \A n \in bad : k <= n
    <3>1. bad \in SUBSET Nat
      OBVIOUS
    <3> HIDE DEF bad
    <3>2. QED
      BY <3>1, LeastNatural
  <2>2. CASE k = 0
    <3>1. Upto(0) = {{}}
      <4>1. ASSUME NEW s \in SUBSET S PROVE Cardinality(s) <= 0 <=> s = {}
        <5>1. Cardinality(s) <= 0 <=> Cardinality(s) = 0
          BY <1>4
        <5>2. QED
          BY <1>5, <5>1
      <4>2. {} \in SUBSET S
        OBVIOUS
      <4>3. QED
        BY <4>1, <4>2
    <3>2. Sums([s \in Upto(0) |-> 0], 0)
      BY <3>1
    <3>3. QED
      BY <2>1, <2>2, <3>2
  <2>3. CASE k # 0
    <3>1. k - 1 \in Nat /\ k - 1 \notin bad
      <4>1. k \in Nat
        BY <2>1
      <4>2. k - 1 \in Nat /\ ~ (k <= k - 1)
        BY <2>3, <4>1
      <4> HIDE DEF bad
      <4>3. QED
        BY <2>1, <4>2
    <3>2. PICK f : Sums(f, k - 1)
      BY <3>1
    <3> DEFINE g == [s \in Upto(k) |->
                       IF s = {} THEN 0 ELSE value(pick(s)) + f[s \ {pick(s)}]]
    <3>3. \A s \in Upto(k) : s # {} => s \ {pick(s)} \in Upto(k - 1)
      BY <1>4, <1>6, <3>1
    <3>4. \A s \in Upto(k - 1) : s \in Upto(k) /\ g[s] = f[s]
      <4>1. k \in Nat
        BY <2>1
      <4>2. \A s \in SUBSET S : Cardinality(s) <= k - 1 => Cardinality(s) <= k
        BY <1>4, <4>1
      <4>3. \A s \in Upto(k - 1) : s \in Upto(k)
        BY <4>2
      <4>4. QED
        BY <3>2, <4>3
    <3>5. g \in [Upto(k) -> Nat]
      <4>1. \A s \in Upto(k) : s # {} =>
              value(pick(s)) \in Nat /\ f[s \ {pick(s)}] \in Nat
        BY <1>2, <1>3, <3>2, <3>3
      <4>2. ASSUME NEW s \in Upto(k)
            PROVE  (IF s = {} THEN 0 ELSE value(pick(s)) + f[s \ {pick(s)}]) \in Nat
        <5>1. CASE s = {}
          BY <5>1
        <5>2. CASE s # {}
          <6> DEFINE first == value(pick(s))
                     rest == f[s \ {pick(s)}]
          <6>1. first \in Nat /\ rest \in Nat
            BY <4>1, <5>2
          <6> HIDE DEF first, rest
          <6>2. first + rest \in Nat
            BY <6>1
          <6>3. QED
            BY <5>2, <6>2 DEF first, rest
        <5>3. QED
          BY <5>1, <5>2
      <4> HIDE DEF Upto
      <4>3. QED
        BY <4>2
    <3>6. Sums(g, k)
      BY <3>3, <3>4, <3>5
    <3>7. QED
      BY <2>1, <3>6
  <2>4. QED
    BY <2>2, <2>3
<1>8. PICK g : Sums(g, Cardinality(S))
  <2>1. Cardinality(S) \in Nat
    BY <1>4
  <2>2. QED
    BY <1>7, <2>1
<1>9. Upto(Cardinality(S)) = SUBSET S
  BY <1>4, FS_Subset
<1>10. g = Step(g)
  BY <1>8, <1>9
<1>11. iter = Step(iter)
  BY <1>10
<1> HIDE DEF iter, bad, Sums
<1> DEFINE wrong == {k \in Nat :
                       \E s \in SUBSET S : Cardinality(s) = k /\ iter[s] \notin Nat}
<1>12. wrong = {}
  <2> SUFFICES ASSUME wrong # {} PROVE FALSE
    OBVIOUS
  <2>1. PICK k \in wrong : \A n \in wrong : k <= n
    <3>1. wrong \in SUBSET Nat
      OBVIOUS
    <3> HIDE DEF wrong
    <3>2. QED
      BY <3>1, LeastNatural
  <2>2. PICK s \in SUBSET S : Cardinality(s) = k /\ iter[s] \notin Nat
    BY <2>1
  <2>3. iter[s] = IF s = {} THEN 0 ELSE value(pick(s)) + iter[s \ {pick(s)}]
    BY <1>11
  <2>4. s # {}
    BY <2>2, <2>3
  <2>5. s \ {pick(s)} \in SUBSET S /\ Cardinality(s \ {pick(s)}) = k - 1
        /\ k - 1 \in Nat /\ ~ (k <= k - 1)
    <3>1. s \ {pick(s)} \in SUBSET S /\ Cardinality(s \ {pick(s)}) = k - 1 /\ k >= 1
      BY <1>6, <2>2, <2>4
    <3>2. k \in Nat
      BY <2>1
    <3>3. QED
      BY <3>1, <3>2
  <2>6. iter[s \ {pick(s)}] \in Nat
    BY <2>1, <2>5
  <2>7. value(pick(s)) \in Nat
    BY <1>2, <1>3, <2>4
  <2>8. QED
    BY <2>2, <2>3, <2>4, <2>6, <2>7
<1>13. QED
  BY <1>1, <1>4, <1>12

-----------------------------------------------------------------------------
(* Cards, and what a choice of them can be read as.                        *)

(* A card is a joker by its suit or by its rank; a wild card is none.      *)
LEMMA CardFacts ==
  ASSUME NEW card \in Cards
  PROVE  /\ card.rank \in 2 .. 17
         /\ IsJoker(card) => card.rank \in {16, 17}
         /\ card.rank \in Ranks <=> ~ IsJoker(card)
         /\ ~ IsJoker(card) => card.suit \in Suits
         /\ IsWild(card) => ~ IsJoker(card)
         /\ SortValue(card) \in Nat
BY LevelAssumption
   DEF Cards, IsJoker, IsWild, Ranks, Suits, Hearts, NoSuit, SmallJoker, BigJoker,
       SortValue

(* A choice from a hand holds the hand's cards at the places chosen.       *)
LEMMA Chosen ==
  ASSUME NEW D, NEW cards \in [D -> Cards], NEW c \in SUBSET D
  PROVE  LET r == Restrict(cards, c)
         IN  /\ r \in [c -> Cards] /\ DOMAIN r = c
             /\ \A i \in c : r[i] = cards[i]
             /\ Wild(r) = Wild(cards) \cap c
             /\ Jokers(r) = Jokers(cards) \cap c
             /\ \A k : OfRank(r, k) = OfRank(cards, k) \cap c
<1> DEFINE r == Restrict(cards, c)
<1>1. r \in [c -> Cards] /\ DOMAIN r = c /\ \A i \in c : r[i] = cards[i]
  BY DEF Restrict
<1> HIDE DEF r
<1>2. Wild(r) = Wild(cards) \cap c
  BY <1>1 DEF Wild, Indexes
<1>3. Jokers(r) = Jokers(cards) \cap c
  BY <1>1 DEF Jokers, Indexes
<1>4. \A k : OfRank(r, k) = OfRank(cards, k) \cap c
  BY <1>1 DEF OfRank
<1>5. QED
  BY <1>1, <1>2, <1>3, <1>4 DEF r

(* The cards that are not wild.                                            *)
LEMMA FixedFacts ==
  ASSUME NEW D, NEW cards \in [D -> Cards]
  PROVE  /\ DOMAIN Fixed(cards) = D \ Wild(cards)
         /\ Fixed(cards) \in [D \ Wild(cards) -> Cards]
         /\ \A i \in D \ Wild(cards) : Fixed(cards)[i] = cards[i]
         /\ \A k : OfRank(Fixed(cards), k) = OfRank(cards, k) \ Wild(cards)
         /\ Wild(cards) \subseteq D
<1>1. Wild(cards) \subseteq D
  BY DEF Wild, Indexes
<1>2. /\ DOMAIN Fixed(cards) = D \ Wild(cards)
      /\ Fixed(cards) \in [D \ Wild(cards) -> Cards]
      /\ \A i \in D \ Wild(cards) : Fixed(cards)[i] = cards[i]
  BY DEF Fixed, Restrict
<1>3. \A k : OfRank(Fixed(cards), k) = OfRank(cards, k) \ Wild(cards)
  BY <1>1, <1>2 DEF OfRank
<1>4. QED
  BY <1>1, <1>2, <1>3

(* The shapes of n cards have a rank from 2 to 14 as their main rank.      *)
LEMMA ShapeFacts ==
  ASSUME NEW n \in Nat, n >= 1, NEW s \in Shapes(n)
  PROVE  /\ s.main \in Ranks
         /\ s.pattern \in {"single", "pair", "triple", "bomb", "straight",
                           "triple_with_pair", "consecutive_pairs",
                           "consecutive_triples"}
         /\ s.pattern = "straight" => n = 5 /\ s \in Straights
         /\ s.pattern = "bomb" => n >= 4 /\ s.needs = [r \in {s.main} |-> n]
<1>1. CASE \E r \in Ranks : s = Shape(SameRank(n), r, {r}, n)
  <2>1. PICK r \in Ranks : s = Shape(SameRank(n), r, {r}, n)
    BY <1>1
  <2>2. s.main = r /\ s.pattern = SameRank(n) /\ s.needs = [k \in {r} |-> n]
    BY <2>1 DEF Shape
  <2>3. /\ SameRank(n) \in {"single", "pair", "triple", "bomb"}
        /\ SameRank(n) = "bomb" => n >= 4
    BY DEF SameRank
  <2>4. QED
    BY <2>2, <2>3
<1>2. CASE n = 5 /\ s \in Straights
  <2>1. s.pattern = "straight" /\ s.main \in Ranks
    BY <1>2 DEF Straights, Shape, Ranks
  <2>2. QED
    BY <1>2, <2>1
<1>3. CASE s \in TriplesWithPair
  <2>1. s.pattern = "triple_with_pair" /\ s.main \in Ranks
    BY <1>3 DEF TriplesWithPair, Ranks
  <2>2. QED
    BY <2>1
<1>4. CASE s \in RunsOfGroups
  <2>1. s.pattern \in {"consecutive_pairs", "consecutive_triples"} /\ s.main \in Ranks
    BY <1>4 DEF RunsOfGroups, Shape, Ranks
  <2>2. QED
    BY <2>1
<1>5. QED
  BY <1>1, <1>2, <1>3, <1>4 DEF Shapes

(* The patterns a reading of cards that are not all jokers may have.       *)
Patterns == {"single", "pair", "triple", "bomb", "straight", "straight_flush",
             "triple_with_pair", "consecutive_pairs", "consecutive_triples"}

RanksIn(cards) == {cards[i].rank : i \in DOMAIN cards}

(* Jokers alone: four are the joker bomb, otherwise they are of one kind.  *)
LEMMA JokerReadings ==
  ASSUME NEW D, IsFiniteSet(D), D # {}, NEW cards \in [D -> Cards],
         Jokers(cards) = D, NEW s \in Strengths(cards)
  PROVE  LET n == Cardinality(D)
         IN  /\ s.count = n
             /\ \/ n = 4 /\ s.pattern = "joker_bomb" /\ s.main = 14
                \/ /\ n # 4 /\ s.pattern = SameRank(n) /\ Strengths(cards) = {s}
                   /\ \E r \in {16, 17} :
                        /\ \A i \in D : cards[i].rank = r
                        /\ s.main = IF n > 4 THEN 1 ELSE r
<1> DEFINE n == Cardinality(D)
           kind == {cards[i].rank : i \in D}
<1>1. n \in Nat /\ n # 0 /\ DOMAIN cards = D
  BY FS_CardinalityType, FS_EmptySet
<1>2. Strengths(cards) = OfJokers(cards)
  BY <1>1 DEF Strengths
<1>3. CASE n = 4
  <2>1. OfJokers(cards) = {[pattern |-> "joker_bomb", main |-> 14, count |-> 4]}
    BY <1>1, <1>3 DEF OfJokers
  <2>2. s = [pattern |-> "joker_bomb", main |-> 14, count |-> 4]
    BY <1>2, <2>1
  <2>3. QED
    BY <1>3, <2>2
<1>4. CASE n # 4
  <2>1. \A i \in D : cards[i].rank \in {16, 17}
    BY CardFacts DEF Jokers, Indexes
  <2>2. ~ (Cardinality(kind) > 1)
    BY <1>1, <1>2, <1>4 DEF OfJokers
  <2>3. IsFiniteSet(kind)
    <3>1. kind \subseteq 16 .. 17
      BY <2>1
    <3>2. IsFiniteSet(16 .. 17)
      <4>1. 16 \in Int /\ 17 \in Int
        OBVIOUS
      <4>2. QED
        BY <4>1, FS_Interval
    <3>3. QED
      BY <3>1, <3>2, FS_Subset
  <2>4. \A i, j \in D : cards[i].rank = cards[j].rank
    <3> SUFFICES ASSUME NEW i \in D, NEW j \in D, cards[i].rank # cards[j].rank
                 PROVE  FALSE
      OBVIOUS
    <3>1. {cards[i].rank, cards[j].rank} \subseteq kind
      OBVIOUS
    <3>2. Cardinality({cards[i].rank, cards[j].rank}) = 2
      <4> DEFINE x == cards[i].rank
                 y == cards[j].rank
      <4>1. x # y
        OBVIOUS
      <4> HIDE DEF x, y
      <4>2. IsFiniteSet({x}) /\ Cardinality({x}) = 1
        BY FS_Singleton
      <4>3. y \notin {x} /\ {x} \cup {y} = {x, y}
        BY <4>1
      <4>4. Cardinality({x} \cup {y}) = Cardinality({x}) + 1
        BY <4>2, <4>3, FS_AddElement
      <4>5. QED
        BY <4>2, <4>3, <4>4 DEF x, y
    <3> HIDE DEF kind
    <3>3. 2 <= Cardinality(kind) /\ Cardinality(kind) \in Nat
      BY <2>3, <3>1, <3>2, FS_Subset, FS_CardinalityType
    <3>4. QED
      BY <2>2, <3>3
  <2>5. PICK r \in {16, 17} : \A i \in D : cards[i].rank = r
    BY <2>1, <2>4
  <2>6. kind = {r}
    BY <2>5
  <2>7. OfJokers(cards) = {[pattern |-> SameRank(n), count |-> n,
                            main |-> IF n > 4 THEN 1 ELSE CHOOSE k \in kind : TRUE]}
    BY <1>1, <1>4, <2>2 DEF OfJokers
  <2>8. (CHOOSE k \in kind : TRUE) = r
    BY <2>6
  <2>9. s = [pattern |-> SameRank(n), count |-> n, main |-> IF n > 4 THEN 1 ELSE r]
        /\ Strengths(cards) = {s}
    BY <1>2, <2>7, <2>8
  <2>10. QED
    BY <1>4, <2>5, <2>9
<1>5. QED
  BY <1>3, <1>4

(* The shapes that the cards fit, the wild cards standing for the rest.    *)
FittingShapes(cards) ==
  {t \in Shapes(Cardinality(DOMAIN cards)) :
     Fits(Fixed(cards), RanksIn(Fixed(cards)), t.needs)}

(* Several cards that are not all jokers are read by the shapes they fit.  *)
LEMMA ReadingsByShape ==
  ASSUME NEW D, NEW cards \in [D -> Cards], Cardinality(D) \notin {0, 1},
         Jokers(cards) # D, NEW s
  PROVE  s \in Strengths(cards) <=>
           \E t \in FittingShapes(cards) :
             \/ /\ Wild(cards) # {} \/ ~ (t.pattern = "straight" /\ OneSuit(Fixed(cards)))
                /\ s = [pattern |-> t.pattern, main |-> t.main, count |-> Cardinality(D)]
             \/ /\ t.pattern = "straight" /\ OneSuit(Fixed(cards))
                /\ s = [pattern |-> "straight_flush", main |-> t.main,
                        count |-> Cardinality(D)]
<1> DEFINE n == Cardinality(D)
           fixed == Fixed(cards)
           filled == {t \in Shapes(n) : Fits(fixed, RanksIn(fixed), t.needs)}
           Flush(t) == t.pattern = "straight" /\ OneSuit(fixed)
           Read(t, p) == [pattern |-> p, main |-> t.main, count |-> n]
<1>1. DOMAIN cards = D
  OBVIOUS
<1>2. Strengths(cards) =
        {Read(t, t.pattern) : t \in {u \in filled : Wild(cards) # {} \/ ~ Flush(u)}}
          \cup {Read(t, "straight_flush") : t \in {u \in filled : Flush(u)}}
  BY <1>1 DEF Strengths, RanksIn
<1>3. filled = FittingShapes(cards)
  BY <1>1 DEF FittingShapes
<1> HIDE DEF filled
<1>4. s \in Strengths(cards) <=>
        \E t \in filled : \/ (Wild(cards) # {} \/ ~ Flush(t)) /\ s = Read(t, t.pattern)
                          \/ Flush(t) /\ s = Read(t, "straight_flush")
  BY <1>2
<1>5. QED
  BY <1>3, <1>4

(* Other cards: one card is a single, more are a shape they fit.           *)
LEMMA CardReadings ==
  ASSUME NEW D, IsFiniteSet(D), D # {}, NEW cards \in [D -> Cards],
         Jokers(cards) # D, NEW s \in Strengths(cards)
  PROVE  LET n == Cardinality(D)
         IN  /\ s.count = n /\ s.main \in Ranks /\ s.pattern \in Patterns
             /\ n = 1 => s.pattern = "single"
             /\ n # 1 => \E t \in Shapes(n) :
                           /\ Fits(Fixed(cards), RanksIn(Fixed(cards)), t.needs)
                           /\ s.main = t.main
                           /\ \/ s.pattern = t.pattern
                              \/ /\ s.pattern = "straight_flush"
                                 /\ t.pattern = "straight" /\ OneSuit(Fixed(cards))
<1> DEFINE n == Cardinality(D)
<1>1. n \in Nat /\ n # 0 /\ DOMAIN cards = D
  BY FS_CardinalityType, FS_EmptySet
<1>2. CASE n = 1
  <2>1. PICK x : D = {x}
    BY <1>2, FS_Singleton
  <2>2. ~ IsJoker(cards[x])
    BY <2>1 DEF Jokers, Indexes
  <2>3. Strengths(cards) = {[pattern |-> "single", count |-> 1,
                             main |-> cards[CHOOSE i \in D : TRUE].rank]}
    BY <1>1, <1>2 DEF Strengths
  <2>4. (CHOOSE i \in D : TRUE) = x
    BY <2>1
  <2>5. cards[x] \in Cards
    BY <2>1
  <2>6. s = [pattern |-> "single", count |-> 1, main |-> cards[x].rank]
        /\ cards[x].rank \in Ranks
    BY <2>2, <2>3, <2>4, <2>5, CardFacts
  <2>7. QED
    BY <1>2, <2>6 DEF Patterns
<1>3. CASE n # 1
  <2>1. PICK t \in FittingShapes(cards) :
          /\ s.main = t.main /\ s.count = n
          /\ \/ s.pattern = t.pattern
             \/ /\ s.pattern = "straight_flush"
                /\ t.pattern = "straight" /\ OneSuit(Fixed(cards))
    <3>1. n \notin {0, 1}
      BY <1>1, <1>3
    <3>2. PICK t \in FittingShapes(cards) :
            \/ s = [pattern |-> t.pattern, main |-> t.main, count |-> n]
            \/ /\ t.pattern = "straight" /\ OneSuit(Fixed(cards))
               /\ s = [pattern |-> "straight_flush", main |-> t.main, count |-> n]
      BY <3>1, ReadingsByShape
    <3>3. QED
      BY <3>2
  <2>2. t \in Shapes(n) /\ Fits(Fixed(cards), RanksIn(Fixed(cards)), t.needs)
    BY <1>1, <2>1 DEF FittingShapes
  <2>3. n >= 1
    BY <1>1
  <2> HIDE DEF n
  <2>4. t.main \in Ranks /\ t.pattern \in Patterns
    BY <1>1, <2>2, <2>3, ShapeFacts DEF Patterns
  <2>5. s.main \in Ranks /\ s.pattern \in Patterns
    BY <2>1, <2>4 DEF Patterns
  <2>6. QED
    BY <1>3, <2>1, <2>2, <2>5 DEF n
<1>4. QED
  BY <1>2, <1>3

(* As many cards of one rank and wild cards as make a bomb.                *)
LEMMA RankBombRead ==
  ASSUME NEW D, IsFiniteSet(D), NEW cards \in [D -> Cards], Cardinality(D) >= 4,
         NEW r \in Ranks, \A i \in D \ Wild(cards) : cards[i].rank = r,
         Jokers(cards) # D
  PROVE  [pattern |-> "bomb", main |-> r, count |-> Cardinality(D)] \in Strengths(cards)
<1> DEFINE n == Cardinality(D)
           fixed == Fixed(cards)
           t == Shape(SameRank(n), r, {r}, n)
<1>1. n \in Nat /\ n >= 4 /\ DOMAIN cards = D
  BY FS_CardinalityType
<1>2. /\ t.pattern = "bomb" /\ t.main = r /\ t.needs = [k \in {r} |-> n]
      /\ t \in Shapes(n)
  <2>1. SameRank(n) = "bomb"
    BY <1>1 DEF SameRank
  <2>2. t \in Shapes(n)
    BY DEF Shapes
  <2>3. QED
    BY <2>1, <2>2 DEF Shape
<1> HIDE DEF t
<1>3. DOMAIN fixed = D \ Wild(cards) /\ \A i \in D \ Wild(cards) : fixed[i] = cards[i]
  BY FixedFacts
<1>4. Cardinality(OfRank(fixed, r)) <= n
  <2>1. OfRank(fixed, r) \subseteq D
    BY <1>3 DEF OfRank
  <2>2. QED
    BY <2>1, FS_Subset
<1>5. Fits(fixed, RanksIn(fixed), t.needs)
  <2>1. RanksIn(fixed) \subseteq {r}
    BY <1>3 DEF RanksIn
  <2>2. DOMAIN t.needs = {r} /\ t.needs[r] = n
    BY <1>2
  <2>3. QED
    BY <1>4, <2>1, <2>2 DEF Fits
<1>6. t \in FittingShapes(cards)
  BY <1>1, <1>2, <1>5 DEF FittingShapes
<1>7. n \notin {0, 1} /\ t.pattern # "straight"
  BY <1>1, <1>2
<1>8. QED
  BY <1>2, <1>6, <1>7, ReadingsByShape

(* Five cards of one suit, or wild, in a straight.                         *)
LEMMA FlushRead ==
  ASSUME NEW D, IsFiniteSet(D), NEW cards \in [D -> Cards], Cardinality(D) = 5,
         NEW t \in Straights, Jokers(cards) # D,
         Fits(Fixed(cards), RanksIn(Fixed(cards)), t.needs), OneSuit(Fixed(cards))
  PROVE  [pattern |-> "straight_flush", main |-> t.main, count |-> 5] \in Strengths(cards)
<1>1. t \in Shapes(5) /\ t.pattern = "straight" /\ DOMAIN cards = D
  BY DEF Shapes, Straights, Shape
<1>2. t \in FittingShapes(cards)
  BY <1>1 DEF FittingShapes
<1>3. 5 \notin {0, 1}
  OBVIOUS
<1>4. QED
  BY <1>1, <1>2, <1>3, ReadingsByShape

(* At most three cards of a hand are wild and at most four jokers alike:   *)
(* true of every hand dealt from three decks or fewer.                     *)
FewWild(cards) ==
  /\ Cardinality(Wild(cards)) <= 3
  /\ \A r \in {16, 17} : Cardinality(OfRank(cards, r)) <= 4

(* Any reading counts the cards; a bomb is one of four cards or more, a    *)
(* straight flush one of five.                                             *)
LEMMA ReadingFacts ==
  ASSUME NEW D, IsFiniteSet(D), NEW cards \in [D -> Cards], NEW s \in Strengths(cards)
  PROVE  /\ D # {} /\ Cardinality(D) \in Nat /\ s.count = Cardinality(D)
         /\ s.main \in Nat
         /\ s.pattern \in Patterns \cup {"joker_bomb"}
         /\ s.pattern \in Bombs => Cardinality(D) >= 4
         /\ s.pattern = "straight_flush" => Cardinality(D) = 5
<1> DEFINE n == Cardinality(D)
<1>1. n \in Nat /\ DOMAIN cards = D
  BY FS_CardinalityType
<1>2. D # {}
  <2>1. ASSUME n = 0 PROVE Strengths(cards) = {}
    BY <1>1, <2>1 DEF Strengths
  <2>2. QED
    BY <2>1, FS_EmptySet
<1>3. n # 0
  BY <1>2, FS_EmptySet
<1> HIDE DEF n
<1>4. CASE Jokers(cards) = D
  <2>1. /\ s.count = n
        /\ \/ n = 4 /\ s.pattern = "joker_bomb" /\ s.main = 14
           \/ /\ n # 4 /\ s.pattern = SameRank(n)
              /\ \E r \in {16, 17} : s.main = IF n > 4 THEN 1 ELSE r
    BY <1>2, <1>4, JokerReadings DEF n
  <2>2. CASE n = 4 /\ s.pattern = "joker_bomb" /\ s.main = 14
    BY <1>1, <1>2, <2>1, <2>2 DEF n
  <2>3. CASE n # 4 /\ s.pattern = SameRank(n)
    <3>1. s.main \in Nat
      BY <2>1, <2>3
    <3>2. /\ SameRank(n) \in {"single", "pair", "triple", "bomb"}
          /\ SameRank(n) = "bomb" => n >= 4
      BY <1>1, <1>3 DEF SameRank
    <3>3. QED
      BY <1>1, <1>2, <2>1, <2>3, <3>1, <3>2 DEF n, Patterns, Bombs
  <2>4. QED
    BY <2>1, <2>2, <2>3
<1>5. CASE Jokers(cards) # D
  <2>1. /\ s.count = n /\ s.main \in Ranks /\ s.pattern \in Patterns
        /\ n = 1 => s.pattern = "single"
        /\ n # 1 => \E t \in Shapes(n) :
                      \/ s.pattern = t.pattern
                      \/ s.pattern = "straight_flush" /\ t.pattern = "straight"
    BY <1>2, <1>5, CardReadings DEF n
  <2>2. s.main \in Nat
    BY <2>1 DEF Ranks
  <2>3. /\ s.pattern \in Bombs => n >= 4
        /\ s.pattern = "straight_flush" => n = 5
    <3>1. CASE n = 1
      BY <2>1, <3>1 DEF Bombs
    <3>2. CASE n # 1
      <4>1. PICK t \in Shapes(n) :
              \/ s.pattern = t.pattern
              \/ s.pattern = "straight_flush" /\ t.pattern = "straight"
        BY <2>1, <3>2
      <4>2. n >= 1
        BY <1>1, <1>3
      <4>3. /\ t.pattern \in {"single", "pair", "triple", "bomb", "straight",
                              "triple_with_pair", "consecutive_pairs",
                              "consecutive_triples"}
            /\ t.pattern = "straight" => n = 5
            /\ t.pattern = "bomb" => n >= 4
        BY <1>1, <4>1, <4>2, ShapeFacts
      <4>4. QED
        BY <4>1, <4>3 DEF Bombs
    <3>3. QED
      BY <3>1, <3>2
  <2>4. QED
    BY <1>1, <1>2, <2>1, <2>2, <2>3 DEF n
<1>6. QED
  BY <1>4, <1>5

(* Where no five jokers are alike the page and the server read the cards   *)
(* the same way; so they do where the server reads them at all.            *)
LEMMA LegalReadings ==
  ASSUME NEW D, IsFiniteSet(D), NEW cards \in [D -> Cards],
         \/ \A r \in {16, 17} : Cardinality(OfRank(cards, r)) <= 4
         \/ Legal(cards) # {}
  PROVE  Legal(cards) = Strengths(cards)
<1> DEFINE n == Cardinality(D)
<1>1. SUFFICES ASSUME NEW s \in Strengths(cards), ~ (s.main > 1) PROVE FALSE
  BY DEF Legal
<1>2. n \in Nat /\ D # {} /\ s.main \in Nat
  BY ReadingFacts
<1> HIDE DEF n
<1>3. Jokers(cards) = D
  <2>1. ASSUME Jokers(cards) # D PROVE FALSE
    <3>1. s.main \in Ranks
      BY <1>2, <2>1, CardReadings
    <3>2. QED
      BY <1>1, <3>1 DEF Ranks
  <2>2. QED
    BY <2>1
<1>4. \/ n = 4 /\ s.main = 14
      \/ /\ n # 4 /\ Strengths(cards) = {s}
         /\ \E r \in {16, 17} :
              /\ \A i \in D : cards[i].rank = r
              /\ s.main = IF n > 4 THEN 1 ELSE r
  BY <1>2, <1>3, JokerReadings DEF n
<1>5. PICK r \in {16, 17} : /\ \A i \in D : cards[i].rank = r
                            /\ s.main = IF n > 4 THEN 1 ELSE r
                            /\ Strengths(cards) = {s}
  BY <1>1, <1>4
<1>6. n > 4
  BY <1>1, <1>2, <1>5
<1>7. OfRank(cards, r) = D
  BY <1>5 DEF OfRank
<1>8. Legal(cards) = {}
  BY <1>1, <1>5 DEF Legal
<1>9. ~ (n <= 4)
  BY <1>2, <1>6
<1>10. QED
  BY <1>7, <1>8, <1>9 DEF n

(* A bomb is of a tier above 0, anything else of tier 0.                   *)
LEMMA TierFacts ==
  ASSUME NEW s, s.count \in Nat
  PROVE  /\ Tier(s) \in Nat
         /\ s.pattern \in Bombs <=> Tier(s) > 0
<1>1. CASE s.pattern = "joker_bomb"
  BY <1>1 DEF Tier, Bombs, JokerBombTier
<1>2. CASE s.pattern = "straight_flush"
  BY <1>2 DEF Tier, Bombs
<1>3. CASE s.pattern = "bomb"
  BY <1>3 DEF Tier, Bombs
<1>4. CASE s.pattern \notin Bombs
  <2>1. /\ s.pattern # "joker_bomb" /\ s.pattern # "straight_flush"
        /\ s.pattern # "bomb"
    BY <1>4 DEF Bombs
  <2>2. Tier(s) = 0
    BY <2>1 DEF Tier
  <2>3. QED
    BY <1>4, <2>2
<1>5. QED
  BY <1>1, <1>2, <1>3, <1>4 DEF Bombs

(* A bomb beats what is none, what beats a bomb is one, and what beats an  *)
(* ordinary play without being a bomb has its pattern and its size.        *)
LEMMA BeatsFacts ==
  ASSUME NEW s, NEW t, s.count \in Nat, t.count \in Nat
  PROVE  /\ s.pattern \in Bombs /\ t.pattern \notin Bombs => Beats(s, t)
         /\ t.pattern \in Bombs /\ Beats(s, t) => s.pattern \in Bombs
         /\ s.pattern \notin Bombs /\ Beats(s, t) =>
              s.pattern = t.pattern /\ s.count = t.count
<1>1. /\ Tier(s) \in Nat /\ (s.pattern \in Bombs <=> Tier(s) > 0)
      /\ Tier(t) \in Nat /\ (t.pattern \in Bombs <=> Tier(t) > 0)
  BY TierFacts
<1>2. /\ s.pattern \in Bombs /\ t.pattern \notin Bombs => Tier(s) > Tier(t)
      /\ t.pattern \in Bombs /\ Tier(s) >= Tier(t) => s.pattern \in Bombs
      /\ s.pattern \notin Bombs => ~ (Tier(s) > Tier(t))
  BY <1>1
<1>3. Beats(s, t) => Tier(s) >= Tier(t)
  BY <1>1 DEF Beats
<1>4. QED
  BY <1>2, <1>3 DEF Beats

(* How strong a reading is depends on its pattern, rank and count only.    *)
LEMMA SameStrength ==
  ASSUME NEW s, NEW u, NEW t, s.pattern = u.pattern, s.main = u.main,
         s.count = u.count, Beats(s, t)
  PROVE  Beats(u, t)
<1>1. Tier(s) = Tier(u) /\ Power(s) = Power(u)
  BY DEF Tier, Power
<1>2. QED
  BY <1>1 DEF Beats

-----------------------------------------------------------------------------
(* Choosing from a hand.                                                   *)

(* A finite set has subsets of every size up to its own.                   *)
LEMMA SubsetOfSize ==
  ASSUME NEW S, IsFiniteSet(S), NEW n \in Nat, n <= Cardinality(S)
  PROVE  \E T \in SUBSET S : IsFiniteSet(T) /\ Cardinality(T) = n
<1>1. Cardinality(S) \in Nat
  BY FS_CardinalityType
<1>2. PICK f : f \in Bijection(1 .. Cardinality(S), S)
  BY FS_CardinalityType DEF ExistsBijection
<1> DEFINE T == {f[k] : k \in 1 .. n}
           g == [k \in 1 .. n |-> f[k]]
<1>3. 1 .. n \subseteq 1 .. Cardinality(S)
  BY <1>1
<1>4. f \in [1 .. Cardinality(S) -> S]
      /\ \A j, k \in 1 .. Cardinality(S) : f[j] = f[k] => j = k
  BY <1>2 DEF Bijection, Injection, IsInjective
<1>5. T \in SUBSET S
  BY <1>3, <1>4
<1>6. g \in Surjection(1 .. n, T)
  BY DEF Surjection
<1>7. g \in Injection(1 .. n, T)
  <2>1. g \in [1 .. n -> T]
    OBVIOUS
  <2>2. \A j, k \in 1 .. n : g[j] = g[k] => j = k
    BY <1>3, <1>4
  <2> HIDE DEF g
  <2>3. DOMAIN g = 1 .. n
    BY <2>1
  <2>4. QED
    BY <2>1, <2>2, <2>3 DEF Injection, IsInjective
<1>8. IsFiniteSet(1 .. n) /\ Cardinality(1 .. n) = n
  <2>1. 1 \in Int /\ n \in Int
    OBVIOUS
  <2>2. IsFiniteSet(1 .. n) /\ Cardinality(1 .. n) = IF 1 > n THEN 0 ELSE n - 1 + 1
    BY <2>1, FS_Interval
  <2>3. QED
    BY <2>2
<1> HIDE DEF T, g
<1>9. IsFiniteSet(T) /\ Cardinality(T) = n
  BY <1>6, <1>7, <1>8, FS_Surjection
<1>10. QED
  BY <1>5, <1>9

(* Ranks are finitely many.                                                *)
LEMMA RanksFinite ==
  ASSUME NEW R \in SUBSET Ranks
  PROVE  IsFiniteSet(R)
<1>1. 2 \in Int /\ 14 \in Int
  OBVIOUS
<1>2. IsFiniteSet(2 .. 14)
  BY <1>1, FS_Interval
<1>3. QED
  BY <1>2, FS_Subset DEF Ranks

(* A straight needs one card each of five ranks.                           *)
LEMMA StraightFacts ==
  ASSUME NEW t \in Straights
  PROVE  /\ t.pattern = "straight"
         /\ DOMAIN t.needs \subseteq Ranks
         /\ \A r \in DOMAIN t.needs : t.needs[r] = 1
         /\ IsFiniteSet(DOMAIN t.needs) /\ Cardinality(DOMAIN t.needs) = 5
<1>1. CASE \E r \in 6 .. 14 : t = Shape("straight", r, r - 4 .. r, 1)
  <2>1. PICK r \in 6 .. 14 : t = Shape("straight", r, r - 4 .. r, 1)
    BY <1>1
  <2>2. t.pattern = "straight" /\ t.needs = [k \in r - 4 .. r |-> 1]
    BY <2>1 DEF Shape
  <2>3. DOMAIN t.needs = r - 4 .. r /\ \A k \in r - 4 .. r : t.needs[k] = 1
    BY <2>2
  <2>4. r - 4 .. r \subseteq Ranks
    BY <2>1 DEF Ranks
  <2>5. IsFiniteSet(r - 4 .. r) /\ Cardinality(r - 4 .. r) = 5
    <3>1. r - 4 \in Int /\ r \in Int /\ ~ (r - 4 > r) /\ r - (r - 4) + 1 = 5
      OBVIOUS
    <3>2. /\ IsFiniteSet(r - 4 .. r)
          /\ Cardinality(r - 4 .. r) = IF r - 4 > r THEN 0 ELSE r - (r - 4) + 1
      BY <3>1, FS_Interval
    <3>3. QED
      BY <3>1, <3>2
  <2>6. QED
    BY <2>2, <2>3, <2>4, <2>5
<1>2. CASE t = Shape("straight", 5, {14} \cup 2 .. 5, 1)
  <2>1. t.pattern = "straight" /\ t.needs = [k \in {14} \cup 2 .. 5 |-> 1]
    BY <1>2 DEF Shape
  <2>2. /\ DOMAIN t.needs = 2 .. 5 \cup {14}
        /\ \A k \in 2 .. 5 \cup {14} : t.needs[k] = 1
    BY <2>1
  <2>3. 2 .. 5 \cup {14} \subseteq Ranks
    BY DEF Ranks
  <2>4. IsFiniteSet(2 .. 5) /\ Cardinality(2 .. 5) = 4
    <3>1. 2 \in Int /\ 5 \in Int /\ ~ (2 > 5) /\ 5 - 2 + 1 = 4
      OBVIOUS
    <3>2. IsFiniteSet(2 .. 5) /\ Cardinality(2 .. 5) = IF 2 > 5 THEN 0 ELSE 5 - 2 + 1
      BY <3>1, FS_Interval
    <3>3. QED
      BY <3>1, <3>2
  <2>5. /\ IsFiniteSet(2 .. 5 \cup {14})
        /\ Cardinality(2 .. 5 \cup {14}) = 5
    <3>1. 14 \notin 2 .. 5
      OBVIOUS
    <3>2. /\ IsFiniteSet(2 .. 5 \cup {14})
          /\ Cardinality(2 .. 5 \cup {14}) = Cardinality(2 .. 5) + 1
      BY <2>4, <3>1, FS_AddElement
    <3>3. QED
      BY <2>4, <3>2
  <2>6. QED
    BY <2>1, <2>2, <2>3, <2>5
<1>3. QED
  BY <1>1, <1>2 DEF Straights

(* The ranks of a straight of which a suit has a card.                     *)
HeldOf(cards, suit, ranks) ==
  {r \in ranks : \E i \in DOMAIN Fixed(cards) :
                   Fixed(cards)[i] = [suit |-> suit, rank |-> r]}

(* The hint's test for a bomb, by cases.                                   *)
LEMMA HasAnyBombCases ==
  ASSUME NEW cards
  PROVE  HasAnyBomb(cards) <=>
           \/ Cardinality(Jokers(cards)) >= 4
           \/ \E r \in Ranks :
                /\ Cardinality(OfRank(Fixed(cards), r)) > 0
                /\ Cardinality(OfRank(Fixed(cards), r)) + Cardinality(Wild(cards)) >= 4
           \/ \E suit \in Suits, t \in Straights :
                Cardinality(HeldOf(cards, suit, DOMAIN t.needs))
                  + Cardinality(Wild(cards)) >= 5
BY DEF HasAnyBomb, HeldOf

(* Where a choice of cards is a bomb, the hint's test sees one in the hand. *)
LEMMA BombHeld ==
  ASSUME NEW D, IsFiniteSet(D), NEW cards \in [D -> Cards],
         Cardinality(Wild(cards)) <= 3, NEW c \in SUBSET D,
         NEW s \in Strengths(Restrict(cards, c)), s.pattern \in Bombs
  PROVE  HasAnyBomb(cards)
<1> DEFINE r == Restrict(cards, c)
           n == Cardinality(c)
           W == Wild(r)
           F == c \ W
<1>1. /\ r \in [c -> Cards] /\ DOMAIN r = c
      /\ \A i \in c : r[i] = cards[i]
      /\ Wild(r) = Wild(cards) \cap c
      /\ Jokers(r) = Jokers(cards) \cap c
      /\ \A k : OfRank(r, k) = OfRank(cards, k) \cap c
  <2>1. LET q == Restrict(cards, c)
        IN  /\ q \in [c -> Cards] /\ DOMAIN q = c
            /\ \A i \in c : q[i] = cards[i]
            /\ Wild(q) = Wild(cards) \cap c
            /\ Jokers(q) = Jokers(cards) \cap c
            /\ \A k : OfRank(q, k) = OfRank(cards, k) \cap c
    BY Chosen
  <2>2. QED
    BY <2>1
<1>2. s \in Strengths(r)
  OBVIOUS
<1> HIDE DEF r
<1>3. IsFiniteSet(c)
  BY FS_Subset
<1>4. /\ c # {} /\ n \in Nat /\ s.count = n /\ n >= 4
      /\ s.pattern = "straight_flush" => n = 5
  BY <1>1, <1>2, <1>3, ReadingFacts
<1>5. /\ Wild(cards) \subseteq D /\ IsFiniteSet(Wild(cards))
      /\ Cardinality(Wild(cards)) \in Nat
  BY FS_Subset, FS_CardinalityType DEF Wild, Indexes
<1>6. /\ IsFiniteSet(W) /\ Cardinality(W) \in Nat
      /\ Cardinality(W) <= Cardinality(Wild(cards))
  <2>1. W \in SUBSET Wild(cards)
    BY <1>1
  <2> HIDE DEF W
  <2>2. QED
    BY <1>5, <2>1, FS_Subset, FS_CardinalityType
<1>7. /\ IsFiniteSet(F) /\ Cardinality(F) \in Nat
      /\ Cardinality(F) + Cardinality(W) = n /\ F \subseteq c /\ F \cap W = {}
  <2>1. F \in SUBSET c /\ c \cap W = W
    BY <1>1
  <2>2. IsFiniteSet(F) /\ Cardinality(F) \in Nat
    BY <1>3, <2>1, FS_Subset, FS_CardinalityType
  <2>3. Cardinality(F) = Cardinality(c) - Cardinality(c \cap W)
    BY <1>3, FS_Difference
  <2>4. QED
    BY <1>4, <1>6, <2>1, <2>2, <2>3
<1>8. /\ DOMAIN Fixed(r) = F
      /\ \A i \in F : Fixed(r)[i] = cards[i]
  <2>1. r \in [c -> Cards]
    BY <1>1
  <2>2. DOMAIN Fixed(r) = F /\ \A i \in F : Fixed(r)[i] = r[i]
    BY <2>1, FixedFacts
  <2>3. QED
    BY <1>1, <2>2
<1>9. /\ DOMAIN Fixed(cards) = D \ Wild(cards)
      /\ \A i \in D \ Wild(cards) : Fixed(cards)[i] = cards[i]
  BY FixedFacts
<1>10. F \subseteq D \ Wild(cards)
  BY <1>1
<1>11. F # {}
  <2>1. ASSUME F = {} PROVE FALSE
    <3>1. Cardinality(F) = 0
      BY <2>1, FS_EmptySet
    <3> HIDE DEF F, W, n
    <3>2. QED
      BY <1>4, <1>5, <1>6, <1>7, <3>1
  <2>2. QED
    BY <2>1
<1> HIDE DEF n, W, F
<1>12. CASE Jokers(r) = c
  <2>1. c \subseteq Jokers(cards)
    BY <1>1, <1>12
  <2>2. IsFiniteSet(Jokers(cards))
    BY FS_Subset DEF Jokers, Indexes
  <2>3. n <= Cardinality(Jokers(cards)) /\ Cardinality(Jokers(cards)) \in Nat
    BY <2>1, <2>2, FS_Subset, FS_CardinalityType DEF n
  <2>4. Cardinality(Jokers(cards)) >= 4
    BY <1>4, <2>3
  <2>5. QED
    BY <2>4, HasAnyBombCases
<1>13. CASE Jokers(r) # c
  <2>1. /\ s.pattern \in Patterns
        /\ n # 1 => \E t \in Shapes(n) :
                      /\ Fits(Fixed(r), RanksIn(Fixed(r)), t.needs)
                      /\ s.main = t.main
                      /\ \/ s.pattern = t.pattern
                         \/ /\ s.pattern = "straight_flush"
                            /\ t.pattern = "straight" /\ OneSuit(Fixed(r))
    BY <1>1, <1>2, <1>3, <1>4, <1>13, CardReadings DEF n
  <2>2. PICK t \in Shapes(n) :
          /\ Fits(Fixed(r), RanksIn(Fixed(r)), t.needs)
          /\ \/ s.pattern = t.pattern
             \/ /\ s.pattern = "straight_flush"
                /\ t.pattern = "straight" /\ OneSuit(Fixed(r))
    BY <1>4, <2>1
  <2>3. /\ t.main \in Ranks
        /\ t.pattern \in {"single", "pair", "triple", "bomb", "straight",
                          "triple_with_pair", "consecutive_pairs",
                          "consecutive_triples"}
        /\ t.pattern = "straight" => t \in Straights
        /\ t.pattern = "bomb" => t.needs = [k \in {t.main} |-> n]
    <3>1. n >= 1
      BY <1>4
    <3>2. QED
      BY <1>4, <2>2, <3>1, ShapeFacts
  <2>4. \/ t.pattern = "bomb"
        \/ t \in Straights /\ OneSuit(Fixed(r)) /\ n = 5
    BY <1>4, <2>1, <2>2, <2>3 DEF Bombs, Patterns
  <2>5. \A i \in F : cards[i].rank \in DOMAIN t.needs
    BY <1>8, <2>2 DEF Fits, RanksIn
  <2>6. CASE t.pattern = "bomb"
    <3>1. DOMAIN t.needs = {t.main}
      BY <2>3, <2>6
    <3>2. F \subseteq OfRank(Fixed(cards), t.main)
      BY <1>9, <1>10, <2>5, <3>1 DEF OfRank
    <3>3. OfRank(Fixed(cards), t.main) \in SUBSET D
      BY <1>9 DEF OfRank
    <3>4. /\ IsFiniteSet(OfRank(Fixed(cards), t.main))
          /\ Cardinality(OfRank(Fixed(cards), t.main)) \in Nat
      BY <3>3, FS_Subset, FS_CardinalityType
    <3>5. Cardinality(F) <= Cardinality(OfRank(Fixed(cards), t.main))
      BY <3>2, <3>4, FS_Subset
    <3>6. /\ Cardinality(OfRank(Fixed(cards), t.main)) > 0
          /\ Cardinality(OfRank(Fixed(cards), t.main)) + Cardinality(Wild(cards)) >= 4
      <4>1. Cardinality(F) # 0
        BY <1>7, <1>11, FS_EmptySet
      <4> DEFINE held == Cardinality(OfRank(Fixed(cards), t.main))
                 wild == Cardinality(Wild(cards))
                 f == Cardinality(F)
                 w == Cardinality(W)
      <4>2. /\ held \in Nat /\ wild \in Nat /\ f \in Nat /\ w \in Nat /\ n \in Nat
            /\ f # 0 /\ f <= held /\ w <= wild /\ f + w = n /\ n >= 4
        BY <1>4, <1>5, <1>6, <1>7, <3>4, <3>5, <4>1
      <4> HIDE DEF held, wild, f, w
      <4>3. held > 0 /\ held + wild >= 4
        BY <4>2
      <4>4. QED
        BY <4>3 DEF held, wild
    <3>7. QED
      BY <2>3, <3>6, HasAnyBombCases
  <2>7. CASE t \in Straights /\ OneSuit(Fixed(r)) /\ n = 5
    <3>1. PICK x \in F : TRUE
      BY <1>11
    <3> DEFINE suit == cards[x].suit
               H == HeldOf(cards, suit, DOMAIN t.needs)
               rank == [i \in F |-> cards[i].rank]
    <3>2. /\ DOMAIN t.needs \subseteq Ranks
          /\ \A k \in DOMAIN t.needs : t.needs[k] = 1
      BY <2>7, StraightFacts
    <3>3. \A i \in F : /\ cards[i] \in Cards /\ ~ IsJoker(cards[i])
                       /\ cards[i].suit \in Suits
      <4>1. \A i \in F : cards[i] \in Cards /\ cards[i].rank \in Ranks
        BY <1>10, <2>5, <3>2
      <4>2. QED
        BY <4>1, CardFacts
    <3>4. suit \in Suits
      BY <3>1, <3>3
    <3>5. \A i \in F : cards[i] = [suit |-> suit, rank |-> cards[i].rank]
      <4>1. \A i \in F : cards[i].suit = suit
        BY <1>8, <2>7, <3>1 DEF OneSuit
      <4>2. \A i \in F : cards[i] \in [suit : Suits, rank : Ranks]
        BY <3>3 DEF Cards, IsJoker, SmallJoker, BigJoker
      <4> HIDE DEF suit
      <4>3. QED
        BY <4>1, <4>2
    <3> HIDE DEF suit
    <3>6. rank \in [F -> H]
      <4>1. ASSUME NEW i \in F PROVE cards[i].rank \in H
        <5>1. i \in DOMAIN Fixed(cards) /\ Fixed(cards)[i] = cards[i]
          BY <1>9, <1>10
        <5>2. Fixed(cards)[i] = [suit |-> suit, rank |-> cards[i].rank]
          BY <3>5, <5>1
        <5>3. QED
          BY <2>5, <5>1, <5>2 DEF HeldOf
      <4> HIDE DEF H
      <4>2. QED
        BY <4>1
    <3>7. \A i, j \in F : rank[i] = rank[j] => i = j
      <4> SUFFICES ASSUME NEW i \in F, NEW j \in F, cards[i].rank = cards[j].rank, i # j
                   PROVE  FALSE
        OBVIOUS
      <4> DEFINE k == cards[i].rank
                 R == OfRank(Fixed(r), k)
      <4>1. i \in R /\ j \in R /\ R \subseteq F
        BY <1>8 DEF OfRank
      <4>2. k \in RanksIn(Fixed(r)) /\ k \in DOMAIN t.needs
        BY <1>8, <2>5 DEF RanksIn
      <4>3. Cardinality(R) <= 1
        BY <2>2, <3>2, <4>2 DEF Fits
      <4> HIDE DEF R, k
      <4>4. IsFiniteSet(R) /\ Cardinality(R) \in Nat
        BY <1>7, <4>1, FS_Subset, FS_CardinalityType
      <4>5. /\ IsFiniteSet(R \ {i}) /\ Cardinality(R \ {i}) = Cardinality(R) - 1
            /\ Cardinality(R \ {i}) \in Nat
        BY <4>1, <4>4, FS_RemoveElement, FS_CardinalityType
      <4>6. Cardinality(R \ {i}) = 0
        BY <4>3, <4>4, <4>5
      <4>7. R \ {i} = {}
        BY <4>5, <4>6, FS_EmptySet
      <4>8. QED
        BY <4>1, <4>7
    <3>8. IsFiniteSet(H) /\ Cardinality(H) \in Nat
      <4>1. H \in SUBSET Ranks
        BY <3>2 DEF HeldOf
      <4> HIDE DEF H
      <4>2. QED
        BY <4>1, RanksFinite, FS_CardinalityType
    <3>9. Cardinality(F) <= Cardinality(H)
      <4> HIDE DEF rank, H
      <4>1. DOMAIN rank = F
        BY <3>6
      <4>2. rank \in Injection(F, H)
        BY <3>6, <3>7, <4>1 DEF Injection, IsInjective
      <4>3. QED
        BY <3>8, <4>2, FS_Injection
    <3> HIDE DEF H
    <3>10. Cardinality(H) + Cardinality(Wild(cards)) >= 5
      <4> DEFINE held == Cardinality(H)
                 wild == Cardinality(Wild(cards))
                 f == Cardinality(F)
                 w == Cardinality(W)
      <4>1. /\ held \in Nat /\ wild \in Nat /\ f \in Nat /\ w \in Nat
            /\ f <= held /\ w <= wild /\ f + w = 5
        BY <1>5, <1>6, <1>7, <2>7, <3>8, <3>9
      <4> HIDE DEF held, wild, f, w
      <4>2. held + wild >= 5
        BY <4>1
      <4>3. QED
        BY <4>2 DEF held, wild
    <3>11. QED
      BY <2>7, <3>4, <3>10, HasAnyBombCases DEF H
  <2>8. QED
    BY <2>4, <2>6, <2>7
<1>14. QED
  BY <1>12, <1>13

(* Where the hint's test sees a bomb in the hand, four or five of its      *)
(* cards are read as one.                                                  *)
LEMMA BombFound ==
  ASSUME NEW D, IsFiniteSet(D), NEW cards \in [D -> Cards], HasAnyBomb(cards)
  PROVE  \E c \in SUBSET D :
           /\ Cardinality(c) \in {4, 5}
           /\ \E s \in Strengths(Restrict(cards, c)) : s.pattern \in Bombs
<1>1. /\ Wild(cards) \subseteq D /\ IsFiniteSet(Wild(cards))
      /\ Cardinality(Wild(cards)) \in Nat
  BY FS_Subset, FS_CardinalityType DEF Wild, Indexes
<1>2. /\ DOMAIN Fixed(cards) = D \ Wild(cards)
      /\ \A i \in D \ Wild(cards) : Fixed(cards)[i] = cards[i]
      /\ \A k : OfRank(Fixed(cards), k) = OfRank(cards, k) \ Wild(cards)
  BY FixedFacts
<1>3. \A i \in Wild(cards) : ~ IsJoker(cards[i])
  <2>1. \A i \in Wild(cards) : cards[i] \in Cards /\ IsWild(cards[i])
    BY DEF Wild, Indexes
  <2>2. QED
    BY <2>1, CardFacts
<1>4. ASSUME NEW c \in SUBSET D
      PROVE  LET q == Restrict(cards, c)
             IN  /\ q \in [c -> Cards] /\ DOMAIN q = c
                 /\ \A i \in c : q[i] = cards[i]
                 /\ Wild(q) = Wild(cards) \cap c
                 /\ Jokers(q) = Jokers(cards) \cap c
                 /\ \A k : OfRank(q, k) = OfRank(cards, k) \cap c
  BY Chosen
<1>5. CASE Cardinality(Jokers(cards)) >= 4
  <2>1. IsFiniteSet(Jokers(cards)) /\ Jokers(cards) \subseteq D
    BY FS_Subset DEF Jokers, Indexes
  <2>2. PICK c \in SUBSET Jokers(cards) : IsFiniteSet(c) /\ Cardinality(c) = 4
    BY <1>5, <2>1, SubsetOfSize
  <2>3. c \in SUBSET D
    BY <2>1, <2>2
  <2> DEFINE q == Restrict(cards, c)
  <2>4. DOMAIN q = c /\ Jokers(q) = c
    BY <1>4, <2>2, <2>3
  <2> HIDE DEF q
  <2>5. Strengths(q) = OfJokers(q)
    BY <2>2, <2>4 DEF Strengths
  <2>6. OfJokers(q) = {[pattern |-> "joker_bomb", main |-> 14, count |-> 4]}
    BY <2>2, <2>4 DEF OfJokers
  <2>7. \E s \in Strengths(q) : s.pattern \in Bombs
    BY <2>5, <2>6 DEF Bombs
  <2>8. QED
    BY <2>2, <2>3, <2>7 DEF q
<1>6. ASSUME NEW r \in Ranks, Cardinality(OfRank(Fixed(cards), r)) > 0,
             Cardinality(OfRank(Fixed(cards), r)) + Cardinality(Wild(cards)) >= 4
      PROVE  \E c \in SUBSET D :
               /\ Cardinality(c) \in {4, 5}
               /\ \E s \in Strengths(Restrict(cards, c)) : s.pattern \in Bombs
  <2> DEFINE G == OfRank(Fixed(cards), r)
             U == G \cup Wild(cards)
  <2>1. /\ G \subseteq D /\ G \cap Wild(cards) = {}
        /\ \A i \in G : cards[i].rank = r
    BY <1>2 DEF OfRank
  <2>2. IsFiniteSet(G) /\ Cardinality(G) \in Nat
    BY <2>1, FS_Subset, FS_CardinalityType
  <2>3. G # {}
    BY <1>6, <2>2, FS_EmptySet
  <2>4. Cardinality(G) + Cardinality(Wild(cards)) >= 4
    BY <1>6
  <2> HIDE DEF G
  <2>5. IsFiniteSet(U) /\ Cardinality(U) >= 4
    <3>1. /\ IsFiniteSet(U)
          /\ Cardinality(U) = Cardinality(G) + Cardinality(Wild(cards))
                                - Cardinality(G \cap Wild(cards))
      BY <1>1, <2>2, FS_Union
    <3>2. Cardinality(G \cap Wild(cards)) = 0
      BY <2>1, FS_EmptySet
    <3>3. QED
      BY <1>1, <2>2, <2>4, <3>1, <3>2
  <2>6. PICK c \in SUBSET U : IsFiniteSet(c) /\ Cardinality(c) = 4
    BY <2>5, SubsetOfSize
  <2>7. c \in SUBSET D
    BY <1>1, <2>1, <2>6
  <2> DEFINE q == Restrict(cards, c)
  <2>8. /\ q \in [c -> Cards] /\ \A i \in c : q[i] = cards[i]
        /\ Wild(q) = Wild(cards) \cap c /\ Jokers(q) = Jokers(cards) \cap c
    BY <1>4, <2>7
  <2> HIDE DEF q
  <2>9. \A i \in c \ Wild(q) : q[i].rank = r
    BY <2>1, <2>6, <2>8
  <2>10. Jokers(q) # c
    <3>1. \A i \in G : cards[i] \in Cards /\ cards[i].rank \in Ranks
      BY <2>1
    <3>2. \A i \in G : ~ IsJoker(cards[i])
      BY <3>1, CardFacts
    <3>3. \A i \in c : i \notin Jokers(cards)
      BY <1>3, <2>6, <3>2 DEF Jokers, Indexes
    <3>4. c # {}
      BY <2>6, FS_EmptySet
    <3>5. QED
      BY <2>8, <3>3, <3>4
  <2>11. [pattern |-> "bomb", main |-> r, count |-> Cardinality(c)] \in Strengths(q)
    <3>1. Cardinality(c) >= 4
      BY <2>6
    <3>2. QED
      BY <2>6, <2>8, <2>9, <2>10, <3>1, RankBombRead
  <2>12. QED
    BY <2>6, <2>7, <2>11 DEF q, Bombs
<1>7. ASSUME NEW suit \in Suits, NEW t \in Straights,
             Cardinality(HeldOf(cards, suit, DOMAIN t.needs))
               + Cardinality(Wild(cards)) >= 5
      PROVE  \E c \in SUBSET D :
               /\ Cardinality(c) \in {4, 5}
               /\ \E s \in Strengths(Restrict(cards, c)) : s.pattern \in Bombs
  <2> DEFINE H == HeldOf(cards, suit, DOMAIN t.needs)
             card(k) == [suit |-> suit, rank |-> k]
             place == [k \in H |-> CHOOSE i \in D \ Wild(cards) : cards[i] = card(k)]
             G == {place[k] : k \in H}
  <2>1. /\ DOMAIN t.needs \subseteq Ranks /\ IsFiniteSet(DOMAIN t.needs)
        /\ Cardinality(DOMAIN t.needs) = 5
        /\ \A r \in DOMAIN t.needs : t.needs[r] = 1
    BY StraightFacts
  <2>2. H \in SUBSET DOMAIN t.needs
    BY DEF HeldOf
  <2>3. \A k \in H : \E i \in D \ Wild(cards) : cards[i] = card(k)
    BY <1>2 DEF HeldOf
  <2>4. Cardinality(H) + Cardinality(Wild(cards)) >= 5
    BY <1>7
  <2> HIDE DEF H
  <2>5. \A k \in H : place[k] \in D \ Wild(cards) /\ cards[place[k]] = card(k)
    BY <2>3
  <2>6. IsFiniteSet(H) /\ Cardinality(H) \in Nat /\ Cardinality(H) <= 5
    BY <2>1, <2>2, FS_Subset, FS_CardinalityType
  <2>7. place \in Surjection(H, G)
    BY DEF Surjection
  <2>8. DOMAIN place = H
    OBVIOUS
  <2>9. \A j, k \in H : place[j] = place[k] => j = k
    <3> HIDE DEF place
    <3>1. ASSUME NEW j \in H, NEW k \in H, place[j] = place[k] PROVE j = k
      <4>1. card(j) = card(k)
        BY <2>5, <3>1
      <4>2. QED
        BY <4>1
    <3>2. QED
      BY <3>1
  <2>10. /\ G \subseteq D \ Wild(cards)
         /\ \A i \in G : \E k \in H : i = place[k] /\ cards[i] = card(k)
    <3> HIDE DEF place
    <3>1. QED
      BY <2>5
  <2> HIDE DEF place, G
  <2>11. \A k : card(k).suit = suit /\ card(k).rank = k
    OBVIOUS
  <2> HIDE DEF card
  <2>12. \A i \in G : /\ cards[i].suit = suit /\ cards[i].rank \in H
                      /\ i = place[cards[i].rank]
    BY <2>10, <2>11
  <2>13. place \in Injection(H, G)
    BY <2>7, <2>8, <2>9 DEF Injection, IsInjective, Surjection
  <2>14. IsFiniteSet(G) /\ Cardinality(G) = Cardinality(H)
    BY <2>6, <2>7, <2>13, FS_Surjection
  <2>15. PICK W \in SUBSET Wild(cards) :
           IsFiniteSet(W) /\ Cardinality(W) = 5 - Cardinality(H)
    <3>1. /\ 5 - Cardinality(H) \in Nat
          /\ 5 - Cardinality(H) <= Cardinality(Wild(cards))
      BY <1>1, <2>4, <2>6
    <3>2. QED
      BY <1>1, <3>1, SubsetOfSize
  <2> DEFINE c == G \cup W
  <2>16. G \cap W = {} /\ c \in SUBSET D /\ c \cap Wild(cards) = W /\ c \ W = G
    BY <1>1, <2>10, <2>15
  <2>17. IsFiniteSet(c) /\ Cardinality(c) = 5
    <3>1. /\ IsFiniteSet(c)
          /\ Cardinality(c) = Cardinality(G) + Cardinality(W) - Cardinality(G \cap W)
      BY <2>14, <2>15, FS_Union
    <3>2. Cardinality(G \cap W) = 0
      BY <2>16, FS_EmptySet
    <3>3. QED
      BY <2>6, <2>14, <2>15, <3>1, <3>2
  <2> HIDE DEF c
  <2> DEFINE q == Restrict(cards, c)
  <2>18. /\ q \in [c -> Cards] /\ \A i \in c : q[i] = cards[i]
         /\ Wild(q) = W /\ Jokers(q) = Jokers(cards) \cap c
    BY <1>4, <2>16
  <2> HIDE DEF q
  <2>19. DOMAIN Fixed(q) = G /\ \A i \in G : Fixed(q)[i] = cards[i]
    <3>1. DOMAIN Fixed(q) = c \ W /\ \A i \in c \ W : Fixed(q)[i] = q[i]
      BY <2>18, FixedFacts
    <3>2. QED
      BY <2>16, <2>18, <3>1
  <2>20. OneSuit(Fixed(q))
    <3>1. \A i \in G : cards[i].suit = suit
      BY <2>12
    <3>2. QED
      BY <2>19, <3>1 DEF OneSuit
  <2>21. Jokers(q) # c
    <3>1. \A i \in G : ~ IsJoker(cards[i])
      BY <2>12 DEF IsJoker, NoSuit, Suits, Hearts
    <3>2. \A i \in c : i \notin Jokers(cards)
      BY <1>3, <2>15, <3>1 DEF c, Jokers, Indexes
    <3>3. c # {}
      BY <2>17, FS_EmptySet
    <3>4. QED
      BY <2>18, <3>2, <3>3
  <2>22. Fits(Fixed(q), RanksIn(Fixed(q)), t.needs)
    <3>1. \A i \in G : cards[i].rank \in H
      BY <2>12
    <3>2. RanksIn(Fixed(q)) \subseteq DOMAIN t.needs
      BY <2>2, <2>19, <3>1 DEF RanksIn
    <3>3. ASSUME NEW r \in RanksIn(Fixed(q))
          PROVE  Cardinality(OfRank(Fixed(q), r)) <= 1
      <4>1. PICK i \in G : cards[i].rank = r
        BY <2>19 DEF RanksIn
      <4>2. \A j \in G : cards[j].rank = r => j = place[r]
        BY <2>12
      <4>3. OfRank(Fixed(q), r) = {place[r]}
        BY <2>19, <4>1, <4>2 DEF OfRank
      <4>4. Cardinality(OfRank(Fixed(q), r)) = 1
        BY <4>3, FS_Singleton
      <4>5. QED
        BY <4>4
    <3>4. QED
      BY <2>1, <3>2, <3>3 DEF Fits
  <2>23. [pattern |-> "straight_flush", main |-> t.main, count |-> 5] \in Strengths(q)
    BY <2>17, <2>18, <2>20, <2>21, <2>22, FlushRead
  <2>24. QED
    BY <2>16, <2>17, <2>23 DEF q, Bombs
<1>8. QED
  BY <1>5, <1>6, <1>7, HasAnyBombCases

(* The first n of a rank's cards and the wild cards after them.            *)
Firsts(h, r, n) ==
  ToSet(SubSeq(InOrder(OfRank(h, r) \ Wild(h), <) \o InOrder(Wild(h), <), 1, n))

(* What handCanBeat tries beyond six cards: the first seven or more.       *)
LEMMA LargeGroupsAre ==
  ASSUME NEW h, NEW c
  PROVE  c \in LargeGroups(h) <=>
           \E r \in Ranks :
             LET group == InOrder(OfRank(h, r) \ Wild(h), <)
             IN  /\ group # <<>>
                 /\ \E n \in 7 .. Len(group \o InOrder(Wild(h), <)) :
                      c = Firsts(h, r, n)
<1> DEFINE wild == InOrder(Wild(h), <)
           group(r) == InOrder(OfRank(h, r) \ Wild(h), <)
           sets(r) == IF group(r) = <<>> THEN {}
                      ELSE {ToSet(SubSeq(group(r) \o wild, 1, n)) :
                              n \in 7 .. Len(group(r) \o wild)}
<1>1. LargeGroups(h) = UNION {sets(r) : r \in Ranks}
  BY DEF LargeGroups
<1>2. \A r, n : Firsts(h, r, n) = ToSet(SubSeq(group(r) \o wild, 1, n))
  BY DEF Firsts
<1> HIDE DEF group, wild
<1>3. \A r : c \in sets(r) <=> /\ group(r) # <<>>
                              /\ \E n \in 7 .. Len(group(r) \o wild) :
                                   c = Firsts(h, r, n)
  BY <1>2
<1> HIDE DEF sets
<1>4. c \in LargeGroups(h) <=> \E r \in Ranks : c \in sets(r)
  BY <1>1
<1>5. QED
  BY <1>3, <1>4 DEF group, wild

(* They are n cards of the hand, each of that rank or wild.                *)
LEMMA FirstsFacts ==
  ASSUME NEW h \in Seq(Cards), NEW r \in Ranks, NEW n \in Nat
  PROVE  LET G == OfRank(h, r) \ Wild(h)
             group == InOrder(G, <)
             wild == InOrder(Wild(h), <)
         IN  /\ IsFiniteSet(G) /\ IsFiniteSet(Wild(h))
             /\ Len(group \o wild) = Cardinality(G) + Cardinality(Wild(h))
             /\ group = <<>> <=> G = {}
             /\ n <= Len(group \o wild) =>
                  /\ Firsts(h, r, n) \subseteq G \cup Wild(h)
                  /\ IsFiniteSet(Firsts(h, r, n))
                  /\ Cardinality(Firsts(h, r, n)) = n
<1> DEFINE W == Wild(h)
           G == OfRank(h, r) \ W
           U == G \cup W
           group == InOrder(G, <)
           wild == InOrder(W, <)
           all == group \o wild
           g == Cardinality(G)
           w == Cardinality(W)
<1>1. /\ G \in SUBSET (1 .. Len(h)) /\ W \in SUBSET (1 .. Len(h))
      /\ Len(h) \in Nat /\ G \cap W = {}
  BY DEF Wild, Indexes, OfRank
<1>2. IsFiniteSet(1 .. Len(h))
  <2>1. 1 \in Int /\ Len(h) \in Int
    BY <1>1
  <2>2. QED
    BY <2>1, FS_Interval
<1>3. /\ IsFiniteSet(G) /\ IsFiniteSet(W) /\ g \in Nat /\ w \in Nat
      /\ G \in SUBSET Nat /\ W \in SUBSET Nat
  <2>1. G \in SUBSET Nat /\ W \in SUBSET Nat
    BY <1>1
  <2>2. IsFiniteSet(G) /\ IsFiniteSet(W)
    BY <1>1, <1>2, FS_Subset
  <2>3. QED
    BY <2>1, <2>2, FS_CardinalityType
<1> DEFINE F == Firsts(h, r, n)
<1>4. F = ToSet(SubSeq(all, 1, n))
  BY DEF Firsts
<1> HIDE DEF W, G, F
<1>5. /\ group \in [1 .. g -> G]
      /\ \A j, k \in 1 .. g : group[j] = group[k] => j = k
  BY <1>3, NumbersInOrder
<1>6. /\ wild \in [1 .. w -> W]
      /\ \A j, k \in 1 .. w : wild[j] = wild[k] => j = k
  BY <1>3, NumbersInOrder
<1> HIDE DEF group, wild, g, w
<1>7. /\ group \in Seq(U) /\ wild \in Seq(U) /\ Len(group) = g /\ Len(wild) = w
  <2>1. group \in [1 .. g -> U] /\ wild \in [1 .. w -> U]
    BY <1>5, <1>6
  <2> HIDE DEF U
  <2>2. QED
    BY <1>3, <2>1
<1> HIDE DEF U
<1>8. /\ all \in Seq(U) /\ Len(all) = g + w
      /\ \A i \in 1 .. g + w : all[i] = IF i <= g THEN group[i] ELSE wild[i - g]
  BY <1>7, ConcatProperties
<1> HIDE DEF all
<1>9. ASSUME NEW j \in 1 .. g + w, NEW k \in 1 .. g + w, all[j] = all[k]
      PROVE  j = k
  <2>1. \A i \in 1 .. g + w :
          \/ i \in 1 .. g /\ all[i] = group[i] /\ all[i] \in G
          \/ i - g \in 1 .. w /\ all[i] = wild[i - g] /\ all[i] \in W
    <3> TAKE i \in 1 .. g + w
    <3>1. CASE i <= g
      <4>1. i \in 1 .. g /\ all[i] = group[i]
        BY <1>3, <1>8, <3>1
      <4>2. QED
        BY <1>5, <4>1
    <3>2. CASE ~ (i <= g)
      <4>1. i - g \in 1 .. w /\ all[i] = wild[i - g]
        BY <1>3, <1>8, <3>2
      <4>2. QED
        BY <1>6, <4>1
    <3>3. QED
      BY <3>1, <3>2
  <2>2. \/ /\ j \in 1 .. g /\ k \in 1 .. g /\ group[j] = group[k]
        \/ j - g \in 1 .. w /\ k - g \in 1 .. w /\ wild[j - g] = wild[k - g]
    <3>1. G \cap W = {}
      BY <1>1
    <3>2. QED
      BY <1>9, <2>1, <3>1
  <2>3. j = k \/ j - g = k - g
    BY <1>5, <1>6, <2>2
  <2>4. QED
    BY <1>3, <2>3
<1>10. group = <<>> <=> G = {}
  <2>1. G = {} <=> g = 0
    BY <1>3, FS_EmptySet DEF g
  <2>2. group = <<>> <=> Len(group) = 0
    BY <1>7
  <2>3. QED
    BY <1>7, <2>1, <2>2
<1>11. ASSUME n <= g + w
       PROVE  F \subseteq U /\ IsFiniteSet(F) /\ Cardinality(F) = n
  <2> DEFINE first == SubSeq(all, 1, n)
  <2>1. \A i \in 1 .. n : i \in 1 .. g + w
    BY <1>3, <1>11
  <2>2. \A i \in 1 .. n : all[i] \in U
    <3>1. \A i \in 1 .. g + w : all[i] \in U
      BY <1>8
    <3>2. QED
      BY <2>1, <3>1
  <2>3. /\ first \in Seq(U) /\ Len(first) = n
        /\ \A i \in 1 .. n : first[i] = all[i]
    <3>1. 1 \in Int /\ n \in Int
      OBVIOUS
    <3>2. /\ first \in Seq(U)
          /\ Len(first) = IF 1 <= n THEN n - 1 + 1 ELSE 0
          /\ \A i \in 1 .. n - 1 + 1 : first[i] = all[1 + i - 1]
      BY <2>2, <3>1, SubSeqProperties
    <3> HIDE DEF first
    <3>3. /\ n - 1 + 1 = n /\ \A i \in 1 .. n : 1 + i - 1 = i
          /\ (IF 1 <= n THEN n - 1 + 1 ELSE 0) = n
      OBVIOUS
    <3>4. QED
      BY <3>2, <3>3
  <2>4. F = {first[i] : i \in DOMAIN first}
    BY <1>4 DEF ToSet
  <2> HIDE DEF first
  <2>5. first \in [1 .. n -> U] /\ DOMAIN first = 1 .. n
    BY <2>3
  <2>6. F \subseteq U /\ first \in Surjection(1 .. n, F)
    BY <2>4, <2>5 DEF Surjection
  <2>7. first \in Injection(1 .. n, F)
    <3>1. \A j, k \in 1 .. n : first[j] = first[k] => j = k
      BY <1>9, <2>1, <2>3
    <3>2. QED
      BY <2>5, <2>6, <3>1 DEF Injection, IsInjective, Surjection
  <2>8. IsFiniteSet(1 .. n) /\ Cardinality(1 .. n) = n
    <3>1. 1 \in Int /\ n \in Int
      OBVIOUS
    <3>2. IsFiniteSet(1 .. n) /\ Cardinality(1 .. n) = IF 1 > n THEN 0 ELSE n - 1 + 1
      BY <3>1, FS_Interval
    <3>3. QED
      BY <3>2
  <2>9. IsFiniteSet(F) /\ Cardinality(F) = n
    BY <2>6, <2>7, <2>8, FS_Surjection
  <2>10. QED
    BY <2>6, <2>9
<1>12. QED
  BY <1>3, <1>8, <1>10, <1>11 DEF W, G, U, F, g, w, all, group, wild

(* What the hint tries of a larger bomb are cards of the hand.             *)
LEMMA LargeGroupsInHand ==
  ASSUME NEW h \in Seq(Cards), NEW c \in LargeGroups(h)
  PROVE  c \in SUBSET DOMAIN h
<1> DEFINE all(r) == InOrder(OfRank(h, r) \ Wild(h), <) \o InOrder(Wild(h), <)
<1>1. PICK r \in Ranks : \E n \in 7 .. Len(all(r)) : c = Firsts(h, r, n)
  BY LargeGroupsAre
<1>2. PICK n \in 7 .. Len(all(r)) : c = Firsts(h, r, n)
  BY <1>1
<1>3. Len(all(r)) = Cardinality(OfRank(h, r) \ Wild(h)) + Cardinality(Wild(h))
      /\ IsFiniteSet(OfRank(h, r) \ Wild(h)) /\ IsFiniteSet(Wild(h))
  <2>1. 7 \in Nat
    OBVIOUS
  <2>2. QED
    BY <2>1, FirstsFacts
<1>4. n \in Nat /\ n <= Len(all(r))
  <2>1. Len(all(r)) \in Nat
    <3>1. /\ Cardinality(OfRank(h, r) \ Wild(h)) \in Nat
          /\ Cardinality(Wild(h)) \in Nat
      BY <1>3, FS_CardinalityType
    <3> HIDE DEF all
    <3>2. QED
      BY <1>3, <3>1
  <2> HIDE DEF all
  <2>2. QED
    BY <1>2, <2>1
<1>5. c \subseteq (OfRank(h, r) \ Wild(h)) \cup Wild(h)
  BY <1>2, <1>4, FirstsFacts
<1>6. QED
  BY <1>5 DEF OfRank, Wild, Indexes

(* A hand is a function from finitely many places to cards.                *)
LEMMA HandFacts ==
  ASSUME NEW h \in Seq(Cards)
  PROVE  /\ Len(h) \in Nat /\ DOMAIN h = 1 .. Len(h)
         /\ h \in [DOMAIN h -> Cards]
         /\ IsFiniteSet(DOMAIN h) /\ Cardinality(DOMAIN h) = Len(h)
<1>1. /\ Len(h) \in Nat /\ DOMAIN h = 1 .. Len(h)
      /\ h \in [1 .. Len(h) -> Cards]
  OBVIOUS
<1>2. 1 \in Int /\ Len(h) \in Int
  BY <1>1
<1>3. /\ IsFiniteSet(1 .. Len(h))
      /\ Cardinality(1 .. Len(h)) = IF 1 > Len(h) THEN 0 ELSE Len(h) - 1 + 1
  BY <1>2, FS_Interval
<1>4. QED
  BY <1>1, <1>3

(* In a choice from a hand with few wild cards no five jokers are alike.   *)
LEMMA ChoiceReadings ==
  ASSUME NEW h \in Seq(Cards), FewWild(h), NEW c \in SUBSET DOMAIN h
  PROVE  /\ Restrict(h, c) \in [c -> Cards] /\ IsFiniteSet(c)
         /\ Legal(Restrict(h, c)) = Strengths(Restrict(h, c))
<1>1. h \in [DOMAIN h -> Cards] /\ IsFiniteSet(DOMAIN h)
  BY HandFacts
<1>2. IsFiniteSet(c)
  BY <1>1, FS_Subset
<1>3. LET q == Restrict(h, c)
      IN  /\ q \in [c -> Cards] /\ DOMAIN q = c
          /\ \A i \in c : q[i] = h[i]
          /\ Wild(q) = Wild(h) \cap c
          /\ Jokers(q) = Jokers(h) \cap c
          /\ \A k : OfRank(q, k) = OfRank(h, k) \cap c
  BY <1>1, Chosen
<1> DEFINE q == Restrict(h, c)
<1>4. ASSUME NEW r \in {16, 17} PROVE Cardinality(OfRank(q, r)) <= 4
  <2> DEFINE R == OfRank(h, r)
  <2>1. R \in SUBSET DOMAIN h
    BY DEF OfRank
  <2>2. OfRank(q, r) \in SUBSET R
    BY <1>3
  <2>3. IsFiniteSet(R)
    BY <1>1, <2>1, FS_Subset
  <2>4. IsFiniteSet(OfRank(q, r)) /\ Cardinality(OfRank(q, r)) <= Cardinality(R)
    BY <2>2, <2>3, FS_Subset
  <2>5. Cardinality(R) <= 4
    BY DEF FewWild
  <2>6. Cardinality(R) \in Nat /\ Cardinality(OfRank(q, r)) \in Nat
    BY <2>3, <2>4, FS_CardinalityType
  <2> HIDE DEF R, q
  <2>7. QED
    BY <2>4, <2>5, <2>6
<1>5. q \in [c -> Cards]
  BY <1>3
<1> HIDE DEF q
<1>6. Legal(q) = Strengths(q)
  BY <1>2, <1>4, <1>5, LegalReadings
<1>7. QED
  BY <1>2, <1>5, <1>6 DEF q

(* Any bomb of seven cards or more has its equal among the larger bombs    *)
(* that the hint tries.                                                    *)
LEMMA LargeBomb ==
  ASSUME NEW h \in Seq(Cards), FewWild(h), NEW c \in SUBSET DOMAIN h,
         Cardinality(c) >= 7, NEW s \in Strengths(Restrict(h, c)),
         s.pattern \in Bombs
  PROVE  \E d \in LargeGroups(h) : \E u \in Strengths(Restrict(h, d)) :
           u.pattern = s.pattern /\ u.main = s.main /\ u.count = s.count
<1> DEFINE q == Restrict(h, c)
           n == Cardinality(c)
           W == Wild(h)
<1>1. h \in [DOMAIN h -> Cards] /\ IsFiniteSet(DOMAIN h)
  BY HandFacts
<1>2. /\ IsFiniteSet(c) /\ Legal(q) = Strengths(q)
  BY ChoiceReadings
<1>3. /\ q \in [c -> Cards] /\ DOMAIN q = c
      /\ \A i \in c : q[i] = h[i]
      /\ Wild(q) = W \cap c
      /\ Jokers(q) = Jokers(h) \cap c
      /\ \A k : OfRank(q, k) = OfRank(h, k) \cap c
  <2>1. LET p == Restrict(h, c)
        IN  /\ p \in [c -> Cards] /\ DOMAIN p = c
            /\ \A i \in c : p[i] = h[i]
            /\ Wild(p) = Wild(h) \cap c
            /\ Jokers(p) = Jokers(h) \cap c
            /\ \A k : OfRank(p, k) = OfRank(h, k) \cap c
    BY <1>1, Chosen
  <2>2. QED
    BY <2>1
<1>4. s \in Strengths(q)
  OBVIOUS
<1> HIDE DEF q
<1>5. c # {} /\ n \in Nat /\ s.count = n /\ n >= 7 /\ s.pattern # "straight_flush"
  <2>1. c # {} /\ n \in Nat /\ s.count = n /\ (s.pattern = "straight_flush" => n = 5)
    BY <1>2, <1>3, <1>4, ReadingFacts
  <2>2. QED
    BY <2>1
<1> HIDE DEF n
<1>6. Jokers(q) # c
  <2> SUFFICES ASSUME Jokers(q) = c PROVE FALSE
    OBVIOUS
  <2>1. \/ n = 4
        \/ \E r \in {16, 17} : s.main = IF n > 4 THEN 1 ELSE r
    <3>1. IsFiniteSet(c) /\ c # {} /\ q \in [c -> Cards]
      BY <1>2, <1>3, <1>5
    <3>2. QED
      BY <1>4, <3>1, JokerReadings DEF n
  <2>2. s.main = 1
    BY <1>5, <2>1
  <2>3. s.main > 1
    BY <1>2, <1>4 DEF Legal
  <2>4. QED
    BY <2>2, <2>3
<1>7. /\ s.main \in Ranks
      /\ n # 1 => \E t \in Shapes(n) :
                    /\ Fits(Fixed(q), RanksIn(Fixed(q)), t.needs)
                    /\ s.main = t.main
                    /\ \/ s.pattern = t.pattern
                       \/ s.pattern = "straight_flush"
  BY <1>2, <1>3, <1>4, <1>5, <1>6, CardReadings DEF n
<1>8. PICK t \in Shapes(n) : /\ Fits(Fixed(q), RanksIn(Fixed(q)), t.needs)
                             /\ s.main = t.main /\ s.pattern = t.pattern
  BY <1>5, <1>7
<1>9. s.pattern = "bomb" /\ t.needs = [k \in {s.main} |-> n]
  <2>1. n >= 1
    BY <1>5
  <2>2. /\ t.pattern # "joker_bomb"
        /\ t.pattern = "bomb" => t.needs = [k \in {t.main} |-> n]
    BY <1>5, <2>1, ShapeFacts
  <2>3. QED
    BY <1>5, <1>8, <2>2 DEF Bombs
<1> DEFINE r == s.main
           G == OfRank(h, r) \ W
           group == InOrder(G, <)
           all == group \o InOrder(W, <)
<1>10. c \subseteq G \cup W
  <2>1. DOMAIN Fixed(q) = c \ Wild(q) /\ \A i \in c \ Wild(q) : Fixed(q)[i] = q[i]
    <3>1. q \in [c -> Cards]
      BY <1>3
    <3>2. QED
      BY <3>1, FixedFacts
  <2>2. RanksIn(Fixed(q)) \subseteq {r}
    BY <1>8, <1>9 DEF Fits
  <2>3. \A i \in c \ W : h[i].rank = r
    BY <1>3, <2>1, <2>2 DEF RanksIn
  <2>4. QED
    BY <2>3 DEF OfRank
<1>11. /\ IsFiniteSet(G) /\ IsFiniteSet(W)
       /\ Len(all) = Cardinality(G) + Cardinality(W)
       /\ group = <<>> <=> G = {}
       /\ n <= Len(all) => /\ Firsts(h, r, n) \subseteq G \cup W
                           /\ IsFiniteSet(Firsts(h, r, n))
                           /\ Cardinality(Firsts(h, r, n)) = n
  BY <1>5, <1>7, FirstsFacts
<1>12. W \cap G = {} /\ G \subseteq DOMAIN h /\ W \subseteq DOMAIN h
       /\ \A i \in G : h[i].rank = r
  BY DEF OfRank, Wild, Indexes
<1>13. Cardinality(W) <= 3
  BY DEF FewWild
<1> HIDE DEF r, G, W, group, all
<1>14. Cardinality(G) \in Nat /\ Cardinality(W) \in Nat
  BY <1>11, FS_CardinalityType
<1>15. n <= Cardinality(G) + Cardinality(W)
  <2>1. /\ IsFiniteSet(G \cup W)
        /\ Cardinality(G \cup W) =
             Cardinality(G) + Cardinality(W) - Cardinality(G \cap W)
    BY <1>11, FS_Union
  <2>2. Cardinality(G \cap W) = 0
    <3>1. G \cap W = {}
      BY <1>12
    <3>2. QED
      BY <3>1, FS_EmptySet
  <2>3. n <= Cardinality(G \cup W)
    BY <1>10, <2>1, FS_Subset DEF n
  <2>4. QED
    BY <1>14, <2>1, <2>2, <2>3
<1>16. group # <<>>
  <2>1. ASSUME G = {} PROVE FALSE
    <3>1. Cardinality(G) = 0
      BY <2>1, FS_EmptySet
    <3>2. QED
      BY <1>5, <1>13, <1>14, <1>15, <3>1
  <2>2. QED
    BY <1>11, <2>1
<1> DEFINE d == Firsts(h, r, n)
<1>17. n \in 7 .. Len(all) /\ n <= Len(all)
  BY <1>5, <1>11, <1>14, <1>15
<1>18. d \in LargeGroups(h)
  BY <1>7, <1>16, <1>17, LargeGroupsAre DEF r, group, G, W, all
<1>19. d \subseteq G \cup W /\ IsFiniteSet(d) /\ Cardinality(d) = n
  BY <1>11, <1>17
<1> HIDE DEF d
<1>20. d \in SUBSET DOMAIN h
  BY <1>12, <1>19
<1> DEFINE p == Restrict(h, d)
<1>21. /\ p \in [d -> Cards] /\ \A i \in d : p[i] = h[i]
       /\ Wild(p) = W \cap d /\ Jokers(p) = Jokers(h) \cap d
  <2>1. LET v == Restrict(h, d)
        IN  /\ v \in [d -> Cards] /\ DOMAIN v = d
            /\ \A i \in d : v[i] = h[i]
            /\ Wild(v) = Wild(h) \cap d
            /\ Jokers(v) = Jokers(h) \cap d
            /\ \A k : OfRank(v, k) = OfRank(h, k) \cap d
    BY <1>1, <1>20, Chosen
  <2>2. QED
    BY <2>1 DEF W
<1> HIDE DEF p
<1>22. \A i \in d \ Wild(p) : p[i].rank = r
  BY <1>12, <1>19, <1>21
<1>23. Jokers(p) # d
  <2>1. \A i \in G : h[i] \in Cards /\ h[i].rank \in Ranks
    BY <1>1, <1>7, <1>12 DEF r
  <2>2. \A i \in W : h[i] \in Cards /\ IsWild(h[i])
    BY <1>1 DEF W, Wild, Indexes
  <2>3. \A i \in G \cup W : ~ IsJoker(h[i])
    BY <2>1, <2>2, CardFacts
  <2>4. \A i \in d : i \notin Jokers(h)
    BY <1>19, <2>3 DEF Jokers, Indexes
  <2>5. d # {}
    <3>1. Cardinality(d) # 0
      BY <1>5, <1>19
    <3>2. QED
      BY <3>1, FS_EmptySet
  <2>6. QED
    BY <1>21, <2>4, <2>5
<1>24. [pattern |-> "bomb", main |-> r, count |-> n] \in Strengths(p)
  <2>1. Cardinality(d) >= 4 /\ r \in Ranks
    BY <1>5, <1>7, <1>19 DEF r
  <2>2. [pattern |-> "bomb", main |-> r, count |-> Cardinality(d)] \in Strengths(p)
    BY <1>19, <1>21, <1>22, <1>23, <2>1, RankBombRead
  <2>3. QED
    BY <1>19, <2>2
<1>25. QED
  <2>1. LET u == [pattern |-> "bomb", main |-> r, count |-> n]
        IN  u.pattern = s.pattern /\ u.main = s.main /\ u.count = s.count
    BY <1>5, <1>9 DEF r
  <2>2. QED
    BY <1>18, <1>24, <2>1 DEF p

-----------------------------------------------------------------------------
(* What the hint says, and what the server says.                           *)

(* What the hint tries of some sizes: the choices of those sizes.          *)
LEMMA TriesAre ==
  ASSUME NEW h \in Seq(Cards), NEW sizes, NEW c
  PROVE  c \in Tries(h, sizes) <=>
           c \in SUBSET DOMAIN h /\ Cardinality(c) \in sizes
<1>1. c \in Tries(h, sizes) <=>
        \E n \in sizes \cap 0 .. Len(h) :
          c \in SUBSET DOMAIN h /\ Cardinality(c) = n
  BY DEF Tries, kSubset
<1>2. ASSUME c \in SUBSET DOMAIN h PROVE Cardinality(c) \in 0 .. Len(h)
  <2>1. /\ IsFiniteSet(DOMAIN h) /\ Cardinality(DOMAIN h) = Len(h)
        /\ Len(h) \in Nat
    BY HandFacts
  <2>2. Cardinality(c) <= Len(h) /\ Cardinality(c) \in Nat
    BY <1>2, <2>1, FS_Subset, FS_CardinalityType
  <2>3. QED
    BY <2>1, <2>2
<1>3. QED
  BY <1>1, <1>2

(* The server accepts what beats every reading the page has of the table.  *)
LEMMA AcceptsReadings ==
  ASSUME NEW h \in Seq(Cards), FewWild(h), NEW c \in SUBSET DOMAIN h,
         NEW t \in Seq(Cards), Legal(t) # {}
  PROVE  Accepts(Restrict(h, c), t) <=>
           \E s \in Strengths(Restrict(h, c)) : BeatsAll(s, Strengths(t))
<1>1. Legal(Restrict(h, c)) = Strengths(Restrict(h, c))
  BY ChoiceReadings
<1>2. Legal(t) = Strengths(t)
  BY HandFacts, LegalReadings
<1>3. QED
  BY <1>1, <1>2 DEF Accepts, BeatsAll

(* Some choice of the hand beats every reading of the table.               *)
SomethingBeats(h, t) ==
  \E c \in SUBSET DOMAIN h : \E s \in Strengths(Restrict(h, c)) :
    BeatsAll(s, Strengths(t))

(* What the hint tries of the hand for a suggestion.                       *)
Tried(h, t) ==
  Tries(h, 4 .. 6 \cup IF ReadsAsBomb(Strengths(t)) THEN {}
                          ELSE {Cardinality(DOMAIN t)})
    \cup LargeGroups(h)

(* All of it are cards of the hand.                                        *)
LEMMA TriedInHand ==
  ASSUME NEW h \in Seq(Cards), NEW t, NEW c \in Tried(h, t)
  PROVE  c \in SUBSET DOMAIN h
BY TriesAre, LargeGroupsInHand DEF Tried

(* Where something beats a bomb, the hint tries something that does.       *)
LEMMA BombAnswered ==
  ASSUME NEW h \in Seq(Cards), FewWild(h), NEW t \in Seq(Cards),
         ReadsAsBomb(Strengths(t)), SomethingBeats(h, t)
  PROVE  \E d \in Tries(h, 4 .. 6) \cup LargeGroups(h) :
           \E u \in Strengths(Restrict(h, d)) : BeatsAll(u, Strengths(t))
<1>1. PICK c \in SUBSET DOMAIN h :
        \E s \in Strengths(Restrict(h, c)) : BeatsAll(s, Strengths(t))
  BY DEF SomethingBeats
<1>2. PICK s \in Strengths(Restrict(h, c)) : BeatsAll(s, Strengths(t))
  BY <1>1
<1>3. PICK b \in Strengths(t) : b.pattern \in Bombs
  BY DEF ReadsAsBomb
<1>4. /\ s.count = Cardinality(c) /\ Cardinality(c) \in Nat
      /\ s.pattern \in Bombs => Cardinality(c) >= 4
  BY ChoiceReadings, ReadingFacts
<1>5. b.count \in Nat
  BY HandFacts, ReadingFacts
<1>6. s.pattern \in Bombs
  <2>1. Beats(s, b)
    BY <1>2, <1>3 DEF BeatsAll
  <2>2. s.count \in Nat
    BY <1>4
  <2>3. QED
    BY <1>3, <1>5, <2>1, <2>2, BeatsFacts
<1>7. CASE Cardinality(c) \in 4 .. 6
  <2>1. c \in Tries(h, 4 .. 6)
    BY <1>7, TriesAre
  <2>2. QED
    BY <1>2, <2>1
<1>8. CASE Cardinality(c) \notin 4 .. 6
  <2>1. Cardinality(c) >= 7
    BY <1>4, <1>6, <1>8
  <2>2. PICK d \in LargeGroups(h) :
          \E u \in Strengths(Restrict(h, d)) :
            u.pattern = s.pattern /\ u.main = s.main /\ u.count = s.count
    BY <1>6, <2>1, LargeBomb
  <2>3. PICK u \in Strengths(Restrict(h, d)) :
          u.pattern = s.pattern /\ u.main = s.main /\ u.count = s.count
    BY <2>2
  <2>4. \A v \in Strengths(t) : Beats(u, v)
    <3>1. \A v \in Strengths(t) : Beats(s, v)
      BY <1>2 DEF BeatsAll
    <3>2. QED
      BY <2>3, <3>1, SameStrength
  <2>5. QED
    BY <2>3, <2>4 DEF BeatsAll
<1>9. QED
  BY <1>7, <1>8

(* What beats an ordinary play is a bomb or a play of its size.            *)
LEMMA PlayAnswered ==
  ASSUME NEW h \in Seq(Cards), FewWild(h), NEW t \in Seq(Cards),
         ~ ReadsAsBomb(Strengths(t)), Strengths(t) # {},
         NEW c \in SUBSET DOMAIN h, NEW s \in Strengths(Restrict(h, c)),
         BeatsAll(s, Strengths(t))
  PROVE  HasAnyBomb(h) \/ Cardinality(c) = Cardinality(DOMAIN t)
<1>1. PICK b \in Strengths(t) : TRUE
  OBVIOUS
<1>2. s.count = Cardinality(c) /\ Cardinality(c) \in Nat
  BY ChoiceReadings, ReadingFacts
<1>3. b.count = Cardinality(DOMAIN t) /\ Cardinality(DOMAIN t) \in Nat
  BY HandFacts, ReadingFacts
<1>4. Beats(s, b)
  BY DEF BeatsAll
<1>5. CASE s.pattern \in Bombs
  <2>1. Cardinality(Wild(h)) <= 3
    BY DEF FewWild
  <2>2. h \in [DOMAIN h -> Cards] /\ IsFiniteSet(DOMAIN h)
    BY HandFacts
  <2>3. HasAnyBomb(h)
    BY <1>5, <2>1, <2>2, BombHeld
  <2>4. QED
    BY <2>3
<1>6. CASE s.pattern \notin Bombs
  <2>1. s.count \in Nat /\ b.count \in Nat
    BY <1>2, <1>3
  <2>2. s.count = b.count
    BY <1>4, <1>6, <2>1, BeatsFacts
  <2>3. QED
    BY <1>2, <1>3, <2>2
<1>7. QED
  BY <1>5, <1>6

(* A bomb in the hand beats an ordinary play, and is among what is tried.  *)
LEMMA BombAnswers ==
  ASSUME NEW h \in Seq(Cards), NEW t \in Seq(Cards),
         ~ ReadsAsBomb(Strengths(t)), HasAnyBomb(h)
  PROVE  \E c \in Tries(h, 4 .. 6) : \E s \in Strengths(Restrict(h, c)) :
           BeatsAll(s, Strengths(t))
<1>1. h \in [DOMAIN h -> Cards] /\ IsFiniteSet(DOMAIN h)
  BY HandFacts
<1>2. PICK c \in SUBSET DOMAIN h :
        /\ Cardinality(c) \in {4, 5}
        /\ \E s \in Strengths(Restrict(h, c)) : s.pattern \in Bombs
  BY <1>1, BombFound
<1>3. PICK s \in Strengths(Restrict(h, c)) : s.pattern \in Bombs
  BY <1>2
<1>4. c \in Tries(h, 4 .. 6)
  <2>1. Cardinality(c) \in 4 .. 6
    BY <1>2
  <2>2. QED
    BY <2>1, TriesAre
<1>5. IsFiniteSet(c) /\ Restrict(h, c) \in [c -> Cards]
  BY <1>1, Chosen, FS_Subset
<1>6. s.count \in Nat
  BY <1>5, ReadingFacts
<1>7. ASSUME NEW b \in Strengths(t) PROVE Beats(s, b)
  <2>1. b.count \in Nat
    BY HandFacts, ReadingFacts
  <2>2. b.pattern \notin Bombs
    BY DEF ReadsAsBomb
  <2>3. QED
    BY <1>3, <1>6, <2>1, <2>2, BeatsFacts
<1>8. QED
  BY <1>4, <1>7 DEF BeatsAll

(* The hint tells the truth about every hand.                              *)
LEMMA CanBeatTrue ==
  ASSUME NEW h \in Seq(Cards), FewWild(h), NEW t \in Seq(Cards), Legal(t) # {}
  PROVE  CanBeat(h, t) <=>
           \E c \in SUBSET DOMAIN h : Accepts(Restrict(h, c), t)
<1> DEFINE readings == Strengths(t)
           bomb == ReadsAsBomb(readings)
           small == Tries(h, 4 .. 6) \cup LargeGroups(h)
           same == Tries(h, {Cardinality(DOMAIN t)})
           Beaten(tried) == \E c \in tried : \E s \in Strengths(Restrict(h, c)) :
                              BeatsAll(s, readings)
<1>1. readings # {}
  BY DEF Legal
<1>2. CanBeat(h, t) <=>
        \/ ~ bomb /\ HasAnyBomb(h)
        \/ bomb /\ Beaten(small)
        \/ ~ bomb /\ Beaten(same)
  BY <1>1 DEF CanBeat
<1>3. (\E c \in SUBSET DOMAIN h : Accepts(Restrict(h, c), t))
        <=> SomethingBeats(h, t)
  BY AcceptsReadings DEF SomethingBeats
<1>4. small \subseteq SUBSET DOMAIN h /\ same \subseteq SUBSET DOMAIN h
  BY TriesAre, LargeGroupsInHand
<1>5. ASSUME CanBeat(h, t) PROVE SomethingBeats(h, t)
  <2>1. CASE ~ bomb /\ HasAnyBomb(h)
    BY <1>4, <2>1, BombAnswers DEF SomethingBeats
  <2>2. CASE Beaten(small) \/ Beaten(same)
    BY <1>4, <2>2 DEF SomethingBeats
  <2>3. QED
    BY <1>2, <1>5, <2>1, <2>2
<1>6. ASSUME SomethingBeats(h, t) PROVE CanBeat(h, t)
  <2>1. CASE bomb
    BY <1>2, <1>6, <2>1, BombAnswered
  <2>2. CASE ~ bomb
    <3>1. PICK c \in SUBSET DOMAIN h :
            \E s \in Strengths(Restrict(h, c)) : BeatsAll(s, Strengths(t))
      BY <1>6 DEF SomethingBeats
    <3>2. PICK s \in Strengths(Restrict(h, c)) : BeatsAll(s, Strengths(t))
      BY <3>1
    <3>3. HasAnyBomb(h) \/ Cardinality(c) = Cardinality(DOMAIN t)
      BY <1>1, <2>2, <3>2, PlayAnswered
    <3>4. Cardinality(c) = Cardinality(DOMAIN t) => c \in same
      BY TriesAre
    <3> HIDE DEF same, small
    <3>5. QED
      BY <1>2, <2>2, <3>2, <3>3, <3>4
  <2>3. QED
    BY <2>1, <2>2
<1>7. QED
  BY <1>3, <1>5, <1>6

(* A suggestion's score is six numbers.                                    *)
LEMMA ScoreType ==
  ASSUME NEW h \in Seq(Cards), NEW c \in SUBSET DOMAIN h,
         NEW s \in Strengths(Restrict(h, c))
  PROVE  Score(h, c, s) \in [1 .. 6 -> Nat]
<1> DEFINE bomb == s.pattern \in Bombs
           bits == <<IF bomb THEN 1 ELSE 0,
                     IF s.pattern \in {"bomb", "joker_bomb"} THEN 0
                     ELSE BombBreaks(h, c),
                     Cardinality(c \cap OfRank(h, Level)),
                     IF bomb THEN Tier(s) ELSE 0,
                     Power(s),
                     MapThenSumSet(LAMBDA i : SortValue(h[i]), c)>>
<1>1. /\ h \in [DOMAIN h -> Cards] /\ IsFiniteSet(DOMAIN h)
  BY HandFacts
<1>2. IsFiniteSet(c) /\ Restrict(h, c) \in [c -> Cards]
  BY <1>1, Chosen, FS_Subset
<1>3. s.count \in Nat /\ s.main \in Nat
  <2>1. Cardinality(c) \in Nat /\ s.count = Cardinality(c) /\ s.main \in Nat
    BY <1>2, ReadingFacts
  <2>2. QED
    BY <2>1
<1>4. Tier(s) \in Nat
  BY <1>3, TierFacts
<1>5. Power(s) \in Nat
  BY <1>3 DEF Power
<1>6. BombBreaks(h, c) \in Nat
  <2> DEFINE groups == {OfRank(h, r) : r \in Ranks} \cup {Jokers(h)}
             broken == {g \in groups : /\ Cardinality(g) >= 4
                                       /\ g \cap c # {} /\ ~(g \subseteq c)}
  <2>1. broken \in SUBSET (SUBSET DOMAIN h)
    BY DEF OfRank, Jokers, Indexes
  <2>2. IsFiniteSet(SUBSET DOMAIN h)
    BY <1>1, FS_SUBSET
  <2>3. IsFiniteSet(broken)
    BY <2>1, <2>2, FS_Subset
  <2>4. Cardinality(broken) \in Nat
    BY <2>3, FS_CardinalityType
  <2>5. QED
    BY <2>4 DEF BombBreaks
<1>7. Cardinality(c \cap OfRank(h, Level)) \in Nat
  <2>1. IsFiniteSet(c \cap OfRank(h, Level))
    BY <1>2, FS_Intersection
  <2>2. QED
    BY <2>1, FS_CardinalityType
<1>8. MapThenSumSet(LAMBDA i : SortValue(h[i]), c) \in Nat
  <2>1. \A i \in c : h[i] \in Cards
    BY <1>1
  <2>2. \A i \in c : SortValue(h[i]) \in Nat
    BY <2>1, CardFacts
  <2>3. Worth(h, c) \in Nat
    BY <1>2, <2>2, SumType
  <2>4. QED
    BY <2>3 DEF Worth
<1>9. Score(h, c, s) = bits
  BY DEF Score
<1> DEFINE sum == MapThenSumSet(LAMBDA i : SortValue(h[i]), c)
           levels == Cardinality(c \cap OfRank(h, Level))
           breaks == BombBreaks(h, c)
           tier == Tier(s)
           power == Power(s)
<1>10. /\ sum \in Nat /\ levels \in Nat /\ breaks \in Nat /\ tier \in Nat
       /\ power \in Nat
  BY <1>4, <1>5, <1>6, <1>7, <1>8
<1>11. bits = <<IF bomb THEN 1 ELSE 0,
                IF s.pattern \in {"bomb", "joker_bomb"} THEN 0 ELSE breaks,
                levels, IF bomb THEN tier ELSE 0, power, sum>>
  OBVIOUS
<1> HIDE DEF sum, levels, breaks, tier, power, bits
<1>12. /\ (IF bomb THEN 1 ELSE 0) \in Nat
       /\ (IF s.pattern \in {"bomb", "joker_bomb"} THEN 0 ELSE breaks) \in Nat
       /\ (IF bomb THEN tier ELSE 0) \in Nat
  BY <1>10
<1>13. bits \in [1 .. 6 -> Nat]
  <2> DEFINE a == IF bomb THEN 1 ELSE 0
             b == IF s.pattern \in {"bomb", "joker_bomb"} THEN 0 ELSE breaks
             d == IF bomb THEN tier ELSE 0
  <2>1. bits = <<a, b, levels, d, power, sum>>
    BY <1>11
  <2>2. a \in Nat /\ b \in Nat /\ d \in Nat
    BY <1>12
  <2> HIDE DEF a, b, d
  <2>3. <<a, b, levels, d, power, sum>> \in [1 .. 6 -> Nat]
    BY <1>10, <2>2
  <2>4. QED
    BY <2>1, <2>3
<1>14. QED
  BY <1>9, <1>13

(* Of some scores those whose k-th entry is the least.                     *)
LeastAt(scored, k) == {x \in scored : \A y \in scored : x.score[k] <= y.score[k]}

(* There is one.                                                           *)
LEMMA LeastTaken ==
  ASSUME NEW scored, scored # {}, NEW k, \A x \in scored : x.score[k] \in Nat
  PROVE  LeastAt(scored, k) # {}
<1> DEFINE T == {x.score[k] : x \in scored}
<1>1. T \in SUBSET Nat /\ T # {}
  OBVIOUS
<1>2. PICK m \in T : \A n \in T : m <= n
  <2> HIDE DEF T
  <2>1. QED
    BY <1>1, LeastNatural
<1>3. PICK x \in scored : x.score[k] = m
  BY <1>2
<1>4. \A y \in scored : x.score[k] <= y.score[k]
  BY <1>2, <1>3
<1>5. QED
  BY <1>4 DEF LeastAt

(* So there is a smallest of any scores, one entry after the other.        *)
LEMMA SmallestTaken ==
  ASSUME NEW scored, scored # {}, \A x \in scored : x.score \in [1 .. 6 -> Nat]
  PROVE  Smallest(scored) # {}
<1> DEFINE S1 == LeastAt(scored, 1)
           S2 == LeastAt(S1, 2)
           S3 == LeastAt(S2, 3)
           S4 == LeastAt(S3, 4)
           S5 == LeastAt(S4, 5)
           S6 == LeastAt(S5, 6)
<1>1. \A x \in scored : \A k \in 1 .. 6 : x.score[k] \in Nat
  OBVIOUS
<1>2. /\ S1 \subseteq scored /\ S2 \subseteq S1 /\ S3 \subseteq S2
      /\ S4 \subseteq S3 /\ S5 \subseteq S4 /\ S6 \subseteq S5
  BY DEF LeastAt
<1>3. /\ \A x \in S1, y \in scored : x.score[1] <= y.score[1]
      /\ \A x \in S2, y \in S1 : x.score[2] <= y.score[2]
      /\ \A x \in S3, y \in S2 : x.score[3] <= y.score[3]
      /\ \A x \in S4, y \in S3 : x.score[4] <= y.score[4]
      /\ \A x \in S5, y \in S4 : x.score[5] <= y.score[5]
      /\ \A x \in S6, y \in S5 : x.score[6] <= y.score[6]
  BY DEF LeastAt
<1>4. S6 # {}
  <2>1. \A T \in SUBSET scored : \A k \in 1 .. 6 : T # {} => LeastAt(T, k) # {}
    BY <1>1, LeastTaken
  <2>2. S1 # {}
    BY <2>1
  <2> HIDE DEF S1
  <2>3. S2 # {}
    BY <1>2, <2>1, <2>2
  <2> HIDE DEF S2
  <2>4. S3 # {}
    BY <1>2, <2>1, <2>3
  <2> HIDE DEF S3
  <2>5. S4 # {}
    BY <1>2, <2>1, <2>4
  <2> HIDE DEF S4
  <2>6. S5 # {}
    BY <1>2, <2>1, <2>5
  <2> HIDE DEF S5
  <2>7. QED
    BY <1>2, <2>1, <2>6
<1>5. \A x \in S1, y \in scored : y.score[1] = x.score[1] => y \in S1
  BY <1>1 DEF LeastAt
<1> HIDE DEF S1
<1>6. \A x \in S2, y \in S1 : y.score[2] = x.score[2] => y \in S2
  BY <1>1, <1>2 DEF LeastAt
<1> HIDE DEF S2
<1>7. \A x \in S3, y \in S2 : y.score[3] = x.score[3] => y \in S3
  BY <1>1, <1>2 DEF LeastAt
<1> HIDE DEF S3
<1>8. \A x \in S4, y \in S3 : y.score[4] = x.score[4] => y \in S4
  BY <1>1, <1>2 DEF LeastAt
<1> HIDE DEF S4
<1>9. \A x \in S5, y \in S4 : y.score[5] = x.score[5] => y \in S5
  BY <1>1, <1>2 DEF LeastAt
<1> HIDE DEF S5, S6
<1>10. PICK x \in S6 : TRUE
  BY <1>4
<1>11. x \in scored /\ x \in S1 /\ x \in S2 /\ x \in S3 /\ x \in S4 /\ x \in S5
  BY <1>2, <1>10
<1>12. ASSUME NEW y \in scored, Precedes(y.score, x.score) PROVE FALSE
  <2>1. PICK k \in 1 .. 6 : /\ y.score[k] < x.score[k]
                            /\ \A j \in 1 .. k - 1 : y.score[j] = x.score[j]
    BY <1>12 DEF Precedes
  <2>2. y.score[k] \in Nat /\ x.score[k] \in Nat
    BY <1>1, <1>11
  <2>3. ~ (x.score[k] <= y.score[k])
    BY <2>1, <2>2
  <2>4. k \in {1, 2, 3, 4, 5, 6}
    OBVIOUS
  <2>5. /\ k >= 2 => y.score[1] = x.score[1]
        /\ k >= 3 => y.score[2] = x.score[2]
        /\ k >= 4 => y.score[3] = x.score[3]
        /\ k >= 5 => y.score[4] = x.score[4]
        /\ k >= 6 => y.score[5] = x.score[5]
    BY <2>1
  <2>6. /\ k >= 2 => y \in S1
        /\ k >= 3 => y \in S2
        /\ k >= 4 => y \in S3
        /\ k >= 5 => y \in S4
        /\ k >= 6 => y \in S5
    <3>1. /\ k >= 3 => k >= 2
          /\ k >= 4 => k >= 3
          /\ k >= 5 => k >= 4
          /\ k >= 6 => k >= 5
      OBVIOUS
    <3>2. QED
      BY <1>5, <1>6, <1>7, <1>8, <1>9, <1>11, <2>5, <3>1
  <2>7. x.score[k] <= y.score[k]
    BY <1>3, <1>10, <1>11, <2>4, <2>6
  <2>8. QED
    BY <2>3, <2>7
<1>13. QED
  BY <1>11, <1>12 DEF Smallest

(* The choices that are tried and beat the table, with their scores.       *)
Scored(h, t) ==
  UNION {{[chosen |-> c, score |-> Score(h, c, s)] :
            s \in {u \in Strengths(Restrict(h, c)) : BeatsAll(u, Strengths(t))}} :
              c \in Tried(h, t)}

(* The suggestions are the choices of the smallest score.                  *)
LEMMA SuggestionsAre ==
  ASSUME NEW h, NEW t, Strengths(t) # {}
  PROVE  Suggestions(h, t) = {x.chosen : x \in Smallest(Scored(h, t))}
<1> DEFINE scored == Scored(h, t)
<1>1. Suggestions(h, t) = IF scored = {} THEN {}
                             ELSE {x.chosen : x \in Smallest(scored)}
  BY DEF Suggestions, Scored, Tried
<1>2. Smallest({}) = {}
  BY DEF Smallest
<1>3. QED
  BY <1>1, <1>2

(* A hint that is offered suggests something, and whatever is suggested is *)
(* accepted.                                                               *)
LEMMA SuggestionsTrue ==
  ASSUME NEW h \in Seq(Cards), FewWild(h), NEW t \in Seq(Cards), Legal(t) # {}
  PROVE  /\ CanBeat(h, t) => Suggestions(h, t) # {}
         /\ \A c \in Suggestions(h, t) : Accepts(Restrict(h, c), t)
<1> DEFINE scored == Scored(h, t)
<1>1. Strengths(t) # {}
  BY DEF Legal
<1>2. Suggestions(h, t) = {x.chosen : x \in Smallest(scored)}
  BY <1>1, SuggestionsAre
<1>3. \A x : x \in scored <=>
        \E c \in Tried(h, t) : \E s \in Strengths(Restrict(h, c)) :
          /\ BeatsAll(s, Strengths(t))
          /\ x = [chosen |-> c, score |-> Score(h, c, s)]
  BY DEF Scored
<1> HIDE DEF scored
<1>4. ASSUME NEW x \in scored
      PROVE  /\ x.chosen \in SUBSET DOMAIN h /\ x.score \in [1 .. 6 -> Nat]
             /\ \E s \in Strengths(Restrict(h, x.chosen)) :
                  BeatsAll(s, Strengths(t))
  <2>1. PICK c \in Tried(h, t) : \E s \in Strengths(Restrict(h, c)) :
          /\ BeatsAll(s, Strengths(t))
          /\ x = [chosen |-> c, score |-> Score(h, c, s)]
    BY <1>3
  <2>2. PICK s \in Strengths(Restrict(h, c)) :
          /\ BeatsAll(s, Strengths(t))
          /\ x = [chosen |-> c, score |-> Score(h, c, s)]
    BY <2>1
  <2>3. x.chosen = c /\ x.score = Score(h, c, s)
    BY <2>2
  <2>4. c \in SUBSET DOMAIN h
    BY TriedInHand
  <2>5. Score(h, c, s) \in [1 .. 6 -> Nat]
    BY <2>4, ScoreType
  <2>6. QED
    BY <2>2, <2>3, <2>4, <2>5
<1>5. ASSUME NEW c \in Suggestions(h, t) PROVE Accepts(Restrict(h, c), t)
  <2>1. PICK x \in scored : x.chosen = c
    BY <1>2 DEF Smallest
  <2>2. QED
    BY <1>4, <2>1, AcceptsReadings
<1>6. ASSUME CanBeat(h, t) PROVE Suggestions(h, t) # {}
  <2>1. SomethingBeats(h, t)
    <3>1. \E c \in SUBSET DOMAIN h : Accepts(Restrict(h, c), t)
      BY <1>6, CanBeatTrue
    <3>2. QED
      BY <3>1, AcceptsReadings DEF SomethingBeats
  <2>2. \E c \in Tried(h, t) : \E s \in Strengths(Restrict(h, c)) :
          BeatsAll(s, Strengths(t))
    <3>1. CASE ReadsAsBomb(Strengths(t))
      <4>1. Tried(h, t) = Tries(h, 4 .. 6 \cup {}) \cup LargeGroups(h)
        BY <3>1 DEF Tried
      <4>2. 4 .. 6 \cup {} = 4 .. 6
        OBVIOUS
      <4>3. QED
        BY <2>1, <3>1, <4>1, <4>2, BombAnswered
    <3>2. CASE ~ ReadsAsBomb(Strengths(t))
      <4>1. \A c : c \in Tries(h, 4 .. 6) \/ c \in Tries(h, {Cardinality(DOMAIN t)})
              => c \in Tried(h, t)
        <5>1. Tried(h, t) =
                Tries(h, 4 .. 6 \cup {Cardinality(DOMAIN t)}) \cup LargeGroups(h)
          BY <3>2 DEF Tried
        <5>2. QED
          BY <5>1, TriesAre
      <4>2. PICK c \in SUBSET DOMAIN h :
              \E s \in Strengths(Restrict(h, c)) : BeatsAll(s, Strengths(t))
        BY <2>1 DEF SomethingBeats
      <4>3. HasAnyBomb(h) \/ Cardinality(c) = Cardinality(DOMAIN t)
        BY <1>1, <3>2, <4>2, PlayAnswered
      <4>4. CASE HasAnyBomb(h)
        BY <3>2, <4>1, <4>4, BombAnswers
      <4>5. CASE Cardinality(c) = Cardinality(DOMAIN t)
        <5>1. c \in Tries(h, {Cardinality(DOMAIN t)})
          BY <4>5, TriesAre
        <5>2. QED
          BY <4>1, <4>2, <5>1
      <4>6. QED
        BY <4>3, <4>4, <4>5
    <3>3. QED
      BY <3>1, <3>2
  <2>3. scored # {}
    BY <1>3, <2>2
  <2>4. Smallest(scored) # {}
    BY <1>4, <2>3, SmallestTaken
  <2>5. QED
    BY <1>2, <2>4
<1>7. QED
  BY <1>5, <1>6

-----------------------------------------------------------------------------
(* The hint in every state.                                                *)

(* Whoever is asked to play has a play of the deal before them, or leads.  *)
Asked(m) == m.mine => m.table \in Plays \cup {<<>>}

(* The page remembers what handCanBeat said of what it shows; every hand,  *)
(* the server's, the page's or one on its way, has few wild cards.         *)
HintInv ==
  /\ canBeat = Memo(page)
  /\ Asked(page) /\ \A n \in DOMAIN downlink : Asked(downlink[n])
  /\ FewWild(hand) /\ FewWild(page.hand)
  /\ \A n \in DOMAIN downlink : FewWild(downlink[n].hand)

(* Cards played take no wild card and no joker into the hand.              *)
LEMMA WithoutFewWild ==
  ASSUME NEW cards \in Seq(Cards), FewWild(cards), NEW gone
  PROVE  FewWild(Without(cards, gone))
<1> DEFINE S == DOMAIN cards \ gone
           m == Cardinality(S)
           kept == InOrder(S, <)
           left == Without(cards, gone)
<1>1. DOMAIN cards = 1 .. Len(cards) /\ IsFiniteSet(DOMAIN cards)
  BY HandFacts
<1>2. IsFiniteSet(S) /\ S \in SUBSET Nat
  BY <1>1, FS_Subset
<1>3. /\ kept \in [1 .. m -> S]
      /\ \A j, k \in 1 .. m : kept[j] = kept[k] => j = k
  BY <1>2, NumbersInOrder
<1>4. left = [k \in DOMAIN kept |-> cards[kept[k]]]
  BY DEF Without
<1>5. S \subseteq DOMAIN cards
  OBVIOUS
<1> HIDE DEF kept, m, S, left
<1>6. /\ DOMAIN left = 1 .. m
      /\ \A k \in 1 .. m : kept[k] \in DOMAIN cards /\ left[k] = cards[kept[k]]
  BY <1>3, <1>4, <1>5
<1>7. ASSUME NEW A \in SUBSET (1 .. m), NEW B \in SUBSET DOMAIN cards,
             \A k \in A : kept[k] \in B
      PROVE  IsFiniteSet(B) /\ Cardinality(A) \in Nat /\ Cardinality(B) \in Nat
             /\ Cardinality(A) <= Cardinality(B)
  <2> DEFINE f == [k \in A |-> kept[k]]
  <2>1. f \in [A -> B] /\ DOMAIN f = A
    BY <1>7
  <2>2. \A j, k \in A : f[j] = f[k] => j = k
    BY <1>3
  <2> HIDE DEF f
  <2>3. f \in Injection(A, B)
    BY <2>1, <2>2 DEF Injection, IsInjective
  <2>4. IsFiniteSet(B) /\ Cardinality(B) \in Nat
    BY <1>1, FS_Subset, FS_CardinalityType
  <2>5. IsFiniteSet(A) /\ Cardinality(A) <= Cardinality(B)
    BY <2>3, <2>4, FS_Injection
  <2>6. QED
    BY <2>4, <2>5, FS_CardinalityType
<1>8. Cardinality(Wild(left)) <= 3
  <2>1. /\ Wild(left) \in SUBSET (1 .. m) /\ Wild(cards) \in SUBSET DOMAIN cards
        /\ \A k \in Wild(left) : kept[k] \in Wild(cards)
    BY <1>6 DEF Wild, Indexes
  <2>2. /\ Cardinality(Wild(left)) \in Nat /\ Cardinality(Wild(cards)) \in Nat
        /\ Cardinality(Wild(left)) <= Cardinality(Wild(cards))
    BY <1>7, <2>1
  <2>3. Cardinality(Wild(cards)) <= 3
    BY DEF FewWild
  <2>4. QED
    BY <2>2, <2>3
<1>9. ASSUME NEW r \in {16, 17} PROVE Cardinality(OfRank(left, r)) <= 4
  <2>1. /\ OfRank(left, r) \in SUBSET (1 .. m)
        /\ OfRank(cards, r) \in SUBSET DOMAIN cards
        /\ \A k \in OfRank(left, r) : kept[k] \in OfRank(cards, r)
    BY <1>6 DEF OfRank
  <2>2. /\ Cardinality(OfRank(left, r)) \in Nat
        /\ Cardinality(OfRank(cards, r)) \in Nat
        /\ Cardinality(OfRank(left, r)) <= Cardinality(OfRank(cards, r))
    BY <1>7, <2>1
  <2>3. Cardinality(OfRank(cards, r)) <= 4
    BY DEF FewWild
  <2>4. QED
    BY <2>2, <2>3
<1>10. QED
  BY <1>8, <1>9 DEF FewWild, left

(* What changes neither the hands nor what the page is told keeps the      *)
(* hint's invariant.                                                       *)
LEMMA HintKept ==
  ASSUME HintInv, UNCHANGED <<hand, downlink, page, canBeat>>
  PROVE  HintInv'
BY DEF HintInv

(* A publication brings the hand, the table and the turn of the server.    *)
LEMMA PublishKeepsHint ==
  ASSUME IInv, HintInv, NEW h \in Seq(Cards), NEW t \in Seq(Cards), NEW b \in BOOLEAN,
         hand' = h, FewWild(h), b => t \in Plays \cup {<<>>}, rounds' \in Nat,
         Publish(h, t, b), UNCHANGED <<page, canBeat>>
  PROVE  HintInv'
<1>1. \A n \in DOMAIN downlink' :
        \/ n \in DOMAIN downlink /\ downlink'[n] = downlink[n]
        \/ /\ downlink'[n].hand = h /\ downlink'[n].table = t
           /\ downlink'[n].mine = b
  BY Published DEF IInv, WireType
<1>2. \A n \in DOMAIN downlink' : Asked(downlink'[n]) /\ FewWild(downlink'[n].hand)
  BY <1>1 DEF HintInv, Asked
<1>3. canBeat' = Memo(page') /\ Asked(page') /\ FewWild(hand') /\ FewWild(page'.hand)
  BY DEF HintInv
<1>4. QED
  BY <1>2, <1>3 DEF HintInv

(* A message is shown as it comes, and the hint is worked out again.       *)
LEMMA ReceiveKeepsHint ==
  ASSUME IInv, HintInv, Receive
  PROVE  HintInv'
<1> DEFINE m == Head(downlink)
<1>1. downlink \in Seq(Messages) /\ downlink # <<>> /\ downlink' = Tail(downlink)
  BY DEF IInv, WireType, Receive
<1>2. /\ 1 \in DOMAIN downlink /\ m = downlink[1] /\ m \in Messages
      /\ \A n \in DOMAIN Tail(downlink) :
           n + 1 \in DOMAIN downlink /\ Tail(downlink)[n] = downlink[n + 1]
  BY <1>1, Taken
<1>3. /\ page' = [page EXCEPT
                    !.hand = IF m.kind = "hand" \/ m.hand = <<>> THEN m.hand ELSE @,
                    !.round = IF m.kind = "hand" \/ m.hand = <<>> THEN m.round ELSE @,
                    !.table = IF m.kind = "state" THEN m.table ELSE @,
                    !.mine = IF m.kind = "state" THEN m.mine ELSE @]
      /\ canBeat' = Memo(page') /\ hand' = hand
  BY DEF Receive, server
<1> HIDE DEF m
<1>4. page \in Page
  BY DEF IInv, PageType
<1>5. /\ page'.hand = m.hand \/ page'.hand = page.hand
      /\ \/ page'.table = m.table /\ page'.mine = m.mine
         \/ page'.table = page.table /\ page'.mine = page.mine
  BY <1>3, <1>4 DEF Page
<1>6. Asked(m) /\ FewWild(m.hand)
  BY <1>2 DEF HintInv
<1>7. Asked(page') /\ FewWild(page'.hand)
  BY <1>5, <1>6 DEF HintInv, Asked
<1>8. \A n \in DOMAIN downlink' : Asked(downlink'[n]) /\ FewWild(downlink'[n].hand)
  BY <1>1, <1>2 DEF HintInv
<1>9. QED
  BY <1>3, <1>7, <1>8 DEF HintInv

(* A move leaves fewer cards; the robots answer with a play of the deal.   *)
LEMMA HandleCommandKeepsHint ==
  ASSUME IInv, HintInv, HandleCommand
  PROVE  HintInv'
<1> DEFINE c == Head(upstream)
           kept == Without(hand, c.indexes)
           laid == IF c.do = "play" THEN Without(hand, DOMAIN hand \ c.indexes)
                   ELSE table
<1>1. UNCHANGED <<page, canBeat>>
  BY DEF HandleCommand, shown
<1>2. hand \in Seq(Cards) /\ table \in Seq(Cards)
  BY DEF IInv, ServerType
<1>3. kept \in Seq(Cards) /\ laid \in Seq(Cards)
  BY <1>2, WithoutType
<1>4. FewWild(kept)
  BY <1>2, WithoutFewWild DEF HintInv
<1>5. \/ UNCHANGED <<hand, downlink>>
      \/ hand' = kept /\ UNCHANGED rounds /\ Publish(kept, laid, FALSE)
      \/ /\ rounds' = rounds + 1
         /\ \E t \in Returns : hand' = kept /\ Publish(kept, t, TRUE)
  BY DEF HandleCommand, server
<1>6. rounds \in Nat
  BY ReturnedPlays DEF IInv, ServerType
<1> HIDE DEF c, kept, laid
<1>7. CASE UNCHANGED <<hand, downlink>>
  BY <1>1, <1>7, HintKept
<1>8. CASE hand' = kept /\ UNCHANGED rounds /\ Publish(kept, laid, FALSE)
  BY <1>1, <1>3, <1>4, <1>8, <1>6, PublishKeepsHint
<1>9. CASE /\ rounds' = rounds + 1
           /\ \E t \in Returns : hand' = kept /\ Publish(kept, t, TRUE)
  <2>1. PICK t \in Returns : hand' = kept /\ Publish(kept, t, TRUE)
    BY <1>9
  <2>2. t \in Seq(Cards) /\ t \in Plays \cup {<<>>}
    BY ReturnedPlays, ReturnsAssumption
  <2>3. rounds' \in Nat
    BY <1>9, <1>6
  <2>4. QED
    BY <1>1, <1>3, <1>4, <2>1, <2>2, <2>3, PublishKeepsHint
<1>10. QED
  BY <1>5, <1>7, <1>8, <1>9

(* The turn comes back with a play of the deal, or with the lead.          *)
LEMMA OthersMoveKeepsHint ==
  ASSUME IInv, HintInv, OthersMove
  PROVE  HintInv'
<1>1. UNCHANGED <<hand, page, canBeat>> /\ rounds' \in Nat
  BY ReturnedPlays DEF OthersMove, shown, IInv, ServerType
<1>2. PICK t \in Returns : Publish(hand, t, TRUE)
  BY DEF OthersMove
<1>3. t \in Seq(Cards) /\ t \in Plays \cup {<<>>}
  BY ReturnedPlays, ReturnsAssumption
<1>4. hand \in Seq(Cards) /\ FewWild(hand)
  BY DEF IInv, ServerType, HintInv
<1>5. QED
  BY <1>1, <1>2, <1>3, <1>4, PublishKeepsHint

(* The hint's invariant holds of every deal whose hands have few wild      *)
(* cards.                                                                  *)
THEOREM HintInvariant ==
  ASSUME \A h \in Hands : FewWild(h)
  PROVE  Spec => []HintInv
<1>1. Init => HintInv
  <2> SUFFICES ASSUME Init PROVE HintInv
    OBVIOUS
  <2>1. /\ hand \in Hands /\ table \in Plays
        /\ page = [hand |-> hand, table |-> table, mine |-> TRUE, round |-> 0]
        /\ canBeat = Memo(page) /\ downlink = <<>>
    BY DEF Init
  <2>2. Asked(page) /\ FewWild(hand) /\ FewWild(page.hand)
    BY <2>1 DEF Asked
  <2>3. DOMAIN downlink = {}
    BY <2>1
  <2>4. QED
    BY <2>1, <2>2, <2>3 DEF HintInv
<1>2. IInv /\ HintInv /\ [Next]_vars => HintInv'
  <2> SUFFICES ASSUME IInv, HintInv, [Next]_vars PROVE HintInv'
    OBVIOUS
  <2>1. CASE ToggleCard \/ ToggleOrder \/ EndDealing \/ ShowSuggestion
    <3>1. UNCHANGED <<hand, downlink, page, canBeat>>
      BY <2>1 DEF ToggleCard, ToggleOrder, EndDealing, ShowSuggestion, server
    <3>2. QED
      BY <3>1, HintKept
  <2>2. CASE PressPlay \/ PressPass
    <3>1. UNCHANGED <<hand, downlink, page, canBeat>>
      BY <2>2 DEF PressPlay, PressPass, server, shown
    <3>2. QED
      BY <3>1, HintKept
  <2>3. CASE Receive
    BY <2>3, ReceiveKeepsHint
  <2>4. CASE HandleCommand
    BY <2>4, HandleCommandKeepsHint
  <2>5. CASE OthersMove
    BY <2>5, OthersMoveKeepsHint
  <2>6. CASE UNCHANGED vars
    <3>1. UNCHANGED <<hand, downlink, page, canBeat>>
      BY <2>6 DEF vars, server, shown
    <3>2. QED
      BY <3>1, HintKept
  <2>7. QED
    BY <2>1, <2>2, <2>3, <2>4, <2>5, <2>6 DEF Next
<1>3. QED
  BY <1>1, <1>2, Invariant, PTL DEF Spec

(* What the page checks its hint against: cards, and a play of the deal.   *)
LEMMA PageChecked ==
  ASSUME IInv, HintInv, Checks(page)
  PROVE  /\ page.hand \in Seq(Cards) /\ FewWild(page.hand)
         /\ page.table \in Seq(Cards) /\ Legal(page.table) # {}
         /\ canBeat = CanBeat(page.hand, page.table)
<1>1. page.hand \in Seq(Cards) /\ page.table \in Seq(Cards)
  BY DEF IInv, PageType, Page
<1>2. page.mine /\ page.table # <<>>
  BY DEF Checks
<1>3. page.table \in Plays
  BY <1>2 DEF HintInv, Asked
<1>4. Legal(page.table) # {}
  BY <1>3, PlaysAssumption
<1>5. canBeat = (Checks(page) => CanBeat(page.hand, page.table))
  BY DEF HintInv, Memo
<1>6. CanBeat(page.hand, page.table) \in BOOLEAN
  BY DEF CanBeat
<1>7. QED
  BY <1>1, <1>4, <1>5, <1>6 DEF HintInv

(* With three decks or fewer, whatever the hand, the play on the table and *)
(* the level: the page says that nothing in the hand beats the table       *)
(* exactly when the server would refuse every choice of cards.             *)
THEOREM HintTrue ==
  ASSUME \A h \in Hands : FewWild(h)
  PROVE  Spec => []HintIsTrue
<1>1. IInv /\ HintInv => HintIsTrue
  <2> SUFFICES ASSUME IInv, HintInv, Checks(page)
               PROVE  canBeat <=> \E chosen \in SUBSET DOMAIN page.hand :
                                    Accepts(Restrict(page.hand, chosen), page.table)
    BY DEF HintIsTrue
  <2>1. /\ page.hand \in Seq(Cards) /\ FewWild(page.hand)
        /\ page.table \in Seq(Cards) /\ Legal(page.table) # {}
        /\ canBeat = CanBeat(page.hand, page.table)
    BY PageChecked
  <2>2. CanBeat(page.hand, page.table)
          <=> \E c \in SUBSET DOMAIN page.hand :
                Accepts(Restrict(page.hand, c), page.table)
    BY <2>1, CanBeatTrue
  <2>3. QED
    BY <2>1, <2>2
<1>2. Spec => []IInv /\ []HintInv
  BY Invariant, HintInvariant
<1>3. QED
  BY <1>1, <1>2, PTL

(* With three decks or fewer the hint suggests something whenever it is    *)
(* offered, and the server accepts what it suggests.                       *)
THEOREM SuggestionTrue ==
  ASSUME \A h \in Hands : FewWild(h)
  PROVE  Spec => []SuggestionAccepted
<1>1. IInv /\ HintInv => SuggestionAccepted
  <2> SUFFICES ASSUME IInv, HintInv, Checks(page)
               PROVE  LET found == Suggestions(page.hand, page.table) IN
                      /\ canBeat => found # {}
                      /\ \A chosen \in found :
                           Accepts(Restrict(page.hand, chosen), page.table)
    BY DEF SuggestionAccepted
  <2>1. /\ page.hand \in Seq(Cards) /\ FewWild(page.hand)
        /\ page.table \in Seq(Cards) /\ Legal(page.table) # {}
        /\ canBeat = CanBeat(page.hand, page.table)
    BY PageChecked
  <2>2. /\ CanBeat(page.hand, page.table) => Suggestions(page.hand, page.table) # {}
        /\ \A c \in Suggestions(page.hand, page.table) :
             Accepts(Restrict(page.hand, c), page.table)
    BY <2>1, SuggestionsTrue
  <2>3. QED
    BY <2>1, <2>2
<1>2. Spec => []IInv /\ []HintInv
  BY Invariant, HintInvariant
<1>3. QED
  BY <1>1, <1>2, PTL

=============================================================================
