------------------------- MODULE GuandanTributeProofs --------------------------
(***************************************************************************)
(* Theorems about GuandanTribute, for any table, deck, level and deals.    *)
(***************************************************************************)
EXTENDS GuandanTribute, FiniteSetTheorems, WellFoundedInduction, TLAPS

(* The table is finite, with an even number of seats, at least four.       *)
LEMMA TableFacts ==
  /\ PlayerCount \in Nat
  /\ PlayerCount >= 4
  /\ HalfTable \in 2 .. PlayerCount - 2
  /\ Seats \subseteq Nat
BY PlayerCountAssumption DEF Seats, HalfTable

(* The seats form a finite set of PlayerCount members.                     *)
LEMMA SeatsFinite ==
  /\ IsFiniteSet(Seats)
  /\ Cardinality(Seats) = PlayerCount
<1>1. 0 \in Int /\ PlayerCount - 1 \in Int
  BY TableFacts
<1>2. QED
  BY <1>1, FS_Interval, TableFacts DEF Seats

(* A set of naturals that is not empty has a least member.                 *)
LEMMA LeastNatural ==
  ASSUME NEW T \in SUBSET Nat, T # {}
  PROVE  \E m \in T : \A n \in T : m <= n
<1>1. PICK m \in T : \A n \in T : ~ (<<n, m>> \in OpToRel(<, Nat))
  BY NatLessThanWellFounded, WFMin, Zenon
<1>2. ASSUME NEW n \in T PROVE m <= n
  <2>1. ~ (n < m)
    BY <1>1, <1>2 DEF OpToRel
  <2>2. QED
    BY <2>1
<1>3. QED
  BY <1>2

Givers    == PaysWhom(order).givers
Receivers == PaysWhom(order).receivers

(* Outranks and PlaceOf for any givers G and any cards they may have paid. *)
Beats(pay, g, h) ==
  \/ Power(pay[g]) > Power(pay[h])
  \/ Power(pay[g]) = Power(pay[h]) /\ g < h

Place(G, pay, g) == 1 + Cardinality({h \in G : Beats(pay, h, g)})

(* Who is paid by a giver.                                                 *)
PartnerIn(pay, g) == order[Place(Givers, pay, g)]

(* The tribute side was not dealt both big jokers.                         *)
FewJokers ==
  Cardinality({c \in UNION {dealt[g] : g \in Givers} : c.rank = BigJoker}) < 2

(* A card that the rules let a giver pay, and a receiver return.           *)
PaidByRule(pay, g) == pay[g] \in dealt[g] /\ LegalTribute(dealt[g], pay[g])
ReturnedByRule(ret, r) == ret[r] \in dealt[r] /\ LegalReturn(ret[r])

(* An exchange of the cards pay and ret has been made.                     *)
Made(pay, ret) ==
  /\ FewJokers
  /\ \A g \in Givers : PaidByRule(pay, g)
  /\ \A r \in Receivers : ReturnedByRule(ret, r)
  /\ \A g \in Givers :
       LET r == PartnerIn(pay, g)
       IN  /\ hands[g] = (dealt[g] \ {pay[g]}) \cup {ret[r]}
           /\ hands[r] = (dealt[r] \ {ret[r]}) \cup {pay[g]}
  /\ \A s \in Seats \ (Givers \cup Receivers) : hands[s] = dealt[s]
  /\ turn \in Givers /\ Place(Givers, pay, turn) = 1

Before ==
  /\ hands = dealt /\ turn = order[1]
  /\ givers = {} /\ receivers = {}
  /\ paid = NothingLaid /\ returned = NothingLaid

During ==
  /\ FewJokers /\ turn = order[1]
  /\ givers = Givers /\ receivers = Receivers /\ givers # {}
  /\ paid \in [Seats -> Cards \cup {NoCard}]
  /\ returned \in [Seats -> Cards \cup {NoCard}]
  /\ \A s \in Seats : paid[s] # NoCard => s \in givers /\ PaidByRule(paid, s)
  /\ \A s \in Seats : returned[s] # NoCard => s \in receivers /\ ReturnedByRule(returned, s)
  /\ \A s \in Seats : hands[s] = dealt[s] \ Laid(s)

After ==
  /\ givers = {} /\ receivers = {}
  /\ paid = NothingLaid /\ returned = NothingLaid
  /\ \E pay \in [Seats -> Cards \cup {NoCard}], ret \in [Seats -> Cards \cup {NoCard}] :
       Made(pay, ret)

IInv ==
  /\ order \in Outcomes /\ dealt \in Deals
  /\ hands \in [Seats -> SUBSET Cards]
  /\ phase \in {"awaitingDeal", "exchange", "play"}
  /\ phase = "awaitingDeal" => Before
  /\ phase = "exchange" => During
  /\ phase = "play" => Before \/ After

-----------------------------------------------------------------------------
(* Cards and deals.                                                        *)

(* Every card has a numeric power.                                         *)
LEMMA PowerType ==
  ASSUME NEW c \in Cards
  PROVE  Power(c) \in 2 .. 17
BY CardsAssumption, LevelAssumption DEF Power, SmallJoker, BigJoker

(* A deal splits the whole deck among the seats.                           *)
LEMMA DealFacts ==
  ASSUME NEW h \in Deals
  PROVE  /\ h \in [Seats -> SUBSET Cards]
         /\ \A c \in Cards : \E s \in Seats : c \in h[s]
         /\ \A s, t \in Seats : s # t => h[s] \cap h[t] = {}
         /\ \A s \in Seats : IsFiniteSet(h[s])
<1>1. /\ h \in [Seats -> SUBSET Cards] /\ UNION Range(h) = Cards
      /\ \A s, t \in Seats : s # t => h[s] \cap h[t] = {}
  BY DealsAssumption
<1>2. \A c \in Cards : \E s \in Seats : c \in h[s]
  BY <1>1 DEF Range
<1>3. \A s \in Seats : IsFiniteSet(h[s])
  BY <1>1, CardsAssumption, FS_Subset
<1>4. QED
  BY <1>1, <1>2, <1>3

(* Who pays and who is paid, by the last finish order.                     *)
LEMMA HalfTables ==
  HalfTable \in Nat /\ PlayerCount = HalfTable + HalfTable
BY PlayerCountAssumption DEF HalfTable

(* As many seats give as receive, and the receivers finished first.        *)
LEMMA PaysFacts ==
  ASSUME NEW o \in Outcomes
  PROVE  LET G == PaysWhom(o).givers
             R == PaysWhom(o).receivers
             n == Cardinality(R)
         IN  /\ G \subseteq Seats /\ R \subseteq Seats /\ G \cap R = {}
             /\ IsFiniteSet(G) /\ Cardinality(G) = n
             /\ n \in 0 .. PlayerCount /\ R = {o[i] : i \in 1 .. n}
<1> DEFINE G == PaysWhom(o).givers
           R == PaysWhom(o).receivers
<1> SUFFICES /\ G \subseteq Seats /\ R \subseteq Seats /\ G \cap R = {}
             /\ IsFiniteSet(G) /\ Cardinality(G) = Cardinality(R)
             /\ Cardinality(R) \in 0 .. PlayerCount
             /\ R = {o[i] : i \in 1 .. Cardinality(R)}
  OBVIOUS
<1>1. /\ o \in [1 .. PlayerCount -> Seats]
      /\ \A i, j \in 1 .. PlayerCount : i # j => o[i] # o[j]
  BY DEF Outcomes, IsInjective
<1>2. /\ HalfTable \in 2 .. PlayerCount /\ PlayerCount \in Nat
      /\ PlayerCount = HalfTable + HalfTable
  BY TableFacts, HalfTables
<1>3. CASE Swept(o)
  <2>1. /\ G = {o[i] : i \in HalfTable + 1 .. PlayerCount}
        /\ R = {o[i] : i \in 1 .. HalfTable}
    BY <1>3 DEF PaysWhom
  <2> HIDE DEF G, R
  <2>2. ASSUME NEW a \in Nat, a + HalfTable <= PlayerCount
        PROVE  LET S == {o[i] : i \in a + 1 .. a + HalfTable}
               IN  IsFiniteSet(S) /\ Cardinality(S) = HalfTable
    <3> DEFINE I == a + 1 .. a + HalfTable
               S == {o[i] : i \in I}
               f == [i \in I |-> o[i]]
    <3>1. I \subseteq 1 .. PlayerCount /\ IsFiniteSet(I) /\ Cardinality(I) = HalfTable
      BY <1>2, <2>2, FS_Interval
    <3>2. f \in Bijection(I, S)
      <4>1. f \in [I -> S]
        OBVIOUS
      <4>2. \A i, j \in I : f[i] = f[j] => i = j
        BY <1>1, <3>1
      <4>3. \A s \in S : \E i \in I : f[i] = s
        OBVIOUS
      <4> HIDE DEF f, I, S
      <4>4. QED
        BY <4>1, <4>2, <4>3 DEF Bijection, Injection, Surjection, IsInjective
    <3>3. ExistsBijection(I, S)
      BY <3>2 DEF ExistsBijection
    <3>4. IsFiniteSet(S) /\ Cardinality(S) = HalfTable
      BY <3>1, <3>3, FS_Bijection
    <3>5. QED
      BY <3>4
  <2>3. IsFiniteSet(R) /\ Cardinality(R) = HalfTable
    BY <1>2, <2>1, <2>2
  <2>4. IsFiniteSet(G) /\ Cardinality(G) = HalfTable
    BY <1>2, <2>1, <2>2
  <2>5. G \cap R = {}
    BY <1>1, <1>2, <2>1
  <2>6. G \subseteq Seats /\ R \subseteq Seats
    BY <1>1, <1>2, <2>1
  <2>7. R = {o[i] : i \in 1 .. Cardinality(R)}
    BY <2>1, <2>3
  <2>8. QED
    BY <1>2, <2>3, <2>4, <2>5, <2>6, <2>7
<1>4. CASE ~Swept(o) /\ PlayerCount = 4
  <2>1. G = {o[4]} /\ R = {o[1]}
    BY <1>4 DEF PaysWhom
  <2> HIDE DEF G, R
  <2>2. /\ IsFiniteSet(G) /\ Cardinality(G) = 1
        /\ Cardinality(R) = 1
    BY <2>1, FS_Singleton
  <2>3. R = {o[i] : i \in 1 .. Cardinality(R)}
    BY <2>1, <2>2
  <2>4. G \subseteq Seats /\ R \subseteq Seats /\ G \cap R = {}
    BY <1>1, <1>4, <2>1
  <2>5. QED
    BY <1>4, <2>2, <2>3, <2>4
<1>5. CASE ~Swept(o) /\ PlayerCount # 4
  <2>1. G = {} /\ R = {}
    BY <1>5 DEF PaysWhom
  <2> HIDE DEF G, R
  <2>2. IsFiniteSet(G) /\ Cardinality(G) = 0 /\ Cardinality(R) = 0
    BY <2>1, FS_EmptySet
  <2>3. R = {o[i] : i \in 1 .. Cardinality(R)}
    BY <2>1, <2>2
  <2>4. QED
    BY <1>2, <2>1, <2>2, <2>3
<1>6. QED
  BY <1>3, <1>4, <1>5

-----------------------------------------------------------------------------
(* The places of the givers, for any cards they may have paid.             *)

(* Givers are strictly and totally ordered by card, then by seat.          *)
LEMMA BeatsOrder ==
  ASSUME NEW G \in SUBSET Seats, NEW pay, \A g \in G : pay[g] \in Cards,
         NEW g \in G, NEW h \in G
  PROVE  /\ ~Beats(pay, g, g)
         /\ g # h => Beats(pay, g, h) \/ Beats(pay, h, g)
         /\ Beats(pay, g, h) =>
              ~Beats(pay, h, g) /\ \A k \in G : Beats(pay, k, g) => Beats(pay, k, h)
<1>1. \A k \in G : Power(pay[k]) \in Int /\ k \in Int
  <2> TAKE k \in G
  <2>1. Power(pay[k]) \in Int
    BY PowerType
  <2>2. QED
    BY <2>1, TableFacts
<1>2. QED
  BY <1>1 DEF Beats

(* The place of a giver is one of 1 .. number of givers.                   *)
LEMMA PlaceRange ==
  ASSUME NEW G \in SUBSET Seats, NEW pay, \A g \in G : pay[g] \in Cards, NEW g \in G
  PROVE  /\ IsFiniteSet(G) /\ Cardinality(G) \in Nat
         /\ IsFiniteSet({k \in G : Beats(pay, k, g)})
         /\ Place(G, pay, g) \in 1 .. Cardinality(G)
<1> DEFINE A == {k \in G : Beats(pay, k, g)}
<1>1. IsFiniteSet(G) /\ Cardinality(G) \in Nat
  BY SeatsFinite, FS_Subset, FS_CardinalityType
<1>2. A \subseteq G \ {g}
  BY BeatsOrder
<1>3. IsFiniteSet(G \ {g}) /\ Cardinality(G \ {g}) = Cardinality(G) - 1
  BY <1>1, FS_RemoveElement
<1>4. IsFiniteSet(A) /\ Cardinality(A) <= Cardinality(G) - 1
  BY <1>2, <1>3, FS_Subset
<1>5. Cardinality(A) \in Nat
  BY <1>4, FS_CardinalityType
<1>6. Place(G, pay, g) = 1 + Cardinality(A)
  BY DEF Place
<1> HIDE DEF A
<1>7. Place(G, pay, g) \in 1 .. Cardinality(G)
  BY <1>1, <1>4, <1>5, <1>6
<1>8. QED
  BY <1>1, <1>4, <1>7 DEF A

(* A better card has a better place, and so no two givers share one.       *)
LEMMA PlaceOrder ==
  ASSUME NEW G \in SUBSET Seats, NEW pay, \A g \in G : pay[g] \in Cards,
         NEW g \in G, NEW h \in G, Beats(pay, g, h)
  PROVE  Place(G, pay, g) < Place(G, pay, h)
<1> DEFINE A == {k \in G : Beats(pay, k, g)}
           B == {k \in G : Beats(pay, k, h)}
<1>1. IsFiniteSet(A) /\ IsFiniteSet(B)
  BY PlaceRange
<1>2. A \subseteq B \ {g} /\ g \in B
  BY BeatsOrder
<1>3. IsFiniteSet(B \ {g}) /\ Cardinality(B \ {g}) = Cardinality(B) - 1
  BY <1>1, <1>2, FS_RemoveElement
<1>4. Cardinality(A) <= Cardinality(B) - 1
  BY <1>2, <1>3, FS_Subset
<1>5. Cardinality(A) \in Nat /\ Cardinality(B) \in Nat
  BY <1>1, FS_CardinalityType
<1>6. Place(G, pay, g) = 1 + Cardinality(A) /\ Place(G, pay, h) = 1 + Cardinality(B)
  BY DEF Place
<1> HIDE DEF A, B
<1>7. QED
  BY <1>4, <1>5, <1>6

(* No two givers share a place.                                            *)
LEMMA PlacesDiffer ==
  ASSUME NEW G \in SUBSET Seats, NEW pay, \A g \in G : pay[g] \in Cards,
         NEW g \in G, NEW h \in G, g # h
  PROVE  Place(G, pay, g) # Place(G, pay, h)
<1>1. Place(G, pay, g) \in Int /\ Place(G, pay, h) \in Int
  <2>1. /\ Place(G, pay, g) \in 1 .. Cardinality(G)
        /\ Place(G, pay, h) \in 1 .. Cardinality(G)
    BY PlaceRange
  <2>2. QED
    BY <2>1
<1>2. Beats(pay, g, h) \/ Beats(pay, h, g)
  BY BeatsOrder
<1>3. CASE Beats(pay, g, h)
  BY <1>1, <1>3, PlaceOrder
<1>4. CASE Beats(pay, h, g)
  BY <1>1, <1>4, PlaceOrder
<1>5. QED
  BY <1>2, <1>3, <1>4

(* As many places as givers, so every place is some giver's.               *)
LEMMA PlacesTaken ==
  ASSUME NEW G \in SUBSET Seats, NEW pay, \A g \in G : pay[g] \in Cards,
         NEW i \in 1 .. Cardinality(G)
  PROVE  \E g \in G : Place(G, pay, g) = i
<1> DEFINE P == 1 .. Cardinality(G)
           f == [g \in G |-> Place(G, pay, g)]
<1>1. IsFiniteSet(G) /\ Cardinality(G) \in Nat
  BY SeatsFinite, FS_Subset, FS_CardinalityType
<1>2. IsFiniteSet(P) /\ Cardinality(P) = Cardinality(G)
  BY <1>1, FS_Interval
<1>3. f \in [G -> P]
  BY PlaceRange
<1>4. \A g, h \in G : f[g] = f[h] => g = h
  BY PlacesDiffer
<1>5. \A g \in G : f[g] = Place(G, pay, g)
  OBVIOUS
<1> HIDE DEF P, f
<1>6. f \in Injection(G, P)
  BY <1>3, <1>4 DEF Injection, IsInjective
<1>7. f \in Surjection(G, P)
  BY <1>2, <1>6, FS_Injection
<1>8. \E g \in G : f[g] = i
  BY <1>7 DEF Surjection, P
<1>9. QED
  BY <1>5, <1>8

(* Everybody who pays has one partner, and everybody who is paid is the    *)
(* partner of one.                                                         *)
LEMMA PartnerFacts ==
  ASSUME order \in Outcomes, NEW pay, \A g \in Givers : pay[g] \in Cards
  PROVE  /\ Givers \subseteq Seats /\ Receivers \subseteq Seats
         /\ Givers \cap Receivers = {}
         /\ \A g \in Givers : PartnerIn(pay, g) \in Receivers
         /\ \A g, h \in Givers : PartnerIn(pay, g) = PartnerIn(pay, h) => g = h
         /\ \A r \in Receivers : \E g \in Givers : PartnerIn(pay, g) = r
<1> DEFINE n == Cardinality(Receivers)
<1>1. /\ Givers \subseteq Seats /\ Receivers \subseteq Seats
      /\ Givers \cap Receivers = {} /\ Cardinality(Givers) = n
      /\ n \in 0 .. PlayerCount /\ Receivers = {order[i] : i \in 1 .. n}
  BY PaysFacts DEF Givers, Receivers
<1>2. \A i, j \in 1 .. PlayerCount : i # j => order[i] # order[j]
  BY DEF Outcomes, IsInjective
<1> HIDE DEF n
<1>3. \A g \in Givers : Place(Givers, pay, g) \in 1 .. n
  BY <1>1, PlaceRange
<1>4. 1 .. n \subseteq 1 .. PlayerCount
  BY <1>1, TableFacts
<1>5. \A g \in Givers : PartnerIn(pay, g) \in Receivers
  BY <1>1, <1>3 DEF PartnerIn
<1>6. ASSUME NEW g \in Givers, NEW h \in Givers,
             PartnerIn(pay, g) = PartnerIn(pay, h)
      PROVE  g = h
  <2>1. Place(Givers, pay, g) = Place(Givers, pay, h)
    BY <1>2, <1>3, <1>4, <1>6 DEF PartnerIn
  <2>2. QED
    BY <1>1, <2>1, PlacesDiffer
<1>7. ASSUME NEW r \in Receivers
      PROVE  \E g \in Givers : PartnerIn(pay, g) = r
  <2>1. PICK i \in 1 .. n : order[i] = r
    BY <1>1
  <2>2. PICK g \in Givers : Place(Givers, pay, g) = i
    BY <1>1, <2>1, PlacesTaken
  <2>3. QED
    BY <2>1, <2>2 DEF PartnerIn
<1>8. QED
  BY <1>1, <1>5, <1>6, <1>7

-----------------------------------------------------------------------------
(* The steps.                                                              *)

(* A deal nothing has been laid of yet.                                    *)
LEMMA InitIInv == ASSUME Init PROVE IInv
<1>1. hands \in [Seats -> SUBSET Cards]
  BY DealFacts DEF Init
<1>2. QED
  BY <1>1 DEF Init, IInv, Before

(* The big jokers of a few seats can be counted.                           *)
LEMMA JokersCount ==
  ASSUME dealt \in Deals, NEW S \in SUBSET Seats
  PROVE  Cardinality({c \in UNION {dealt[s] : s \in S} : c.rank = BigJoker}) \in Nat
<1> DEFINE B == {c \in UNION {dealt[s] : s \in S} : c.rank = BigJoker}
<1>1. dealt \in [Seats -> SUBSET Cards]
  BY DealFacts
<1>2. B \subseteq Cards
  BY <1>1
<1>3. IsFiniteSet(B)
  BY <1>2, CardsAssumption, FS_Subset
<1>4. QED
  BY <1>3, FS_CardinalityType

(* Dealing decides who owes whom.                                          *)
LEMMA DealKeeps == ASSUME IInv, Deal PROVE IInv'
<1>1. /\ phase = "awaitingDeal" /\ Before
      /\ UNCHANGED <<order, hands, paid, returned, turn, dealt>>
  BY DEF Deal, IInv
<1>2. Givers' = Givers /\ Receivers' = Receivers
  BY <1>1 DEF Givers, Receivers
<1>3. CASE Givers # {} /\ ~Resists(Givers)
  <2>1. phase' = "exchange" /\ givers' = Givers /\ receivers' = Receivers
    BY <1>3 DEF Deal, Givers, Receivers
  <2>2. FewJokers
    <3>1. Givers \subseteq Seats /\ dealt \in Deals
      BY PaysFacts DEF Givers, IInv
    <3>2. BigJokersOf(Givers) = {c \in UNION {dealt[g] : g \in Givers} : c.rank = BigJoker}
      BY <1>1 DEF BigJokersOf, Before
    <3>3. Cardinality(BigJokersOf(Givers)) \in Nat
      BY <3>1, <3>2, JokersCount
    <3>4. Cardinality(BigJokersOf(Givers)) < 2
      BY <1>3, <3>3 DEF Resists
    <3>5. QED
      BY <3>2, <3>4 DEF FewJokers
  <2>3. FewJokers'
    BY <1>1, <1>2, <2>2 DEF FewJokers
  <2>4. \A s \in Seats : paid'[s] = NoCard /\ returned'[s] = NoCard
    BY <1>1 DEF Before, NothingLaid
  <2>5. \A s \in Seats : hands'[s] = dealt'[s] \ Laid(s)'
    BY <1>1, <2>4 DEF Before, Laid
  <2>6. /\ paid' \in [Seats -> Cards \cup {NoCard}]
        /\ returned' \in [Seats -> Cards \cup {NoCard}]
    BY <1>1 DEF Before, NothingLaid
  <2>7. During'
    BY <1>1, <1>2, <1>3, <2>1, <2>3, <2>4, <2>5, <2>6 DEF During, Before
  <2>8. QED
    BY <1>1, <2>1, <2>7 DEF IInv
<1>4. CASE Givers = {} \/ Resists(Givers)
  <2>1. phase' = "play" /\ UNCHANGED <<givers, receivers>>
    BY <1>4 DEF Deal, Givers, Receivers
  <2>2. Before'
    BY <1>1, <2>1 DEF Before
  <2>3. QED
    BY <1>1, <2>1, <2>2 DEF IInv
<1>5. QED
  BY <1>3, <1>4

(* What holds of the seats during an exchange.                             *)
LEMMA DuringFacts ==
  ASSUME IInv, phase = "exchange"
  PROVE  /\ During /\ dealt \in [Seats -> SUBSET Cards]
         /\ Givers \subseteq Seats /\ Receivers \subseteq Seats
         /\ Givers \cap Receivers = {} /\ NoCard \notin Cards
         /\ \A s \in Seats :
              /\ s \notin Receivers => returned[s] = NoCard
              /\ s \notin Givers => paid[s] = NoCard
<1>1. During /\ order \in Outcomes /\ dealt \in Deals
  BY DEF IInv
<1>2. /\ Givers \subseteq Seats /\ Receivers \subseteq Seats
      /\ Givers \cap Receivers = {}
  BY <1>1, PaysFacts DEF Givers, Receivers
<1>3. QED
  BY <1>1, <1>2, DealFacts, CardsAssumption DEF During

(* A giver lays a tribute card.                                            *)
LEMMA SubmitTributeKeeps ==
  ASSUME IInv, NEW s \in Seats, NEW c \in hands[s], SubmitTribute(s, c)
  PROVE  IInv'
<1>1. /\ phase = "exchange" /\ s \in givers /\ paid[s] = NoCard
      /\ LegalTribute(hands[s], c)
      /\ hands' = [hands EXCEPT ![s] = @ \ {c}]
      /\ paid' = [paid EXCEPT ![s] = c]
      /\ UNCHANGED <<phase, order, givers, receivers, returned, turn, dealt>>
  BY DEF SubmitTribute, Take
<1>2. /\ During /\ dealt \in [Seats -> SUBSET Cards]
      /\ Givers \cap Receivers = {} /\ NoCard \notin Cards
      /\ returned[s] = NoCard
  BY <1>1, DuringFacts DEF During
<1>3. hands[s] = dealt[s] /\ c \in Cards /\ c # NoCard
  <2>1. Laid(s) = {}
    BY <1>1, <1>2 DEF Laid
  <2>2. hands[s] = dealt[s]
    BY <1>2, <2>1 DEF During
  <2>3. QED
    BY <1>2, <2>2
<1>4. /\ \A x \in Seats : hands'[x] = IF x = s THEN hands[s] \ {c} ELSE hands[x]
      /\ \A x \in Seats : paid'[x] = IF x = s THEN c ELSE paid[x]
      /\ hands' \in [Seats -> SUBSET Cards]
      /\ paid' \in [Seats -> Cards \cup {NoCard}]
  BY <1>1, <1>2, <1>3 DEF IInv, During
<1>5. Givers' = Givers /\ Receivers' = Receivers /\ FewJokers'
  BY <1>1, <1>2 DEF Givers, Receivers, FewJokers, During
<1>6. \A x \in Seats : hands'[x] = dealt'[x] \ Laid(x)'
  BY <1>1, <1>2, <1>3, <1>4 DEF During, Laid
<1>7. \A x \in Seats : paid'[x] # NoCard => x \in givers' /\ PaidByRule(paid, x)'
  BY <1>1, <1>2, <1>3, <1>4 DEF During, PaidByRule
<1>8. \A x \in Seats : returned'[x] # NoCard =>
                         x \in receivers' /\ ReturnedByRule(returned, x)'
  BY <1>1, <1>2 DEF During, ReturnedByRule
<1>9. During'
  BY <1>1, <1>2, <1>4, <1>5, <1>6, <1>7, <1>8 DEF During
<1>10. QED
  BY <1>1, <1>4, <1>9 DEF IInv

(* A receiver that is not the last to return.                              *)
LEMMA ReturnKeeps ==
  ASSUME IInv, NEW s \in Seats, NEW c \in hands[s],
         phase = "exchange", MayReturn(s), LegalReturn(c), Take(s, c),
         returned' = [returned EXCEPT ![s] = c],
         UNCHANGED <<phase, givers, receivers, paid, turn, order, dealt>>
  PROVE  IInv'
<1>1. /\ s \in receivers /\ returned[s] = NoCard
      /\ hands' = [hands EXCEPT ![s] = @ \ {c}]
  BY DEF MayReturn, Take
<1>2. /\ During /\ dealt \in [Seats -> SUBSET Cards]
      /\ Givers \cap Receivers = {} /\ NoCard \notin Cards
      /\ paid[s] = NoCard
  BY <1>1, DuringFacts DEF During
<1>3. hands[s] = dealt[s] /\ c \in Cards /\ c # NoCard
  <2>1. Laid(s) = {}
    BY <1>1, <1>2 DEF Laid
  <2>2. hands[s] = dealt[s]
    BY <1>2, <2>1 DEF During
  <2>3. QED
    BY <1>2, <2>2
<1>4. /\ \A x \in Seats : hands'[x] = IF x = s THEN hands[s] \ {c} ELSE hands[x]
      /\ \A x \in Seats : returned'[x] = IF x = s THEN c ELSE returned[x]
      /\ hands' \in [Seats -> SUBSET Cards]
      /\ returned' \in [Seats -> Cards \cup {NoCard}]
  BY <1>1, <1>2, <1>3 DEF IInv, During
<1>5. Givers' = Givers /\ Receivers' = Receivers /\ FewJokers'
  BY <1>2 DEF Givers, Receivers, FewJokers, During
<1>6. \A x \in Seats : hands'[x] = dealt'[x] \ Laid(x)'
  BY <1>1, <1>2, <1>3, <1>4 DEF During, Laid
<1>7. \A x \in Seats : paid'[x] # NoCard => x \in givers' /\ PaidByRule(paid, x)'
  BY <1>2 DEF During, PaidByRule
<1>8. \A x \in Seats : returned'[x] # NoCard =>
                         x \in receivers' /\ ReturnedByRule(returned, x)'
  BY <1>1, <1>2, <1>3, <1>4 DEF During, ReturnedByRule
<1>9. During'
  BY <1>2, <1>4, <1>5, <1>6, <1>7, <1>8 DEF During
<1>10. QED
  BY <1>4, <1>9 DEF IInv

(* The last return moves all of the cards.                                 *)
LEMMA FinalizeKeeps ==
  ASSUME IInv, NEW s \in Seats, NEW c \in hands[s],
         phase = "exchange", MayReturn(s), LegalReturn(c),
         NEW laid, laid = [returned EXCEPT ![s] = c],
         \A r \in receivers : laid[r] # NoCard,
         Finalize(s, c, laid), UNCHANGED <<order, dealt>>
  PROVE  IInv'
<1>1. /\ s \in receivers /\ returned[s] = NoCard
      /\ \A g \in givers : paid[g] # NoCard
  BY DEF MayReturn
<1>2. /\ During /\ dealt \in [Seats -> SUBSET Cards] /\ dealt \in Deals
      /\ Givers \subseteq Seats /\ Receivers \subseteq Seats
      /\ Givers \cap Receivers = {} /\ NoCard \notin Cards
      /\ givers = Givers /\ receivers = Receivers /\ Givers # {}
      /\ order \in Outcomes
  BY DuringFacts DEF During, IInv
<1>3. PICK pay \in [Seats -> Cards \cup {NoCard}] : pay = paid
  BY <1>2 DEF During
<1>4. hands[s] = dealt[s] /\ c \in Cards /\ c # NoCard
  <2>1. paid[s] = NoCard
    BY <1>1, <1>2, DuringFacts
  <2>2. Laid(s) = {}
    BY <1>1, <2>1 DEF Laid
  <2>3. hands[s] = dealt[s]
    BY <1>2, <2>2 DEF During
  <2>4. QED
    BY <1>2, <2>3
<1>5. /\ laid \in [Seats -> Cards \cup {NoCard}]
      /\ \A x \in Seats : laid[x] = IF x = s THEN c ELSE returned[x]
  BY <1>2, <1>4 DEF During
<1>6. \A g \in Givers : PaidByRule(pay, g) /\ pay[g] \in Cards
  BY <1>1, <1>2, <1>3 DEF During, PaidByRule
<1>7. \A r \in Receivers : ReturnedByRule(laid, r) /\ laid[r] \in Cards
  BY <1>1, <1>2, <1>4, <1>5 DEF During, ReturnedByRule
<1>8. /\ \A g \in Givers : PartnerIn(pay, g) \in Receivers
      /\ \A g, h \in Givers : PartnerIn(pay, g) = PartnerIn(pay, h) => g = h
      /\ \A r \in Receivers : \E g \in Givers : PartnerIn(pay, g) = r
  BY <1>2, <1>6, PartnerFacts
<1>9. \A g \in Givers : PlaceOf(g) = Place(Givers, pay, g) /\ PartnerOf(g) = PartnerIn(pay, g)
  BY <1>2, <1>3 DEF PlaceOf, Place, Outranks, Beats, PartnerOf, PartnerIn
<1>10. \A x \in Seats :
         hands'[x] = (hands[x] \ IF x = s THEN {c} ELSE {})
                       \cup {pay[g] : g \in {y \in Givers : PartnerIn(pay, y) = x}}
                       \cup {laid[PartnerIn(pay, g)] : g \in Givers \cap {x}}
  BY <1>2, <1>3, <1>9 DEF Finalize, ReturnFor
<1>11. /\ \A g \in Givers : hands[g] = dealt[g] \ {pay[g]}
       /\ \A r \in Receivers : hands[r] \ (IF r = s THEN {c} ELSE {}) = dealt[r] \ {laid[r]}
       /\ \A x \in Seats \ (Givers \cup Receivers) : hands[x] = dealt[x]
  <2>1. \A x \in Seats : hands[x] = dealt[x] \ ({paid[x], returned[x]} \ {NoCard})
    BY <1>2 DEF During, Laid
  <2>2. \A x \in Seats : NoCard \notin dealt[x]
    BY <1>2
  <2>3. \A x \in Seats : /\ x \notin Receivers => returned[x] = NoCard
                         /\ x \notin Givers => paid[x] = NoCard
    BY DuringFacts
  <2>4. ASSUME NEW g \in Givers PROVE hands[g] = dealt[g] \ {pay[g]}
    BY <1>2, <1>3, <2>1, <2>2, <2>3
  <2>5. ASSUME NEW r \in Receivers
        PROVE  hands[r] \ (IF r = s THEN {c} ELSE {}) = dealt[r] \ {laid[r]}
    BY <1>2, <1>4, <1>5, <2>1, <2>2, <2>3
  <2>6. ASSUME NEW x \in Seats \ (Givers \cup Receivers) PROVE hands[x] = dealt[x]
    <3>1. returned[x] = NoCard /\ paid[x] = NoCard /\ x \in Seats
      BY <2>3
    <3>2. hands[x] = dealt[x] \ {}
      BY <2>1, <3>1
    <3>3. QED
      BY <3>2
  <2>7. QED
    BY <2>4, <2>5, <2>6
<1>12. \A g \in Givers :
         /\ hands'[g] = (dealt[g] \ {pay[g]}) \cup {laid[PartnerIn(pay, g)]}
         /\ hands'[PartnerIn(pay, g)] =
              (dealt[PartnerIn(pay, g)] \ {laid[PartnerIn(pay, g)]}) \cup {pay[g]}
  <2> TAKE g \in Givers
  <2> DEFINE r == PartnerIn(pay, g)
  <2>1. r \in Receivers /\ r \notin Givers /\ g \notin Receivers /\ g # s
    BY <1>1, <1>2, <1>8
  <2>2. {y \in Givers : PartnerIn(pay, y) = g} = {}
    BY <1>8, <2>1
  <2>3. {y \in Givers : PartnerIn(pay, y) = r} = {g}
    BY <1>8
  <2>4. Givers \cap {g} = {g} /\ Givers \cap {r} = {}
    BY <2>1
  <2> HIDE DEF r
  <2>5. hands'[g] = (dealt[g] \ {pay[g]}) \cup {laid[PartnerIn(pay, g)]}
    BY <1>2, <1>10, <1>11, <2>1, <2>2, <2>4
  <2>6. hands'[r] = (dealt[r] \ {laid[r]}) \cup {pay[g]}
    BY <1>2, <1>10, <1>11, <2>1, <2>3, <2>4
  <2>7. QED
    BY <2>5, <2>6 DEF r
<1>13. \A x \in Seats \ (Givers \cup Receivers) : hands'[x] = dealt[x]
  <2> TAKE x \in Seats \ (Givers \cup Receivers)
  <2>1. {y \in Givers : PartnerIn(pay, y) = x} = {} /\ Givers \cap {x} = {} /\ x # s
    BY <1>1, <1>2, <1>8
  <2>2. hands'[x] = (hands[x] \ {}) \cup {pay[g] : g \in {}}
                     \cup {laid[PartnerIn(pay, g)] : g \in {}}
    BY <1>10, <2>1
  <2>3. QED
    BY <1>11, <2>2
<1>14. hands' \in [Seats -> SUBSET Cards]
  <2>1. \A x \in Seats : hands'[x] \subseteq Cards
    BY <1>2, <1>6, <1>7, <1>8, <1>12, <1>13
  <2>2. QED
    BY <2>1 DEF Finalize
<1>15. turn' \in Givers /\ Place(Givers, pay, turn') = 1
  <2>1. IsFiniteSet(Givers) /\ Cardinality(Givers) \in Nat
    BY <1>2, SeatsFinite, FS_Subset, FS_CardinalityType
  <2>2. 1 \in 1 .. Cardinality(Givers)
    BY <1>2, <2>1, FS_EmptySet
  <2>3. \E g \in Givers : Place(Givers, pay, g) = 1
    BY <1>2, <1>6, <2>2, PlacesTaken
  <2>4. turn' = CHOOSE g \in givers : PlaceOf(g) = 1
    BY DEF Finalize
  <2>5. QED
    BY <1>2, <1>9, <2>3, <2>4
<1>16. /\ Givers' = Givers /\ Receivers' = Receivers /\ FewJokers'
       /\ \A g \in Givers : PartnerIn(pay, g)' = PartnerIn(pay, g)
       /\ \A g \in Givers : Place(Givers, pay, g)' = Place(Givers, pay, g)
  BY <1>2 DEF Givers, Receivers, FewJokers, During, PartnerIn, Place
<1>17. Made(pay, laid)'
  <2>1. /\ \A g \in Givers' : PaidByRule(pay, g)'
        /\ \A r \in Receivers' : ReturnedByRule(laid, r)'
    BY <1>6, <1>7, <1>16 DEF PaidByRule, ReturnedByRule
  <2>2. \A g \in Givers' :
          LET r == PartnerIn(pay, g)'
          IN  /\ hands'[g] = (dealt'[g] \ {pay[g]}) \cup {laid[r]}
              /\ hands'[r] = (dealt'[r] \ {laid[r]}) \cup {pay[g]}
    BY <1>12, <1>16
  <2>3. \A x \in Seats \ (Givers' \cup Receivers') : hands'[x] = dealt'[x]
    BY <1>13, <1>16
  <2>4. turn' \in Givers' /\ Place(Givers', pay, turn') = 1
    BY <1>15, <1>16
  <2>5. QED
    BY <1>16, <2>1, <2>2, <2>3, <2>4 DEF Made, Place, Beats
<1>18. /\ phase' = "play" /\ givers' = {} /\ receivers' = {}
       /\ paid' = NothingLaid /\ returned' = NothingLaid
  BY DEF Finalize
<1>19. After'
  BY <1>5, <1>17, <1>18 DEF After
<1>20. QED
  BY <1>2, <1>14, <1>18, <1>19 DEF IInv

(* A receiver lays a return card; the last one makes the exchange.         *)
LEMMA SubmitReturnKeeps ==
  ASSUME IInv, NEW s \in Seats, NEW c \in hands[s], SubmitReturn(s, c)
  PROVE  IInv'
<1> DEFINE laid == [returned EXCEPT ![s] = c]
<1>1. /\ phase = "exchange" /\ MayReturn(s) /\ LegalReturn(c)
      /\ UNCHANGED <<order, dealt>>
  BY DEF SubmitReturn
<1>2. CASE \A r \in receivers : laid[r] # NoCard
  <2>1. Finalize(s, c, laid)
    BY <1>2 DEF SubmitReturn
  <2>2. QED
    BY <1>1, <1>2, <2>1, FinalizeKeeps
<1>3. CASE ~ \A r \in receivers : laid[r] # NoCard
  <2>1. /\ Take(s, c) /\ returned' = laid
        /\ UNCHANGED <<phase, givers, receivers, paid, turn>>
    BY <1>3 DEF SubmitReturn
  <2>2. QED
    BY <1>1, <2>1, ReturnKeeps
<1>4. QED
  BY <1>2, <1>3

(* Nothing happens.                                                        *)
LEMMA StutterKeeps == ASSUME IInv, UNCHANGED vars PROVE IInv'
<1>1. /\ Givers' = Givers /\ Receivers' = Receivers
      /\ UNCHANGED <<phase, order, hands, givers, receivers, paid, returned, turn, dealt>>
  BY DEF vars, Givers, Receivers
<1>2. FewJokers' = FewJokers
  BY <1>1 DEF FewJokers
<1>3. Before' = Before
  BY <1>1 DEF Before
<1>4. During' = During
  BY <1>1, <1>2 DEF During, PaidByRule, ReturnedByRule, Laid
<1>5. \A pay, ret : Made(pay, ret)' = Made(pay, ret)
  BY <1>1, <1>2 DEF Made, PaidByRule, ReturnedByRule, PartnerIn
<1>6. After' = After
  BY <1>1, <1>5 DEF After
<1>7. QED
  BY <1>1, <1>3, <1>4, <1>6 DEF IInv

(* The strengthening says what has been laid, and of a finished exchange   *)
(* that there are cards it was made of; every step keeps it.               *)
THEOREM Invariance == Spec => []IInv
<1>1. Init => IInv
  BY InitIInv
<1>2. ASSUME IInv, [Next]_vars PROVE IInv'
  <2>1. CASE UNCHANGED vars
    BY <1>2, <2>1, StutterKeeps
  <2>2. CASE Deal
    BY <1>2, <2>2, DealKeeps
  <2>3. CASE \E s \in Seats : \E c \in hands[s] : SubmitTribute(s, c) \/ SubmitReturn(s, c)
    BY <1>2, <2>3, SubmitTributeKeeps, SubmitReturnKeeps
  <2>4. QED
    BY <1>2, <2>1, <2>2, <2>3 DEF Next
<1>3. QED
  BY <1>1, <1>2, PTL DEF Spec

(* Every variable has its type, and only sides of the exchange have laid.  *)
THEOREM TypeCorrect == Spec => []TypeOK
<1>1. ASSUME IInv PROVE TypeOK
  <2>1. Givers \subseteq Seats /\ Receivers \subseteq Seats /\ order[1] \in Seats
    BY <1>1, PaysFacts, TableFacts DEF IInv, Givers, Receivers, Outcomes
  <2>2. CASE Before
    BY <1>1, <2>1, <2>2 DEF IInv, TypeOK, Before, NothingLaid
  <2>3. CASE During
    BY <1>1, <2>1, <2>3 DEF IInv, TypeOK, During
  <2>4. CASE After
    <3>1. turn \in Seats
      BY <2>1, <2>4 DEF After, Made
    <3>2. QED
      BY <1>1, <2>4, <3>1 DEF IInv, TypeOK, After, NothingLaid
  <2>5. QED
    BY <1>1, <2>2, <2>3, <2>4 DEF IInv
<1>2. QED
  BY <1>1, Invariance, PTL

-----------------------------------------------------------------------------
(* A finished exchange.                                                    *)

(* What was taken and what was got, of every giver and its partner.        *)
LEMMA MadeFacts ==
  ASSUME order \in Outcomes, dealt \in Deals, NEW pay, NEW ret, Made(pay, ret)
  PROVE  /\ Givers \subseteq Seats /\ Receivers \subseteq Seats
         /\ Givers \cap Receivers = {} /\ Givers # {}
         /\ \A g \in Givers : pay[g] \in Cards /\ pay[g] \in dealt[g]
         /\ \A r \in Receivers : ret[r] \in Cards /\ ret[r] \in dealt[r]
         /\ \A g \in Givers : PartnerIn(pay, g) \in Receivers
         /\ \A g, h \in Givers : PartnerIn(pay, g) = PartnerIn(pay, h) => g = h
         /\ \A r \in Receivers : \E g \in Givers : PartnerIn(pay, g) = r
         /\ \A g \in Givers :
              LET r == PartnerIn(pay, g)
              IN  /\ Lost(g) = {pay[g]} /\ Got(g) = {ret[r]}
                  /\ Lost(r) = {ret[r]} /\ Got(r) = {pay[g]}
<1>1. Givers \subseteq Seats /\ Receivers \subseteq Seats /\ Givers \cap Receivers = {}
  BY PaysFacts DEF Givers, Receivers
<1>2. /\ dealt \in [Seats -> SUBSET Cards]
      /\ \A s, t \in Seats : s # t => dealt[s] \cap dealt[t] = {}
  BY DealFacts
<1>3. /\ \A g \in Givers : pay[g] \in Cards /\ pay[g] \in dealt[g]
      /\ \A r \in Receivers : ret[r] \in Cards /\ ret[r] \in dealt[r]
  BY <1>1, <1>2 DEF Made, PaidByRule, ReturnedByRule
<1>4. /\ \A g \in Givers : PartnerIn(pay, g) \in Receivers
      /\ \A g, h \in Givers : PartnerIn(pay, g) = PartnerIn(pay, h) => g = h
      /\ \A r \in Receivers : \E g \in Givers : PartnerIn(pay, g) = r
  BY <1>3, PartnerFacts
<1>5. ASSUME NEW g \in Givers
      PROVE  LET r == PartnerIn(pay, g)
             IN  /\ Lost(g) = {pay[g]} /\ Got(g) = {ret[r]}
                 /\ Lost(r) = {ret[r]} /\ Got(r) = {pay[g]}
  <2> DEFINE r == PartnerIn(pay, g)
  <2>1. /\ hands[g] = (dealt[g] \ {pay[g]}) \cup {ret[r]}
        /\ hands[r] = (dealt[r] \ {ret[r]}) \cup {pay[g]}
    BY DEF Made
  <2>2. r \in Receivers
    BY <1>4
  <2> HIDE DEF r
  <2>3. /\ pay[g] \in dealt[g] /\ ret[r] \in dealt[r]
        /\ pay[g] \notin dealt[r] /\ ret[r] \notin dealt[g]
    BY <1>1, <1>2, <1>3, <2>2
  <2>4. /\ Lost(g) = {pay[g]} /\ Got(g) = {ret[r]}
        /\ Lost(r) = {ret[r]} /\ Got(r) = {pay[g]}
    BY <2>1, <2>3 DEF Lost, Got
  <2>5. QED
    BY <2>4 DEF r
<1>6. Givers # {}
  BY DEF Made
<1>7. QED
  BY <1>1, <1>3, <1>4, <1>5, <1>6

(* Cards have moved exactly if an exchange was made.                       *)
LEMMA ExchangedMade ==
  ASSUME IInv
  PROVE  /\ Exchanged => \E pay, ret : Made(pay, ret)
         /\ phase = "play" /\ After => Exchanged
<1>1. Exchanged => \E pay, ret : Made(pay, ret)
  BY DEF IInv, Exchanged, Before, After
<1>2. ASSUME phase = "play", After PROVE Exchanged
  <2>1. PICK pay, ret : Made(pay, ret)
    BY <1>2 DEF After
  <2>2. PICK g \in Givers : Lost(g) = {pay[g]}
    BY <2>1, MadeFacts DEF IInv
  <2>3. hands # dealt
    BY <2>2 DEF Lost
  <2>4. QED
    BY <1>2, <2>3 DEF Exchanged
<1>3. QED
  BY <1>1, <1>2

(* The two seats of an exchange swap one card each.                        *)
LEMMA Mates ==
  ASSUME order \in Outcomes, dealt \in Deals, NEW pay, NEW ret, Made(pay, ret)
  PROVE  \E S \in SUBSET Seats : \E mate \in [S -> S], card \in [S -> Cards] :
           /\ \A s \in S : /\ mate[s] # s /\ mate[mate[s]] = s
                           /\ card[s] \in dealt[s]
                           /\ hands[s] = (dealt[s] \ {card[s]}) \cup {card[mate[s]]}
           /\ \A s \in Seats \ S : hands[s] = dealt[s]
<1> DEFINE S == Givers \cup Receivers
           payer(r) == CHOOSE g \in Givers : PartnerIn(pay, g) = r
           mate == [s \in S |-> IF s \in Givers THEN PartnerIn(pay, s) ELSE payer(s)]
           card == [s \in S |-> IF s \in Givers THEN pay[s] ELSE ret[s]]
<1>1. /\ Givers \subseteq Seats /\ Receivers \subseteq Seats
      /\ Givers \cap Receivers = {}
      /\ \A g \in Givers : pay[g] \in Cards /\ pay[g] \in dealt[g]
      /\ \A r \in Receivers : ret[r] \in Cards /\ ret[r] \in dealt[r]
      /\ \A g \in Givers : PartnerIn(pay, g) \in Receivers
      /\ \A g, h \in Givers : PartnerIn(pay, g) = PartnerIn(pay, h) => g = h
      /\ \A r \in Receivers : \E g \in Givers : PartnerIn(pay, g) = r
  BY MadeFacts
<1>2. \A r \in Receivers : payer(r) \in Givers /\ PartnerIn(pay, payer(r)) = r
  BY <1>1
<1>3. /\ \A g \in Givers : mate[g] = PartnerIn(pay, g) /\ card[g] = pay[g]
      /\ \A r \in Receivers : mate[r] = payer(r) /\ card[r] = ret[r]
  BY <1>1
<1>4. mate \in [S -> S] /\ card \in [S -> Cards] /\ S \in SUBSET Seats
  BY <1>1, <1>2
<1> HIDE DEF mate, card, payer
<1>5. \A s \in Seats \ S : hands[s] = dealt[s]
  BY DEF Made
<1>6. ASSUME NEW g \in Givers
      PROVE  /\ mate[g] \in Receivers /\ mate[mate[g]] = g
             /\ card[g] \in dealt[g]
             /\ hands[g] = (dealt[g] \ {card[g]}) \cup {card[mate[g]]}
  BY <1>1, <1>2, <1>3 DEF Made
<1>7. ASSUME NEW r \in Receivers
      PROVE  /\ mate[r] \in Givers /\ mate[mate[r]] = r
             /\ card[r] \in dealt[r]
             /\ hands[r] = (dealt[r] \ {card[r]}) \cup {card[mate[r]]}
  BY <1>1, <1>2, <1>3 DEF Made
<1>8. \A s \in S : /\ mate[s] # s /\ mate[mate[s]] = s
                   /\ card[s] \in dealt[s]
                   /\ hands[s] = (dealt[s] \ {card[s]}) \cup {card[mate[s]]}
  BY <1>1, <1>6, <1>7
<1> HIDE DEF S
<1>9. QED
  BY <1>4, <1>5, <1>8

(* An exchange that was made loses, copies and miscounts no card.          *)
LEMMA MadeConserves ==
  ASSUME order \in Outcomes, dealt \in Deals, NEW pay, NEW ret, Made(pay, ret)
  PROVE  /\ \A c \in Cards : \E s \in Seats : c \in hands[s]
         /\ \A s \in Seats : hands[s] \subseteq Cards
         /\ \A s, t \in Seats : s # t => hands[s] \cap hands[t] = {}
         /\ \A s \in Seats : Cardinality(hands[s]) = Cardinality(dealt[s])
<1>1. PICK S \in SUBSET Seats : \E mate \in [S -> S], card \in [S -> Cards] :
        /\ \A s \in S : /\ mate[s] # s /\ mate[mate[s]] = s
                        /\ card[s] \in dealt[s]
                        /\ hands[s] = (dealt[s] \ {card[s]}) \cup {card[mate[s]]}
        /\ \A s \in Seats \ S : hands[s] = dealt[s]
  BY Mates
<1>2. PICK mate \in [S -> S], card \in [S -> Cards] :
        /\ \A s \in S : /\ mate[s] # s /\ mate[mate[s]] = s
                        /\ card[s] \in dealt[s]
                        /\ hands[s] = (dealt[s] \ {card[s]}) \cup {card[mate[s]]}
        /\ \A s \in Seats \ S : hands[s] = dealt[s]
  BY <1>1
<1>3. /\ dealt \in [Seats -> SUBSET Cards]
      /\ \A c \in Cards : \E s \in Seats : c \in dealt[s]
      /\ \A s, t \in Seats : s # t => dealt[s] \cap dealt[t] = {}
      /\ \A s \in Seats : IsFiniteSet(dealt[s])
  BY DealFacts
<1>4. ASSUME NEW c \in Cards PROVE \E s \in Seats : c \in hands[s]
  <2>1. PICK s \in Seats : c \in dealt[s]
    BY <1>3
  <2>2. CASE s \in S /\ c = card[s]
    <3>1. mate[s] \in S /\ c \in hands[mate[s]]
      BY <1>2, <2>2
    <3>2. QED
      BY <3>1
  <2>3. CASE ~(s \in S /\ c = card[s])
    BY <1>2, <2>1, <2>3
  <2>4. QED
    BY <2>2, <2>3
<1>5. ASSUME NEW s \in Seats PROVE hands[s] \subseteq Cards
  BY <1>2, <1>3
<1>6. ASSUME NEW s \in Seats, NEW t \in Seats, s # t, NEW c \in hands[s], c \in hands[t]
      PROVE  FALSE
  <2>1. ASSUME NEW x \in Seats, c \in hands[x]
        PROVE  \/ c \in dealt[x] /\ (x \in S => c # card[x])
               \/ x \in S /\ c = card[mate[x]] /\ c \in dealt[mate[x]]
    BY <1>2, <2>1
  <2>2. CASE c \in dealt[s] /\ c \in dealt[t]
    BY <1>3, <1>6, <2>2
  <2>3. ASSUME NEW x \in Seats, NEW y \in Seats, x # y,
               c \in dealt[x] /\ (x \in S => c # card[x]),
               y \in S /\ c = card[mate[y]] /\ c \in dealt[mate[y]]
        PROVE  FALSE
    <3>1. mate[y] \in S /\ mate[y] \in Seats
      BY <2>3
    <3>2. mate[y] = x
      BY <1>3, <2>3, <3>1
    <3>3. QED
      BY <2>3, <3>1, <3>2
  <2>4. CASE /\ s \in S /\ c = card[mate[s]] /\ c \in dealt[mate[s]]
             /\ t \in S /\ c = card[mate[t]] /\ c \in dealt[mate[t]]
    <3>1. mate[s] \in Seats /\ mate[t] \in Seats
      BY <2>4
    <3>2. mate[s] = mate[t]
      BY <1>3, <2>4, <3>1
    <3>3. QED
      BY <1>2, <1>6, <2>4, <3>2
  <2>5. QED
    BY <1>6, <2>1, <2>2, <2>3, <2>4
<1>7. ASSUME NEW s \in Seats PROVE Cardinality(hands[s]) = Cardinality(dealt[s])
  <2>1. CASE s \in S
    <3> DEFINE rest == dealt[s] \ {card[s]}
    <3>1. /\ hands[s] = rest \cup {card[mate[s]]}
          /\ mate[s] \in Seats /\ mate[s] # s
          /\ card[s] \in dealt[s] /\ card[mate[s]] \in dealt[mate[s]]
      BY <1>2, <2>1
    <3>2. card[mate[s]] \notin rest
      BY <1>3, <3>1
    <3>3. IsFiniteSet(rest) /\ Cardinality(rest) = Cardinality(dealt[s]) - 1
      <4>1. IsFiniteSet(dealt[s]) /\ card[s] \in dealt[s]
        BY <1>3, <3>1
      <4>2. QED
        BY <4>1, FS_RemoveElement
    <3>4. Cardinality(dealt[s]) \in Nat
      BY <1>3, FS_CardinalityType
    <3> HIDE DEF rest
    <3>5. Cardinality(hands[s]) = Cardinality(rest) + 1
      BY <3>1, <3>2, <3>3, FS_AddElement
    <3>6. QED
      BY <3>3, <3>4, <3>5
  <2>2. CASE s \notin S
    BY <1>2, <2>2
  <2>3. QED
    BY <2>1, <2>2
<1>8. QED
  BY <1>4, <1>5, <1>6, <1>7

(* No card is lost or doubled by an exchange, at whatever point of it, and *)
(* every seat begins the deal with as many cards as it was dealt.          *)
THEOREM CardsAreConserved == Spec => []CardsConserved
<1>1. ASSUME IInv PROVE CardsConserved
  <2>1. /\ dealt \in [Seats -> SUBSET Cards]
        /\ \A c \in Cards : \E s \in Seats : c \in dealt[s]
        /\ \A s, t \in Seats : s # t => dealt[s] \cap dealt[t] = {}
    BY <1>1, DealFacts DEF IInv
  <2>2. CASE Before
    <3>1. \A s \in Seats : Laid(s) = {}
      BY <2>2 DEF Before, NothingLaid, Laid
    <3>2. hands = dealt
      BY <2>2 DEF Before
    <3>3. UNION {hands[s] \cup Laid(s) : s \in Seats} = Cards
      BY <2>1, <3>1, <3>2
    <3>4. QED
      BY <2>1, <3>1, <3>2, <3>3 DEF CardsConserved
  <2>3. CASE During /\ phase = "exchange"
    <3>1. \A s \in Seats : Laid(s) \subseteq dealt[s]
      BY <2>3 DEF During, Laid, PaidByRule, ReturnedByRule
    <3>2. \A s \in Seats : hands[s] = dealt[s] \ Laid(s)
      BY <2>3 DEF During
    <3>3. \A s \in Seats : hands[s] \cup Laid(s) = dealt[s] /\ hands[s] \cap Laid(s) = {}
      BY <3>1, <3>2
    <3>4. UNION {hands[s] \cup Laid(s) : s \in Seats} = Cards
      BY <2>1, <3>3
    <3>5. QED
      BY <2>1, <2>3, <3>3, <3>4 DEF CardsConserved
  <2>4. CASE After
    <3>1. \A s \in Seats : Laid(s) = {}
      BY <2>4 DEF After, NothingLaid, Laid
    <3>2. PICK pay, ret : Made(pay, ret)
      BY <2>4 DEF After
    <3>3. /\ \A c \in Cards : \E s \in Seats : c \in hands[s]
          /\ \A s \in Seats : hands[s] \subseteq Cards
          /\ \A s, t \in Seats : s # t => hands[s] \cap hands[t] = {}
          /\ \A s \in Seats : Cardinality(hands[s]) = Cardinality(dealt[s])
      BY <1>1, <3>2, MadeConserves DEF IInv
    <3>4. UNION {hands[s] \cup Laid(s) : s \in Seats} = Cards
      BY <3>1, <3>3
    <3>5. QED
      BY <3>1, <3>3, <3>4 DEF CardsConserved
  <2>5. QED
    BY <1>1, <2>2, <2>3, <2>4 DEF IInv
<1>2. QED
  BY <1>1, Invariance, PTL

(* Play opens with the winner of the last deal, or after an exchange with  *)
(* whoever paid the strongest card, the lower seat of two equal ones.      *)
THEOREM HighestGiverOpens == Spec => []OpenerPaidMost
<1>1. ASSUME IInv, phase = "play"
      PROVE  IF ~Exchanged THEN turn = order[1]
             ELSE /\ turn \in Givers
                  /\ \A g \in Givers : \A c \in Lost(turn), d \in Lost(g) :
                       \/ Power(c) > Power(d)
                       \/ Power(c) = Power(d) /\ turn <= g
  <2>1. CASE ~Exchanged
    <3>1. Before
      BY <1>1, <2>1, ExchangedMade DEF IInv
    <3>2. QED
      BY <2>1, <3>1 DEF Before
  <2>2. CASE Exchanged
    <3>1. PICK pay, ret : Made(pay, ret)
      BY <1>1, <2>2, ExchangedMade
    <3>2. /\ Givers \subseteq Seats /\ \A g \in Givers : pay[g] \in Cards
          /\ \A g \in Givers : Lost(g) = {pay[g]}
      BY <1>1, <3>1, MadeFacts DEF IInv
    <3>3. turn \in Givers /\ Place(Givers, pay, turn) = 1
      BY <3>1 DEF Made
    <3>4. ASSUME NEW g \in Givers
          PROVE  \/ Power(pay[turn]) > Power(pay[g])
                 \/ Power(pay[turn]) = Power(pay[g]) /\ turn <= g
      <4>1. CASE g = turn
        <5>1. turn \in Nat
          BY <3>2, <3>3, TableFacts
        <5>2. QED
          BY <4>1, <5>1
      <4>2. CASE g # turn
        <5>1. Place(Givers, pay, g) \in 1 .. Cardinality(Givers)
          BY <3>2, PlaceRange
        <5>2. ~(Place(Givers, pay, g) < Place(Givers, pay, turn))
          BY <3>3, <5>1
        <5>3. Beats(pay, turn, g)
          BY <3>2, <3>3, <4>2, <5>2, BeatsOrder, PlaceOrder
        <5>4. turn \in Nat /\ g \in Nat
          BY <3>2, <3>3, TableFacts
        <5>5. QED
          BY <5>3, <5>4 DEF Beats
      <4>3. QED
        BY <4>1, <4>2
    <3>5. QED
      BY <2>2, <3>2, <3>3, <3>4
  <2>3. QED
    BY <2>1, <2>2
<1>2. IInv => OpenerPaidMost
  BY <1>1 DEF OpenerPaidMost, Givers
<1>3. QED
  BY <1>2, Invariance, PTL

-----------------------------------------------------------------------------
(* The rules of the exchange.                                              *)

(* What was paid is the strongest card of the giver.                       *)
LEMMA StrongestIsPaid == ASSUME IInv PROVE StrongestPaid
<1>1. ASSUME Exchanged
      PROVE  /\ \A g \in Givers : \A d \in dealt[g], c \in Lost(g) :
                  Wild(d) \/ Power(d) <= Power(c)
             /\ \A g \in Givers : \A c \in Got(g) : c.rank \in 2 .. 10
  <2>1. PICK pay, ret : Made(pay, ret)
    BY <1>1, ExchangedMade
  <2>2. /\ \A g \in Givers : PartnerIn(pay, g) \in Receivers
        /\ \A g \in Givers : Lost(g) = {pay[g]} /\ Got(g) = {ret[PartnerIn(pay, g)]}
    BY <2>1, MadeFacts DEF IInv
  <2>3. /\ \A g \in Givers : LegalTribute(dealt[g], pay[g])
        /\ \A r \in Receivers : LegalReturn(ret[r])
    BY <2>1 DEF Made, PaidByRule, ReturnedByRule
  <2>4. QED
    BY <2>2, <2>3 DEF LegalTribute, LegalReturn
<1>2. QED
  BY <1>1 DEF StrongestPaid, Givers

(* The better the place, the stronger the tribute.                         *)
LEMMA BetterPlacesGetMore == ASSUME IInv PROVE BetterPlaceGetsMore
<1> DEFINE n == Cardinality(Receivers)
<1>1. ASSUME Exchanged, NEW i \in 1 .. n, NEW j \in 1 .. n, i < j,
             NEW c \in Got(order[i]), NEW d \in Got(order[j])
      PROVE  Power(c) >= Power(d)
  <2>1. PICK pay, ret : Made(pay, ret)
    BY <1>1, ExchangedMade
  <2>2. /\ Givers \subseteq Seats
        /\ \A g \in Givers : pay[g] \in Cards /\ Got(PartnerIn(pay, g)) = {pay[g]}
    BY <2>1, MadeFacts DEF IInv
  <2>3. Cardinality(Givers) = n
    BY PaysFacts DEF IInv, Givers, Receivers
  <2>4. PICK g \in Givers : Place(Givers, pay, g) = i
    BY <1>1, <2>2, <2>3, PlacesTaken
  <2>5. PICK h \in Givers : Place(Givers, pay, h) = j
    BY <1>1, <2>2, <2>3, PlacesTaken
  <2>6. c = pay[g] /\ d = pay[h]
    BY <1>1, <2>2, <2>4, <2>5 DEF PartnerIn
  <2>7. g # h /\ ~(j < i)
    BY <1>1, <2>4, <2>5
  <2>8. Beats(pay, g, h)
    BY <2>2, <2>4, <2>5, <2>7, BeatsOrder, PlaceOrder
  <2>9. Power(pay[g]) \in Int /\ Power(pay[h]) \in Int
    <3>1. Power(pay[g]) \in 2 .. 17 /\ Power(pay[h]) \in 2 .. 17
      BY <2>2, PowerType
    <3>2. QED
      BY <3>1
  <2>10. QED
    BY <2>6, <2>8, <2>9 DEF Beats
<1> HIDE DEF n
<1>2. Exchanged =>
        \A i, j \in 1 .. n : i < j =>
          \A c \in Got(order[i]), d \in Got(order[j]) : Power(c) >= Power(d)
  BY <1>1
<1>3. QED
  BY <1>2 DEF BetterPlaceGetsMore, Receivers, n

(* Whoever paid gets a card back from the seat that was paid.              *)
LEMMA ExchangesAreMutual == ASSUME IInv PROVE ExchangeIsMutual
<1>1. ASSUME Exchanged, NEW g \in Givers, NEW r \in Receivers
      PROVE  Lost(g) = Got(r) <=> Lost(r) = Got(g)
  <2>1. PICK pay, ret : Made(pay, ret)
    BY <1>1, ExchangedMade
  <2>2. /\ Givers \subseteq Seats /\ Receivers \subseteq Seats
        /\ \A k \in Givers : pay[k] \in dealt[k]
        /\ \A k \in Receivers : ret[k] \in dealt[k]
        /\ \A k \in Givers : PartnerIn(pay, k) \in Receivers
        /\ \A k \in Receivers : \E x \in Givers : PartnerIn(pay, x) = k
        /\ \A k \in Givers :
             LET x == PartnerIn(pay, k)
             IN  /\ Lost(k) = {pay[k]} /\ Got(k) = {ret[x]}
                 /\ Lost(x) = {ret[x]} /\ Got(x) = {pay[k]}
    BY <2>1, MadeFacts DEF IInv
  <2>3. \A s, t \in Seats : s # t => dealt[s] \cap dealt[t] = {}
    BY DealFacts DEF IInv
  <2>4. PICK h \in Givers : PartnerIn(pay, h) = r
    BY <2>2
  <2>5. /\ Lost(g) = {pay[g]} /\ Got(r) = {pay[h]}
        /\ Lost(r) = {ret[r]} /\ Got(g) = {ret[PartnerIn(pay, g)]}
    BY <2>2, <2>4
  <2>6. pay[g] = pay[h] <=> g = h
    BY <2>2, <2>3
  <2>7. ret[r] = ret[PartnerIn(pay, g)] <=> r = PartnerIn(pay, g)
    BY <2>2, <2>3
  <2>8. g = h <=> r = PartnerIn(pay, g)
    BY <2>1, <2>4, MadeFacts DEF IInv
  <2>9. QED
    BY <2>5, <2>6, <2>7, <2>8
<1>2. QED
  BY <1>1 DEF ExchangeIsMutual, Givers, Receivers

(* A giver has a card to pay with.                                         *)
LEMMA GiversCanPay == ASSUME IInv PROVE GiverCanPay
<1>1. ASSUME phase = "exchange", NEW g \in givers, paid[g] = NoCard
      PROVE  \E c \in hands[g] : LegalTribute(hands[g], c)
  <2>1. /\ During /\ dealt \in [Seats -> SUBSET Cards] /\ g \in Seats
        /\ returned[g] = NoCard /\ dealt \in Deals
    BY <1>1, DuringFacts DEF During, IInv
  <2>2. hands[g] = dealt[g]
    <3>1. Laid(g) = {}
      BY <1>1, <2>1 DEF Laid
    <3>2. QED
      BY <2>1, <3>1 DEF During
  <2> DEFINE T == {17 - Power(c) : c \in {d \in dealt[g] : ~Wild(d)}}
  <2>3. \A c \in dealt[g] : Power(c) \in 2 .. 17
    BY <2>1, PowerType
  <2>4. T \in SUBSET Nat
    BY <2>3
  <2>5. T # {}
    BY <2>1, HandsAssumption
  <2>6. PICK m \in T : \A k \in T : m <= k
    BY <2>4, <2>5, LeastNatural
  <2>7. PICK c \in dealt[g] : ~Wild(c) /\ m = 17 - Power(c)
    BY <2>6
  <2>8. ASSUME NEW d \in dealt[g], ~Wild(d) PROVE Power(d) <= Power(c)
    <3>1. m <= 17 - Power(d)
      BY <2>6, <2>8
    <3>2. Power(c) \in 2 .. 17 /\ Power(d) \in 2 .. 17
      BY <2>3
    <3>3. QED
      BY <2>7, <3>1, <3>2
  <2>9. LegalTribute(dealt[g], c)
    BY <2>7, <2>8 DEF LegalTribute
  <2>10. QED
    BY <2>2, <2>9
<1>2. QED
  BY <1>1 DEF GiverCanPay

(* The givers do not hold both big jokers between them.                    *)
LEMMA PayersHaveFewJokers == ASSUME IInv PROVE PayersLackBothJokers
<1>1. ASSUME phase = "exchange" \/ Exchanged PROVE FewJokers
  <2>1. CASE phase = "exchange"
    BY <2>1 DEF IInv, During
  <2>2. CASE Exchanged
    <3>1. PICK pay, ret : Made(pay, ret)
      BY <2>2, ExchangedMade
    <3>2. QED
      BY <3>1 DEF Made
  <2>3. QED
    BY <1>1, <2>1, <2>2
<1>2. QED
  BY <1>1 DEF PayersLackBothJokers, FewJokers, Givers

(* Whatever was dealt and whoever owes: nobody keeps back a stronger card, *)
(* a better place gets no weaker one, each giver gets back its receiver's  *)
(* card, who resists does not pay, and no giver is ever stuck.             *)
THEOREM TributeIsByRules == Spec => []TributeByRules
<1>1. ASSUME IInv PROVE TributeByRules
  BY <1>1, StrongestIsPaid, BetterPlacesGetMore, ExchangesAreMutual, GiversCanPay,
     PayersHaveFewJokers DEF TributeByRules
<1>2. QED
  BY <1>1, Invariance, PTL
=============================================================================
