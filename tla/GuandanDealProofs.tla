-------------------------- MODULE GuandanDealProofs --------------------------
(***************************************************************************)
(* Theorems about GuandanDeal, for every table size, hand size and choice  *)
(* of robot seats.  First the order of play round the table: what NextAmong*)
(* returns and how Between grows when the turn moves on.  Then one         *)
(* inductive invariant, IInv, carries the argument: the pass counter is    *)
(* exact because the seats met since the last player (Between) grow by the *)
(* seat that passes until the walk round the table is complete, which is   *)
(* exactly when the counter closes the trick.  Last, the handler's counter *)
(* implements the core crate's TrickState: its set of seats that passed is *)
(* recovered from positions round the table.                               *)
(***************************************************************************)
EXTENDS GuandanDealRefinement, FiniteSetTheorems, SequenceTheorems,
        WellFoundedInduction, TLAPS

-----------------------------------------------------------------------------
(* The table.                                                              *)

(* The table is finite, with an even number of seats, at least four.       *)
LEMMA TableFacts ==
  /\ PlayerCount \in Nat
  /\ PlayerCount >= 4
  /\ HalfTable \in 2 .. PlayerCount - 2
  /\ Seats \subseteq Nat
BY PlayerCountAssumption DEF Seats, HalfTable

(* The seats form a finite set of PlayerCount members.                     *)
LEMMA SeatsFinite ==
  /\ IsFiniteSet(Seats)
  /\ Cardinality(Seats) = PlayerCount
<1>1. 0 \in Int /\ PlayerCount - 1 \in Int
  BY TableFacts
<1>2. QED
  BY <1>1, FS_Interval, TableFacts DEF Seats

(* A walk takes between one step and a full round.                         *)
LEMMA StepsToType ==
  ASSUME NEW a \in Seats, NEW b \in Seats
  PROVE  StepsTo(a, b) \in 1 .. PlayerCount
BY TableFacts DEF StepsTo, Seats

(* Only the walk from a seat to itself is a full round.                    *)
LEMMA StepsToRound ==
  ASSUME NEW a \in Seats, NEW b \in Seats
  PROVE  StepsTo(a, b) = PlayerCount <=> a = b
BY TableFacts DEF StepsTo, Seats

(* Different seats are at different distances.                             *)
LEMMA StepsToInjective ==
  ASSUME NEW a \in Seats, NEW b \in Seats, NEW c \in Seats,
         StepsTo(a, b) = StepsTo(a, c)
  PROVE  b = c
BY TableFacts DEF StepsTo, Seats

(* Distances add up, modulo a round.                                       *)
LEMMA StepsToVia ==
  ASSUME NEW a \in Seats, NEW b \in Seats, NEW c \in Seats
  PROVE  StepsTo(b, c) = IF StepsTo(a, c) > StepsTo(a, b)
                         THEN StepsTo(a, c) - StepsTo(a, b)
                         ELSE StepsTo(a, c) - StepsTo(a, b) + PlayerCount
BY TableFacts DEF StepsTo, Seats

-----------------------------------------------------------------------------
(* A set of naturals that is not empty has a least member.                 *)
LEMMA LeastNatural ==
  ASSUME NEW T \in SUBSET Nat, T # {}
  PROVE  \E m \in T : \A n \in T : m <= n
<1>1. PICK m \in T : \A n \in T : ~ (<<n, m>> \in OpToRel(<, Nat))
  BY NatLessThanWellFounded, WFMin, Zenon
<1>2. ASSUME NEW n \in T PROVE m <= n
  <2>1. ~ (n < m)
    BY <1>1, <1>2 DEF OpToRel
  <2>2. QED
    BY <2>1
<1>3. QED
  BY <1>2

(* NextAmong returns the member of the set nearest on.                     *)
LEMMA NextAmongNearest ==
  ASSUME NEW S \in SUBSET Seats, S # {}, NEW from \in Seats
  PROVE  /\ NextAmong(S, from) \in S
         /\ \A t \in S : StepsTo(from, NextAmong(S, from)) <= StepsTo(from, t)
<1> DEFINE T == {StepsTo(from, t) : t \in S}
<1>1. T \in SUBSET Nat /\ T # {}
  BY StepsToType
<1>2. PICK m \in T : \A n \in T : m <= n
  <2> HIDE DEF T
  <2> QED
    BY <1>1, LeastNatural
<1>3. \E s \in S : \A t \in S : StepsTo(from, s) <= StepsTo(from, t)
  BY <1>2
<1>4. QED
  BY <1>3 DEF NextAmong

(* A member nearest on is the one NextAmong returns.                       *)
LEMMA NextAmongUnique ==
  ASSUME NEW S \in SUBSET Seats, NEW from \in Seats, NEW m \in S,
         \A t \in S : StepsTo(from, m) <= StepsTo(from, t)
  PROVE  NextAmong(S, from) = m
<1> DEFINE n == NextAmong(S, from)
<1>1. n \in S /\ StepsTo(from, n) <= StepsTo(from, m)
  BY NextAmongNearest
<1>2. StepsTo(from, n) = StepsTo(from, m)
  <2>1. StepsTo(from, n) \in Int /\ StepsTo(from, m) \in Int
    BY <1>1, StepsToType
  <2>2. StepsTo(from, m) <= StepsTo(from, n)
    BY <1>1
  <2> HIDE DEF n
  <2>3. QED
    BY <1>1, <2>1, <2>2
<1> HIDE DEF n
<1>3. n = m
  BY <1>1, <1>2, StepsToInjective
<1>4. QED
  BY <1>3 DEF n

(* NextAmong leaves the seat it starts from when the set has another       *)
(* member.                                                                 *)
LEMMA NextAmongMoves ==
  ASSUME NEW S \in SUBSET Seats, NEW from \in Seats, NEW t \in S, t # from
  PROVE  NextAmong(S, from) # from
<1>1. StepsTo(from, t) < PlayerCount
  BY StepsToRound, StepsToType, TableFacts
<1>2. StepsTo(from, NextAmong(S, from)) <= StepsTo(from, t)
  BY NextAmongNearest
<1>3. StepsTo(from, from) = PlayerCount
  BY StepsToRound
<1>4. QED
  BY <1>1, <1>2, <1>3, StepsToType, TableFacts

-----------------------------------------------------------------------------
(* Nobody is met on the way to the next member.                            *)
LEMMA BetweenNext ==
  ASSUME NEW S \in SUBSET Seats, NEW from \in Seats, S # {}
  PROVE  Between(S, from, NextAmong(S, from)) = {}
<1>1. ASSUME NEW s \in S
      PROVE  ~(StepsTo(from, s) < StepsTo(from, NextAmong(S, from)))
  <2>1. /\ NextAmong(S, from) \in S
        /\ StepsTo(from, NextAmong(S, from)) <= StepsTo(from, s)
    BY NextAmongNearest
  <2>2. /\ StepsTo(from, s) \in 1 .. PlayerCount
        /\ StepsTo(from, NextAmong(S, from)) \in 1 .. PlayerCount
    BY <2>1, StepsToType
  <2>3. QED
    BY <2>1, <2>2
<1>2. QED
  BY <1>1 DEF Between

(* When the turn moves from a to the next member of S without reaching l,  *)
(* the seats met since l are the earlier ones and a.                       *)
LEMMA BetweenGrows ==
  ASSUME NEW S \in SUBSET Seats, NEW l \in Seats, NEW a \in S,
         StepsTo(l, NextAmong(S, a)) > StepsTo(l, a)
  PROVE  Between(S, l, NextAmong(S, a)) = Between(S, l, a) \cup {a}
<1> DEFINE n == NextAmong(S, a)
<1>1. n \in S /\ \A t \in S : StepsTo(a, n) <= StepsTo(a, t)
  BY NextAmongNearest
<1>2. StepsTo(l, n) > StepsTo(l, a)
  OBVIOUS
<1> HIDE DEF n
<1>3. ASSUME NEW t \in S
      PROVE  StepsTo(l, t) < StepsTo(l, n)
               <=> StepsTo(l, t) < StepsTo(l, a) \/ t = a
  <2>1. /\ StepsTo(l, t) \in Int /\ StepsTo(l, n) \in Int
        /\ StepsTo(l, a) \in Int
    BY <1>1, StepsToType
  <2>2. CASE StepsTo(l, t) < StepsTo(l, a)
    BY <1>2, <2>1, <2>2
  <2>3. CASE StepsTo(l, t) = StepsTo(l, a)
    BY <1>2, <2>1, <2>3, StepsToInjective
  <2>4. CASE StepsTo(l, t) > StepsTo(l, a)
    <3>1. StepsTo(a, t) = StepsTo(l, t) - StepsTo(l, a)
      BY <2>4, StepsToVia
    <3>2. StepsTo(a, n) = StepsTo(l, n) - StepsTo(l, a)
      BY <1>1, <1>2, StepsToVia
    <3>3. StepsTo(a, n) <= StepsTo(a, t)
      BY <1>1
    <3>4. t # a
      BY <2>1, <2>4
    <3>5. QED
      BY <2>1, <2>4, <3>1, <3>2, <3>3, <3>4
  <2>5. QED
    BY <2>1, <2>2, <2>3, <2>4
<1>4. Between(S, l, n) = Between(S, l, a) \cup {a}
  BY <1>3 DEF Between
<1>5. QED
  BY <1>4 DEF n

(* When that move does pass l, everybody in S but l has been met.          *)
LEMMA BetweenWraps ==
  ASSUME NEW S \in SUBSET Seats, NEW l \in Seats, NEW a \in S,
         StepsTo(l, NextAmong(S, a)) <= StepsTo(l, a)
  PROVE  S \ {l} \subseteq Between(S, l, a) \cup {a}
<1> DEFINE n == NextAmong(S, a)
<1>1. n \in S /\ \A t \in S : StepsTo(a, n) <= StepsTo(a, t)
  BY NextAmongNearest
<1>2. StepsTo(l, n) <= StepsTo(l, a)
  OBVIOUS
<1> HIDE DEF n
<1>3. ASSUME NEW t \in S, t # l, t # a, ~(StepsTo(l, t) < StepsTo(l, a))
      PROVE  FALSE
  <2>1. /\ StepsTo(l, t) \in 1 .. PlayerCount
        /\ StepsTo(l, n) \in 1 .. PlayerCount
        /\ StepsTo(l, a) \in 1 .. PlayerCount
    BY <1>1, StepsToType
  <2>2. StepsTo(l, t) # StepsTo(l, a)
    BY <1>3, StepsToInjective
  <2>3. StepsTo(l, t) > StepsTo(l, a)
    BY <1>3, <2>1, <2>2
  <2>4. StepsTo(a, t) = StepsTo(l, t) - StepsTo(l, a)
    BY <2>3, StepsToVia
  <2>5. StepsTo(a, n) = StepsTo(l, n) - StepsTo(l, a) + PlayerCount
    <3>1. ~(StepsTo(l, n) > StepsTo(l, a))
      BY <1>2, <2>1
    <3>2. QED
      BY <1>1, <3>1, StepsToVia
  <2>6. StepsTo(a, n) <= StepsTo(a, t)
    BY <1>1
  <2>7. StepsTo(l, t) >= StepsTo(l, n) + PlayerCount
    BY <2>1, <2>4, <2>5, <2>6, TableFacts
  <2>8. QED
    BY <2>1, <2>7, TableFacts
<1>4. QED
  BY <1>3 DEF Between

(* When everybody in S but l has been met, the next member after a is l    *)
(* or, when l is not in S, the next one after l.                           *)
LEMMA NextAfterRound ==
  ASSUME NEW S \in SUBSET Seats, NEW l \in Seats, NEW a \in S, a # l,
         S \ {l} \subseteq Between(S, l, a) \cup {a}
  PROVE  NextAmong(S, a) = IF l \in S THEN l ELSE NextAmong(S, l)
<1> DEFINE m == IF l \in S THEN l ELSE NextAmong(S, l)
<1>1. m \in S
  BY NextAmongNearest
<1>2. /\ StepsTo(l, a) \in 1 .. PlayerCount - 1
      /\ StepsTo(l, l) = PlayerCount
  BY StepsToType, StepsToRound, TableFacts
<1>3. ASSUME NEW t \in S, t # l
      PROVE  /\ StepsTo(l, t) \in 1 .. PlayerCount
             /\ StepsTo(a, t) = StepsTo(l, t) - StepsTo(l, a) + PlayerCount
  <2>1. StepsTo(l, t) \in 1 .. PlayerCount
    BY StepsToType
  <2>2. StepsTo(l, t) < StepsTo(l, a) \/ t = a
    BY <1>3 DEF Between
  <2>3. ~(StepsTo(l, t) > StepsTo(l, a))
    BY <1>2, <2>1, <2>2
  <2>4. QED
    BY <2>1, <2>3, StepsToVia
<1>4. ASSUME NEW t \in S
      PROVE  StepsTo(a, m) <= StepsTo(a, t)
  <2>1. CASE l \in S
    <3>1. StepsTo(a, l) = PlayerCount - StepsTo(l, a)
      BY <1>2, StepsToVia, TableFacts
    <3>2. CASE t = l
      BY <2>1, <3>1, <3>2, <1>2, TableFacts
    <3>3. CASE t # l
      BY <2>1, <3>1, <3>3, <1>2, <1>3, TableFacts
    <3>4. QED
      BY <3>2, <3>3
  <2>2. CASE l \notin S
    <3>1. StepsTo(l, m) <= StepsTo(l, t)
      BY <2>2, NextAmongNearest
    <3>2. m # l /\ t # l
      BY <1>1, <2>2
    <3> HIDE DEF m
    <3>3. QED
      BY <3>1, <3>2, <1>1, <1>2, <1>3, TableFacts
  <2>3. QED
    BY <2>1, <2>2
<1>5. NextAmong(S, a) = m
  <2> HIDE DEF m
  <2> QED
    BY <1>1, <1>4, NextAmongUnique
<1>6. QED
  BY <1>5
-----------------------------------------------------------------------------
(* A finish order that places a seat not placed before places the others   *)
(* as it did, and still places each seat once.                             *)
LEMMA PlaceNext ==
  ASSUME NEW order \in Seq(Seats), IsInjective(order),
         NEW s \in Seats, s \notin Range(order)
  PROVE  /\ Append(order, s) \in Seq(Seats)
         /\ Len(Append(order, s)) = Len(order) + 1
         /\ IsInjective(Append(order, s))
         /\ Range(Append(order, s)) = Range(order) \cup {s}
<1> DEFINE longer == Append(order, s)
<1>1. /\ longer \in Seq(Seats)
      /\ Len(longer) = Len(order) + 1
      /\ DOMAIN order = 1 .. Len(order)
      /\ DOMAIN longer = 1 .. Len(order) + 1
      /\ Len(order) \in Nat
  OBVIOUS
<1>2. /\ \A i \in 1 .. Len(order) : longer[i] = order[i]
      /\ longer[Len(order) + 1] = s
  OBVIOUS
<1> HIDE DEF longer
<1>3. Range(longer) = Range(order) \cup {s}
  BY <1>1, <1>2 DEF Range
<1>4. IsInjective(longer)
  <2>1. ASSUME NEW i \in DOMAIN longer, NEW j \in DOMAIN longer,
               longer[i] = longer[j]
        PROVE  i = j
    <3>1. CASE i \in 1 .. Len(order) /\ j \in 1 .. Len(order)
      BY <1>1, <1>2, <2>1, <3>1 DEF IsInjective
    <3>2. CASE i \in 1 .. Len(order) /\ j = Len(order) + 1
      BY <1>1, <1>2, <2>1, <3>2 DEF Range
    <3>3. CASE i = Len(order) + 1 /\ j \in 1 .. Len(order)
      BY <1>1, <1>2, <2>1, <3>3 DEF Range
    <3>4. QED
      BY <1>1, <2>1, <3>1, <3>2, <3>3
  <2>2. QED
    BY <2>1 DEF IsInjective
<1>5. QED
  BY <1>1, <1>3, <1>4 DEF longer

(* A finish order without repetition is no longer than the table, and      *)
(* exactly that long when it places everybody.                             *)
LEMMA OrderLength ==
  ASSUME NEW order \in Seq(Seats), IsInjective(order)
  PROVE  /\ Len(order) <= PlayerCount
         /\ Range(order) = Seats => Len(order) = PlayerCount
<1>1. /\ Len(order) \in Nat
      /\ order \in [1 .. Len(order) -> Seats]
      /\ DOMAIN order = 1 .. Len(order)
  OBVIOUS
<1>2. order \in Injection(1 .. Len(order), Seats)
  BY <1>1 DEF Injection, IsInjective
<1>3. IsFiniteSet(1 .. Len(order)) /\ Cardinality(1 .. Len(order)) = Len(order)
  BY <1>1, FS_Interval
<1>4. Range(order) = Seats => order \in Surjection(1 .. Len(order), Seats)
  BY <1>1 DEF Range, Surjection
<1>5. /\ Cardinality(1 .. Len(order)) <= Cardinality(Seats)
      /\ order \in Surjection(1 .. Len(order), Seats)
           => Cardinality(1 .. Len(order)) = Cardinality(Seats)
  BY <1>2, SeatsFinite, FS_Injection
<1>6. QED
  BY <1>3, <1>4, <1>5, SeatsFinite

(* Fewer places than seats leave a seat unplaced; two fewer leave one      *)
(* besides any given seat.                                                 *)
LEMMA UnplacedSeats ==
  ASSUME NEW order \in Seq(Seats), Len(order) < PlayerCount - 1,
         NEW s \in Seats
  PROVE  \E t \in Seats \ Range(order) : t # s
<1> SUFFICES ASSUME Seats \subseteq Range(order) \cup {s}
             PROVE  FALSE
  OBVIOUS
<1>1. /\ Len(order) \in Nat
      /\ DOMAIN order = 1 .. Len(order)
      /\ Range(order) \subseteq Seats
  BY DEF Range
<1>2. order \in Surjection(1 .. Len(order), Range(order))
  BY <1>1 DEF Range, Surjection
<1>3. IsFiniteSet(1 .. Len(order)) /\ Cardinality(1 .. Len(order)) = Len(order)
  BY <1>1, FS_Interval
<1>4. IsFiniteSet(Range(order)) /\ Cardinality(Range(order)) <= Len(order)
  BY <1>2, <1>3, FS_Surjection
<1>5. Range(order) \cup {s} = Seats
  BY <1>1
<1>6. Cardinality(Seats) <= Cardinality(Range(order)) + 1
  <2>1. Cardinality(Range(order)) \in Nat
    BY <1>4, FS_CardinalityType
  <2>2. Cardinality(Range(order) \cup {s}) =
          IF s \in Range(order) THEN Cardinality(Range(order))
                                ELSE Cardinality(Range(order)) + 1
    <3> DEFINE R == Range(order)
    <3>1. IsFiniteSet(R)
      BY <1>4
    <3> HIDE DEF R
    <3>2. Cardinality(R \cup {s}) =
            IF s \in R THEN Cardinality(R) ELSE Cardinality(R) + 1
      BY <3>1, FS_AddElement
    <3>3. QED
      BY <3>2 DEF R
  <2>3. Cardinality(Seats) = Cardinality(Range(order) \cup {s})
    BY <1>5
  <2>4. QED
    BY <2>1, <2>2, <2>3
<1>7. Cardinality(Range(order)) \in Nat
  BY <1>4, FS_CardinalityType
<1>8. QED
  BY <1>1, <1>4, <1>6, <1>7, SeatsFinite, TableFacts

(* Settlement's completion of a finish order places every seat once and    *)
(* keeps the places already taken.                                         *)
LEMMA CompletionPlacesAll ==
  ASSUME NEW placed \in Seq(Seats), IsInjective(placed),
         NEW order \in Completions(placed)
  PROVE  /\ order \in Seq(Seats)
         /\ IsInjective(order)
         /\ Range(order) = Seats
         /\ Len(order) >= Len(placed)
         /\ \A i \in 1 .. Len(placed) : order[i] = placed[i]
<1> DEFINE S == Seats \ Range(placed)
<1>1. IsFiniteSet(S)
  BY SeatsFinite, FS_Difference
<1>2. PICK rest \in InSeatOrder(S) : order = placed \o rest
  BY DEF Completions
<1> DEFINE n == Cardinality(S)
<1>3. n \in Nat
  BY <1>1, FS_CardinalityType
<1>4. /\ rest \in [1 .. n -> S]
      /\ \A i, j \in 1 .. n : i < j => rest[i] < rest[j]
  BY <1>2 DEF InSeatOrder
<1> HIDE DEF n
<1>5. rest \in Seq(S) /\ Len(rest) = n /\ DOMAIN rest = 1 .. n
  BY <1>3, <1>4
<1>6. \A i, j \in 1 .. n : rest[i] = rest[j] => i = j
  <2> SUFFICES ASSUME NEW i \in 1 .. n, NEW j \in 1 .. n, rest[i] = rest[j]
               PROVE  i = j
    OBVIOUS
  <2>1. rest[i] \in Nat /\ rest[j] \in Nat
    BY <1>4, TableFacts
  <2>2. ~(i < j) /\ ~(j < i)
    BY <1>4, <2>1
  <2>3. QED
    BY <1>3, <2>2
<1>7. rest \in Surjection(1 .. n, S)
  <2>1. rest \in Injection(1 .. n, S)
    BY <1>4, <1>6 DEF Injection, IsInjective
  <2>2. IsFiniteSet(1 .. n) /\ Cardinality(1 .. n) = Cardinality(S)
    BY <1>3, FS_Interval DEF n
  <2> HIDE DEF S
  <2>3. QED
    BY <1>1, <2>1, <2>2, FS_Injection
<1>8. Range(rest) = S
  BY <1>5, <1>7 DEF Range, Surjection
<1>9. /\ Len(placed) \in Nat
      /\ DOMAIN placed = 1 .. Len(placed)
      /\ order \in Seq(Seats)
      /\ Len(order) = Len(placed) + n
      /\ DOMAIN order = 1 .. Len(placed) + n
      /\ \A i \in 1 .. Len(placed) : order[i] = placed[i]
      /\ \A i \in 1 .. n : order[Len(placed) + i] = rest[i]
  <2>1. rest \in Seq(Seats)
    BY <1>3, <1>4, <1>5
  <2>2. order = placed \o rest
    BY <1>2
  <2>3. /\ Len(placed) \in Nat
        /\ DOMAIN placed = 1 .. Len(placed)
    OBVIOUS
  <2>4. /\ order \in Seq(Seats)
        /\ Len(order) = Len(placed) + Len(rest)
        /\ \A i \in 1 .. Len(placed) + Len(rest) :
             order[i] = IF i <= Len(placed) THEN placed[i]
                                            ELSE rest[i - Len(placed)]
    BY <2>1, <2>2, ConcatProperties
  <2>5. DOMAIN order = 1 .. Len(order)
    BY <2>4
  <2>6. /\ \A i \in 1 .. Len(placed) : order[i] = placed[i]
        /\ \A i \in 1 .. n : order[Len(placed) + i] = rest[i]
    <3>1. Len(rest) = n
      BY <1>5
    <3>2. ASSUME NEW i \in 1 .. Len(placed) PROVE order[i] = placed[i]
      BY <1>3, <2>3, <2>4, <3>1
    <3>3. ASSUME NEW i \in 1 .. n PROVE order[Len(placed) + i] = rest[i]
      <4>1. /\ Len(placed) + i \in 1 .. Len(placed) + Len(rest)
            /\ ~(Len(placed) + i <= Len(placed))
            /\ Len(placed) + i - Len(placed) = i
        BY <1>3, <2>3, <3>1
      <4>2. order[Len(placed) + i] = rest[Len(placed) + i - Len(placed)]
        BY <2>4, <4>1
      <4>3. QED
        BY <4>1, <4>2
    <3>4. QED
      BY <3>2, <3>3
  <2>7. QED
    BY <1>5, <2>3, <2>4, <2>5, <2>6
<1>10. /\ \A i \in 1 .. Len(placed) : placed[i] \in Range(placed)
       /\ \A i \in 1 .. n : rest[i] \notin Range(placed)
  BY <1>4, <1>9 DEF Range
<1>11. Range(order) = Seats
  <2>1. Range(placed) \subseteq Range(order)
    BY <1>3, <1>9 DEF Range
  <2>2. Range(rest) \subseteq Range(order)
    <3>1. ASSUME NEW i \in 1 .. n PROVE rest[i] \in Range(order)
      <4>1. Len(placed) + i \in DOMAIN order
        BY <1>3, <1>9
      <4>2. QED
        BY <1>9, <4>1 DEF Range
    <3>2. QED
      BY <1>5, <3>1 DEF Range
  <2>3. Range(order) \subseteq Seats
    BY <1>9 DEF Range
  <2>4. QED
    BY <1>8, <2>1, <2>2, <2>3
<1>12. IsInjective(order)
  <2> SUFFICES ASSUME NEW i \in DOMAIN order, NEW j \in DOMAIN order,
                      order[i] = order[j]
               PROVE  i = j
    BY DEF IsInjective
  <2>1. CASE i <= Len(placed) /\ j <= Len(placed)
    <3>1. i \in 1 .. Len(placed) /\ j \in 1 .. Len(placed)
      BY <1>3, <1>9, <2>1
    <3>2. QED
      BY <1>9, <3>1 DEF IsInjective
  <2>2. CASE i <= Len(placed) /\ j > Len(placed)
    <3>1. i \in 1 .. Len(placed) /\ j - Len(placed) \in 1 .. n
      BY <1>3, <1>9, <2>2
    <3>2. order[i] = placed[i] /\ order[j] = rest[j - Len(placed)]
      BY <1>9, <3>1, <1>3
    <3>3. QED
      BY <1>10, <3>1, <3>2
  <2>3. CASE i > Len(placed) /\ j <= Len(placed)
    <3>1. j \in 1 .. Len(placed) /\ i - Len(placed) \in 1 .. n
      BY <1>3, <1>9, <2>3
    <3>2. order[j] = placed[j] /\ order[i] = rest[i - Len(placed)]
      BY <1>9, <3>1, <1>3
    <3>3. QED
      BY <1>10, <3>1, <3>2
  <2>4. CASE i > Len(placed) /\ j > Len(placed)
    <3>1. i - Len(placed) \in 1 .. n /\ j - Len(placed) \in 1 .. n
      BY <1>3, <1>9, <2>4
    <3>2. order[i] = rest[i - Len(placed)] /\ order[j] = rest[j - Len(placed)]
      BY <1>9, <3>1, <1>3
    <3>3. i - Len(placed) = j - Len(placed)
      BY <1>6, <3>1, <3>2
    <3>4. QED
      BY <1>9, <3>3
  <2>5. QED
    BY <1>3, <1>9, <2>1, <2>2, <2>3, <2>4
<1>13. QED
  BY <1>3, <1>9, <1>11, <1>12

(* A deal that is over stays over however its finish order is completed.   *)
LEMMA DealOverKept ==
  ASSUME NEW placed \in Seq(Seats), NEW order \in Seq(Seats),
         Len(order) >= Len(placed),
         \A i \in 1 .. Len(placed) : order[i] = placed[i],
         DealOver(placed)
  PROVE  DealOver(order)
<1>1. Len(placed) \in Nat /\ Len(order) \in Nat
  OBVIOUS
<1>2. CASE Len(placed) >= PlayerCount - 1
  BY <1>1, <1>2, TableFacts DEF DealOver
<1>3. CASE Swept(placed)
  <2>1. \A i \in 1 .. HalfTable : order[i] = placed[i]
    BY <1>1, <1>3, TableFacts DEF Swept
  <2>2. 1 \in 1 .. HalfTable
    BY TableFacts
  <2>3. Swept(order)
    BY <1>1, <1>3, <2>1, <2>2, TableFacts DEF Swept
  <2>4. QED
    BY <2>3 DEF DealOver
<1>4. QED
  BY <1>2, <1>3 DEF DealOver

(* A deal that is over only with its last place is completed to a finish   *)
(* order a match goes on from: after a sweep exactly half the places were  *)
(* taken, so the whole other half is in seat order.                        *)
LEMMA CompletionIsOutcome ==
  ASSUME NEW before \in Seq(Seats), ~DealOver(before),
         NEW placed \in Seq(Seats), DealOver(placed), IsInjective(placed),
         Len(placed) \in Len(before) .. Len(before) + 1,
         \A i \in 1 .. Len(before) : placed[i] = before[i],
         NEW order \in Completions(placed)
  PROVE  order \in Outcomes
<1>1. /\ order \in Seq(Seats) /\ IsInjective(order) /\ Range(order) = Seats
      /\ \A i \in 1 .. Len(placed) : order[i] = placed[i]
  BY CompletionPlacesAll
<1>2. Len(order) = PlayerCount
  BY <1>1, OrderLength
<1>3. order \in [1 .. PlayerCount -> Seats]
  BY <1>1, <1>2
<1>4. Len(before) \in Nat /\ Len(placed) \in Nat
  OBVIOUS
<1>5. ASSUME Swept(order),
             NEW i \in HalfTable + 1 .. PlayerCount,
             NEW j \in HalfTable + 1 .. PlayerCount, i < j
      PROVE  order[i] < order[j]
  <2>1. Len(placed) >= HalfTable
    BY <1>4, TableFacts DEF DealOver, Swept
  <2>2. Len(placed) = HalfTable
    <3> SUFFICES ASSUME Len(before) >= HalfTable PROVE FALSE
      BY <1>4, <2>1, TableFacts
    <3>1. \A m \in 1 .. HalfTable : order[m] = before[m]
      BY <1>1, <1>4, TableFacts
    <3>2. 1 \in 1 .. HalfTable
      BY TableFacts
    <3>3. Swept(before)
      BY <1>5, <3>1, <3>2 DEF Swept
    <3>4. QED
      BY <3>3 DEF DealOver
  <2> DEFINE S == Seats \ Range(placed)
             n == Cardinality(S)
  <2>3. PICK rest \in InSeatOrder(S) : order = placed \o rest
    BY DEF Completions
  <2>4. n \in Nat
    BY SeatsFinite, FS_Difference, FS_CardinalityType
  <2>5. /\ rest \in [1 .. n -> S]
        /\ \A a, b \in 1 .. n : a < b => rest[a] < rest[b]
    BY <2>3 DEF InSeatOrder
  <2> HIDE DEF n
  <2>6. rest \in Seq(Seats) /\ Len(rest) = n
    BY <2>4, <2>5
  <2>7. /\ Len(order) = Len(placed) + n
        /\ \A m \in 1 .. Len(placed) + n :
             m > Len(placed) => order[m] = rest[m - Len(placed)]
    <3>1. order = placed \o rest
      BY <2>3
    <3>2. /\ Len(order) = Len(placed) + Len(rest)
          /\ \A m \in 1 .. Len(placed) + Len(rest) :
               order[m] = IF m <= Len(placed) THEN placed[m]
                                              ELSE rest[m - Len(placed)]
      BY <2>6, <3>1, ConcatProperties
    <3>3. Len(rest) = n
      BY <2>6
    <3>4. ASSUME NEW m \in 1 .. Len(placed) + n, m > Len(placed)
          PROVE  order[m] = rest[m - Len(placed)]
      BY <1>4, <2>4, <3>2, <3>3, <3>4
    <3>5. QED
      BY <3>2, <3>3, <3>4
  <2>8. /\ i - HalfTable \in 1 .. n /\ j - HalfTable \in 1 .. n
        /\ i - HalfTable < j - HalfTable
    BY <1>2, <1>5, <2>2, <2>4, <2>7, TableFacts
  <2>9. /\ i \in 1 .. HalfTable + n /\ i > HalfTable
        /\ j \in 1 .. HalfTable + n /\ j > HalfTable
    BY <1>5, <2>4, <2>8, TableFacts
  <2>10. order[i] = rest[i - HalfTable] /\ order[j] = rest[j - HalfTable]
    BY <2>2, <2>7, <2>9
  <2>11. QED
    BY <2>5, <2>8, <2>10
<1>6. QED
  BY <1>1, <1>3, <1>5 DEF Outcomes

(* The steps granted for a complete finish order are one, two or three:    *)
(* the partner of a four-seat winner does hold one of the later places.    *)
LEMMA PromotionStepsType ==
  ASSUME NEW order \in Seq(Seats), IsInjective(order), Range(order) = Seats
  PROVE  PromotionSteps(order) \in 1 .. 3
<1>1. CASE PlayerCount # 4
  BY <1>1 DEF PromotionSteps
<1>2. CASE PlayerCount = 4
  <2>1. Len(order) = 4 /\ DOMAIN order = 1 .. 4
    BY <1>2, OrderLength
  <2>2. order[1] \in 0 .. 3
    BY <1>2, <2>1 DEF Seats
  <2>3. (order[1] + 2) % PlayerCount \in Seats \ {order[1]}
    BY <1>2, <2>2 DEF Seats
  <2>4. PICK i \in 1 .. 4 : order[i] = (order[1] + 2) % PlayerCount
    BY <2>1, <2>3 DEF Range
  <2>5. i \in 2 .. 4
    BY <2>3, <2>4
  <2> DEFINE place == CHOOSE i1 \in 2 .. 4 :
                        order[i1] = (order[1] + 2) % PlayerCount
  <2>6. place \in 2 .. 4
    BY <2>4, <2>5
  <2>7. PromotionSteps(order) = 5 - place
    BY <1>2 DEF PromotionSteps
  <2> HIDE DEF place
  <2>8. QED
    BY <2>6, <2>7
<1>3. QED
  BY <1>1, <1>2

(* An outcome places every seat.                                           *)
LEMMA OutcomePlacesAll ==
  ASSUME NEW order \in Outcomes
  PROVE  /\ order \in Seq(Seats) /\ IsInjective(order)
         /\ Range(order) = Seats
<1>1. order \in [1 .. PlayerCount -> Seats] /\ IsInjective(order)
  BY DEF Outcomes
<1>2. order \in Injection(1 .. PlayerCount, Seats)
  BY <1>1 DEF Injection, IsInjective
<1>3. /\ IsFiniteSet(1 .. PlayerCount)
      /\ Cardinality(1 .. PlayerCount) = Cardinality(Seats)
  BY TableFacts, SeatsFinite, FS_Interval
<1>4. order \in Surjection(1 .. PlayerCount, Seats)
  BY <1>2, <1>3, SeatsFinite, FS_Injection
<1>5. Range(order) = Seats
  BY <1>1, <1>4 DEF Range, Surjection
<1>6. QED
  BY <1>1, <1>5, TableFacts

(* At a table of four the core crate's reading of an order without its     *)
(* last place (the first later place of the winner's team) is settlement's *)
(* reading of the whole order (the place of the seat opposite).            *)
LEMMA PromotionAgrees ==
  ASSUME PlayerCount = 4,
         NEW order \in Seq(Seats), IsInjective(order), Range(order) = Seats
  PROVE  CorePromotionSteps(SubSeq(order, 1, 3)) = PromotionSteps(order)
<1> DEFINE short   == SubSeq(order, 1, 3)
           partner == (order[1] + 2) % PlayerCount
           last    == CHOOSE s \in Seats : s \notin Range(short)
           seatAt(i) == IF i <= Len(short) THEN short[i] ELSE last
           mates   == {i \in 2 .. 4 : TeamOf(seatAt(i)) = TeamOf(short[1])}
<1>1. /\ Len(order) = 4 /\ DOMAIN order = 1 .. 4 /\ Seats = 0 .. 3
      /\ order \in [1 .. 4 -> 0 .. 3]
  <2>1. Len(order) = 4
    BY OrderLength
  <2>2. Seats = 0 .. 3
    BY DEF Seats
  <2>3. /\ DOMAIN order = 1 .. Len(order)
        /\ order \in [1 .. Len(order) -> Seats]
    OBVIOUS
  <2>4. QED
    BY <2>1, <2>2, <2>3
<1>2. short \in Seq(Seats) /\ Len(short) = 3 /\ DOMAIN short = 1 .. 3
      /\ \A i \in 1 .. 3 : short[i] = order[i]
  BY <1>1, SubSeqProperties
<1>3. \A i, j \in 1 .. 4 : order[i] = order[j] => i = j
  BY <1>1 DEF IsInjective
<1>4. last = order[4]
  <2>1. order[4] \in Seats /\ order[4] \notin Range(short)
    BY <1>1, <1>2, <1>3 DEF Range
  <2>2. \A s \in Seats : s \notin Range(short) => s = order[4]
    <3> SUFFICES ASSUME NEW s \in Seats, s \notin Range(short)
                 PROVE  s = order[4]
      OBVIOUS
    <3>1. PICK i \in 1 .. 4 : s = order[i]
      BY <1>1 DEF Range
    <3>2. i \notin 1 .. 3
      BY <1>2, <3>1 DEF Range
    <3>3. QED
      BY <3>1, <3>2
  <2> HIDE DEF short
  <2>3. QED
    BY <2>1, <2>2
<1>5. \A i \in 1 .. 4 : seatAt(i) = order[i]
  <2> SUFFICES ASSUME NEW i \in 1 .. 4 PROVE seatAt(i) = order[i]
    OBVIOUS
  <2> HIDE DEF short, last
  <2>1. CASE i <= 3
    BY <1>2, <2>1
  <2>2. CASE i = 4
    BY <1>2, <1>4, <2>2
  <2>3. QED
    BY <2>1, <2>2
<1>6. /\ partner \in 0 .. 3
      /\ \A s \in 0 .. 3 : s # order[1] =>
           (s % 2 = order[1] % 2 <=> s = partner)
  <2>1. order[1] \in 0 .. 3
    BY <1>1
  <2>2. PlayerCount = 4
    OBVIOUS
  <2>3. QED
    BY <2>1, <2>2
<1>7. \A i \in 2 .. 4 : i \in mates <=> order[i] = partner
  <2> SUFFICES ASSUME NEW i \in 2 .. 4
               PROVE  i \in mates <=> order[i] = partner
    OBVIOUS
  <2>1. order[i] \in 0 .. 3 /\ order[i] # order[1]
    BY <1>1, <1>3
  <2> HIDE DEF partner, short, seatAt
  <2>2. short[1] = order[1] /\ seatAt(i) = order[i]
    BY <1>2, <1>5
  <2>3. i \in mates <=> TeamOf(order[i]) = TeamOf(order[1])
    BY <2>2
  <2>4. QED
    BY <1>6, <2>1, <2>3 DEF TeamOf
<1>8. PICK m \in 2 .. 4 : order[m] = partner
  <2>1. order[1] # partner
    <3>1. order[1] \in 0 .. 3 /\ PlayerCount = 4
      BY <1>1
    <3>2. QED
      BY <3>1
  <2> HIDE DEF partner
  <2>2. PICK i \in 1 .. 4 : order[i] = partner
    BY <1>1, <1>6 DEF Range
  <2>3. QED
    BY <2>1, <2>2
<1>9. mates = {m}
  <2>1. mates \subseteq 2 .. 4
    OBVIOUS
  <2> HIDE DEF mates, partner
  <2>2. \A i \in mates : i = m
    BY <1>3, <1>7, <1>8, <2>1
  <2>3. m \in mates
    BY <1>7, <1>8
  <2>4. QED
    BY <2>2, <2>3
<1>10. CorePromotionSteps(short) =
         5 - (CHOOSE i \in mates : \A j \in mates : i <= j)
  BY DEF CorePromotionSteps
<1>11. PromotionSteps(order) = 5 - (CHOOSE i \in 2 .. 4 : order[i] = partner)
  BY DEF PromotionSteps
<1> HIDE DEF mates, partner, short
<1>12. (CHOOSE i \in mates : \A j \in mates : i <= j) = m
  BY <1>8, <1>9
<1>13. (CHOOSE i \in 2 .. 4 : order[i] = partner) = m
  BY <1>3, <1>8
<1>14. CorePromotionSteps(short) = PromotionSteps(order)
  BY <1>10, <1>11, <1>12, <1>13
<1>15. QED
  BY <1>14 DEF short

-----------------------------------------------------------------------------
(* The deal.                                                               *)

(* A robot loop that still holds the lock has a robot on turn.             *)
RobotOnTurn == robotTurns > 0 => phase = "play" /\ turn \in Robots

(* What the moves keep, whoever makes them.                                *)
Core ==
  /\ TypeOK
  /\ TurnHasCards
  /\ PassesCountTheSilent
  /\ FinishOrderExact

(* The inductive invariant.                                                *)
IInv == Core /\ RobotOnTurn

(* The part of the turn order that an action of a deal keeps.              *)
GoesRound == phase' = "play" => turn' = NextAmong(Active', turn)

-----------------------------------------------------------------------------
(* The constants, in the form the proofs use.                              *)
LEMMA ConstantFacts ==
  /\ HandSize \in Nat /\ HandSize >= 1
  /\ NoSeat \notin Seats
  /\ Robots \subseteq Seats
BY HandSizeAssumption, NoSeatAssumption, RobotsAssumption

(* The seats that hold cards.                                              *)
LEMMA ActiveFacts ==
  ASSUME TypeOK
  PROVE  /\ Active \in SUBSET Seats
         /\ IsFiniteSet(Active)
         /\ \A l : /\ IsFiniteSet(Active \ {l})
                   /\ Cardinality(Active \ {l}) \in 0 .. PlayerCount
<1>1. Active \in SUBSET Seats
  BY DEF Active
<1>2. IsFiniteSet(Active)
  BY <1>1, SeatsFinite, FS_Subset
<1>3. ASSUME NEW l
      PROVE  /\ IsFiniteSet(Active \ {l})
             /\ Cardinality(Active \ {l}) \in 0 .. PlayerCount
  <2>1. Active \ {l} \in SUBSET Seats
    BY <1>1
  <2>2. /\ IsFiniteSet(Active \ {l})
        /\ Cardinality(Active \ {l}) <= PlayerCount
    BY <2>1, SeatsFinite, FS_Subset
  <2>3. Cardinality(Active \ {l}) \in Nat
    BY <2>2, FS_CardinalityType
  <2>4. QED
    BY <2>2, <2>3, TableFacts
<1>4. QED
  BY <1>1, <1>2, <1>3

(* The initial states satisfy the invariant.                               *)
LEMMA InitIInv == Init => IInv
<1> SUFFICES ASSUME Init PROVE IInv
  OBVIOUS
<1>1. /\ 0 \in 0 .. HandSize /\ HandSize \in 0 .. HandSize /\ HandSize > 0
      /\ PlayerCount \in 0 .. PlayerCount /\ 0 \in 0 .. PlayerCount
  BY ConstantFacts, TableFacts
<1>2. TypeOK
  BY <1>1 DEF Init, TypeOK
<1>3. TurnHasCards /\ PassesCountTheSilent
  BY <1>1 DEF Init, TurnHasCards, PassesCountTheSilent
<1>4. FinishOrderExact
  <2>1. Active = Seats
    BY <1>1 DEF Init, Active
  <2>2. finishOrder = <<>> /\ Len(finishOrder) = 0 /\ DOMAIN finishOrder = {}
    BY DEF Init
  <2>3. IsInjective(finishOrder) /\ Range(finishOrder) = {}
    BY <2>2 DEF IsInjective, Range
  <2>4. ~DealOver(finishOrder)
    BY <2>2, TableFacts DEF DealOver, Swept
  <2>5. QED
    BY <2>1, <2>3, <2>4 DEF FinishOrderExact, Init
<1>5. RobotOnTurn
  BY TableFacts DEF Init, RobotOnTurn
<1>6. QED
  BY <1>2, <1>3, <1>4, <1>5 DEF IInv, Core
-----------------------------------------------------------------------------
(* A play that does not end the deal.                                      *)
LEMMA LayCardsGoesOn ==
  ASSUME Core, phase = "play", turn \in Seats,
         NEW k \in 1 .. hand[turn],
         LayCards(turn, k), phase' = "play",
         robotTurns' \in 0 .. PlayerCount, aceTeams' = aceTeams
  PROVE  Core' /\ GoesRound
<1> DEFINE left   == [hand EXCEPT ![turn] = @ - k]
           placed == IF left[turn] = 0 /\ turn \notin Range(finishOrder)
                     THEN Append(finishOrder, turn) ELSE finishOrder
<1>1. /\ passes' = 0
      /\ ~DealOver(placed)
      /\ hand' = left
      /\ finishOrder' = placed
      /\ lastPlayer' = turn
      /\ turn' = NextAmong({t \in Seats : left[t] > 0}, turn)
      /\ UNCHANGED <<lastTrickWinner, promotion, phase>>
  BY DEF LayCards, Settle, EndMatch, EndRound
<1>2. /\ hand[turn] \in 1 .. HandSize
      /\ hand \in [Seats -> 0 .. HandSize]
      /\ hand[turn] - k \in 0 .. HandSize
      /\ left \in [Seats -> 0 .. HandSize]
      /\ left[turn] = hand[turn] - k
      /\ \A t \in Seats \ {turn} : left[t] = hand[t]
  BY ConstantFacts DEF Core, TypeOK, TurnHasCards
<1>3. Active' = {t \in Seats : left[t] > 0}
  BY <1>1 DEF Active
<1>4. /\ turn \in Active /\ turn \notin Range(finishOrder)
      /\ Active' = IF left[turn] = 0 THEN Active \ {turn} ELSE Active
  BY <1>2, <1>3 DEF Active, Core, FinishOrderExact
<1> HIDE DEF left
<1>5. /\ placed \in Seq(Seats)
      /\ IsInjective(placed)
      /\ Range(placed) = Seats \ Active'
  <2>1. /\ finishOrder \in Seq(Seats) /\ IsInjective(finishOrder)
        /\ Range(finishOrder) = Seats \ Active
    BY DEF Core, TypeOK, FinishOrderExact
  <2>2. CASE left[turn] = 0
    <3>1. placed = Append(finishOrder, turn)
      BY <1>4, <2>2
    <3> HIDE DEF placed
    <3>2. QED
      BY <1>4, <2>1, <2>2, <3>1, PlaceNext
  <2>3. CASE left[turn] # 0
    BY <1>4, <2>1, <2>3
  <2>4. QED
    BY <2>2, <2>3
<1> HIDE DEF placed
<1>6. FinishOrderExact'
  BY <1>1, <1>5 DEF FinishOrderExact
<1>7. Active' \in SUBSET Seats /\ \E t \in Active' : t # turn
  <2>1. Len(placed) \in Nat /\ Len(placed) < PlayerCount - 1
    BY <1>1, <1>5, TableFacts DEF DealOver
  <2>2. \E t \in Seats \ Range(placed) : t # turn
    BY <1>5, <2>1, UnplacedSeats
  <2>3. QED
    BY <1>3, <1>5, <2>2
<1>8. /\ turn' = NextAmong(Active', turn)
      /\ turn' \in Active' /\ turn' # turn
      /\ Between(Active', turn, turn') = {}
  BY <1>1, <1>3, <1>7, NextAmongNearest, NextAmongMoves, BetweenNext
<1>9. TypeOK'
  <2>1. 0 \in 0 .. PlayerCount
    BY TableFacts
  <2>2. QED
    BY <1>1, <1>2, <1>5, <1>7, <1>8, <2>1 DEF Core, TypeOK
<1>10. TurnHasCards'
  BY <1>8 DEF TurnHasCards, Active
<1>11. PassesCountTheSilent'
  BY <1>1, <1>8, ConstantFacts, FS_EmptySet DEF PassesCountTheSilent
<1>12. QED
  BY <1>6, <1>8, <1>9, <1>10, <1>11 DEF Core, GoesRound

(* A play that ends the deal.                                              *)
LEMMA LayCardsSettles ==
  ASSUME Core, phase = "play", turn \in Seats,
         NEW k \in 1 .. hand[turn],
         LayCards(turn, k), phase' # "play",
         robotTurns' \in 0 .. PlayerCount, aceTeams' = aceTeams
  PROVE  Core' /\ GoesRound
<1> DEFINE left   == [hand EXCEPT ![turn] = @ - k]
           placed == IF left[turn] = 0 /\ turn \notin Range(finishOrder)
                     THEN Append(finishOrder, turn) ELSE finishOrder
<1>1. passes' = 0 /\ DealOver(placed) /\ Settle(turn, placed)
  BY DEF LayCards
<1>2. placed \in Seq(Seats) /\ IsInjective(placed)
  BY PlaceNext DEF Core, TypeOK, FinishOrderExact
<1> HIDE DEF placed
<1>3. PICK order \in Completions(placed) :
        /\ finishOrder' = order
        /\ hand' = [t \in Seats |-> 0]
        /\ promotion' = PromotionSteps(order)
        /\ EndMatch(turn, order) \/ EndRound(order)
  BY <1>1 DEF Settle
<1>4. /\ order \in Seq(Seats) /\ IsInjective(order) /\ Range(order) = Seats
      /\ Len(order) >= Len(placed)
      /\ \A i \in 1 .. Len(placed) : order[i] = placed[i]
  BY <1>2, CompletionPlacesAll
<1>5. DealOver(order)
  BY <1>1, <1>2, <1>4, DealOverKept
<1>6. FinishOrderExact'
  <2>1. Active' = {}
    BY <1>3 DEF Active
  <2>2. QED
    BY <1>3, <1>4, <1>5, <2>1 DEF FinishOrderExact
<1>7. TypeOK'
  <2>1. order[1] \in Seats
    <3>1. Len(order) = PlayerCount
      BY <1>4, OrderLength
    <3>2. 1 \in 1 .. Len(order)
      BY <3>1, TableFacts
    <3>3. QED
      BY <1>4, <3>2
  <2>2. PromotionSteps(order) \in 0 .. 3
    BY <1>4, PromotionStepsType
  <2>3. /\ turn' \in Seats
        /\ lastPlayer' \in Seats \cup {NoSeat}
        /\ lastTrickWinner' \in Seats \cup {NoSeat}
        /\ phase' \in {"play", "awaitingShuffle", "matchOver"}
    BY <1>3, <2>1 DEF EndMatch, EndRound, Core, TypeOK
  <2>4. hand' \in [Seats -> 0 .. HandSize] /\ passes' \in 0 .. PlayerCount
    BY <1>1, <1>3, ConstantFacts, TableFacts
  <2>5. QED
    BY <1>3, <1>4, <2>2, <2>3, <2>4 DEF Core, TypeOK
<1>8. TurnHasCards' /\ PassesCountTheSilent' /\ GoesRound
  BY DEF TurnHasCards, PassesCountTheSilent, GoesRound
<1>9. QED
  BY <1>6, <1>7, <1>8 DEF Core

(* On an open trick: who was met since the last player, and the seat on    *)
(* turn, who is about to be.                                               *)
LEMMA MetFacts ==
  ASSUME Core, phase = "play", PassOnTrick,
         NEW met, met = Between(Active, lastPlayer, turn)
  PROVE  /\ lastPlayer \in Seats /\ turn \in Active /\ turn # lastPlayer
         /\ Active \in SUBSET Seats
         /\ Active' = Active /\ phase' = "play"
         /\ met \cup {turn} \subseteq Active \ {lastPlayer}
         /\ Cardinality(met \cup {turn}) = passes + 1
         /\ passes \in Nat
         /\ IsFiniteSet(Active \ {lastPlayer})
         /\ RequiredPasses = Cardinality(Active \ {lastPlayer})
         /\ RequiredPasses \in 0 .. PlayerCount
<1>1. /\ lastPlayer \in Seats /\ turn \in Active /\ turn # lastPlayer
      /\ passes = Cardinality(met)
      /\ Active \in SUBSET Seats
      /\ Active' = Active /\ phase' = "play"
  BY ActiveFacts DEF PassOnTrick, Core, TypeOK, TurnHasCards,
     PassesCountTheSilent, Active
<1>2. met \cup {turn} \subseteq Active \ {lastPlayer}
  <2>1. ASSUME NEW s \in met PROVE s \in Active \ {lastPlayer}
    BY <1>1, StepsToRound, StepsToType, TableFacts DEF Between
  <2>2. QED
    BY <1>1, <2>1
<1>3. Cardinality(met \cup {turn}) = passes + 1 /\ passes \in Nat
  <2>1. IsFiniteSet(met)
    <3>1. met \in SUBSET Active
      BY <1>2
    <3>2. QED
      BY <3>1, ActiveFacts, FS_Subset DEF Core
  <2>2. turn \notin met
    BY StepsToType, <1>1 DEF Between
  <2>3. passes \in Nat
    BY <1>1, <2>1, FS_CardinalityType
  <2>4. QED
    BY <1>1, <2>1, <2>2, <2>3, FS_AddElement
<1>4. /\ IsFiniteSet(Active \ {lastPlayer})
      /\ Cardinality(Active \ {lastPlayer}) \in 0 .. PlayerCount
      /\ RequiredPasses = Cardinality(Active \ {lastPlayer})
  BY ActiveFacts DEF Core, RequiredPasses
<1>5. QED
  BY <1>1, <1>2, <1>3, <1>4

(* A pass that keeps the trick open: somebody besides the last player is   *)
(* still to be met, and the turn goes there.                               *)
LEMMA KeepTrickWalk ==
  ASSUME Core, phase = "play", PassOnTrick, KeepTrick,
         NEW met, met = Between(Active, lastPlayer, turn)
  PROVE  /\ turn' \in Active /\ turn' # lastPlayer
         /\ Between(Active, lastPlayer, turn') = met \cup {turn}
         /\ ~(Active \ {lastPlayer} \subseteq met \cup {turn})
<1> DEFINE l == lastPlayer
           n == NextAmong(Active, turn)
<1>1. /\ l \in Seats /\ turn \in Active /\ turn # l
      /\ Active \in SUBSET Seats
      /\ met \cup {turn} \subseteq Active \ {l}
  BY MetFacts
<1>2. ~(Active \ {l} \subseteq met \cup {turn})
  <2>1. /\ Cardinality(met \cup {turn}) = passes + 1 /\ passes \in Nat
        /\ RequiredPasses = Cardinality(Active \ {l})
        /\ RequiredPasses \in 0 .. PlayerCount
    BY MetFacts
  <2>2. passes + 1 < RequiredPasses
    BY DEF KeepTrick
  <2> HIDE DEF l
  <2>3. Cardinality(met \cup {turn}) # Cardinality(Active \ {l})
    BY <2>1, <2>2
  <2>4. QED
    BY <1>1, <2>3
<1>3. n \in Active
  BY <1>1, NextAmongNearest
<1>4. StepsTo(l, n) > StepsTo(l, turn)
  <2>1. StepsTo(l, n) <= StepsTo(l, turn)
          => Active \ {l} \subseteq met \cup {turn}
    BY <1>1, BetweenWraps
  <2>2. StepsTo(l, n) \in Int /\ StepsTo(l, turn) \in Int
    BY <1>1, <1>3, StepsToType
  <2> HIDE DEF n, l
  <2>3. QED
    BY <1>2, <2>1, <2>2
<1>5. Between(Active, l, n) = met \cup {turn}
  BY <1>1, <1>4, BetweenGrows
<1>6. n # l
  <2> SUFFICES ASSUME n = l PROVE FALSE
    OBVIOUS
  <2>1. ASSUME NEW s \in Active \ {l} PROVE s \in Between(Active, l, l)
    BY <1>1, StepsToRound, StepsToType, TableFacts DEF Between
  <2>2. Active \ {l} \subseteq met \cup {turn}
    BY <1>5, <2>1
  <2>3. QED
    BY <1>2, <2>2
<1>7. turn' = n
  BY DEF KeepTrick
<1>8. QED
  BY <1>2, <1>3, <1>5, <1>6, <1>7

(* A pass that closes the trick: everybody but the last player was met, so *)
(* the lead is at the next seat round the table.                           *)
LEMMA CloseTrickWalk ==
  ASSUME Core, phase = "play", PassOnTrick, CloseTrick,
         NEW met, met = Between(Active, lastPlayer, turn)
  PROVE  /\ Active \ {lastPlayer} = met \cup {turn}
         /\ turn' \in Active
         /\ turn' = NextAmong(Active, turn)
<1> DEFINE l == lastPlayer
<1>1. /\ l \in Seats /\ turn \in Active /\ turn # l
      /\ Active \in SUBSET Seats
      /\ met \cup {turn} \subseteq Active \ {l}
  BY MetFacts
<1>2. Active \ {l} = met \cup {turn}
  <2> DEFINE big == Active \ {l}
             small == met \cup {turn}
  <2>1. small \in SUBSET big /\ IsFiniteSet(big)
    BY MetFacts
  <2>2. /\ Cardinality(small) = passes + 1 /\ passes \in Nat
        /\ Cardinality(big) \in Nat
        /\ passes + 1 >= Cardinality(big)
    BY MetFacts DEF CloseTrick
  <2> HIDE DEF big, small
  <2>3. Cardinality(small) <= Cardinality(big)
    BY <2>1, FS_Subset
  <2>4. Cardinality(big) = Cardinality(small)
    BY <2>2, <2>3
  <2>5. big = small
    BY <2>1, <2>4, FS_Subset
  <2>6. QED
    BY <2>5 DEF big, small
<1>3. NextAmong(Active, turn) = IF l \in Active THEN l
                                ELSE NextAmong(Active, l)
  BY <1>1, <1>2, NextAfterRound
<1>4. NextAmong(Active, turn) \in Active
  BY <1>1, NextAmongNearest
<1>5. turn' = NextAmong(Active, turn)
  BY <1>3 DEF CloseTrick
<1>6. QED
  BY <1>2, <1>4, <1>5

(* A pass on an open trick.                                                *)
LEMMA PassOnTrickCorrect ==
  ASSUME Core, phase = "play", PassOnTrick,
         robotTurns' \in 0 .. PlayerCount, aceTeams' = aceTeams
  PROVE  Core' /\ GoesRound /\ phase' = "play"
<1> DEFINE met == Between(Active, lastPlayer, turn)
<1>1. /\ Active' = Active /\ phase' = "play"
      /\ lastPlayer \in Seats /\ Active \in SUBSET Seats
      /\ Cardinality(met \cup {turn}) = passes + 1
      /\ passes \in Nat
      /\ RequiredPasses \in 0 .. PlayerCount
  BY MetFacts
<1>2. FinishOrderExact'
  BY <1>1 DEF PassOnTrick, Core, FinishOrderExact
<1>3. CASE KeepTrick
  <2>1. /\ turn' \in Active /\ turn' # lastPlayer
        /\ Between(Active, lastPlayer, turn') = met \cup {turn}
    BY <1>3, KeepTrickWalk
  <2>2. /\ passes' = passes + 1 /\ turn' = NextAmong(Active, turn)
        /\ lastPlayer' = lastPlayer /\ lastTrickWinner' = lastTrickWinner
        /\ passes + 1 < RequiredPasses
    BY <1>3 DEF KeepTrick
  <2>3. passes' \in 0 .. PlayerCount
    BY <1>1, <2>2, TableFacts
  <2>4. TypeOK'
    BY <1>1, <2>1, <2>2, <2>3 DEF Core, TypeOK, PassOnTrick
  <2>5. TurnHasCards'
    BY <1>1, <2>1 DEF TurnHasCards, Active
  <2>6. PassesCountTheSilent'
    BY <1>1, <2>1, <2>2, ConstantFacts DEF PassesCountTheSilent
  <2>7. GoesRound
    BY <1>1, <2>2 DEF GoesRound
  <2>8. QED
    BY <1>1, <1>2, <2>4, <2>5, <2>6, <2>7 DEF Core
<1>4. CASE CloseTrick
  <2>1. turn' \in Active /\ turn' = NextAmong(Active, turn)
    BY <1>4, CloseTrickWalk
  <2>2. /\ passes' = 0 /\ lastPlayer' = NoSeat
        /\ lastTrickWinner' = lastPlayer
        /\ 0 \in 0 .. PlayerCount
    BY <1>4, TableFacts DEF CloseTrick
  <2>3. TypeOK'
    BY <1>1, <2>1, <2>2 DEF Core, TypeOK, PassOnTrick
  <2>4. TurnHasCards'
    BY <1>1, <2>1 DEF TurnHasCards, Active
  <2>5. PassesCountTheSilent' /\ GoesRound
    BY <1>1, <2>1, <2>2 DEF PassesCountTheSilent, GoesRound
  <2>6. QED
    BY <1>1, <1>2, <2>3, <2>4, <2>5 DEF Core
<1>5. QED
  BY <1>3, <1>4 DEF PassOnTrick

(* A lead declined on an empty table.                                      *)
LEMMA DeclineLeadCorrect ==
  ASSUME Core, NEW s \in Seats, DeclineLead(s),
         robotTurns' \in 0 .. PlayerCount
  PROVE  Core' /\ GoesRound
<1>1. /\ phase = "play" /\ phase' = "play" /\ lastPlayer = NoSeat
      /\ UNCHANGED <<hand, lastPlayer, passes, lastTrickWinner, finishOrder,
                     aceTeams, promotion>>
      /\ turn' = NextAmong(Active, turn) /\ Active' = Active
  BY DEF DeclineLead, MayAct, Active
<1>2. turn \in Active /\ Active \in SUBSET Seats
  BY <1>1, ActiveFacts DEF Core, TypeOK, TurnHasCards, Active
<1>3. turn' \in Active
  BY <1>1, <1>2, NextAmongNearest
<1>4. TypeOK'
  BY <1>1, <1>2, <1>3 DEF Core, TypeOK
<1>5. TurnHasCards' /\ PassesCountTheSilent' /\ GoesRound
  BY <1>1, <1>3
     DEF Core, TurnHasCards, PassesCountTheSilent, GoesRound, Active
<1>6. FinishOrderExact'
  BY <1>1 DEF Core, FinishOrderExact
<1>7. QED
  BY <1>4, <1>5, <1>6 DEF Core

-----------------------------------------------------------------------------
(* The robot loop is left idle or with a robot on turn.                    *)
LEMMA LoopKeepsTurn ==
  ASSUME NEW k \in 0 .. PlayerCount, robotTurns' = RobotLoop(k)
  PROVE  robotTurns' \in 0 .. PlayerCount /\ RobotOnTurn'
BY TableFacts DEF RobotLoop, RobotOnTurn

(* Every step keeps the invariant, and moves the turn to the next seat     *)
(* with cards as long as the deal goes on.                                 *)
LEMMA NextKeepsIInv ==
  ASSUME IInv, Next
  PROVE  IInv' /\ GoesRound
<1>1. PlayerCount \in 0 .. PlayerCount
  BY TableFacts
<1>2. ASSUME phase = "play", turn \in Seats, aceTeams' = aceTeams,
             NEW k \in 1 .. hand[turn], LayCards(turn, k),
             robotTurns' \in 0 .. PlayerCount
      PROVE  Core' /\ GoesRound
  BY <1>2, LayCardsGoesOn, LayCardsSettles DEF IInv
<1>3. ASSUME NEW s \in Seats, Play(s) PROVE IInv' /\ GoesRound
  <2>1. /\ turn = s /\ phase = "play" /\ aceTeams' = aceTeams
        /\ robotTurns' = RobotLoop(PlayerCount)
    BY <1>3 DEF Play, MayAct
  <2>2. PICK k \in 1 .. hand[turn] : LayCards(turn, k)
    BY <1>3, <2>1 DEF Play
  <2>3. robotTurns' \in 0 .. PlayerCount /\ RobotOnTurn'
    BY <1>1, <2>1, LoopKeepsTurn
  <2>4. QED
    BY <1>2, <2>1, <2>2, <2>3 DEF IInv
<1>4. ASSUME NEW s \in Seats, Pass(s) PROVE IInv' /\ GoesRound
  <2>1. /\ phase = "play" /\ aceTeams' = aceTeams /\ PassOnTrick
        /\ robotTurns' = RobotLoop(PlayerCount)
    BY <1>4 DEF Pass, MayAct
  <2>2. robotTurns' \in 0 .. PlayerCount /\ RobotOnTurn'
    BY <1>1, <2>1, LoopKeepsTurn
  <2>3. QED
    BY <2>1, <2>2, PassOnTrickCorrect DEF IInv
<1>5. ASSUME NEW s \in Seats, DeclineLead(s) PROVE IInv' /\ GoesRound
  <2>1. robotTurns' = RobotLoop(PlayerCount)
    BY <1>5 DEF DeclineLead
  <2>2. robotTurns' \in 0 .. PlayerCount /\ RobotOnTurn'
    BY <1>1, <2>1, LoopKeepsTurn
  <2>3. QED
    BY <1>5, <2>2, DeclineLeadCorrect DEF IInv
<1>6. ASSUME RobotTurn PROVE IInv' /\ GoesRound
  <2>1. /\ robotTurns \in 1 .. PlayerCount
        /\ phase = "play" /\ turn \in Seats /\ aceTeams' = aceTeams
    BY <1>6, TableFacts
       DEF RobotTurn, IInv, Core, TypeOK, RobotOnTurn
  <2>2. robotTurns' \in 0 .. PlayerCount /\ RobotOnTurn'
    <3>1. robotTurns - 1 \in 0 .. PlayerCount
      BY <2>1, TableFacts
    <3>2. robotTurns' = RobotLoop(robotTurns - 1)
      BY <1>6 DEF RobotTurn
    <3>3. QED
      BY <3>1, <3>2, LoopKeepsTurn
  <2>3. CASE \E k \in 1 .. hand[turn] : LayCards(turn, k)
    BY <1>2, <2>1, <2>2, <2>3 DEF IInv
  <2>4. CASE PassOnTrick
    BY <2>1, <2>2, <2>4, PassOnTrickCorrect DEF IInv
  <2>5. QED
    BY <1>6, <2>3, <2>4 DEF RobotTurn
<1>7. QED
  BY <1>3, <1>4, <1>5, <1>6 DEF Next

(* Stuttering keeps the invariant.                                         *)
LEMMA StutterKeepsIInv ==
  ASSUME IInv, UNCHANGED vars
  PROVE  IInv'
<1>1. Active' = Active
  BY DEF vars, Active
<1>2. QED
  BY <1>1 DEF IInv, Core, RobotOnTurn, TypeOK, TurnHasCards,
     PassesCountTheSilent, FinishOrderExact, vars

(* Every reachable state of a deal satisfies the inductive invariant.      *)
THEOREM Invariance == Spec => []IInv
<1>1. Init => IInv
  BY InitIInv
<1>2. IInv /\ [Next]_vars => IInv'
  BY NextKeepsIInv, StutterKeepsIInv
<1>3. QED
  BY <1>1, <1>2, PTL DEF Spec

-----------------------------------------------------------------------------
(* Every variable of a deal keeps its type: the seat on turn exists, hands *)
(* never go negative, the pass counter never exceeds the table.            *)
THEOREM TypeCorrect == Spec => []TypeOK
<1>1. IInv => TypeOK
  BY DEF IInv, Core
<1>2. QED
  BY <1>1, Invariance, PTL

(* The turn of an open deal is always at a seat that holds cards: advance_ *)
(* turn and the closing of a trick never hand the turn to a seat that is   *)
(* out, where nobody could act.                                            *)
THEOREM TurnAtCards == Spec => []TurnHasCards
<1>1. IInv => TurnHasCards
  BY DEF IInv, Core
<1>2. QED
  BY <1>1, Invariance, PTL

(* The handler's pass counter is exactly the number of seats with cards    *)
(* that let the last play stand, whatever seats go out meanwhile.          *)
THEOREM PassCounterExact == Spec => []PassesCountTheSilent
<1>1. IInv => PassesCountTheSilent
  BY DEF IInv, Core
<1>2. QED
  BY <1>1, Invariance, PTL

(* finish_order places exactly the seats without cards, each once, and     *)
(* the deal is settled exactly when the order says it is over.             *)
THEOREM FinishOrderCorrect == Spec => []FinishOrderExact
<1>1. IInv => FinishOrderExact
  BY DEF IInv, Core
<1>2. QED
  BY <1>1, Invariance, PTL

(* Every step of a deal in play moves the turn to the next seat round the  *)
(* table that still holds cards.                                           *)
THEOREM TurnOrder == Spec => TurnGoesRound
<1>1. IInv /\ [Next]_vars =>
        [phase' = "play" => turn' = NextAmong(Active', turn)]_vars
  BY NextKeepsIInv DEF GoesRound
<1>2. QED
  BY <1>1, Invariance, PTL DEF Spec, TurnGoesRound
-----------------------------------------------------------------------------
(* A settling play completes its finish order to an outcome.               *)
LEMMA LayCardsOutcome ==
  ASSUME IInv, phase = "play", NEW k \in 1 .. hand[turn],
         LayCards(turn, k)
  PROVE  SettlesToOutcome'
<1> SUFFICES ASSUME phase' # "play" PROVE finishOrder' \in Outcomes
  BY DEF SettlesToOutcome
<1> DEFINE left   == [hand EXCEPT ![turn] = @ - k]
           placed == IF left[turn] = 0 /\ turn \notin Range(finishOrder)
                     THEN Append(finishOrder, turn) ELSE finishOrder
<1>1. DealOver(placed) /\ Settle(turn, placed)
  BY DEF LayCards
<1>2. /\ finishOrder \in Seq(Seats) /\ turn \in Seats
      /\ IsInjective(finishOrder) /\ ~DealOver(finishOrder)
  BY DEF IInv, Core, TypeOK, FinishOrderExact
<1>3. placed \in Seq(Seats) /\ IsInjective(placed)
  BY <1>2, PlaceNext
<1>4. /\ Len(placed) \in Len(finishOrder) .. Len(finishOrder) + 1
      /\ \A i \in 1 .. Len(finishOrder) : placed[i] = finishOrder[i]
  <2>1. CASE placed = finishOrder
    BY <1>2, <2>1
  <2>2. CASE placed = Append(finishOrder, turn)
    <3>1. /\ Len(placed) = Len(finishOrder) + 1
          /\ \A i \in 1 .. Len(finishOrder) : placed[i] = finishOrder[i]
      BY <1>2, <2>2, AppendProperties
    <3>2. QED
      BY <1>2, <3>1
  <2>3. QED
    BY <2>1, <2>2
<1> HIDE DEF placed
<1>5. PICK order \in Completions(placed) : finishOrder' = order
  BY <1>1 DEF Settle
<1>6. QED
  BY <1>1, <1>2, <1>3, <1>4, <1>5, CompletionIsOutcome

(* What a settled deal leaves is a finish order a match goes on from, at   *)
(* every table: the step of GuandanMatch that stands for a whole deal      *)
(* leaves none out.                                                        *)
THEOREM OutcomeCorrect == Spec => []SettlesToOutcome
<1>1. Init => SettlesToOutcome
  BY DEF Init, SettlesToOutcome
<1>2. IInv /\ SettlesToOutcome /\ [Next]_vars => SettlesToOutcome'
  <2> SUFFICES ASSUME IInv, SettlesToOutcome, [Next]_vars
               PROVE  SettlesToOutcome'
    OBVIOUS
  <2>1. ASSUME NEW s \in Seats, Play(s) PROVE SettlesToOutcome'
    BY <2>1, LayCardsOutcome DEF Play, MayAct
  <2>2. ASSUME NEW s \in Seats, Pass(s) \/ DeclineLead(s)
        PROVE  SettlesToOutcome'
    BY <2>2 DEF Pass, PassOnTrick, DeclineLead, MayAct, SettlesToOutcome
  <2>3. ASSUME RobotTurn PROVE SettlesToOutcome'
    <3>1. phase = "play"
      BY <2>3 DEF RobotTurn, IInv, RobotOnTurn
    <3>2. CASE \E k \in 1 .. hand[turn] : LayCards(turn, k)
      BY <3>1, <3>2, LayCardsOutcome
    <3>3. CASE PassOnTrick
      BY <3>1, <3>3 DEF PassOnTrick, SettlesToOutcome
    <3>4. QED
      BY <2>3, <3>2, <3>3 DEF RobotTurn
  <2>4. CASE UNCHANGED vars
    BY <2>4 DEF vars, SettlesToOutcome
  <2>5. QED
    BY <2>1, <2>2, <2>3, <2>4 DEF Next
<1>3. QED
  BY <1>1, <1>2, Invariance, PTL DEF Spec

(* Settlement's own grading of a deal is the core crate's, at every table  *)
(* and for every stored finish order: the promotion granted, and at a      *)
(* table of four whether a deal at Ace wins the match.                     *)
THEOREM GradingAgrees == Spec => []SettlementAgreesWithCore
<1> DEFINE Graded == phase # "play" =>
             /\ promotion = PromotionSteps(finishOrder)
             /\ phase = "matchOver" <=> WinsMatch(finishOrder)
<1>1. Init => Graded
  BY DEF Init
<1>2. ASSUME IInv, phase = "play", NEW k \in 1 .. hand[turn],
             LayCards(turn, k), aceTeams' = aceTeams
      PROVE  Graded'
  <2> SUFFICES ASSUME phase' # "play"
               PROVE  /\ promotion' = PromotionSteps(finishOrder')
                      /\ phase' = "matchOver" <=> WinsMatch(finishOrder)'
    OBVIOUS
  <2>1. \E placed : Settle(turn, placed)
    BY <1>2 DEF LayCards
  <2>2. PICK order : /\ finishOrder' = order
                     /\ promotion' = PromotionSteps(order)
                     /\ EndMatch(turn, order) \/ EndRound(order)
    BY <2>1 DEF Settle
  <2>3. WinsMatch(finishOrder)' <=> WinsMatch(order)
    BY <1>2, <2>2 DEF WinsMatch
  <2>4. QED
    BY <2>2, <2>3 DEF EndMatch, EndRound
<1>3. IInv /\ Graded /\ [Next]_vars => Graded'
  <2> SUFFICES ASSUME IInv, Graded, [Next]_vars
               PROVE  Graded'
    OBVIOUS
  <2>1. ASSUME NEW s \in Seats, Play(s) PROVE Graded'
    BY <1>2, <2>1 DEF Play, MayAct
  <2>2. ASSUME NEW s \in Seats, Pass(s) \/ DeclineLead(s)
        PROVE  Graded'
    BY <2>2 DEF Pass, PassOnTrick, DeclineLead, MayAct
  <2>3. ASSUME RobotTurn PROVE Graded'
    <3>1. phase = "play" /\ aceTeams' = aceTeams
      BY <2>3 DEF RobotTurn, IInv, RobotOnTurn
    <3>2. CASE \E k \in 1 .. hand[turn] : LayCards(turn, k)
      BY <1>2, <3>1, <3>2
    <3>3. CASE PassOnTrick
      BY <3>1, <3>3 DEF PassOnTrick
    <3>4. QED
      BY <2>3, <3>2, <3>3 DEF RobotTurn
  <2>4. CASE UNCHANGED vars
    BY <2>4 DEF vars, WinsMatch
  <2>5. QED
    BY <2>1, <2>2, <2>3, <2>4 DEF Next
<1>4. SettlesToOutcome /\ Graded => SettlementAgreesWithCore
  <2> SUFFICES ASSUME SettlesToOutcome, Graded, phase # "play", PlayerCount = 4
               PROVE  LET steps == CorePromotionSteps(SubSeq(finishOrder, 1, 3))
                      IN  /\ promotion = steps
                          /\ phase = "matchOver" <=>
                               TeamOf(finishOrder[1]) \in aceTeams /\ steps >= 2
    BY DEF SettlementAgreesWithCore
  <2>1. /\ finishOrder \in Seq(Seats) /\ IsInjective(finishOrder)
        /\ Range(finishOrder) = Seats
    BY OutcomePlacesAll DEF SettlesToOutcome
  <2>2. CorePromotionSteps(SubSeq(finishOrder, 1, 3)) = PromotionSteps(finishOrder)
    BY <2>1, PromotionAgrees
  <2>3. QED
    BY <2>2 DEF WinsMatch
<1>5. QED
  BY <1>1, <1>3, <1>4, Invariance, OutcomeCorrect, PTL DEF Spec

-----------------------------------------------------------------------------
(* While some person holds cards, the robot loop has at least as many      *)
(* iterations left as there are seats up to such a person.                 *)
RobotReach ==
  phase = "play" /\ Active \cap Humans # {} =>
    \/ turn \in Humans
    \/ \E h \in Active \cap Humans : StepsTo(turn, h) <= robotTurns

(* A loop that starts afresh reaches round the whole table.                *)
LEMMA FreshLoopReaches ==
  ASSUME TypeOK', robotTurns' = RobotLoop(PlayerCount)
  PROVE  RobotReach'
<1>1. CASE phase' = "play" /\ turn' \in Robots
  <2>1. robotTurns' = PlayerCount
    BY <1>1 DEF RobotLoop
  <2>2. ASSUME NEW h \in Seats PROVE StepsTo(turn', h) <= PlayerCount
    BY StepsToType, TableFacts DEF TypeOK
  <2>3. QED
    BY <2>1, <2>2 DEF RobotReach, Active
<1>2. CASE phase' = "play" /\ turn' \notin Robots
  BY <1>2 DEF RobotReach, Humans, TypeOK
<1>3. CASE phase' # "play"
  BY <1>3 DEF RobotReach
<1>4. QED
  BY <1>1, <1>2, <1>3

(* A robot turn comes at least one seat nearer to the person.              *)
LEMMA RobotTurnReaches ==
  ASSUME IInv, IInv', RobotReach, RobotTurn, GoesRound
  PROVE  RobotReach'
<1> SUFFICES ASSUME phase' = "play", Active' \cap Humans # {},
                    turn' \notin Humans
             PROVE  \E h \in Active' \cap Humans :
                      StepsTo(turn', h) <= robotTurns'
  BY DEF RobotReach, Humans
<1>1. /\ phase = "play" /\ turn \in Robots /\ turn \in Seats
      /\ turn' \in Robots /\ turn' \in Seats
      /\ robotTurns \in Nat /\ robotTurns > 0
      /\ robotTurns' = robotTurns - 1
      /\ turn' = NextAmong(Active', turn)
      /\ Active' \in SUBSET Seats
  BY DEF IInv, Core, TypeOK, RobotOnTurn, RobotTurn, RobotLoop, GoesRound,
     Humans, Active
<1>2. Active' \cap Humans = Active \cap Humans
  <2>1. CASE hand' = hand
    BY <2>1 DEF Active
  <2>2. CASE \E k \in 1 .. hand[turn] : hand' = [hand EXCEPT ![turn] = @ - k]
    <3>1. \A t \in Seats : t # turn => hand'[t] = hand[t]
      BY <2>2 DEF IInv, Core, TypeOK
    <3>2. QED
      BY <1>1, <3>1 DEF Active, Humans
  <2>3. QED
    BY <2>1, <2>2
       DEF RobotTurn, LayCards, Settle, EndMatch, EndRound, PassOnTrick
<1>3. PICK h \in Active \cap Humans : StepsTo(turn, h) <= robotTurns
  BY <1>1, <1>2 DEF RobotReach, Humans
<1>4. h \in Active' /\ h \in Seats /\ h # turn'
  BY <1>1, <1>2, <1>3 DEF Humans
<1>5. /\ StepsTo(turn, turn') <= StepsTo(turn, h)
      /\ StepsTo(turn, turn') \in 1 .. PlayerCount
      /\ StepsTo(turn, h) \in 1 .. PlayerCount
  BY <1>1, <1>4, NextAmongNearest, StepsToType
<1>6. StepsTo(turn, h) > StepsTo(turn, turn')
  <2>1. StepsTo(turn, h) # StepsTo(turn, turn')
    BY <1>1, <1>4, StepsToInjective
  <2>2. QED
    BY <1>5, <2>1
<1>7. StepsTo(turn', h) = StepsTo(turn, h) - StepsTo(turn, turn')
  BY <1>1, <1>4, <1>6, StepsToVia
<1>8. StepsTo(turn', h) <= robotTurns'
  BY <1>1, <1>3, <1>5, <1>7
<1>9. QED
  BY <1>2, <1>3, <1>8

(* When a command returns no robot is on turn while some person holds      *)
(* cards: the cap of one round of robot turns in run_robot_turns is        *)
(* enough, at every table and with every choice of robot seats.            *)
THEOREM RobotCapSuffices == Spec => []RobotsResolvedForHumans
<1>1. Init => RobotReach
  <2> SUFFICES ASSUME Init PROVE RobotReach
    OBVIOUS
  <2>1. CASE turn \in Robots
    <3>1. robotTurns = PlayerCount /\ turn \in Seats
      BY <2>1 DEF Init
    <3>2. ASSUME NEW h \in Seats PROVE StepsTo(turn, h) <= PlayerCount
      BY <3>1, StepsToType, TableFacts
    <3>3. QED
      BY <3>1, <3>2 DEF RobotReach, Active
  <2>2. CASE turn \notin Robots
    BY <2>2 DEF Init, RobotReach, Humans
  <2>3. QED
    BY <2>1, <2>2
<1>2. IInv /\ IInv' /\ RobotReach /\ [Next]_vars => RobotReach'
  <2> SUFFICES ASSUME IInv, IInv', RobotReach, [Next]_vars
               PROVE  RobotReach'
    OBVIOUS
  <2>1. TypeOK'
    BY DEF IInv, Core
  <2>2. ASSUME NEW s \in Seats, Play(s) \/ Pass(s) \/ DeclineLead(s)
        PROVE  RobotReach'
    BY <2>1, <2>2, FreshLoopReaches DEF Play, Pass, DeclineLead
  <2>3. CASE RobotTurn
    BY <2>3, NextKeepsIInv, RobotTurnReaches DEF Next
  <2>4. CASE UNCHANGED vars
    BY <2>4 DEF vars, RobotReach, Active
  <2>5. QED
    BY <2>2, <2>3, <2>4 DEF Next
<1>3. IInv /\ RobotReach => RobotsResolvedForHumans
  <2> SUFFICES ASSUME IInv, RobotReach, robotTurns = 0, phase = "play",
                      Active \cap Humans # {}, turn \notin Humans
               PROVE  FALSE
    BY DEF RobotsResolvedForHumans
  <2>1. PICK h \in Active \cap Humans : StepsTo(turn, h) <= 0
    BY DEF RobotReach
  <2>2. StepsTo(turn, h) \in 1 .. PlayerCount
    BY <2>1, StepsToType DEF IInv, Core, TypeOK, Active
  <2>3. QED
    BY <2>1, <2>2, TableFacts
<1>4. QED
  BY <1>1, <1>2, <1>3, Invariance, PTL DEF Spec

-----------------------------------------------------------------------------
(* The handler's pass counter implements the core crate's trick.           *)

(* The abstract trick walks the same table.                                *)
LEMMA SameTable ==
  /\ Trick!Seats = Seats
  /\ \A S, from : Trick!NextAmong(S, from) = NextAmong(S, from)
BY DEF Trick!Seats, Seats, Trick!NextAmong, NextAmong, Trick!StepsTo, StepsTo

(* The opening of a deal is the opening of a trick.                        *)
LEMMA InitRefines == Init => Trick!Init
<1> SUFFICES ASSUME Init PROVE Trick!Init
  OBVIOUS
<1>1. Active = Seats
  BY ConstantFacts DEF Init, Active
<1>2. /\ MappedLeader = turn
      /\ MappedPassed = {}
      /\ turn \in Trick!Seats
      /\ ~(phase # "play")
      /\ lastPlayer = NoSeat
      /\ Seats \ Active = {}
  BY <1>1, SameTable DEF Init, MappedLeader, MappedPassed
<1>3. QED
  BY <1>2 DEF Trick!Init

(* Settlement drops the trick.                                             *)
LEMMA SettlingRefines ==
  ASSUME Core', phase = "play", phase' # "play"
  PROVE  Trick!EndDeal
<1>1. /\ MappedLeader' \in Seats
      /\ MappedPassed' \in SUBSET Seats
      /\ turn' \in Seats
      /\ lastPlayer' \in Seats \cup {NoSeat}
  BY DEF Core, TypeOK, MappedLeader, MappedPassed, Between, Active
<1>2. QED
  BY <1>1, SameTable DEF Trick!EndDeal
(* A play is a play of the abstract trick, with out telling whether it     *)
(* empties the hand.                                                       *)
LEMMA PlayRefines ==
  ASSUME Core, Core', GoesRound, phase = "play", phase' = "play",
         NEW k \in 1 .. hand[turn], LayCards(turn, k)
  PROVE  Trick!Next
<1> DEFINE out == hand'[turn] = 0
<1>1. /\ lastPlayer' = turn
      /\ turn' = NextAmong(Active', turn)
      /\ hand' = [hand EXCEPT ![turn] = @ - k]
  BY DEF LayCards, Settle, EndMatch, EndRound, GoesRound
<1>2. /\ turn \in Seats /\ turn \in Active
      /\ hand \in [Seats -> 0 .. HandSize]
      /\ turn' \in Active' /\ Active' \in SUBSET Seats
  BY DEF Core, TypeOK, TurnHasCards, Active
<1>3. Seats \ Active' = IF out THEN (Seats \ Active) \cup {turn}
                              ELSE Seats \ Active
  <2>1. \A t \in Seats : hand'[t] = IF t = turn THEN hand[turn] - k ELSE hand[t]
    BY <1>1, <1>2
  <2>2. hand[turn] - k >= 0 /\ hand[turn] > 0
    BY <1>2, ConstantFacts DEF Active
  <2>3. hand[turn] - k \in Int
    BY <1>2, ConstantFacts
  <2>4. Active' = IF out THEN Active \ {turn} ELSE Active
    BY <1>2, <2>1, <2>2, <2>3 DEF Active
  <2>5. QED
    BY <1>2, <2>4
<1>4. MappedLeader' = turn /\ MappedPassed' = {}
  <2>1. Between(Active', turn, turn') = {}
    BY <1>1, <1>2, BetweenNext
  <2>2. turn # NoSeat
    BY <1>2, ConstantFacts
  <2>3. QED
    BY <1>1, <2>1, <2>2 DEF MappedLeader, MappedPassed
<1>5. Seats \ (Seats \ Active') = Active'
  BY <1>2
<1>6. turn' = Trick!NextAmong(Active', turn) /\ turn \in Trick!Seats
  BY <1>1, <1>2, SameTable
<1>7. lastPlayer' # NoSeat
  BY <1>1, <1>2, ConstantFacts
<1>8. Trick!Play(turn, out)
  <2>1. Trick!OnTurn(turn)
    BY <1>2 DEF Trick!OnTurn
  <2>2. Trick!Seats \ (Seats \ Active') = Active'
    BY <1>5, SameTable
  <2> HIDE DEF out
  <2>3. QED
    BY <1>1, <1>3, <1>4, <1>6, <1>7, <2>1, <2>2 DEF Trick!Play
<1>9. out \in BOOLEAN
  OBVIOUS
<1>10. QED
  BY <1>6, <1>8, <1>9 DEF Trick!Next

(* A counted pass is a pass of the abstract trick.                         *)
LEMMA PassRefines ==
  ASSUME Core, phase = "play", PassOnTrick
  PROVE  Trick!Next
<1> DEFINE met == Between(Active, lastPlayer, turn)
<1>1. /\ lastPlayer \in Seats /\ turn \in Active
      /\ Active \in SUBSET Seats
      /\ Active' = Active /\ phase' = "play"
  BY MetFacts
<1>2. /\ lastPlayer # NoSeat
      /\ MappedLeader = lastPlayer /\ MappedPassed = met
  BY <1>1, ConstantFacts DEF MappedLeader, MappedPassed
<1>3. /\ Seats \ (Seats \ Active) = Active
      /\ Trick!Seats \ (Seats \ Active) = Active
      /\ turn \in Trick!Seats
      /\ lastPlayer \in Seats \ Active <=> lastPlayer \notin Active
  BY <1>1, SameTable
<1>4. Trick!OnTurn(turn)
  BY <1>1 DEF Trick!OnTurn
<1>5. CASE KeepTrick
  <2>1. /\ Between(Active, lastPlayer, turn') = met \cup {turn}
        /\ ~(Active \ {lastPlayer} \subseteq met \cup {turn})
    BY <1>5, KeepTrickWalk
  <2>2. /\ turn' = Trick!NextAmong(Active, turn)
        /\ lastPlayer' = lastPlayer /\ lastTrickWinner' = lastTrickWinner
    BY <1>5, SameTable DEF KeepTrick
  <2>3. /\ MappedLeader' = lastPlayer
        /\ MappedPassed' = met \cup {turn}
    BY <1>1, <1>2, <2>1, <2>2 DEF MappedLeader, MappedPassed
  <2> HIDE DEF met
  <2>4. Trick!Pass(turn)
    BY <1>1, <1>2, <1>3, <1>4, <2>1, <2>2, <2>3 DEF Trick!Pass
  <2>5. QED
    BY <1>3, <2>4 DEF Trick!Next
<1>6. CASE CloseTrick
  <2>1. Active \ {lastPlayer} = met \cup {turn}
    BY <1>6, CloseTrickWalk
  <2>2. /\ turn' = IF lastPlayer \in Active THEN lastPlayer
                   ELSE Trick!NextAmong(Active, lastPlayer)
        /\ lastPlayer' = NoSeat /\ lastTrickWinner' = lastPlayer
    BY <1>6, SameTable DEF CloseTrick
  <2>3. MappedLeader' = lastPlayer /\ MappedPassed' = {}
    BY <1>2, <2>2 DEF MappedLeader, MappedPassed
  <2> HIDE DEF met
  <2>4. Trick!Pass(turn)
    BY <1>1, <1>2, <1>3, <1>4, <2>1, <2>2, <2>3 DEF Trick!Pass
  <2>5. QED
    BY <1>3, <2>4 DEF Trick!Next
<1>7. QED
  BY <1>5, <1>6 DEF PassOnTrick

(* A declined lead moves the abstract trick's turn and nothing else.       *)
LEMMA DeclineKeepsTrick ==
  ASSUME NEW s \in Seats, DeclineLead(s)
  PROVE  LeadDeclined
<1>1. /\ phase' = phase /\ lastPlayer = NoSeat /\ lastPlayer' = NoSeat
      /\ lastTrickWinner # NoSeat /\ lastTrickWinner' = lastTrickWinner
      /\ Active' = Active
  BY DEF DeclineLead, Active
<1>2. /\ MappedLeader' = MappedLeader
      /\ MappedPassed = {} /\ MappedPassed' = {}
  BY <1>1 DEF MappedLeader, MappedPassed
<1>3. QED
  BY <1>1, <1>2 DEF LeadDeclined

(* Every step of a deal is a step of the abstract trick or a declined lead.*)
LEMMA NextRefines ==
  ASSUME IInv, IInv', Next
  PROVE  Trick!Next \/ LeadDeclined
<1>1. Core /\ Core' /\ GoesRound
  BY NextKeepsIInv DEF IInv
<1>2. ASSUME phase = "play", NEW k \in 1 .. hand[turn], LayCards(turn, k)
      PROVE  Trick!Next
  BY <1>1, <1>2, PlayRefines, SettlingRefines DEF Trick!Next
<1>3. ASSUME NEW s \in Seats, Play(s) PROVE Trick!Next
  BY <1>2, <1>3 DEF Play, MayAct
<1>4. ASSUME NEW s \in Seats, Pass(s) PROVE Trick!Next
  BY <1>1, <1>4, PassRefines DEF Pass, MayAct
<1>5. ASSUME NEW s \in Seats, DeclineLead(s) PROVE LeadDeclined
  BY <1>5, DeclineKeepsTrick
<1>6. ASSUME RobotTurn PROVE Trick!Next
  <2>1. phase = "play"
    BY <1>6 DEF RobotTurn, IInv, RobotOnTurn
  <2>2. QED
    BY <1>1, <1>2, <1>6, <2>1, PassRefines DEF RobotTurn
<1>7. QED
  BY <1>3, <1>4, <1>5, <1>6 DEF Next

(* Stuttering of the deal is stuttering of the trick.                      *)
LEMMA StutterRefines ==
  ASSUME UNCHANGED vars
  PROVE  UNCHANGED Trick!vars
BY DEF vars, Trick!vars, MappedLeader, MappedPassed, Active, Between

(* The handler's deal, with its pass counter, its advance_turn and its     *)
(* robot loop, takes no step that TrickState of core/src/guandan/trick.rs  *)
(* would not take, but for the lead the handler lets a person decline.     *)
THEOREM DealImplementsTrickButDeclines == Spec => ImplementsTrickButDeclines
<1>1. Init => Trick!Init
  BY InitRefines
<1>2. IInv /\ IInv' /\ [Next]_vars => [Trick!Next \/ LeadDeclined]_(Trick!vars)
  BY NextRefines, StutterRefines
<1>3. QED
  BY <1>1, <1>2, Invariance, PTL DEF Spec, ImplementsTrickButDeclines

-----------------------------------------------------------------------------
(* Why a trick comes to an end.                                            *)

(* An open trick has seats left that could pass.                           *)
SilenceToCome ==
  phase = "play" /\ lastPlayer # NoSeat => passes < RequiredPasses

(* A step that leaves a trick open takes cards from a hand and gives none  *)
(* back, or leaves the hands and needs one pass less.                      *)
RunsOut ==
  lastPlayer # NoSeat /\ lastPlayer' # NoSeat /\ phase' = "play" =>
    \/ /\ \A s \in Seats : hand'[s] <= hand[s]
       /\ \E s \in Seats : hand'[s] < hand[s]
    \/ /\ hand' = hand
       /\ RequiredPasses' - passes' < RequiredPasses - passes

(* The seats that passed and the seat on turn are among those that must.   *)
LEMMA PassesShort ==
  ASSUME Core
  PROVE  SilenceToCome
<1> SUFFICES ASSUME phase = "play", lastPlayer # NoSeat
             PROVE  passes < RequiredPasses
  BY DEF SilenceToCome
<1> DEFINE met == Between(Active, lastPlayer, turn)
           asked == Active \ {lastPlayer}
<1>1. /\ lastPlayer \in Seats /\ turn \in Active /\ turn # lastPlayer
      /\ passes = Cardinality(met) /\ Active \in SUBSET Seats
  BY ActiveFacts DEF Core, TypeOK, TurnHasCards, PassesCountTheSilent, Active
<1>2. met \subseteq asked \ {turn} /\ turn \in asked
  <2>1. ASSUME NEW s \in met PROVE s \in Active /\ s # lastPlayer /\ s # turn
    BY <1>1, StepsToRound, StepsToType, TableFacts DEF Between
  <2>2. QED
    BY <1>1, <2>1
<1>3. /\ IsFiniteSet(asked) /\ Cardinality(asked) \in 0 .. PlayerCount
      /\ RequiredPasses = Cardinality(asked)
  BY ActiveFacts DEF Core, RequiredPasses
<1> HIDE DEF met, asked
<1>4. /\ IsFiniteSet(asked \ {turn})
      /\ Cardinality(asked \ {turn}) = Cardinality(asked) - 1
  BY <1>2, <1>3, FS_RemoveElement
<1>5. IsFiniteSet(met) /\ Cardinality(met) <= Cardinality(asked \ {turn})
  BY <1>2, <1>4, FS_Subset
<1>6. Cardinality(met) \in Nat /\ PlayerCount \in Nat
  BY <1>5, FS_CardinalityType, TableFacts
<1>7. QED
  BY <1>1, <1>3, <1>4, <1>5, <1>6

(* Cards laid leave one hand, and nobody's grows.                          *)
LEMMA LayCardsRunsOut ==
  ASSUME Core, turn \in Seats, NEW k \in 1 .. hand[turn],
         LayCards(turn, k), phase = "play"
  PROVE  RunsOut
<1> SUFFICES ASSUME phase' = "play"
             PROVE  /\ \A s \in Seats : hand'[s] <= hand[s]
                    /\ \E s \in Seats : hand'[s] < hand[s]
  BY DEF RunsOut
<1>1. hand' = [hand EXCEPT ![turn] = @ - k]
  BY DEF LayCards, Settle, EndMatch, EndRound
<1>2. hand \in [Seats -> Nat] /\ k \in Nat /\ k > 0
  <2>1. hand \in [Seats -> 0 .. HandSize] /\ HandSize \in Nat
    BY ConstantFacts DEF Core, TypeOK
  <2>2. QED
    BY <2>1
<1>3. hand'[turn] < hand[turn]
  BY <1>1, <1>2
<1>4. ASSUME NEW s \in Seats PROVE hand'[s] <= hand[s]
  BY <1>1, <1>2
<1>5. QED
  BY <1>3, <1>4

(* A pass that does not close the trick is one pass less to wait for.      *)
LEMMA PassRunsOut ==
  ASSUME Core, PassOnTrick
  PROVE  RunsOut
<1>1. CASE CloseTrick
  BY <1>1 DEF CloseTrick, RunsOut
<1>2. CASE KeepTrick
  <2>1. /\ hand' = hand /\ lastPlayer' = lastPlayer /\ passes' = passes + 1
    BY <1>2 DEF PassOnTrick, KeepTrick
  <2>2. RequiredPasses' = RequiredPasses
    BY <2>1 DEF RequiredPasses, Active
  <2>3. RequiredPasses \in Nat /\ passes \in Nat
    <3>1. PlayerCount \in Nat /\ passes \in 0 .. PlayerCount
      BY TableFacts DEF Core, TypeOK
    <3>2. RequiredPasses \in 0 .. PlayerCount
      BY ActiveFacts DEF Core, RequiredPasses
    <3>3. QED
      BY <3>1, <3>2
  <2>4. QED
    BY <2>1, <2>2, <2>3 DEF RunsOut
<1>3. QED
  BY <1>1, <1>2 DEF PassOnTrick

(* The safety half of TrickCloses: while a trick is open there is a pass   *)
(* to wait for, and each step that leaves it open uses up cards or, with   *)
(* the hands unchanged, a pass.  Neither can go on for ever.               *)
THEOREM TrickRunsOut == Spec => []SilenceToCome /\ [][RunsOut]_vars
<1>1. IInv => SilenceToCome
  BY PassesShort DEF IInv
<1>2. IInv /\ [Next]_vars => [RunsOut]_vars
  <2> SUFFICES ASSUME IInv, Next PROVE RunsOut
    OBVIOUS
  <2>1. ASSUME NEW s \in Seats, Play(s) PROVE RunsOut
    BY <2>1, LayCardsRunsOut DEF Play, MayAct, IInv
  <2>2. ASSUME NEW s \in Seats, Pass(s) PROVE RunsOut
    BY <2>2, PassRunsOut DEF Pass, IInv
  <2>3. ASSUME NEW s \in Seats, DeclineLead(s) PROVE RunsOut
    BY <2>3 DEF DeclineLead, RunsOut
  <2>4. ASSUME RobotTurn PROVE RunsOut
    <3>1. phase = "play" /\ turn \in Seats /\ Core
      BY <2>4 DEF RobotTurn, IInv, Core, TypeOK, RobotOnTurn
    <3>2. CASE \E k \in 1 .. hand[turn] : LayCards(turn, k)
      BY <3>1, <3>2, LayCardsRunsOut
    <3>3. CASE PassOnTrick
      BY <3>1, <3>3, PassRunsOut
    <3>4. QED
      BY <2>4, <3>2, <3>3 DEF RobotTurn
  <2>5. QED
    BY <2>1, <2>2, <2>3, <2>4 DEF Next
<1>3. QED
  BY <1>1, <1>2, Invariance, PTL DEF Spec

=============================================================================
