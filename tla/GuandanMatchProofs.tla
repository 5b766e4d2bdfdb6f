-------------------------- MODULE GuandanMatchProofs --------------------------
(***************************************************************************)
(* Proofs about a room from its lobby through its matches: nobody is lost  *)
(* or doubled between seats, queue and bench, the result of a deal follows *)
(* the people it belongs to, and the next deal starts from it.             *)
(***************************************************************************)
EXTENDS GuandanMatch, FiniteSetTheorems, SequenceTheorems, TLAPS

(* The largest table is even and has at least four seats; no seat is       *)
(* Option::None.                                                           *)
LEMMA ConstantFacts ==
  /\ MaxSeats \in Nat /\ MaxSeats >= 4 /\ MaxSeats % 2 = 0
  /\ LastLevel \in Nat
  /\ NoSeat \notin Nat
BY MaxSeatsAssumption, LastLevelAssumption, NoSeatAssumption

-----------------------------------------------------------------------------
(* Queues of names.                                                        *)

(* A function on 1 .. m is a sequence of length m.                         *)
LEMMA FunctionIsSeq ==
  ASSUME NEW X, NEW m \in Nat, NEW f \in [1 .. m -> X]
  PROVE  f \in Seq(X) /\ Len(f) = m /\ DOMAIN f = 1 .. m
OBVIOUS

(* A name that is not in a queue yet is put at its end.                    *)
LEMMA Appended ==
  ASSUME NEW X, NEW q \in Seq(X), NEW x \in X, IsInjective(q), x \notin Range(q)
  PROVE  /\ Append(q, x) \in Seq(X)
         /\ Len(Append(q, x)) = Len(q) + 1
         /\ \A i \in 1 .. Len(q) : Append(q, x)[i] = q[i]
         /\ Range(Append(q, x)) = Range(q) \cup {x}
         /\ IsInjective(Append(q, x))
<1> DEFINE r == Append(q, x)
<1>1. /\ Len(q) \in Nat /\ DOMAIN q = 1 .. Len(q)
      /\ r \in Seq(X) /\ Len(r) = Len(q) + 1 /\ DOMAIN r = 1 .. Len(q) + 1
      /\ \A i \in 1 .. Len(q) : r[i] = q[i]
      /\ r[Len(q) + 1] = x
  BY AppendProperties
<1> HIDE DEF r
<1>2. \A i \in DOMAIN r : i \in 1 .. Len(q) \/ i = Len(q) + 1
  BY <1>1
<1>3. Range(r) = Range(q) \cup {x}
  <2>1. ASSUME NEW y \in Range(r) PROVE y \in Range(q) \cup {x}
    <3>1. PICK i \in DOMAIN r : y = r[i]
      BY <2>1 DEF Range
    <3>2. QED
      BY <1>1, <1>2, <3>1 DEF Range
  <2>2. ASSUME NEW y \in Range(q) PROVE y \in Range(r)
    <3>1. PICK i \in 1 .. Len(q) : y = q[i]
      BY <1>1, <2>2 DEF Range
    <3>2. i \in DOMAIN r /\ y = r[i]
      BY <1>1, <3>1
    <3>3. QED
      BY <3>2 DEF Range
  <2>3. x \in Range(r)
    <3>1. Len(q) + 1 \in DOMAIN r
      BY <1>1
    <3>2. QED
      BY <1>1, <3>1 DEF Range
  <2>4. QED
    BY <2>1, <2>2, <2>3
<1>4. IsInjective(r)
  <2>1. \A i \in 1 .. Len(q) : q[i] # x
    BY <1>1 DEF Range
  <2>2. \A i, j \in 1 .. Len(q) : q[i] = q[j] => i = j
    BY <1>1 DEF IsInjective
  <2>3. ASSUME NEW i \in DOMAIN r, NEW j \in DOMAIN r, r[i] = r[j]
        PROVE  i = j
    <3>1. CASE i \in 1 .. Len(q) /\ j \in 1 .. Len(q)
      BY <1>1, <2>2, <2>3, <3>1
    <3>2. CASE i \in 1 .. Len(q) /\ j = Len(q) + 1
      BY <1>1, <2>1, <2>3, <3>2
    <3>3. CASE i = Len(q) + 1 /\ j \in 1 .. Len(q)
      BY <1>1, <2>1, <2>3, <3>3
    <3>4. CASE i = Len(q) + 1 /\ j = Len(q) + 1
      BY <3>4
    <3>5. QED
      BY <1>2, <3>1, <3>2, <3>3, <3>4
  <2>4. QED
    BY <2>3 DEF IsInjective
<1>5. QED
  BY <1>1, <1>3, <1>4 DEF r

(* Two queues that share nobody, one behind the other.                     *)
LEMMA Joined ==
  ASSUME NEW X, NEW a \in Seq(X), NEW b \in Seq(X),
         IsInjective(a), IsInjective(b), Range(a) \cap Range(b) = {}
  PROVE  /\ a \o b \in Seq(X)
         /\ Len(a \o b) = Len(a) + Len(b)
         /\ \A i \in 1 .. Len(a) : (a \o b)[i] = a[i]
         /\ Range(a \o b) = Range(a) \cup Range(b)
         /\ IsInjective(a \o b)
<1> DEFINE r == a \o b
<1>1. /\ Len(a) \in Nat /\ DOMAIN a = 1 .. Len(a)
      /\ Len(b) \in Nat /\ DOMAIN b = 1 .. Len(b)
      /\ r \in Seq(X) /\ Len(r) = Len(a) + Len(b)
      /\ DOMAIN r = 1 .. Len(a) + Len(b)
      /\ \A i \in 1 .. Len(a) + Len(b) :
           r[i] = IF i <= Len(a) THEN a[i] ELSE b[i - Len(a)]
  BY ConcatProperties
<1> HIDE DEF r
<1>2. \A i \in 1 .. Len(a) : i \in DOMAIN r /\ r[i] = a[i]
  BY <1>1
<1>3. \A i \in 1 .. Len(b) : Len(a) + i \in DOMAIN r /\ r[Len(a) + i] = b[i]
  <2> SUFFICES ASSUME NEW i \in 1 .. Len(b)
               PROVE  Len(a) + i \in DOMAIN r /\ r[Len(a) + i] = b[i]
    OBVIOUS
  <2>1. /\ Len(a) + i \in 1 .. Len(a) + Len(b)
        /\ ~(Len(a) + i <= Len(a)) /\ Len(a) + i - Len(a) = i
    BY <1>1
  <2>2. r[Len(a) + i] = b[Len(a) + i - Len(a)]
    BY <1>1, <2>1
  <2>3. QED
    BY <1>1, <2>1, <2>2
<1>4. ASSUME NEW i \in DOMAIN r
      PROVE  \/ i \in 1 .. Len(a) /\ r[i] = a[i] /\ r[i] \in Range(a)
             \/ /\ i - Len(a) \in 1 .. Len(b) /\ r[i] = b[i - Len(a)]
                /\ r[i] \in Range(b)
  <2>1. CASE i <= Len(a)
    <3>1. i \in 1 .. Len(a)
      BY <1>1, <2>1
    <3>2. QED
      BY <1>1, <1>2, <3>1 DEF Range
  <2>2. CASE i > Len(a)
    <3>1. i - Len(a) \in 1 .. Len(b) /\ Len(a) + (i - Len(a)) = i
      BY <1>1, <2>2
    <3>2. r[i] = b[i - Len(a)]
      BY <1>3, <3>1
    <3>3. QED
      BY <1>1, <3>1, <3>2 DEF Range
  <2>3. QED
    BY <1>1, <2>1, <2>2
<1>5. Range(r) = Range(a) \cup Range(b)
  <2>1. ASSUME NEW y \in Range(r) PROVE y \in Range(a) \cup Range(b)
    <3>1. PICK i \in DOMAIN r : y = r[i]
      BY <2>1 DEF Range
    <3>2. QED
      BY <1>4, <3>1
  <2>2. ASSUME NEW y \in Range(a) PROVE y \in Range(r)
    BY <1>1, <1>2, <2>2 DEF Range
  <2>3. ASSUME NEW y \in Range(b) PROVE y \in Range(r)
    <3>1. PICK i \in 1 .. Len(b) : y = b[i]
      BY <1>1, <2>3 DEF Range
    <3>2. QED
      BY <1>3, <3>1 DEF Range
  <2>4. QED
    BY <2>1, <2>2, <2>3
<1>6. IsInjective(r)
  <2> SUFFICES ASSUME NEW i \in DOMAIN r, NEW j \in DOMAIN r, r[i] = r[j]
               PROVE  i = j
    BY DEF IsInjective
  <2>1. CASE i \in 1 .. Len(a) /\ j \in 1 .. Len(a)
    BY <1>1, <1>2, <2>1 DEF IsInjective
  <2>2. CASE /\ i - Len(a) \in 1 .. Len(b) /\ r[i] = b[i - Len(a)]
             /\ j - Len(a) \in 1 .. Len(b) /\ r[j] = b[j - Len(a)]
    <3>1. i - Len(a) = j - Len(a)
      BY <1>1, <2>2 DEF IsInjective
    <3>2. QED
      BY <1>1, <3>1
  <2>3. QED
    BY <1>4, <2>1, <2>2
<1>7. QED
  BY <1>1, <1>2, <1>5, <1>6 DEF r

(* A queue cut in two.                                                     *)
LEMMA Cut ==
  ASSUME NEW X, NEW q \in Seq(X), IsInjective(q), NEW k \in 0 .. Len(q)
  PROVE  LET a == SubSeq(q, 1, k)
             b == SubSeq(q, k + 1, Len(q))
         IN  /\ a \in Seq(X) /\ Len(a) = k /\ IsInjective(a)
             /\ \A i \in 1 .. k : a[i] = q[i]
             /\ b \in Seq(X) /\ Len(b) = Len(q) - k /\ IsInjective(b)
             /\ Range(a) \cap Range(b) = {}
             /\ Range(a) \cup Range(b) = Range(q)
<1> DEFINE a == SubSeq(q, 1, k)
           b == SubSeq(q, k + 1, Len(q))
<1>1. /\ Len(q) \in Nat /\ k \in Nat /\ k <= Len(q)
      /\ DOMAIN q = 1 .. Len(q)
      /\ \A i, j \in 1 .. Len(q) : q[i] = q[j] => i = j
      /\ \A i \in 1 .. Len(q) : q[i] \in X
  BY DEF IsInjective
<1>2. /\ Len(a) = k /\ DOMAIN a = 1 .. k
      /\ \A i \in 1 .. k : a[i] = q[i]
  BY <1>1, SubSeqProperties
<1>3. /\ b \in Seq(X)
      /\ Len(b) = Len(q) - k /\ DOMAIN b = 1 .. Len(q) - k
      /\ \A i \in 1 .. Len(q) - k : b[i] = q[k + i]
  <2>1. /\ k + 1 \in Int /\ Len(q) \in Int
        /\ \A i \in k + 1 .. Len(q) : q[i] \in X
    BY <1>1
  <2>2. /\ b \in Seq(X)
        /\ Len(b) = IF k + 1 <= Len(q) THEN Len(q) - (k + 1) + 1 ELSE 0
        /\ \A i \in 1 .. Len(q) - (k + 1) + 1 : b[i] = q[k + 1 + i - 1]
    BY <2>1, SubSeqProperties
  <2> HIDE DEF b
  <2>3. Len(b) = Len(q) - k /\ Len(q) - (k + 1) + 1 = Len(q) - k
    <3>1. CASE k + 1 <= Len(q)
      BY <1>1, <2>2, <3>1
    <3>2. CASE k = Len(q)
      BY <1>1, <2>2, <3>2
    <3>3. Len(q) \in Nat /\ k \in Nat /\ k <= Len(q)
      BY <1>1
    <3>4. k + 1 <= Len(q) \/ k = Len(q)
      BY <3>3
    <3>5. QED
      BY <3>1, <3>2, <3>4
  <2>4. \A i \in 1 .. Len(q) - k : k + 1 + i - 1 = k + i
    BY <1>1
  <2>5. DOMAIN b = 1 .. Len(b)
    BY <2>2
  <2>6. QED
    BY <2>2, <2>3, <2>4, <2>5
<1>4. a \in Seq(X)
  BY <1>1
<1>5. b \in Seq(X)
  BY <1>3
<1> HIDE DEF a, b
<1>6. \A i \in 1 .. k : i \in 1 .. Len(q)
  BY <1>1
<1>7. \A i \in 1 .. Len(q) - k : k + i \in 1 .. Len(q) /\ k + i \notin 1 .. k
  BY <1>1
<1>8. IsInjective(a)
  BY <1>1, <1>2, <1>6 DEF IsInjective
<1>9. IsInjective(b)
  <2> SUFFICES ASSUME NEW i \in 1 .. Len(q) - k, NEW j \in 1 .. Len(q) - k,
                      b[i] = b[j]
               PROVE  i = j
    BY <1>3 DEF IsInjective
  <2>1. k + i = k + j
    BY <1>1, <1>3, <1>7
  <2>2. QED
    BY <1>1, <2>1
<1>10. Range(a) \cap Range(b) = {}
  <2> SUFFICES ASSUME NEW i \in 1 .. k, NEW j \in 1 .. Len(q) - k, a[i] = b[j]
               PROVE  FALSE
    BY <1>2, <1>3 DEF Range
  <2>1. i = k + j
    BY <1>1, <1>2, <1>3, <1>6, <1>7
  <2>2. QED
    BY <1>7, <2>1
<1>11. Range(a) \cup Range(b) = Range(q)
  <2>1. Range(a) \subseteq Range(q)
    BY <1>1, <1>2, <1>6 DEF Range
  <2>2. Range(b) \subseteq Range(q)
    <3>1. \A i \in DOMAIN b : k + i \in DOMAIN q /\ b[i] = q[k + i]
      BY <1>1, <1>3, <1>7
    <3>2. QED
      BY <3>1 DEF Range
  <2>3. ASSUME NEW i \in 1 .. Len(q) PROVE q[i] \in Range(a) \cup Range(b)
    <3>1. CASE i <= k
      <4>1. i \in 1 .. k
        BY <1>1, <3>1
      <4>2. QED
        BY <1>2, <4>1 DEF Range
    <3>2. CASE i > k
      <4>1. i - k \in 1 .. Len(q) - k /\ k + (i - k) = i
        BY <1>1, <3>2
      <4>2. b[i - k] = q[i]
        BY <1>3, <4>1
      <4>3. QED
        BY <1>3, <4>1, <4>2 DEF Range
    <3>3. QED
      BY <1>1, <3>1, <3>2
  <2>4. QED
    BY <1>1, <2>1, <2>2, <2>3 DEF Range
<1>12. QED
  BY <1>2, <1>3, <1>4, <1>5, <1>8, <1>9, <1>10, <1>11 DEF a, b

(* In a finite set with a strict order, for each k some member has exactly *)
(* k - 1 members below it.                                                 *)
LEMMA EachPlaceTaken ==
  ASSUME NEW S, IsFiniteSet(S), NEW below \in [S -> SUBSET S],
         \A i \in S : i \notin below[i],
         \A i, j \in S : i # j => i \in below[j] \/ j \in below[i],
         \A i, j \in S : i \in below[j] => below[i] \subseteq below[j],
         NEW k \in 1 .. Cardinality(S)
  PROVE  \E i \in S : Cardinality(below[i]) = k - 1
<1> DEFINE P == 1 .. Cardinality(S)
           f == [i \in S |-> Cardinality(below[i]) + 1]
<1>1. Cardinality(S) \in Nat
  BY FS_CardinalityType
<1>2. IsFiniteSet(P) /\ Cardinality(P) = Cardinality(S)
  BY <1>1, FS_Interval
<1>3. ASSUME NEW i \in S
      PROVE  /\ IsFiniteSet(below[i]) /\ Cardinality(below[i]) \in Nat
             /\ Cardinality(below[i]) + 1 \in P
  <2>1. below[i] \subseteq S \ {i}
    OBVIOUS
  <2>2. IsFiniteSet(S \ {i}) /\ Cardinality(S \ {i}) = Cardinality(S) - 1
    BY FS_RemoveElement
  <2>3. IsFiniteSet(below[i]) /\ Cardinality(below[i]) <= Cardinality(S) - 1
    BY <2>1, <2>2, FS_Subset
  <2>4. Cardinality(below[i]) \in Nat
    BY <2>3, FS_CardinalityType
  <2>5. QED
    BY <1>1, <2>3, <2>4
<1>4. ASSUME NEW i \in S, NEW j \in S, i \in below[j]
      PROVE  Cardinality(below[i]) < Cardinality(below[j])
  <2>1. below[i] \subseteq below[j] \ {i}
    BY <1>4
  <2>2. IsFiniteSet(below[j] \ {i})
        /\ Cardinality(below[j] \ {i}) = Cardinality(below[j]) - 1
    BY <1>3, <1>4, FS_RemoveElement
  <2>3. Cardinality(below[i]) <= Cardinality(below[j]) - 1
    BY <2>1, <2>2, FS_Subset
  <2>4. Cardinality(below[i]) \in Nat /\ Cardinality(below[j]) \in Nat
    BY <1>3
  <2>5. QED
    BY <2>3, <2>4
<1>5. ASSUME NEW i \in S, NEW j \in S, f[i] = f[j]
      PROVE  i = j
  <2>1. Cardinality(below[i]) \in Nat /\ Cardinality(below[j]) \in Nat
    BY <1>3
  <2>2. Cardinality(below[i]) = Cardinality(below[j])
    BY <1>5, <2>1
  <2>3. ~(i \in below[j]) /\ ~(j \in below[i])
    BY <1>4, <2>1, <2>2
  <2>4. QED
    BY <2>3
<1>6. f \in [S -> P] /\ \A i \in S : f[i] = Cardinality(below[i]) + 1
  BY <1>3
<1> HIDE DEF P, f
<1>7. f \in Injection(S, P)
  BY <1>5, <1>6 DEF Injection, IsInjective
<1>8. f \in Surjection(S, P)
  BY <1>2, <1>7, FS_Injection
<1>9. PICK i \in S : f[i] = k
  BY <1>8 DEF Surjection, P
<1>10. Cardinality(below[i]) \in Nat /\ Cardinality(below[i]) + 1 = k
  BY <1>3, <1>6, <1>9
<1>11. QED
  BY <1>10

(* The positions in increasing order are all different.                    *)
LEMMA IncreasingFacts ==
  ASSUME NEW S \in SUBSET Nat, IsFiniteSet(S)
  PROVE  /\ Increasing(S) \in [1 .. Cardinality(S) -> S]
         /\ \A k, l \in 1 .. Cardinality(S) :
              Increasing(S)[k] = Increasing(S)[l] => k = l
<1> DEFINE below == [i \in S |-> {j \in S : j < i}]
<1>1. below \in [S -> SUBSET S]
  OBVIOUS
<1>2. \A i \in S : below[i] = {j \in S : j < i}
  OBVIOUS
<1> HIDE DEF below
<1>3. \A i \in S : i \in Nat
  OBVIOUS
<1>4. /\ \A i \in S : i \notin below[i]
      /\ \A i, j \in S : i # j => i \in below[j] \/ j \in below[i]
      /\ \A i, j \in S : i \in below[j] => below[i] \subseteq below[j]
  <2>1. \A i, j \in S : j \in below[i] <=> j < i
    BY <1>2
  <2>2. \A i \in S : i \notin below[i]
    BY <1>3, <2>1
  <2>3. \A i, j \in S : i # j => i \in below[j] \/ j \in below[i]
    BY <1>3, <2>1
  <2>4. ASSUME NEW i \in S, NEW j \in S, i \in below[j], NEW h \in below[i]
        PROVE  h \in below[j]
    <3>1. h \in S /\ h \in Nat /\ i \in Nat /\ j \in Nat
      BY <1>1, <1>3
    <3>2. h < i /\ i < j
      BY <2>1, <2>4, <3>1
    <3>3. QED
      BY <2>1, <3>1, <3>2
  <2>5. QED
    BY <2>2, <2>3, <2>4
<1>5. \A k \in 1 .. Cardinality(S) : \E i \in S : Cardinality(below[i]) = k - 1
  BY <1>1, <1>4, EachPlaceTaken
<1>6. ASSUME NEW k \in 1 .. Cardinality(S)
      PROVE  /\ Increasing(S)[k] \in S
             /\ Cardinality({j \in S : j < Increasing(S)[k]}) = k - 1
  <2>1. \E i \in S : Cardinality({j \in S : j < i}) = k - 1
    BY <1>2, <1>5
  <2>2. Increasing(S)[k] = CHOOSE i \in S : Cardinality({j \in S : j < i}) = k - 1
    BY DEF Increasing
  <2>3. QED
    BY <2>1, <2>2
<1>7. Increasing(S) \in [1 .. Cardinality(S) -> S]
  BY <1>6 DEF Increasing
<1>8. ASSUME NEW k \in 1 .. Cardinality(S), NEW l \in 1 .. Cardinality(S),
             Increasing(S)[k] = Increasing(S)[l]
      PROVE  k = l
  <2>1. k - 1 = l - 1
    BY <1>6, <1>8
  <2>2. QED
    BY <2>1
<1>9. QED
  BY <1>7, <1>8

(* Vec::retain keeps exactly the names asked for, each where it was before *)
(* or further ahead.                                                       *)
LEMMA RetainedFacts ==
  ASSUME NEW X, NEW q \in Seq(X), IsInjective(q), NEW S
  PROVE  LET r == Retained(q, S)
         IN  /\ r \in Seq(X)
             /\ Len(r) <= Len(q)
             /\ Range(r) = Range(q) \cap S
             /\ IsInjective(r)
<1> DEFINE at == {i \in DOMAIN q : q[i] \in S}
           n == Cardinality(at)
           k == Increasing(at)
           r == Retained(q, S)
<1>1. /\ Len(q) \in Nat /\ DOMAIN q = 1 .. Len(q)
      /\ \A i, j \in 1 .. Len(q) : q[i] = q[j] => i = j
      /\ \A i \in 1 .. Len(q) : q[i] \in X
  BY DEF IsInjective
<1>2. IsFiniteSet(at) /\ n \in Nat /\ n <= Len(q)
  <2>1. at \subseteq 1 .. Len(q)
    BY <1>1
  <2> HIDE DEF at
  <2>2. IsFiniteSet(1 .. Len(q)) /\ Cardinality(1 .. Len(q)) = Len(q)
    <3>1. Len(q) \in Nat
      BY <1>1
    <3>2. QED
      BY <3>1, FS_Interval
  <2>3. QED
    BY <2>1, <2>2, FS_Subset, FS_CardinalityType
<1>3. r = [i \in DOMAIN k |-> q[k[i]]]
  BY DEF Retained
<1>4. \A i \in at : i \in 1 .. Len(q) /\ q[i] \in S
  BY <1>1
<1>5. \A i \in 1 .. Len(q) : q[i] \in S => i \in at
  BY <1>1
<1>6. at \in SUBSET Nat
  BY <1>1
<1> HIDE DEF at, n, k, r
<1>7. /\ k \in [1 .. n -> at] /\ DOMAIN k = 1 .. n
      /\ \A i, j \in 1 .. n : k[i] = k[j] => i = j
  BY <1>2, <1>6, IncreasingFacts DEF k, n
<1>8. k \in Surjection(1 .. n, at)
  <2>1. k \in Injection(1 .. n, at)
    BY <1>7 DEF Injection, IsInjective
  <2>2. IsFiniteSet(1 .. n) /\ Cardinality(1 .. n) = Cardinality(at)
    BY <1>2, FS_Interval DEF n
  <2>3. QED
    BY <1>2, <2>1, <2>2, FS_Injection
<1>9. \A i \in 1 .. n : k[i] \in 1 .. Len(q) /\ k[i] \in at /\ r[i] = q[k[i]]
  BY <1>3, <1>4, <1>7
<1>10. DOMAIN r = 1 .. n /\ \A i \in 1 .. n : r[i] \in X
  BY <1>1, <1>3, <1>7, <1>9
<1>11. r \in [1 .. n -> X]
  BY <1>3, <1>7, <1>10
<1>12. r \in Seq(X) /\ Len(r) = n
  BY <1>2, <1>11
<1>13. Range(r) = Range(q) \cap S
  <2>1. ASSUME NEW i \in 1 .. n PROVE r[i] \in Range(q) \cap S
    BY <1>1, <1>4, <1>9 DEF Range
  <2>2. ASSUME NEW i \in 1 .. Len(q), q[i] \in S PROVE q[i] \in Range(r)
    <3>1. PICK j \in 1 .. n : k[j] = i
      BY <1>5, <1>8, <2>2 DEF Surjection
    <3>2. QED
      BY <1>9, <1>10, <3>1 DEF Range
  <2>3. QED
    BY <1>1, <1>10, <2>1, <2>2 DEF Range
<1>14. IsInjective(r)
  <2> SUFFICES ASSUME NEW i \in 1 .. n, NEW j \in 1 .. n, r[i] = r[j]
               PROVE  i = j
    BY <1>10 DEF IsInjective
  <2>1. k[i] = k[j]
    BY <1>1, <1>9
  <2>2. QED
    BY <1>7, <2>1
<1>15. QED
  BY <1>2, <1>12, <1>13, <1>14 DEF r

-----------------------------------------------------------------------------
(* Finish orders of a table of n seats.                                    *)

(* The size of a set does not depend on the table.                         *)
LEMMA SameCardinality ==
  ASSUME NEW n \in Nat, NEW S
  PROVE  T(n)!Cardinality(S) = Cardinality(S)
BY DEF T!Cardinality, Cardinality

(* An order of all n seats places each of them.                            *)
LEMMA PlacesAll ==
  ASSUME NEW n \in Nat, NEW order \in [1 .. n -> 0 .. n - 1], IsInjective(order),
         NEW s \in 0 .. n - 1
  PROVE  \E i \in 1 .. n : order[i] = s
<1>1. order \in Injection(1 .. n, 0 .. n - 1)
  BY DEF Injection, IsInjective
<1>2. /\ IsFiniteSet(1 .. n) /\ Cardinality(1 .. n) = n
      /\ IsFiniteSet(0 .. n - 1) /\ Cardinality(0 .. n - 1) = n
  <2>1. n - 1 \in Int /\ n \in Int
    OBVIOUS
  <2>2. QED
    BY <2>1, FS_Interval
<1>3. order \in Surjection(1 .. n, 0 .. n - 1)
  BY <1>1, <1>2, FS_Injection
<1>4. QED
  BY <1>3 DEF Surjection

(* A deal ends with each seat placed once, and its winners advance by one  *)
(* to three levels: a four-seat winner's partner has one of the places     *)
(* behind.                                                                 *)
LEMMA OutcomeFacts ==
  ASSUME NEW n \in Nat, n >= 4, NEW order \in T(n)!Outcomes
  PROVE  /\ order \in [1 .. n -> 0 .. n - 1]
         /\ IsInjective(order)
         /\ T(n)!PromotionSteps(order) \in 1 .. 3
<1>1. order \in [1 .. n -> 0 .. n - 1] /\ IsInjective(order)
  BY DEF T!Outcomes, T!Seats, T!IsInjective, IsInjective
<1>2. CASE n # 4
  BY <1>1, <1>2 DEF T!PromotionSteps
<1>3. CASE n = 4
  <2>1. order[1] \in 0 .. 3
    BY <1>1, <1>3
  <2>2. (order[1] + 2) % n \in 0 .. n - 1 /\ (order[1] + 2) % n # order[1]
    BY <1>3, <2>1
  <2>3. PICK i \in 1 .. n : order[i] = (order[1] + 2) % n
    BY <1>1, <2>2, PlacesAll
  <2>4. i \in 2 .. 4
    BY <1>3, <2>2, <2>3
  <2> DEFINE place == CHOOSE j \in 2 .. 4 : order[j] = (order[1] + 2) % n
  <2>5. place \in 2 .. 4
    BY <2>3, <2>4
  <2>6. T(n)!PromotionSteps(order) = 5 - place
    BY <1>3 DEF T!PromotionSteps
  <2> HIDE DEF place
  <2>7. QED
    BY <1>1, <2>5, <2>6
<1>4. QED
  BY <1>2, <1>3

(* tribute_plan completes an order that leaves out the last place only.    *)
LEMMA CompletedFacts ==
  ASSUME NEW n \in Nat, n >= 4, NEW placed \in Seq(0 .. n - 1),
         IsInjective(placed), Len(placed) = n - 1,
         NEW order \in T(n)!Completions(placed)
  PROVE  /\ order \in [1 .. n -> 0 .. n - 1]
         /\ IsInjective(order)
         /\ \A i \in 1 .. n - 1 : order[i] = placed[i]
<1> DEFINE R == 0 .. n - 1
           S == R \ Range(placed)
<1>1. PICK rest \in T(n)!InSeatOrder(S) : order = placed \o rest
  BY DEF T!Completions, T!Seats, T!Range, Range
<1>2. /\ DOMAIN placed = 1 .. n - 1 /\ placed \in [1 .. n - 1 -> R]
      /\ Range(placed) \subseteq R
  BY DEF Range
<1>3. IsFiniteSet(R) /\ Cardinality(R) = n
  <2>1. n - 1 \in Int
    OBVIOUS
  <2>2. QED
    BY <2>1, FS_Interval
<1>4. Cardinality(Range(placed)) = n - 1
  <2>1. IsFiniteSet(1 .. n - 1) /\ Cardinality(1 .. n - 1) = n - 1
    <3>1. n - 1 \in Int
      OBVIOUS
    <3>2. QED
      BY <3>1, FS_Interval
  <2>2. placed \in Surjection(1 .. n - 1, Range(placed))
    BY <1>2 DEF Range, Surjection
  <2>3. placed \in Injection(1 .. n - 1, Range(placed))
    BY <2>2 DEF Injection, Surjection
  <2>4. QED
    BY <2>1, <2>2, <2>3, FS_Surjection
<1>5. Cardinality(S) = 1
  <2> DEFINE P == Range(placed)
  <2>1. P \subseteq R /\ Cardinality(P) = n - 1
    BY <1>2, <1>4
  <2> HIDE DEF P, R
  <2>2. R \cap P = P
    BY <2>1
  <2>3. Cardinality(R \ P) = Cardinality(R) - Cardinality(R \cap P)
    BY <1>3, FS_Difference
  <2>4. Cardinality(R \ P) = n - (n - 1)
    BY <1>3, <2>1, <2>2, <2>3
  <2>5. QED
    BY <2>4 DEF P
<1>6. PICK last \in R : last \notin Range(placed) /\ S = {last}
  <2> HIDE DEF R
  <2>1. IsFiniteSet(S)
    BY <1>3, FS_Difference
  <2>2. PICK x : S = {x}
    <3> HIDE DEF S
    <3> QED
      BY <1>5, <2>1, FS_Singleton
  <2>3. QED
    BY <2>2
<1>7. rest \in Seq(R) /\ Len(rest) = 1 /\ rest[1] = last
  <2> HIDE DEF S
  <2> DEFINE m == Cardinality(S)
  <2>1. rest \in [1 .. m -> S]
    BY SameCardinality DEF T!InSeatOrder
  <2>2. m \in Nat /\ m = 1
    BY <1>5
  <2> HIDE DEF m
  <2>3. DOMAIN rest = 1 .. m /\ rest[1] = last
    BY <1>6, <2>1, <2>2
  <2>4. rest \in [1 .. m -> R]
    BY <1>6, <2>1
  <2>5. rest \in Seq(R) /\ Len(rest) = m
    BY <2>2, <2>4, FunctionIsSeq
  <2>6. QED
    BY <2>2, <2>3, <2>5
<1> HIDE DEF R, S
<1>8. /\ order \in Seq(R) /\ Len(order) = n /\ DOMAIN order = 1 .. n
      /\ \A i \in 1 .. n - 1 : order[i] = placed[i]
      /\ order[n] = last
  <2>1. placed \in Seq(R)
    BY DEF R
  <2>2. /\ order \in Seq(R)
        /\ Len(order) = Len(placed) + Len(rest)
        /\ \A i \in 1 .. Len(placed) + Len(rest) :
             order[i] = IF i <= Len(placed) THEN placed[i]
                                            ELSE rest[i - Len(placed)]
    BY <1>1, <1>7, <2>1, ConcatProperties
  <2>3. Len(placed) = n - 1 /\ Len(placed) + Len(rest) = n
    BY <1>7
  <2>4. \A i \in 1 .. n - 1 : i \in 1 .. n /\ i <= n - 1
    OBVIOUS
  <2>5. n \in 1 .. n /\ ~(n <= n - 1) /\ n - (n - 1) = 1
    OBVIOUS
  <2>6. \A i \in 1 .. n - 1 : order[i] = placed[i]
    BY <2>2, <2>3, <2>4
  <2>7. order[n] = last
    BY <1>7, <2>2, <2>3, <2>5
  <2>8. DOMAIN order = 1 .. n
    BY <2>2, <2>3
  <2>9. QED
    BY <2>2, <2>3, <2>6, <2>7, <2>8
<1>9. IsInjective(order)
  <2> SUFFICES ASSUME NEW i \in 1 .. n, NEW j \in 1 .. n, order[i] = order[j]
               PROVE  i = j
    BY <1>8 DEF IsInjective
  <2>1. \A k \in 1 .. n : k \in 1 .. n - 1 \/ k = n
    OBVIOUS
  <2>2. \A k \in 1 .. n - 1 : order[k] # last
    BY <1>2, <1>6, <1>8 DEF Range
  <2>3. CASE i \in 1 .. n - 1 /\ j \in 1 .. n - 1
    BY <1>2, <1>8, <2>3 DEF IsInjective
  <2>4. QED
    BY <1>8, <2>1, <2>2, <2>3
<1>10. order \in [1 .. n -> 0 .. n - 1]
  BY <1>8 DEF R
<1>11. QED
  BY <1>8, <1>9, <1>10

(* Tribute is paid from later places to earlier ones, none of them the     *)
(* last of all, as many cards one way as the other.                        *)
LEMMA TributePlan ==
  ASSUME NEW n \in Nat, n >= 4, n % 2 = 0,
         NEW order \in [1 .. n -> 0 .. n - 1], IsInjective(order)
  PROVE  LET plan == T(n)!PaysWhom(order)
         IN  /\ plan.givers \subseteq 0 .. n - 1
             /\ plan.receivers \subseteq 0 .. n - 1
             /\ Cardinality(plan.givers) = Cardinality(plan.receivers)
             /\ \A g \in plan.givers, r \in plan.receivers :
                  \E i \in 1 .. n - 1, j \in 1 .. n :
                    i < j /\ r = order[i] /\ g = order[j]
<1> DEFINE h == n \div 2
           plan == T(n)!PaysWhom(order)
<1>1. h \in Nat /\ h >= 2 /\ n = h + h
  OBVIOUS
<1>2. T(n)!HalfTable = h
  BY DEF T!HalfTable
<1> HIDE DEF h
<1>3. CASE T(n)!Swept(order)
  <2> DEFINE G == {order[i] : i \in h + 1 .. n}
             R == {order[i] : i \in 1 .. h}
  <2>1. plan.givers = G /\ plan.receivers = R
    BY <1>2, <1>3 DEF T!PaysWhom
  <2>2. /\ \A i \in h + 1 .. n : i \in 1 .. n
        /\ \A i \in 1 .. h : i \in 1 .. n /\ i \in 1 .. n - 1
        /\ \A i \in 1 .. h : \A j \in h + 1 .. n : i < j
    BY <1>1
  <2>3. Cardinality(G) = h
    <3>1. /\ IsFiniteSet(h + 1 .. n)
          /\ Cardinality(h + 1 .. n) = h
      <4>1. h + 1 \in Int /\ n \in Int /\ ~(h + 1 > n) /\ n - (h + 1) + 1 = h
        BY <1>1
      <4>2. QED
        BY <4>1, FS_Interval
    <3> DEFINE f == [i \in h + 1 .. n |-> order[i]]
    <3>2. f \in Injection(h + 1 .. n, G) /\ f \in Surjection(h + 1 .. n, G)
      <4>1. f \in [h + 1 .. n -> G] /\ \A y \in G : \E i \in h + 1 .. n : f[i] = y
        OBVIOUS
      <4>2. \A i, j \in h + 1 .. n : f[i] = f[j] => i = j
        BY <2>2 DEF IsInjective
      <4> HIDE DEF f, G
      <4>3. QED
        BY <4>1, <4>2 DEF Injection, Surjection, IsInjective
    <3> HIDE DEF f, G
    <3>3. QED
      BY <3>1, <3>2, FS_Surjection
  <2>4. Cardinality(R) = h
    <3>1. IsFiniteSet(1 .. h) /\ Cardinality(1 .. h) = h
      <4>1. 1 \in Int /\ h \in Int /\ ~(1 > h) /\ h - 1 + 1 = h
        BY <1>1
      <4>2. QED
        BY <4>1, FS_Interval
    <3> DEFINE f == [i \in 1 .. h |-> order[i]]
    <3>2. f \in Injection(1 .. h, R) /\ f \in Surjection(1 .. h, R)
      <4>1. f \in [1 .. h -> R] /\ \A y \in R : \E i \in 1 .. h : f[i] = y
        OBVIOUS
      <4>2. \A i, j \in 1 .. h : f[i] = f[j] => i = j
        BY <2>2 DEF IsInjective
      <4> HIDE DEF f, R
      <4>3. QED
        BY <4>1, <4>2 DEF Injection, Surjection, IsInjective
    <3> HIDE DEF f, R
    <3>3. QED
      BY <3>1, <3>2, FS_Surjection
  <2>5. G \subseteq 0 .. n - 1 /\ R \subseteq 0 .. n - 1
    BY <2>2
  <2>6. \A g \in G, r \in R : \E i \in 1 .. n - 1, j \in 1 .. n :
           i < j /\ r = order[i] /\ g = order[j]
    BY <2>2
  <2> HIDE DEF G, R, plan
  <2>7. QED
    BY <2>1, <2>3, <2>4, <2>5, <2>6 DEF plan
<1>4. CASE ~T(n)!Swept(order) /\ n = 4
  <2>1. plan.givers = {order[4]} /\ plan.receivers = {order[1]}
    BY <1>4 DEF T!PaysWhom
  <2>2. order[4] \in 0 .. n - 1 /\ order[1] \in 0 .. n - 1
    BY <1>4
  <2>3. 1 \in 1 .. n - 1 /\ 4 \in 1 .. n /\ 1 < 4
    BY <1>4
  <2>4. Cardinality({order[4]}) = Cardinality({order[1]})
    BY FS_Singleton
  <2> HIDE DEF plan
  <2>5. QED
    BY <2>1, <2>2, <2>3, <2>4 DEF plan
<1>5. CASE ~T(n)!Swept(order) /\ n # 4
  <2>1. plan.givers = {} /\ plan.receivers = {}
    BY <1>5 DEF T!PaysWhom
  <2> HIDE DEF plan
  <2>2. QED
    BY <2>1 DEF plan
<1>6. QED
  BY <1>3, <1>4, <1>5

-----------------------------------------------------------------------------
(* The inductive invariant.                                                *)

(* The seats, the queue and the bench.                                     *)
RoomInv ==
  /\ players \in Seq(Names) /\ Len(players) <= MaxSeats
  /\ pending \in Seq(People)
  /\ observers \subseteq People /\ online \subseteq People
  /\ RosterKept

GameTypeOK ==
  /\ phase \in {"lobby", "play", "awaitingShuffle", "awaitingDeal",
                "tribute", "matchOver"}
  /\ levels \in [{0, 1} -> 0 .. LastLevel]
  /\ level \in 0 .. LastLevel
  /\ turn \in Nat
  /\ winner \in Seats \cup {NoSeat}
  /\ winnerTeam \in {0, 1, NoSeat}
  /\ nextOrder \in Seq(Seats)
  /\ givers \subseteq Seats /\ receivers \subseteq Seats
  /\ given \subseteq givers /\ returned \subseteq receivers
  /\ record \in Seq(Names)

BetweenDeals == phase \in {"awaitingShuffle", "awaitingDeal"}

(* The record names everybody at the table of the last deal but its last,  *)
(* each once; the table has not become smaller since.                      *)
RecordIsWhole ==
  BetweenDeals => /\ IsInjective(record)
                  /\ Len(record) >= 1 /\ Len(record) + 1 <= Len(players)

(* Nothing of a deal is left when the next one opens, nor in the lobby.    *)
NothingLeft ==
  /\ phase # "tribute" => givers = {} /\ receivers = {}
  /\ ~BetweenDeals => nextOrder = <<>>
  /\ phase = "lobby" => winner = NoSeat

(* The deals and what they leave for the next.                             *)
GameInv ==
  /\ GameTypeOK
  /\ RecordFollowsPeople
  /\ LevelIsWinners
  /\ RecordIsWhole
  /\ NothingLeft
  /\ TributeFollowsPlaces

FlightInv == inFlight \in [People -> 0 .. MaxSeats - 1 \cup {NoSeat}]

IInv == RoomInv /\ GameInv /\ FlightInv

game == <<phase, grades, turn, nextOrder, tribute, record>>

(* The table is as it was, perhaps with more people at its end.            *)
TableGrows ==
  /\ players' \in Seq(Names)
  /\ Len(players) <= Len(players') /\ Len(players') <= MaxSeats
  /\ \A i \in 1 .. Len(players) : players'[i] = players[i]

-----------------------------------------------------------------------------
(* Seats and queue.                                                        *)

(* promote_pending_players seats the head of the queue and keeps the rest. *)
LEMMA PromoteKeeps ==
  ASSUME players \in Seq(Names), Len(players) <= MaxSeats, IsInjective(players),
         NEW queue \in Seq(People), IsInjective(queue),
         Seated \cap Range(queue) = {}, Promote(queue)
  PROVE  /\ TableGrows
         /\ pending' \in Seq(People)
         /\ IsInjective(players') /\ IsInjective(pending')
         /\ Range(players') \cap Range(pending') = {}
         /\ Range(players') \cup Range(pending') = Seated \cup Range(queue)
         /\ Seated \subseteq Range(players')
         /\ Len(players) % 2 = 0 =>
              /\ Len(players') % 2 = 0
              /\ Len(pending') < 2 \/ Len(players') = MaxSeats
<1> DEFINE l == Len(players)
           fit  == IF Len(queue) < MaxSeats - l THEN Len(queue) ELSE MaxSeats - l
           even == fit - (fit % 2)
           head == SubSeq(queue, 1, even)
           rest == SubSeq(queue, even + 1, Len(queue))
<1>1. players' = players \o head /\ pending' = rest
  BY DEF Promote
<1>2. l \in Nat /\ Len(queue) \in Nat /\ MaxSeats \in Nat /\ MaxSeats % 2 = 0
      /\ l <= MaxSeats
  BY ConstantFacts
<1> HIDE DEF l
<1>3. fit \in 0 .. Len(queue) /\ fit <= MaxSeats - l
      /\ (fit = Len(queue) \/ fit = MaxSeats - l)
  BY <1>2
<1> HIDE DEF fit
<1>4. even \in 0 .. Len(queue) /\ even <= fit /\ even % 2 = 0 /\ fit - even < 2
  BY <1>2, <1>3
<1>5. /\ l + even <= MaxSeats
      /\ l % 2 = 0 => /\ (l + even) % 2 = 0
                      /\ Len(queue) - even < 2 \/ l + even = MaxSeats
  <2>1. l + even <= MaxSeats
    BY <1>2, <1>3, <1>4
  <2>2. l % 2 = 0 => (l + even) % 2 = 0
    BY <1>2, <1>4
  <2>3. CASE fit = Len(queue)
    BY <1>2, <1>4, <2>1, <2>2, <2>3
  <2>4. CASE fit = MaxSeats - l
    <3>1. l % 2 = 0 => fit % 2 = 0
      BY <1>2, <1>3, <2>4
    <3>2. l % 2 = 0 => even = fit
      BY <1>2, <1>3, <3>1
    <3>3. QED
      BY <1>2, <1>3, <1>4, <2>1, <2>2, <2>4, <3>2
  <2>5. QED
    BY <1>3, <2>3, <2>4
<1> HIDE DEF even
<1>6. /\ head \in Seq(People) /\ Len(head) = even /\ IsInjective(head)
      /\ rest \in Seq(People) /\ Len(rest) = Len(queue) - even
      /\ IsInjective(rest)
      /\ Range(head) \cap Range(rest) = {}
      /\ Range(head) \cup Range(rest) = Range(queue)
  BY <1>4, Cut
<1> HIDE DEF head, rest
<1>7. head \in Seq(Names)
  BY <1>6 DEF Names
<1>8. /\ players' \in Seq(Names)
      /\ Len(players') = l + even
      /\ \A i \in 1 .. l : players'[i] = players[i]
      /\ Range(players') = Seated \cup Range(head)
      /\ IsInjective(players')
  <2>1. Range(players) \cap Range(head) = {}
    BY <1>6 DEF Seated
  <2>2. QED
    BY <1>1, <1>6, <1>7, <2>1, Joined DEF Seated, l
<1>9. TableGrows
  BY <1>2, <1>4, <1>5, <1>8 DEF TableGrows, l
<1>10. Len(pending') = Len(queue) - even
  BY <1>1, <1>6
<1>11. Len(players) % 2 = 0 =>
         /\ Len(players') % 2 = 0
         /\ Len(pending') < 2 \/ Len(players') = MaxSeats
  BY <1>5, <1>8, <1>10 DEF l
<1>12. QED
  BY <1>1, <1>6, <1>8, <1>9, <1>11 DEF Seated

(* A queue that changed is kept, whether it is served at once or not.      *)
LEMMA QueueKeeps ==
  ASSUME RoomInv, NEW queue \in Seq(People), IsInjective(queue),
         Seated \cap Range(queue) = {}, Queue(queue), Started, UNCHANGED phase
  PROVE  /\ TableGrows
         /\ pending' \in Seq(People)
         /\ IsInjective(players') /\ IsInjective(pending')
         /\ Range(players') \cap Range(pending') = {}
         /\ Range(players') \cup Range(pending') = Seated \cup Range(queue)
         /\ Seated \subseteq Range(players')
         /\ QueueServed'
<1>1. /\ players \in Seq(Names) /\ Len(players) <= MaxSeats /\ IsInjective(players)
      /\ Len(players) \in Nat /\ Len(players) >= 4 /\ Len(players) % 2 = 0
  BY DEF RoomInv, RosterKept, EveryoneOnce, QueueServed
<1>2. CASE phase = "awaitingShuffle"
  <2>1. Promote(queue)
    BY <1>2 DEF Queue
  <2>2. /\ TableGrows
        /\ pending' \in Seq(People)
        /\ IsInjective(players') /\ IsInjective(pending')
        /\ Range(players') \cap Range(pending') = {}
        /\ Range(players') \cup Range(pending') = Seated \cup Range(queue)
        /\ Seated \subseteq Range(players')
        /\ Len(players') % 2 = 0
        /\ Len(pending') < 2 \/ Len(players') = MaxSeats
    BY <1>1, <2>1, PromoteKeeps
  <2>3. QueueServed'
    <3>1. Len(players') >= 4
      BY <1>1, <2>2 DEF TableGrows
    <3>2. QED
      BY <2>2, <3>1 DEF QueueServed
  <2>4. QED
    BY <2>2, <2>3
<1>3. CASE phase # "awaitingShuffle"
  <2>1. pending' = queue /\ players' = players
    BY <1>3 DEF Queue
  <2>2. TableGrows
    BY <1>1, <2>1 DEF TableGrows
  <2>3. QueueServed'
    BY <1>1, <1>3, <2>1 DEF QueueServed
  <2>4. QED
    BY <1>1, <2>1, <2>2, <2>3 DEF Seated
<1>4. QED
  BY <1>2, <1>3

-----------------------------------------------------------------------------
(* What the deals leave behind is untouched by who comes and goes.         *)

(* More people at the end of the table change nobody's seat.               *)
LEMMA GameWhenTableGrows ==
  ASSUME GameInv, players \in Seq(Names), TableGrows, UNCHANGED game
  PROVE  GameInv'
<1>1. /\ Len(players) \in Nat /\ Len(players') \in Nat
      /\ Len(players) <= Len(players')
      /\ \A i \in 1 .. Len(players) : players'[i] = players[i]
      /\ UNCHANGED <<phase, levels, level, winner, winnerTeam, turn, nextOrder,
                     givers, receivers, given, returned, record>>
  BY DEF TableGrows, game, grades, tribute
<1>2. Seats \subseteq Seats'
  BY <1>1 DEF Seats
<1>3. \A s \in Seats : s + 1 \in 1 .. Len(players)
  BY <1>1 DEF Seats
<1>4. \A s \in Seats : players'[s + 1] = players[s + 1]
  BY <1>1, <1>3
<1>5. GameTypeOK
  BY DEF GameInv
<1>6. GameTypeOK'
  <2>1. nextOrder \in Seq(Seats')
    BY <1>2, <1>5 DEF GameTypeOK
  <2>2. QED
    BY <1>1, <1>2, <1>5, <2>1 DEF GameTypeOK
<1>7. RecordFollowsPeople'
  <2> SUFFICES ASSUME BetweenDeals
               PROVE  RecordFollowsPeople'
    BY <1>1 DEF RecordFollowsPeople, BetweenDeals
  <2>1. /\ players[winner + 1] = record[1]
        /\ turn = winner
        /\ winnerTeam = TeamOf(winner)
        /\ Len(nextOrder) = Len(record)
        /\ \A i \in DOMAIN record : players[nextOrder[i] + 1] = record[i]
    BY DEF GameInv, RecordFollowsPeople, BetweenDeals
  <2>2. winner \in Seats
    BY <1>5, <2>1, ConstantFacts DEF GameTypeOK
  <2>3. \A i \in DOMAIN record : nextOrder[i] \in Seats
    BY <1>5, <2>1 DEF GameTypeOK
  <2>4. QED
    BY <1>1, <1>4, <2>1, <2>2, <2>3 DEF RecordFollowsPeople, TeamOf
<1>8. LevelIsWinners' /\ NothingLeft'
  BY <1>1 DEF GameInv, LevelIsWinners, NothingLeft, BetweenDeals
<1>9. RecordIsWhole'
  <2>1. Len(record) \in Nat
    BY <1>5 DEF GameTypeOK
  <2>2. QED
    BY <1>1, <2>1 DEF GameInv, RecordIsWhole, BetweenDeals
<1>10. TributeFollowsPlaces'
  <2>1. givers \subseteq Seats /\ receivers \subseteq Seats
    BY <1>5 DEF GameTypeOK
  <2>2. /\ \A g \in givers : players'[g + 1] = players[g + 1]
        /\ \A r \in receivers : players'[r + 1] = players[r + 1]
    BY <1>4, <2>1
  <2>3. QED
    BY <1>1, <2>2 DEF GameInv, TributeFollowsPlaces
<1>11. QED
  BY <1>6, <1>7, <1>8, <1>9, <1>10 DEF GameInv

(* In the lobby no seat is remembered, so people may come, go and move.    *)
LEMMA GameInLobby ==
  ASSUME GameInv, phase = "lobby", players' \in Seq(Names), UNCHANGED game
  PROVE  GameInv'
<1>1. UNCHANGED <<phase, levels, level, winner, winnerTeam, turn, nextOrder,
                  givers, receivers, given, returned, record>>
  BY DEF game, grades, tribute
<1>2. GameTypeOK /\ NothingLeft
  BY DEF GameInv
<1>3. winner = NoSeat /\ nextOrder = <<>> /\ givers = {} /\ receivers = {}
  BY <1>2 DEF NothingLeft, BetweenDeals
<1>4. GameTypeOK'
  BY <1>1, <1>2, <1>3 DEF GameTypeOK
<1>5. NothingLeft' /\ RecordIsWhole' /\ RecordFollowsPeople' /\ LevelIsWinners'
      /\ TributeFollowsPlaces'
  BY <1>1, <1>2 DEF NothingLeft, RecordIsWhole, RecordFollowsPeople,
                    LevelIsWinners, TributeFollowsPlaces, BetweenDeals
<1>6. QED
  BY <1>4, <1>5 DEF GameInv

(* A game that starts afresh remembers nothing.                            *)
LEMMA GameFresh ==
  ASSUME FreshGame, players' \in Seq(Names)
  PROVE  GameInv'
<1>1. GameTypeOK'
  <2>1. 0 \in 0 .. LastLevel
    BY ConstantFacts
  <2>2. QED
    BY <2>1 DEF FreshGame, GameTypeOK
<1>2. NothingLeft' /\ RecordIsWhole' /\ RecordFollowsPeople' /\ LevelIsWinners'
      /\ TributeFollowsPlaces'
  BY DEF FreshGame, NothingLeft, RecordIsWhole, RecordFollowsPeople,
         LevelIsWinners, TributeFollowsPlaces, BetweenDeals
<1>3. QED
  BY <1>1, <1>2 DEF GameInv

-----------------------------------------------------------------------------
(* The commands that seat, queue and unseat people.                        *)

(* The facts about the room that its commands start from.                  *)
LEMMA RoomFacts ==
  ASSUME RoomInv
  PROVE  /\ players \in Seq(Names) /\ Len(players) \in Nat /\ Len(players) <= MaxSeats
         /\ pending \in Seq(People)
         /\ observers \subseteq People /\ online \subseteq People
         /\ IsInjective(players) /\ IsInjective(pending)
         /\ Seated \cap Range(pending) = {}
         /\ observers \cap (Seated \cup Range(pending)) = {}
         /\ online \subseteq Seated \cup Range(pending) \cup observers
         /\ Range(pending) \cup observers \subseteq online
         /\ QueueServed
BY DEF RoomInv, RosterKept, EveryoneOnce

(* A newcomer takes a lobby seat or a place in the queue.                  *)
LEMMA Seating ==
  ASSUME RoomInv, GameInv, NEW p \in People,
         p \notin Seated \cup Range(pending), Reserved < MaxSeats,
         IF Started THEN Queue(Append(pending, p))
         ELSE players' = Append(players, p) /\ UNCHANGED pending,
         UNCHANGED game
  PROVE  /\ GameInv'
         /\ players' \in Seq(Names) /\ Len(players') <= MaxSeats
         /\ pending' \in Seq(People)
         /\ IsInjective(players') /\ IsInjective(pending')
         /\ Range(players') \cap Range(pending') = {}
         /\ Range(players') \cup Range(pending') = Seated \cup Range(pending) \cup {p}
         /\ Seated \subseteq Range(players')
         /\ QueueServed'
<1>1. /\ players \in Seq(Names) /\ Len(players) \in Nat
      /\ pending \in Seq(People)
      /\ IsInjective(players) /\ IsInjective(pending)
      /\ Seated \cap Range(pending) = {}
  BY RoomFacts
<1>2. UNCHANGED phase
  BY DEF game
<1>3. CASE Started
  <2>1. /\ Append(pending, p) \in Seq(People) /\ IsInjective(Append(pending, p))
        /\ Range(Append(pending, p)) = Range(pending) \cup {p}
    BY <1>1, Appended
  <2>2. Queue(Append(pending, p)) /\ Seated \cap Range(Append(pending, p)) = {}
    BY <1>1, <1>3, <2>1
  <2>3. /\ TableGrows
        /\ pending' \in Seq(People)
        /\ IsInjective(players') /\ IsInjective(pending')
        /\ Range(players') \cap Range(pending') = {}
        /\ Range(players') \cup Range(pending')
             = Seated \cup Range(Append(pending, p))
        /\ Seated \subseteq Range(players')
        /\ QueueServed'
    BY <1>2, <1>3, <2>1, <2>2, QueueKeeps
  <2>4. GameInv'
    BY <1>1, <2>3, GameWhenTableGrows
  <2>5. players' \in Seq(Names) /\ Len(players') <= MaxSeats
    BY <2>3 DEF TableGrows
  <2>6. Range(players') \cup Range(pending') = Seated \cup Range(pending) \cup {p}
    BY <2>1, <2>3
  <2>7. QED
    BY <2>3, <2>4, <2>5, <2>6
<1>4. CASE ~Started
  <2>1. players' = Append(players, p) /\ pending' = pending
    BY <1>4
  <2>2. p \in Names /\ p \notin Range(players)
    BY DEF Names, Seated
  <2>3. /\ players' \in Seq(Names) /\ Len(players') = Len(players) + 1
        /\ Range(players') = Range(players) \cup {p}
        /\ IsInjective(players')
    BY <1>1, <2>1, <2>2, Appended
  <2>4. Len(players') <= MaxSeats
    BY <1>1, <1>4, <2>3, ConstantFacts DEF Reserved
  <2>5. phase = "lobby"
    BY <1>4 DEF Started
  <2>6. GameInv'
    BY <2>3, <2>5, GameInLobby
  <2>7. QueueServed'
    BY <1>2, <2>5 DEF QueueServed, Started
  <2>8. QED
    BY <1>1, <2>1, <2>3, <2>4, <2>6, <2>7 DEF Seated
<1>5. QED
  BY <1>3, <1>4

(* Join seats, queues or benches a newcomer, who is then connected.        *)
LEMMA JoinKeeps ==
  ASSUME RoomInv, GameInv, NEW p \in People, Join(p)
  PROVE  RoomInv' /\ GameInv'
<1>1. /\ p \notin online /\ online' = online \cup {p}
      /\ UNCHANGED game /\ UNCHANGED phase
  BY DEF Join, game
<1>2. /\ players \in Seq(Names) /\ Len(players) \in Nat /\ Len(players) <= MaxSeats
      /\ pending \in Seq(People)
      /\ observers \subseteq People /\ online \subseteq People
      /\ IsInjective(players) /\ IsInjective(pending)
      /\ Seated \cap Range(pending) = {}
      /\ observers \cap (Seated \cup Range(pending)) = {}
      /\ online \subseteq Seated \cup Range(pending) \cup observers
      /\ Range(pending) \cup observers \subseteq online
      /\ QueueServed
  BY RoomFacts
<1>3. online' \subseteq People
  BY <1>1, <1>2
<1>4. CASE p \in Seated /\ UNCHANGED <<players, pending, observers>>
  <2>1. TableGrows
    BY <1>2, <1>4 DEF TableGrows
  <2>2. GameInv'
    BY <1>1, <1>2, <2>1, GameWhenTableGrows
  <2>3. EveryoneOnce'
    BY <1>1, <1>2, <1>4 DEF EveryoneOnce, Seated
  <2>4. QueueServed'
    BY <1>1, <1>2, <1>4 DEF QueueServed, Started
  <2>5. QED
    BY <1>2, <1>3, <1>4, <2>2, <2>3, <2>4 DEF RoomInv, RosterKept
<1>5. CASE /\ p \notin Seated /\ Reserved < MaxSeats
           /\ IF Started THEN Queue(Append(pending, p))
              ELSE players' = Append(players, p) /\ UNCHANGED pending
           /\ UNCHANGED observers
  <2>1. p \notin Seated \cup Range(pending)
    BY <1>1, <1>2, <1>5
  <2>2. /\ GameInv'
        /\ players' \in Seq(Names) /\ Len(players') <= MaxSeats
        /\ pending' \in Seq(People)
        /\ IsInjective(players') /\ IsInjective(pending')
        /\ Range(players') \cap Range(pending') = {}
        /\ Range(players') \cup Range(pending') = Seated \cup Range(pending) \cup {p}
        /\ Seated \subseteq Range(players')
        /\ QueueServed'
    BY <1>1, <1>5, <2>1, Seating
  <2>3. EveryoneOnce'
    <3>1. p \notin observers
      BY <1>1, <1>2
    <3>2. Range(pending') \subseteq Range(pending) \cup {p}
      BY <2>2
    <3>3. QED
      BY <1>1, <1>2, <1>5, <2>2, <3>1, <3>2 DEF EveryoneOnce, Seated
  <2>4. QED
    BY <1>2, <1>3, <1>5, <2>2, <2>3 DEF RoomInv, RosterKept
<1>6. CASE /\ p \notin Seated /\ observers' = observers \cup {p}
           /\ UNCHANGED <<players, pending>>
  <2>1. TableGrows
    BY <1>2, <1>6 DEF TableGrows
  <2>2. GameInv'
    BY <1>1, <1>2, <2>1, GameWhenTableGrows
  <2>3. EveryoneOnce'
    BY <1>1, <1>2, <1>6 DEF EveryoneOnce, Seated
  <2>4. QueueServed'
    BY <1>1, <1>2, <1>6 DEF QueueServed, Started
  <2>5. QED
    BY <1>2, <1>3, <1>6, <2>2, <2>3, <2>4 DEF RoomInv, RosterKept
<1>7. QED
  BY <1>4, <1>5, <1>6 DEF Join

(* Somebody on the bench takes a seat or a place in the queue.             *)
LEMMA ParticipateKeeps ==
  ASSUME RoomInv, GameInv, NEW p \in People, Participate(p)
  PROVE  RoomInv' /\ GameInv'
<1>1. /\ p \in online /\ online' = online
      /\ p \in observers /\ p \notin Seated \cup Range(pending)
      /\ Reserved < MaxSeats
      /\ observers' = observers \ {p}
      /\ IF Started THEN Queue(Append(pending, p))
         ELSE players' = Append(players, p) /\ UNCHANGED pending
      /\ UNCHANGED game
  BY DEF Participate, game
<1>2. /\ observers \subseteq People /\ online \subseteq People
      /\ observers \cap (Seated \cup Range(pending)) = {}
      /\ online \subseteq Seated \cup Range(pending) \cup observers
      /\ Range(pending) \cup observers \subseteq online
  BY RoomFacts
<1>3. /\ GameInv'
      /\ players' \in Seq(Names) /\ Len(players') <= MaxSeats
      /\ pending' \in Seq(People)
      /\ IsInjective(players') /\ IsInjective(pending')
      /\ Range(players') \cap Range(pending') = {}
      /\ Range(players') \cup Range(pending') = Seated \cup Range(pending) \cup {p}
      /\ Seated \subseteq Range(players')
      /\ QueueServed'
  BY <1>1, Seating
<1>4. EveryoneOnce'
  <2>1. Range(pending') \subseteq Range(pending) \cup {p}
    BY <1>3
  <2>2. QED
    BY <1>1, <1>2, <1>3, <2>1 DEF EveryoneOnce, Seated
<1>5. QED
  BY <1>1, <1>2, <1>3, <1>4 DEF RoomInv, RosterKept

(* Somebody leaves the queue, or a lobby seat, for the bench.              *)
LEMMA StepAsideKeeps ==
  ASSUME RoomInv, GameInv, NEW p \in People, StepAside(p)
  PROVE  RoomInv' /\ GameInv'
<1>1. /\ p \in online /\ online' = online
      /\ observers' = observers \cup {p}
      /\ UNCHANGED game /\ UNCHANGED phase
  BY DEF StepAside, game
<1>2. /\ players \in Seq(Names) /\ Len(players) \in Nat /\ Len(players) <= MaxSeats
      /\ pending \in Seq(People) /\ Len(pending) \in Nat
      /\ observers \subseteq People /\ online \subseteq People
      /\ IsInjective(players) /\ IsInjective(pending)
      /\ Seated \cap Range(pending) = {}
      /\ observers \cap (Seated \cup Range(pending)) = {}
      /\ online \subseteq Seated \cup Range(pending) \cup observers
      /\ Range(pending) \cup observers \subseteq online
      /\ QueueServed
  BY RoomFacts
<1>3. Range(pending) \subseteq People /\ Range(players) \subseteq Names
  BY <1>2 DEF Range
<1>4. CASE /\ p \in Range(pending) \ Seated
           /\ pending' = Retained(pending, People \ {p})
           /\ UNCHANGED players
  <2>1. /\ pending' \in Seq(People) /\ Len(pending') <= Len(pending)
        /\ Range(pending') = Range(pending) \cap (People \ {p})
        /\ IsInjective(pending')
    BY <1>2, <1>4, RetainedFacts
  <2>2. Range(pending') = Range(pending) \ {p}
    BY <1>3, <2>1
  <2>3. TableGrows
    BY <1>2, <1>4 DEF TableGrows
  <2>4. GameInv'
    BY <1>1, <1>2, <2>3, GameWhenTableGrows
  <2>5. EveryoneOnce'
    BY <1>1, <1>2, <1>4, <2>1, <2>2 DEF EveryoneOnce, Seated
  <2>6. QueueServed'
    <3>1. Len(pending) < 2 => Len(pending') < 2
      BY <1>2, <2>1
    <3>2. QED
      BY <1>1, <1>2, <1>4, <3>1 DEF QueueServed, Started
  <2>7. QED
    BY <1>1, <1>2, <1>4, <2>1, <2>4, <2>5, <2>6 DEF RoomInv, RosterKept
<1>5. CASE /\ ~Started /\ p \in Seated
           /\ players' = Retained(players, Names \ {p})
           /\ UNCHANGED pending
  <2>1. /\ players' \in Seq(Names) /\ Len(players') <= Len(players)
        /\ Range(players') = Range(players) \cap (Names \ {p})
        /\ IsInjective(players')
    BY <1>2, <1>5, RetainedFacts
  <2>2. Range(players') = Range(players) \ {p}
    BY <1>3, <2>1
  <2>3. phase = "lobby"
    BY <1>5 DEF Started
  <2>4. GameInv'
    BY <1>1, <2>1, <2>3, GameInLobby
  <2>5. EveryoneOnce'
    BY <1>1, <1>2, <1>5, <2>1, <2>2 DEF EveryoneOnce, Seated
  <2>6. QueueServed'
    BY <1>1, <2>3 DEF QueueServed, Started
  <2>7. Len(players') <= MaxSeats
    BY <1>2, <2>1, ConstantFacts
  <2>8. QED
    BY <1>1, <1>2, <1>5, <2>1, <2>4, <2>5, <2>6, <2>7 DEF RoomInv, RosterKept
<1>6. QED
  BY <1>4, <1>5 DEF StepAside

(* A connection that ends gives up a place in the queue or on the bench;   *)
(* the last one ends the game.                                             *)
LEMMA DisconnectKeeps ==
  ASSUME RoomInv, GameInv, NEW p \in People, Disconnect(p)
  PROVE  RoomInv' /\ GameInv'
<1>1. online' = online \ {p} /\ observers' = observers \ {p} /\ p \in online
  BY DEF Disconnect
<1>2. /\ players \in Seq(Names) /\ Len(players) \in Nat /\ Len(players) <= MaxSeats
      /\ pending \in Seq(People) /\ Len(pending) \in Nat
      /\ observers \subseteq People /\ online \subseteq People
      /\ IsInjective(players) /\ IsInjective(pending)
      /\ Seated \cap Range(pending) = {}
      /\ observers \cap (Seated \cup Range(pending)) = {}
      /\ online \subseteq Seated \cup Range(pending) \cup observers
      /\ Range(pending) \cup observers \subseteq online
      /\ QueueServed
  BY RoomFacts
<1>3. CASE online = {p} /\ players' = <<>> /\ pending' = <<>> /\ FreshGame
  <2>1. /\ players' \in Seq(Names) /\ Len(players') = 0
        /\ pending' \in Seq(People)
        /\ Range(players') = {} /\ Range(pending') = {}
        /\ IsInjective(players') /\ IsInjective(pending')
    BY <1>3 DEF Range, IsInjective
  <2>2. GameInv'
    BY <1>3, <2>1, GameFresh
  <2>3. QueueServed'
    BY <1>3 DEF FreshGame, QueueServed, Started
  <2>4. online' = {} /\ observers' = {}
    BY <1>1, <1>2, <1>3
  <2>5. EveryoneOnce'
    BY <2>1, <2>4 DEF EveryoneOnce, Seated
  <2>6. Len(players') <= MaxSeats
    BY <2>1, ConstantFacts
  <2>7. QED
    BY <2>1, <2>2, <2>3, <2>4, <2>5, <2>6 DEF RoomInv, RosterKept
<1>4. CASE /\ pending' = Retained(pending, People \ {p})
           /\ UNCHANGED <<players, phase, grades, turn, nextOrder, tribute, record>>
  <2>1. /\ pending' \in Seq(People) /\ Len(pending') <= Len(pending)
        /\ Range(pending') = Range(pending) \cap (People \ {p})
        /\ IsInjective(pending')
    BY <1>2, <1>4, RetainedFacts
  <2>2. Range(pending) \subseteq People
    BY <1>2 DEF Range
  <2>3. Range(pending') = Range(pending) \ {p}
    BY <2>1, <2>2
  <2>4. TableGrows
    BY <1>2, <1>4 DEF TableGrows
  <2>5. GameInv'
    BY <1>2, <1>4, <2>4, GameWhenTableGrows DEF game
  <2>6. EveryoneOnce'
    BY <1>1, <1>2, <1>4, <2>1, <2>3 DEF EveryoneOnce, Seated
  <2>7. QueueServed'
    <3>1. Len(pending) < 2 => Len(pending') < 2
      BY <1>2, <2>1
    <3>2. QED
      BY <1>2, <1>4, <3>1 DEF QueueServed, Started
  <2>8. QED
    BY <1>1, <1>2, <1>4, <2>1, <2>5, <2>6, <2>7 DEF RoomInv, RosterKept
<1>5. QED
  BY <1>3, <1>4 DEF Disconnect

(* Names of robots are told apart, and are nobody's.                       *)
LEMMA RobotFacts ==
  ASSUME NEW k \in 1 .. MaxBots
  PROVE  LET robots == [i \in 1 .. k |-> Robot(i)]
         IN  /\ robots \in Seq(Names) /\ Len(robots) = k
             /\ IsInjective(robots)
             /\ Range(robots) \cap People = {}
<1> DEFINE robots == [i \in 1 .. k |-> Robot(i)]
<1>1. k \in Nat /\ \A i \in 1 .. k : i \in 1 .. MaxBots
  BY MaxBotsAssumption
<1>2. /\ DOMAIN robots = 1 .. k
      /\ \A i \in 1 .. k : /\ robots[i] = <<"robot", i>>
                            /\ robots[i] \in Names /\ robots[i] \notin People
  BY <1>1, RobotAssumption DEF Robot, Names
<1>3. robots \in [1 .. k -> Names]
  BY <1>2
<1> HIDE DEF robots
<1>4. robots \in Seq(Names) /\ Len(robots) = k
  BY <1>1, <1>3, FunctionIsSeq
<1>5. IsInjective(robots)
  BY <1>2 DEF IsInjective
<1>6. Range(robots) \cap People = {}
  BY <1>2 DEF Range
<1>7. QED
  BY <1>4, <1>5, <1>6 DEF robots

(* SetBots leaves every person seated and adds the robots behind.          *)
LEMMA SetBotsKeeps ==
  ASSUME RoomInv, GameInv, NEW p \in People, NEW k \in 1 .. MaxBots, SetBots(p, k)
  PROVE  RoomInv' /\ GameInv'
<1> DEFINE people == Retained(players, People)
           robots == [i \in 1 .. k |-> Robot(i)]
<1>1. /\ phase = "lobby" /\ UNCHANGED <<pending, observers, online>>
      /\ UNCHANGED game /\ UNCHANGED phase
  BY DEF SetBots, Started, game
<1>2. Len(people) + k <= MaxSeats /\ players' = people \o robots
  BY DEF SetBots
<1>3. /\ players \in Seq(Names)
      /\ pending \in Seq(People)
      /\ observers \subseteq People /\ online \subseteq People
      /\ IsInjective(players) /\ IsInjective(pending)
      /\ Seated \cap Range(pending) = {}
      /\ observers \cap (Seated \cup Range(pending)) = {}
      /\ online \subseteq Seated \cup Range(pending) \cup observers
      /\ Range(pending) \cup observers \subseteq online
  BY RoomFacts
<1>4. /\ people \in Seq(Names) /\ IsInjective(people)
      /\ Range(people) = Seated \cap People
  BY <1>3, RetainedFacts DEF Seated
<1>5. /\ robots \in Seq(Names) /\ Len(robots) = k /\ IsInjective(robots)
      /\ Range(robots) \cap People = {}
  BY RobotFacts
<1> HIDE DEF people, robots
<1>6. /\ players' \in Seq(Names) /\ Len(players') = Len(people) + k
      /\ Range(players') = Range(people) \cup Range(robots)
      /\ IsInjective(players')
  <2>1. Range(people) \cap Range(robots) = {}
    BY <1>4, <1>5
  <2>2. /\ people \o robots \in Seq(Names)
        /\ Len(people \o robots) = Len(people) + Len(robots)
        /\ Range(people \o robots) = Range(people) \cup Range(robots)
        /\ IsInjective(people \o robots)
    BY <1>4, <1>5, <2>1, Joined
  <2>3. players' = people \o robots
    BY <1>2
  <2>4. QED
    BY <1>5, <2>2, <2>3
<1>7. Range(pending) \subseteq People
  BY <1>3 DEF Range
<1>8. EveryoneOnce'
  <2>1. Range(players') \cap People = Seated \cap People
    BY <1>4, <1>5, <1>6
  <2>2. QED
    BY <1>1, <1>3, <1>6, <1>7, <2>1 DEF EveryoneOnce, Seated
<1>9. QueueServed'
  BY <1>1 DEF QueueServed, Started
<1>10. GameInv'
  BY <1>1, <1>6, GameInLobby
<1>11. Len(players') <= MaxSeats
  BY <1>2, <1>6
<1>12. QED
  BY <1>1, <1>3, <1>6, <1>8, <1>9, <1>10, <1>11 DEF RoomInv, RosterKept

-----------------------------------------------------------------------------
(* Swaps.                                                                  *)

(* Two people of one team change seats: whoever had seat s has seat        *)
(* Remap(s) now.                                                           *)
LEMMA SwapFacts ==
  ASSUME players \in Seq(Names), IsInjective(players),
         NEW a \in Seats, NEW b \in Seats, TeamOf(a) = TeamOf(b),
         players' = [players EXCEPT ![a + 1] = players[b + 1],
                                    ![b + 1] = players[a + 1]]
  PROVE  /\ players' \in Seq(Names) /\ Len(players') = Len(players)
         /\ IsInjective(players') /\ Range(players') = Range(players)
         /\ \A s \in Seats : /\ Remap(s, a, b) \in Seats
                              /\ TeamOf(Remap(s, a, b)) = TeamOf(s)
                              /\ players'[Remap(s, a, b) + 1] = players[s + 1]
<1> DEFINE l == Len(players)
<1>1. /\ l \in Nat /\ DOMAIN players = 1 .. l
      /\ \A i \in 1 .. l : players[i] \in Names
      /\ \A i, j \in 1 .. l : players[i] = players[j] => i = j
      /\ Seats = 0 .. l - 1
  BY DEF IsInjective, Seats
<1> HIDE DEF l
<1>2. /\ a \in Nat /\ b \in Nat /\ a + 1 \in 1 .. l /\ b + 1 \in 1 .. l
      /\ \A s \in Seats : s \in Nat /\ s + 1 \in 1 .. l
      /\ \A i \in 1 .. l : i - 1 \in Seats /\ (i - 1) + 1 = i
  BY <1>1
<1>3. /\ DOMAIN players' = 1 .. l
      /\ \A i \in 1 .. l : players'[i] = IF i = b + 1 THEN players[a + 1]
                                          ELSE IF i = a + 1 THEN players[b + 1]
                                          ELSE players[i]
  BY <1>1, <1>2
<1>4. players' \in [1 .. l -> Names]
  BY <1>1, <1>2, <1>3
<1>5. players' \in Seq(Names) /\ Len(players') = l
  BY <1>1, <1>4, FunctionIsSeq
<1>6. ASSUME NEW s \in Seats
      PROVE  /\ Remap(s, a, b) \in Seats
             /\ TeamOf(Remap(s, a, b)) = TeamOf(s)
             /\ players'[Remap(s, a, b) + 1] = players[s + 1]
  <2>1. Remap(s, a, b) \in Seats /\ TeamOf(Remap(s, a, b)) = TeamOf(s)
    BY DEF Remap
  <2>2. CASE s = a
    BY <1>2, <1>3, <2>2 DEF Remap
  <2>3. CASE s # a /\ s = b
    <3>1. a + 1 # b + 1
      BY <1>2, <2>3
    <3>2. QED
      BY <1>2, <1>3, <2>3, <3>1 DEF Remap
  <2>4. CASE s # a /\ s # b
    <3>1. s + 1 # a + 1 /\ s + 1 # b + 1
      BY <1>2, <2>4
    <3>2. QED
      BY <1>2, <1>3, <2>4, <3>1 DEF Remap
  <2>5. QED
    BY <2>1, <2>2, <2>3, <2>4
<1>7. IsInjective(players')
  <2>1. \A i, j \in 1 .. l : players'[i] = players'[j] => i = j
    BY <1>1, <1>2, <1>3
  <2>2. QED
    BY <1>3, <2>1 DEF IsInjective
<1>8. Range(players') = Range(players)
  <2>1. \A i \in 1 .. l : \E j \in 1 .. l : players'[i] = players[j]
    BY <1>2, <1>3
  <2>2. ASSUME NEW i \in 1 .. l
        PROVE  \E j \in 1 .. l : players[i] = players'[j]
    <3>1. i - 1 \in Seats /\ (i - 1) + 1 = i
      BY <1>2
    <3>2. /\ Remap(i - 1, a, b) \in Seats
          /\ players'[Remap(i - 1, a, b) + 1] = players[i]
      BY <1>6, <3>1
    <3>3. Remap(i - 1, a, b) + 1 \in 1 .. l
      BY <1>2, <3>2
    <3>4. QED
      BY <3>2, <3>3
  <2>3. Range(players') = {players'[i] : i \in 1 .. l}
    BY <1>3 DEF Range
  <2>4. Range(players) = {players[i] : i \in 1 .. l}
    BY <1>1 DEF Range
  <2>5. Range(players') \subseteq Range(players)
    BY <2>1, <2>3, <2>4
  <2>6. Range(players) \subseteq Range(players')
    BY <2>2, <2>3, <2>4
  <2>7. QED
    BY <2>5, <2>6
<1>9. QED
  BY <1>5, <1>6, <1>7, <1>8 DEF l

(* A swap moves the people and, with them, what the last deal left.        *)
LEMMA ReorderKeeps ==
  ASSUME RoomInv, GameInv, NEW p \in People,
         NEW a \in Seats, NEW b \in Seats, Reorder(p, a, b)
  PROVE  RoomInv' /\ GameInv'
<1>1. /\ phase \in {"lobby", "awaitingShuffle"}
      /\ TeamOf(a) = TeamOf(b)
      /\ players' = [players EXCEPT ![a + 1] = players[b + 1],
                                     ![b + 1] = players[a + 1]]
      /\ turn' = Remap(turn, a, b)
      /\ winner' = Remap(winner, a, b)
      /\ nextOrder' = RemapOrder(nextOrder, a, b)
      /\ UNCHANGED <<pending, observers, online, phase, levels, level, winnerTeam,
                     givers, receivers, given, returned, record>>
  BY DEF Reorder, MaySwap, tribute
<1>2. /\ players \in Seq(Names) /\ Len(players) <= MaxSeats
      /\ pending \in Seq(People)
      /\ observers \subseteq People /\ online \subseteq People
      /\ IsInjective(players) /\ EveryoneOnce /\ QueueServed
  BY DEF RoomInv, RosterKept, EveryoneOnce
<1>3. /\ players' \in Seq(Names) /\ Len(players') = Len(players)
      /\ IsInjective(players') /\ Range(players') = Range(players)
      /\ \A s \in Seats : /\ Remap(s, a, b) \in Seats
                           /\ TeamOf(Remap(s, a, b)) = TeamOf(s)
                           /\ players'[Remap(s, a, b) + 1] = players[s + 1]
  BY <1>1, <1>2, SwapFacts
<1>4. RoomInv'
  <2>1. EveryoneOnce'
    BY <1>1, <1>2, <1>3 DEF EveryoneOnce, Seated
  <2>2. QueueServed'
    BY <1>1, <1>2, <1>3 DEF QueueServed, Started
  <2>3. QED
    BY <1>1, <1>2, <1>3, <2>1, <2>2 DEF RoomInv, RosterKept
<1>5. Seats' = Seats /\ Seats \subseteq Nat /\ NoSeat \notin Seats
  BY <1>3, ConstantFacts DEF Seats
<1>6. GameTypeOK /\ nextOrder \in Seq(Seats)
  BY DEF GameInv, GameTypeOK
<1>7. /\ nextOrder' \in Seq(Seats) /\ Len(nextOrder') = Len(nextOrder)
      /\ \A i \in DOMAIN nextOrder : nextOrder'[i] = Remap(nextOrder[i], a, b)
  <2>1. Len(nextOrder) \in Nat /\ DOMAIN nextOrder = 1 .. Len(nextOrder)
        /\ \A i \in 1 .. Len(nextOrder) : nextOrder[i] \in Seats
    BY <1>6
  <2>2. nextOrder' = [i \in 1 .. Len(nextOrder) |-> Remap(nextOrder[i], a, b)]
    BY <1>1, <2>1 DEF RemapOrder
  <2>3. \A i \in 1 .. Len(nextOrder) : Remap(nextOrder[i], a, b) \in Seats
    BY <1>3, <2>1
  <2>4. nextOrder' \in [1 .. Len(nextOrder) -> Seats]
    BY <2>2, <2>3
  <2>5. nextOrder' \in Seq(Seats) /\ Len(nextOrder') = Len(nextOrder)
    BY <2>1, <2>4, FunctionIsSeq
  <2>6. QED
    BY <2>1, <2>2, <2>5
<1>8. winner' \in Seats \cup {NoSeat} /\ (winner = NoSeat => winner' = NoSeat)
  <2>1. CASE winner \in Seats
    BY <1>1, <1>3, <1>5, <2>1
  <2>2. CASE winner = NoSeat
    BY <1>1, <1>5, <2>2 DEF Remap
  <2>3. QED
    BY <1>6, <2>1, <2>2 DEF GameTypeOK
<1>9. turn' \in Nat
  BY <1>1, <1>5, <1>6 DEF GameTypeOK, Remap
<1>10. GameTypeOK'
  BY <1>1, <1>5, <1>6, <1>7, <1>8, <1>9 DEF GameTypeOK
<1>11. LevelIsWinners' /\ RecordIsWhole'
  BY <1>1, <1>3 DEF GameInv, LevelIsWinners, RecordIsWhole, BetweenDeals
<1>12. NothingLeft'
  <2>1. ~BetweenDeals => nextOrder' = <<>>
    <3>1. nextOrder = <<>> => nextOrder' = <<>>
      BY <1>7
    <3>2. QED
      BY <3>1 DEF GameInv, NothingLeft
  <2>2. QED
    BY <1>1, <1>8, <2>1 DEF GameInv, NothingLeft, BetweenDeals
<1>13. RecordFollowsPeople'
  <2> SUFFICES ASSUME BetweenDeals PROVE RecordFollowsPeople'
    BY <1>1 DEF RecordFollowsPeople, BetweenDeals
  <2>1. /\ players[winner + 1] = record[1]
        /\ turn = winner
        /\ winnerTeam = TeamOf(winner)
        /\ Len(nextOrder) = Len(record)
        /\ \A i \in DOMAIN record : players[nextOrder[i] + 1] = record[i]
    BY DEF GameInv, RecordFollowsPeople, BetweenDeals
  <2>2. winner \in Seats
    BY <1>6, <2>1, ConstantFacts DEF GameTypeOK
  <2>3. /\ players'[winner' + 1] = record[1] /\ turn' = winner'
        /\ TeamOf(winner') = TeamOf(winner)
    BY <1>1, <1>3, <2>1, <2>2
  <2>4. ASSUME NEW i \in DOMAIN record
        PROVE  players'[nextOrder'[i] + 1] = record[i]
    <3>1. i \in DOMAIN nextOrder /\ nextOrder[i] \in Seats
      BY <1>6, <2>1 DEF GameTypeOK
    <3>2. QED
      BY <1>3, <1>7, <2>1, <3>1
  <2>5. QED
    BY <1>1, <1>7, <2>1, <2>3, <2>4 DEF RecordFollowsPeople, TeamOf
<1>14. TributeFollowsPlaces'
  BY <1>1 DEF TributeFollowsPlaces
<1>15. GameInv'
  BY <1>10, <1>11, <1>12, <1>13, <1>14 DEF GameInv
<1>16. QED
  BY <1>4, <1>15

-----------------------------------------------------------------------------
(* Deals.                                                                  *)

(* A step that moves nobody keeps the room in order when it leaves a queue *)
(* that has been served.                                                   *)
LEMMA RoomUntouched ==
  ASSUME RoomInv, UNCHANGED room, QueueServed'
  PROVE  RoomInv'
<1>1. UNCHANGED <<players, pending, observers, online>>
  BY DEF room
<1>2. EveryoneOnce'
  BY <1>1 DEF RoomInv, RosterKept, EveryoneOnce, Seated
<1>3. QED
  BY <1>1, <1>2 DEF RoomInv, RosterKept

(* A step that leaves the deals alone keeps what is true of them.          *)
LEMMA GameUntouched ==
  ASSUME RoomInv, GameInv, UNCHANGED <<room, game>>
  PROVE  RoomInv' /\ GameInv'
<1>1. UNCHANGED <<players, pending, phase>> /\ UNCHANGED room /\ UNCHANGED game
  BY DEF room, game
<1>2. TableGrows
  BY <1>1 DEF TableGrows, RoomInv
<1>3. GameInv'
  BY <1>1, <1>2, GameWhenTableGrows DEF RoomInv
<1>4. QueueServed'
  BY <1>1 DEF RoomInv, RosterKept, QueueServed, Started
<1>5. QED
  BY <1>1, <1>3, <1>4, RoomUntouched

(* A match starts at an even table of four or more, from nothing.          *)
LEMMA StartKeeps ==
  ASSUME RoomInv, GameInv, NEW p \in People, Start(p)
  PROVE  RoomInv' /\ GameInv'
<1>1. /\ phase \in {"lobby", "matchOver"} /\ phase' = "play"
      /\ Len(players) \in StartSizes
      /\ levels' = [t \in {0, 1} |-> 0] /\ level' = 0
      /\ turn' \in Seats /\ winner' = NoSeat /\ winnerTeam' = NoSeat
      /\ nextOrder' = <<>>
      /\ UNCHANGED room
      /\ UNCHANGED <<players, pending, givers, receivers, given, returned, record>>
  BY DEF Start, room, tribute
<1>2. Len(players) >= 4 /\ Len(players) % 2 = 0
  <2>1. Len(players) \in {4, 6, 8, 10, 12, 14}
    BY <1>1, StartSizesAssumption
  <2>2. \A n \in {4, 6, 8, 10, 12, 14} : n >= 4 /\ n % 2 = 0
    OBVIOUS
  <2>3. QED
    BY <2>1, <2>2
<1>3. RoomInv'
  <2>1. QueueServed'
    BY <1>1, <1>2 DEF QueueServed
  <2>2. QED
    BY <1>1, <2>1, RoomUntouched
<1>4. GameTypeOK /\ NothingLeft
  BY DEF GameInv
<1>5. GameTypeOK'
  <2>1. 0 \in 0 .. LastLevel
    BY ConstantFacts
  <2>2. turn' \in Nat
    BY <1>1 DEF Seats
  <2>3. QED
    BY <1>1, <1>4, <2>1, <2>2 DEF GameTypeOK, Seats
<1>6. LevelIsWinners' /\ RecordIsWhole' /\ RecordFollowsPeople'
      /\ TributeFollowsPlaces'
  BY <1>1 DEF LevelIsWinners, RecordIsWhole, RecordFollowsPeople,
              TributeFollowsPlaces, BetweenDeals
<1>7. NothingLeft'
  BY <1>1, <1>4 DEF NothingLeft, BetweenDeals
<1>8. QED
  BY <1>3, <1>5, <1>6, <1>7 DEF GameInv

(* A deal that decides the match: nothing is left for a next one.          *)
LEMMA MatchWonKeeps ==
  ASSUME RoomInv, GameInv, phase = "play", phase' = "matchOver",
         UNCHANGED <<room, levels, level, turn, nextOrder, tribute, record>>,
         winner' \in Seats, winnerTeam' \in {0, 1}
  PROVE  RoomInv' /\ GameInv'
<1>1. /\ UNCHANGED room
      /\ UNCHANGED <<players, pending, givers, receivers, given, returned>>
  BY DEF room, tribute
<1>2. RoomInv'
  <2>1. QueueServed'
    BY <1>1 DEF RoomInv, RosterKept, QueueServed, Started
  <2>2. QED
    BY <1>1, <2>1, RoomUntouched
<1>3. GameTypeOK /\ NothingLeft
  BY DEF GameInv
<1>4. GameTypeOK'
  BY <1>1, <1>3 DEF GameTypeOK, Seats
<1>5. LevelIsWinners' /\ RecordIsWhole' /\ RecordFollowsPeople'
      /\ TributeFollowsPlaces'
  BY DEF LevelIsWinners, RecordIsWhole, RecordFollowsPeople,
         TributeFollowsPlaces, BetweenDeals
<1>6. NothingLeft'
  BY <1>1, <1>3 DEF NothingLeft, BetweenDeals
<1>7. QED
  BY <1>2, <1>4, <1>5, <1>6 DEF GameInv

(* What settlement notes of a finish order of the whole table: the order   *)
(* without its last place, and who held each place.                        *)
LEMMA SettlementNotes ==
  ASSUME players \in Seq(Names), IsInjective(players), Len(players) >= 4,
         NEW order \in [1 .. Len(players) -> Seats], IsInjective(order),
         NEW noted, noted = SubSeq(order, 1, Len(players) - 1),
         NEW names, names = [i \in 1 .. Len(players) - 1 |-> players[order[i] + 1]]
  PROVE  /\ noted \in Seq(Seats) /\ names \in Seq(Names)
         /\ Len(noted) = Len(players) - 1 /\ Len(names) = Len(players) - 1
         /\ IsInjective(names)
         /\ \A i \in 1 .. Len(players) - 1 : /\ noted[i] = order[i]
                                             /\ names[i] = players[order[i] + 1]
<1> DEFINE n == Len(players)
<1>1. /\ n \in Nat /\ n >= 4 /\ DOMAIN players = 1 .. n
      /\ \A i \in 1 .. n : players[i] \in Names
      /\ \A i, j \in 1 .. n : players[i] = players[j] => i = j
      /\ \A s \in Seats : s \in Nat /\ s + 1 \in 1 .. n
  BY DEF IsInjective, Seats
<1>2. /\ DOMAIN order = 1 .. n
      /\ \A i \in 1 .. n : order[i] \in Seats
      /\ \A i, j \in 1 .. n : order[i] = order[j] => i = j
  BY DEF IsInjective
<1>3. /\ noted = SubSeq(order, 1, n - 1)
      /\ names = [i \in 1 .. n - 1 |-> players[order[i] + 1]]
  OBVIOUS
<1> HIDE DEF n
<1>4. n - 1 \in Nat /\ \A i \in 1 .. n - 1 : i \in 1 .. n
  BY <1>1
<1>5. /\ noted \in Seq(Seats) /\ Len(noted) = n - 1
      /\ \A i \in 1 .. n - 1 : noted[i] = order[i]
  <2>1. /\ noted \in Seq(Seats)
        /\ Len(noted) = IF 1 <= n - 1 THEN n - 1 - 1 + 1 ELSE 0
        /\ \A i \in 1 .. n - 1 - 1 + 1 : noted[i] = order[1 + i - 1]
    <3>1. 1 \in Int /\ n - 1 \in Int /\ \A i \in 1 .. n - 1 : order[i] \in Seats
      BY <1>2, <1>4
    <3>2. QED
      BY <1>3, <3>1, SubSeqProperties
  <2>2. n - 1 - 1 + 1 = n - 1 /\ 1 <= n - 1
    BY <1>1
  <2>3. \A i \in 1 .. n - 1 : 1 + i - 1 = i
    BY <1>4
  <2>4. QED
    BY <2>1, <2>2, <2>3
<1>6. \A i \in 1 .. n - 1 : names[i] = players[order[i] + 1]
  BY <1>3
<1>7. names \in Seq(Names) /\ Len(names) = n - 1 /\ DOMAIN names = 1 .. n - 1
  <2>1. \A i \in 1 .. n - 1 : players[order[i] + 1] \in Names
    BY <1>1, <1>2, <1>4
  <2>2. names \in [1 .. n - 1 -> Names]
    BY <1>3, <2>1
  <2>3. QED
    BY <1>4, <2>2, FunctionIsSeq
<1>8. IsInjective(names)
  <2> SUFFICES ASSUME NEW i \in 1 .. n - 1, NEW j \in 1 .. n - 1,
                      names[i] = names[j]
               PROVE  i = j
    BY <1>7 DEF IsInjective
  <2>1. order[i] \in Seats /\ order[j] \in Seats
    BY <1>2, <1>4
  <2>2. order[i] + 1 = order[j] + 1
    BY <1>1, <1>6, <2>1
  <2>3. order[i] = order[j]
    BY <1>1, <2>1, <2>2
  <2>4. QED
    BY <1>2, <1>4, <2>3
<1>9. QED
  BY <1>5, <1>6, <1>7, <1>8 DEF n

(* A deal that does not decide the match: the winner's team advances, the  *)
(* result is noted, and the queue is served.                               *)
LEMMA RoundOverKeeps ==
  ASSUME RoomInv, GameInv, phase = "play",
         NEW order \in [1 .. Len(players) -> Seats], IsInjective(order),
         T(Len(players))!PromotionSteps(order) \in 1 .. 3,
         winner' = order[1], winnerTeam' = TeamOf(order[1]),
         GradeDeal(Len(players), order),
         phase' = "awaitingShuffle", turn' = order[1],
         nextOrder' = SubSeq(order, 1, Len(players) - 1),
         record' = [i \in 1 .. Len(players) - 1 |-> players[order[i] + 1]],
         Promote(pending), UNCHANGED <<observers, online, tribute>>
  PROVE  RoomInv' /\ GameInv'
<1> DEFINE n == Len(players)
<1>1. /\ players \in Seq(Names) /\ n \in Nat /\ n <= MaxSeats
      /\ pending \in Seq(People)
      /\ observers \subseteq People /\ online \subseteq People
      /\ IsInjective(players) /\ IsInjective(pending)
      /\ Seated \cap Range(pending) = {}
      /\ observers \cap (Seated \cup Range(pending)) = {}
      /\ online \subseteq Seated \cup Range(pending) \cup observers
      /\ Range(pending) \cup observers \subseteq online
  BY RoomFacts
<1>2. n >= 4 /\ n % 2 = 0
  BY DEF RoomInv, RosterKept, QueueServed, Started
<1>3. /\ TableGrows
      /\ pending' \in Seq(People)
      /\ IsInjective(players') /\ IsInjective(pending')
      /\ Range(players') \cap Range(pending') = {}
      /\ Range(players') \cup Range(pending') = Seated \cup Range(pending)
      /\ Seated \subseteq Range(players')
      /\ Len(players') % 2 = 0
      /\ Len(pending') < 2 \/ Len(players') = MaxSeats
  BY <1>1, <1>2, PromoteKeeps
<1>4. /\ players' \in Seq(Names) /\ Len(players') \in Nat
      /\ n <= Len(players') /\ Len(players') <= MaxSeats
      /\ \A i \in 1 .. n : players'[i] = players[i]
  <2>1. players' \in Seq(Names)
    BY <1>3 DEF TableGrows
  <2>2. Len(players') \in Nat
    BY <2>1
  <2>3. QED
    BY <1>3, <2>1, <2>2 DEF TableGrows
<1>5. RoomInv'
  <2>1. EveryoneOnce'
    <3>1. Range(pending') \subseteq Range(pending)
      BY <1>1, <1>3
    <3>2. QED
      BY <1>1, <1>3, <3>1 DEF EveryoneOnce, Seated
  <2>2. QueueServed'
    <3>1. Len(players') >= 4
      BY <1>1, <1>2, <1>4
    <3>2. QED
      BY <1>3, <3>1 DEF QueueServed
  <2>3. QED
    BY <1>1, <1>3, <1>4, <2>1, <2>2 DEF RoomInv, RosterKept
<1>6. /\ nextOrder' \in Seq(Seats) /\ record' \in Seq(Names)
      /\ Len(nextOrder') = n - 1 /\ Len(record') = n - 1
      /\ IsInjective(record')
      /\ \A i \in 1 .. n - 1 : /\ nextOrder'[i] = order[i]
                              /\ record'[i] = players[order[i] + 1]
  <2>1. /\ players \in Seq(Names) /\ IsInjective(players) /\ Len(players) >= 4
        /\ order \in [1 .. Len(players) -> Seats] /\ IsInjective(order)
        /\ nextOrder' = SubSeq(order, 1, Len(players) - 1)
        /\ record' = [i \in 1 .. Len(players) - 1 |-> players[order[i] + 1]]
    BY <1>1, <1>2
  <2>2. QED
    BY ONLY <2>1, SettlementNotes
<1>7. /\ Seats \subseteq Seats' /\ Seats \subseteq Nat
      /\ \A s \in Seats : s + 1 \in 1 .. n
  BY <1>1, <1>4 DEF Seats
<1>8. /\ order[1] \in Seats /\ TeamOf(order[1]) \in {0, 1}
      /\ \A i \in 1 .. n - 1 : order[i] \in Seats
  <2>1. 1 \in 1 .. n /\ \A i \in 1 .. n - 1 : i \in 1 .. n
    BY <1>1, <1>2
  <2>2. order[1] \in Seats /\ \A i \in 1 .. n - 1 : order[i] \in Seats
    BY <2>1
  <2>3. \A s \in Nat : s % 2 \in {0, 1}
    OBVIOUS
  <2>4. QED
    BY <1>7, <2>2, <2>3 DEF TeamOf
<1>9. GameTypeOK /\ NothingLeft
  BY DEF GameInv
<1>10. /\ levels' \in [{0, 1} -> 0 .. LastLevel] /\ level' \in 0 .. LastLevel
       /\ level' = levels'[winnerTeam']
  <2> DEFINE team  == TeamOf(order[1])
             steps == T(Len(players))!PromotionSteps(order)
  <2>1. /\ levels' = [levels EXCEPT ![team] = Advance(@, steps)]
        /\ level' = levels'[team]
    BY DEF GradeDeal
  <2>2. team \in {0, 1} /\ steps \in 1 .. 3
    BY <1>8
  <2>3. winnerTeam' = team
    OBVIOUS
  <2> HIDE DEF team, steps
  <2>4. levels \in [{0, 1} -> 0 .. LastLevel]
    BY <1>9 DEF GameTypeOK
  <2>5. Advance(levels[team], steps) \in 0 .. LastLevel
    <3>1. levels[team] \in 0 .. LastLevel
      BY <2>2, <2>4
    <3>2. QED
      BY <2>2, <3>1, ConstantFacts DEF Advance
  <2>6. levels' \in [{0, 1} -> 0 .. LastLevel]
    BY <2>1, <2>4, <2>5
  <2>7. QED
    BY <2>1, <2>2, <2>3, <2>6
<1>11. UNCHANGED <<givers, receivers, given, returned>>
  BY DEF tribute
<1> HIDE DEF n
<1>12. GameTypeOK'
  <2>1. nextOrder' \in Seq(Seats')
    <3> DEFINE old == Seats
               new == Seats'
    <3>1. nextOrder' \in Seq(old) /\ old \subseteq new
      BY <1>6, <1>7
    <3> HIDE DEF old, new
    <3>2. nextOrder' \in Seq(new)
      BY <3>1
    <3>3. QED
      BY <3>2 DEF new
  <2>2. turn' \in Nat /\ winner' \in Seats'
    BY <1>7, <1>8
  <2>3. QED
    BY <1>6, <1>7, <1>8, <1>9, <1>10, <1>11, <2>1, <2>2 DEF GameTypeOK
<1>13. RecordFollowsPeople'
  <2>1. \A s \in Seats : players'[s + 1] = players[s + 1]
    BY <1>4, <1>7
  <2>2. 1 \in 1 .. n - 1
    BY <1>1, <1>2
  <2>3. players'[winner' + 1] = record'[1]
    BY <1>6, <1>8, <2>1, <2>2
  <2>4. /\ turn' = winner' /\ winnerTeam' = TeamOf(winner')
        /\ Len(nextOrder') = Len(record')
    BY <1>6
  <2>5. \A i \in 1 .. n - 1 : players'[nextOrder'[i] + 1] = record'[i]
    BY <1>6, <1>8, <2>1
  <2>6. DOMAIN record' = 1 .. n - 1
    BY <1>6
  <2>7. QED
    BY <2>3, <2>4, <2>5, <2>6 DEF RecordFollowsPeople, TeamOf
<1>14. LevelIsWinners'
  <2>1. winnerTeam' \in {0, 1} /\ winnerTeam' # NoSeat
    BY <1>8, ConstantFacts
  <2>2. QED
    BY <1>10, <2>1 DEF LevelIsWinners
<1>15. RecordIsWhole'
  <2>1. Len(record') >= 1 /\ Len(record') + 1 <= Len(players')
    BY <1>1, <1>2, <1>4, <1>6
  <2>2. QED
    BY <1>6, <2>1 DEF RecordIsWhole
<1>16. NothingLeft'
  BY <1>9, <1>11 DEF NothingLeft, BetweenDeals
<1>17. TributeFollowsPlaces'
  BY DEF TributeFollowsPlaces
<1>18. QED
  BY <1>5, <1>12, <1>13, <1>14, <1>15, <1>16, <1>17 DEF GameInv

(* Settlement keeps the room and what is known of its deals.               *)
LEMMA EndDealKeeps ==
  ASSUME RoomInv, GameInv, EndDeal
  PROVE  RoomInv' /\ GameInv'
<1>1. phase = "play" /\ UNCHANGED <<observers, online, tribute>>
  BY DEF EndDeal
<1>2. Len(players) \in Nat /\ Len(players) >= 4
  BY <1>1, RoomFacts DEF QueueServed, Started
<1>3. PICK order \in T(Len(players))!Outcomes :
        /\ winner' = order[1]
        /\ winnerTeam' = TeamOf(order[1])
        /\ \/ /\ WinsMatch(Len(players), order)
              /\ phase' = "matchOver"
              /\ UNCHANGED <<players, pending, levels, level, turn,
                             nextOrder, record>>
           \/ /\ ~WinsMatch(Len(players), order)
              /\ GradeDeal(Len(players), order)
              /\ phase' = "awaitingShuffle"
              /\ turn' = order[1]
              /\ nextOrder' = SubSeq(order, 1, Len(players) - 1)
              /\ record' = [i \in 1 .. Len(players) - 1 |-> players[order[i] + 1]]
              /\ Promote(pending)
  BY DEF EndDeal
<1>4. /\ order \in [1 .. Len(players) -> Seats] /\ IsInjective(order)
      /\ T(Len(players))!PromotionSteps(order) \in 1 .. 3
  BY <1>2, OutcomeFacts DEF Seats
<1>5. CASE phase' = "matchOver" /\ UNCHANGED <<players, pending, levels, level, turn,
                                               nextOrder, record>>
  <2>1. order[1] \in Seats /\ TeamOf(order[1]) \in {0, 1}
    <3>1. order[1] \in Seats
      BY <1>2, <1>4
    <3>2. order[1] \in Nat
      BY <3>1 DEF Seats
    <3>3. QED
      BY <3>1, <3>2 DEF TeamOf
  <2>2. winner' \in Seats /\ winnerTeam' \in {0, 1}
    BY <1>3, <2>1
  <2>3. UNCHANGED <<room, levels, level, turn, nextOrder, tribute, record>>
    BY <1>1, <1>5 DEF room
  <2>4. QED
    BY <1>1, <1>5, <2>2, <2>3, MatchWonKeeps
<1>6. CASE /\ GradeDeal(Len(players), order)
           /\ phase' = "awaitingShuffle"
           /\ turn' = order[1]
           /\ nextOrder' = SubSeq(order, 1, Len(players) - 1)
           /\ record' = [i \in 1 .. Len(players) - 1 |-> players[order[i] + 1]]
           /\ Promote(pending)
  BY <1>1, <1>3, <1>4, <1>6, RoundOverKeeps
<1>7. QED
  BY <1>3, <1>5, <1>6

-----------------------------------------------------------------------------
(* Between two deals.                                                      *)

(* Somebody seated has a seat, and current_seat finds it.                  *)
LEMMA SeatFound ==
  ASSUME players \in Seq(Names), NEW p \in Seated
  PROVE  SeatOf(p) \in Seats /\ players[SeatOf(p) + 1] = p
<1>1. PICK i \in DOMAIN players : players[i] = p
  BY DEF Seated, Range
<1>2. i - 1 \in Seats /\ players[(i - 1) + 1] = p
  BY <1>1 DEF Seats
<1>3. QED
  BY <1>2 DEF SeatOf

(* Looking a seat up remembers a seat of the table.                        *)
LEMMA LookUpKeeps ==
  ASSUME IInv, NEW p \in People, LookUp(p)
  PROVE  IInv'
<1>1. /\ UNCHANGED <<room, game>> /\ p \in Seated
      /\ inFlight' = [inFlight EXCEPT ![p] = SeatOf(p)]
  BY DEF LookUp, game
<1>2. RoomInv' /\ GameInv'
  BY <1>1, GameUntouched DEF IInv
<1>3. /\ players \in Seq(Names) /\ Len(players) \in Nat
      /\ Len(players) <= MaxSeats
  BY RoomFacts DEF IInv
<1>4. SeatOf(p) \in 0 .. MaxSeats - 1
  <2>1. SeatOf(p) \in Seats
    BY <1>1, <1>3, SeatFound
  <2>2. QED
    BY <1>3, <2>1, ConstantFacts DEF Seats
<1>5. FlightInv'
  BY <1>1, <1>4 DEF IInv, FlightInv
<1>6. QED
  BY <1>2, <1>5 DEF IInv

(* An answered command is no longer in flight.                             *)
LEMMA AnswerKeeps ==
  ASSUME FlightInv, NEW p \in People, Answer(p)
  PROVE  FlightInv'
BY DEF FlightInv, Answer

(* A refused command changes nothing.                                      *)
LEMMA RefusedKeeps ==
  ASSUME RoomInv, GameInv, NEW p \in People, Refused(p)
  PROVE  RoomInv' /\ GameInv'
<1>1. UNCHANGED <<room, game>>
  BY DEF Refused, game
<1>2. QED
  BY <1>1, GameUntouched

(* The shuffle leaves what is noted of the last deal alone.                *)
LEMMA ShuffleKeeps ==
  ASSUME RoomInv, GameInv, NEW p \in People, Shuffle(p)
  PROVE  RoomInv' /\ GameInv'
<1>1. /\ phase = "awaitingShuffle" /\ phase' = "awaitingDeal"
      /\ UNCHANGED room
      /\ UNCHANGED <<players, pending, levels, level, winner, winnerTeam, turn,
                     nextOrder, givers, receivers, given, returned, record>>
  BY DEF Shuffle, room, grades, tribute
<1>2. RoomInv'
  <2>1. QueueServed'
    BY <1>1 DEF RoomInv, RosterKept, QueueServed, Started
  <2>2. QED
    BY <1>1, <2>1, RoomUntouched
<1>3. GameTypeOK'
  BY <1>1 DEF GameInv, GameTypeOK, Seats
<1>4. RecordFollowsPeople'
  BY <1>1 DEF GameInv, RecordFollowsPeople
<1>5. LevelIsWinners' /\ RecordIsWhole' /\ NothingLeft' /\ TributeFollowsPlaces'
  BY <1>1 DEF GameInv, LevelIsWinners, RecordIsWhole, NothingLeft,
              TributeFollowsPlaces, BetweenDeals
<1>6. QED
  BY <1>2, <1>3, <1>4, <1>5 DEF GameInv

(* A deal that can be dealt follows an order of this table that leaves out *)
(* its last place only, and the record names who held each of its places.  *)
LEMMA DealtOrder ==
  ASSUME RoomInv, GameInv, phase = "awaitingDeal", PlanFits,
         NEW order \in T(Len(players))!Completions(nextOrder)
  PROVE  /\ Len(players) \in Nat /\ Len(players) >= 4 /\ Len(players) % 2 = 0
         /\ order \in [1 .. Len(players) -> Seats] /\ IsInjective(order)
         /\ DOMAIN record = 1 .. Len(players) - 1
         /\ \A i \in 1 .. Len(players) - 1 : record[i] = players[order[i] + 1]
<1> DEFINE n == Len(players)
<1>1. /\ players \in Seq(Names) /\ n \in Nat /\ n >= 4 /\ n % 2 = 0
  BY RoomFacts DEF QueueServed, Started
<1>2. nextOrder \in Seq(Seats) /\ record \in Seq(Names)
  BY DEF GameInv, GameTypeOK
<1>3. /\ IsInjective(record) /\ Len(record) + 1 <= n
      /\ Len(nextOrder) = Len(record)
      /\ \A i \in DOMAIN record : players[nextOrder[i] + 1] = record[i]
  BY DEF GameInv, RecordIsWhole, RecordFollowsPeople, BetweenDeals
<1>4. Len(nextOrder) = n \/ Len(nextOrder) = n - 1
  BY DEF PlanFits
<1>5. Seats = 0 .. n - 1
  BY DEF Seats
<1> HIDE DEF n
<1>6. Len(nextOrder) = n - 1 /\ Len(record) = n - 1
  BY <1>1, <1>2, <1>3, <1>4
<1>7. DOMAIN nextOrder = 1 .. n - 1 /\ DOMAIN record = 1 .. n - 1
  BY <1>2, <1>6
<1>8. IsInjective(nextOrder)
  BY <1>3, <1>7 DEF IsInjective
<1>9. nextOrder \in Seq(0 .. n - 1) /\ order \in T(n)!Completions(nextOrder)
  BY <1>2, <1>5 DEF n
<1>10. /\ order \in [1 .. n -> 0 .. n - 1] /\ IsInjective(order)
       /\ \A i \in 1 .. n - 1 : order[i] = nextOrder[i]
  BY <1>1, <1>6, <1>8, <1>9, CompletedFacts
<1>11. \A i \in 1 .. n - 1 : record[i] = players[order[i] + 1]
  BY <1>3, <1>7, <1>10
<1>12. QED
  BY <1>1, <1>5, <1>7, <1>10, <1>11 DEF n

(* Who pays and who receives is decided by places of the recorded deal.    *)
LEMMA TributeOwed ==
  ASSUME RoomInv, GameInv, phase = "awaitingDeal", PlanFits,
         NEW order \in T(Len(players))!Completions(nextOrder),
         NEW plan, plan = T(Len(players))!PaysWhom(order)
  PROVE  /\ plan.givers \subseteq Seats /\ plan.receivers \subseteq Seats
         /\ Cardinality(plan.givers) = Cardinality(plan.receivers)
         /\ \A g \in plan.givers, r \in plan.receivers :
              \E i \in DOMAIN record :
                /\ record[i] = players[r + 1]
                /\ \A j \in 1 .. i : record[j] # players[g + 1]
<1> DEFINE n == Len(players)
<1>1. /\ n \in Nat /\ n >= 4 /\ n % 2 = 0
      /\ order \in [1 .. n -> Seats] /\ IsInjective(order)
      /\ DOMAIN record = 1 .. n - 1
      /\ \A i \in 1 .. n - 1 : record[i] = players[order[i] + 1]
  BY DealtOrder
<1>2. Seats = 0 .. n - 1 /\ plan = T(n)!PaysWhom(order)
  BY DEF Seats
<1>3. /\ DOMAIN players = 1 .. n
      /\ \A i, j \in 1 .. n : players[i] = players[j] => i = j
  BY RoomFacts DEF IsInjective
<1> HIDE DEF n
<1>4. /\ plan.givers \subseteq Seats /\ plan.receivers \subseteq Seats
      /\ Cardinality(plan.givers) = Cardinality(plan.receivers)
      /\ \A g \in plan.givers, r \in plan.receivers :
           \E i \in 1 .. n - 1, j \in 1 .. n :
             i < j /\ r = order[i] /\ g = order[j]
  <2>1. n \in Nat /\ n >= 4 /\ n % 2 = 0
        /\ order \in [1 .. n -> 0 .. n - 1] /\ IsInjective(order)
    BY <1>1, <1>2
  <2> DEFINE paid == T(n)!PaysWhom(order)
  <2>2. /\ paid.givers \subseteq 0 .. n - 1 /\ paid.receivers \subseteq 0 .. n - 1
        /\ Cardinality(paid.givers) = Cardinality(paid.receivers)
        /\ \A g \in paid.givers, r \in paid.receivers :
             \E i \in 1 .. n - 1, j \in 1 .. n :
               i < j /\ r = order[i] /\ g = order[j]
    BY ONLY <2>1, TributePlan
  <2>3. paid = plan
    BY <1>2
  <2> HIDE DEF paid
  <2>4. QED
    BY <1>2, <2>2, <2>3
<1>5. \A i \in 1 .. n : order[i] \in Nat /\ order[i] + 1 \in 1 .. n
  <2>1. \A s \in Seats : s \in Nat /\ s + 1 \in 1 .. n
    BY <1>1, <1>2
  <2>2. QED
    BY <1>1, <2>1
<1>6. \A i, j \in 1 .. n : order[i] = order[j] => i = j
  BY <1>1 DEF IsInjective
<1>7. \A i, j \in 1 .. n : players[order[i] + 1] = players[order[j] + 1] => i = j
  <2> SUFFICES ASSUME NEW i \in 1 .. n, NEW j \in 1 .. n,
                      players[order[i] + 1] = players[order[j] + 1]
               PROVE  i = j
    OBVIOUS
  <2>1. order[i] + 1 = order[j] + 1
    BY <1>3, <1>5
  <2>2. order[i] = order[j]
    BY <1>5, <2>1
  <2>3. QED
    BY <1>6, <2>2
<1>8. ASSUME NEW g \in plan.givers, NEW r \in plan.receivers
      PROVE  \E i \in DOMAIN record :
               /\ record[i] = players[r + 1]
               /\ \A j \in 1 .. i : record[j] # players[g + 1]
  <2>1. PICK i \in 1 .. n - 1, k \in 1 .. n :
          i < k /\ r = order[i] /\ g = order[k]
    BY <1>4
  <2>2. i \in DOMAIN record /\ record[i] = players[r + 1]
    BY <1>1, <2>1
  <2>3. ASSUME NEW j \in 1 .. i PROVE record[j] # players[g + 1]
    <3>1. j \in 1 .. n - 1 /\ j \in 1 .. n /\ j # k
      BY <1>1, <2>1
    <3>2. record[j] = players[order[j] + 1]
      BY <1>1, <3>1
    <3>3. QED
      BY <1>7, <2>1, <3>1, <3>2
  <2>4. QED
    BY <2>2, <2>3
<1>9. QED
  BY <1>4, <1>8

(* A step out of the handshake leaves the queue to be served later.        *)
LEMMA RoomInGame ==
  ASSUME RoomInv, UNCHANGED room, Started, phase' # "awaitingShuffle"
  PROVE  RoomInv'
<1>1. UNCHANGED <<players, pending>>
  BY DEF room
<1>2. QueueServed'
  BY <1>1 DEF RoomInv, RosterKept, QueueServed, Started
<1>3. QED
  BY <1>2, RoomUntouched

(* DealNextRound keeps the room, and owes tribute as the record says.      *)
LEMMA DealKeeps ==
  ASSUME RoomInv, GameInv, NEW p \in People, Deal(p)
  PROVE  RoomInv' /\ GameInv'
<1>1. /\ phase = "awaitingDeal" /\ PlanFits
      /\ nextOrder' = <<>>
      /\ UNCHANGED room
      /\ UNCHANGED <<players, levels, level, winner, winnerTeam, turn, given,
                     returned>>
  BY DEF Deal, room, grades
<1>2. PICK order \in T(Len(players))!Completions(nextOrder) :
        LET plan == T(Len(players))!PaysWhom(order)
        IN \/ /\ plan.givers # {}
              /\ phase' = "tribute"
              /\ givers' = plan.givers
              /\ receivers' = plan.receivers
              /\ UNCHANGED record
           \/ OpenPlay /\ UNCHANGED <<givers, receivers>>
  BY DEF Deal
<1> DEFINE plan == T(Len(players))!PaysWhom(order)
<1>3. /\ plan.givers \subseteq Seats /\ plan.receivers \subseteq Seats
      /\ Cardinality(plan.givers) = Cardinality(plan.receivers)
      /\ \A g \in plan.givers, r \in plan.receivers :
           \E i \in DOMAIN record :
             /\ record[i] = players[r + 1]
             /\ \A j \in 1 .. i : record[j] # players[g + 1]
  BY <1>1, TributeOwed
<1>4. \/ /\ phase' = "tribute" /\ givers' = plan.givers
         /\ receivers' = plan.receivers /\ UNCHANGED record
      \/ phase' = "play" /\ record' = <<>> /\ UNCHANGED <<givers, receivers>>
  BY <1>2 DEF OpenPlay
<1> HIDE DEF plan
<1>5. GameTypeOK /\ NothingLeft
  BY DEF GameInv
<1>6. givers = {} /\ receivers = {} /\ given = {} /\ returned = {}
  BY <1>1, <1>5 DEF GameTypeOK, NothingLeft
<1>7. RoomInv'
  BY <1>1, <1>4, RoomInGame DEF Started
<1>8. LevelIsWinners'
  BY <1>1, <1>4 DEF GameInv, LevelIsWinners
<1>9. RecordFollowsPeople' /\ RecordIsWhole'
  BY <1>4 DEF RecordFollowsPeople, RecordIsWhole, BetweenDeals
<1>10. GameTypeOK'
  <2>1. /\ givers' \subseteq Seats' /\ receivers' \subseteq Seats'
        /\ given' \subseteq givers' /\ returned' \subseteq receivers'
    BY <1>1, <1>3, <1>4, <1>6 DEF Seats
  <2>2. phase' \in {"tribute", "play"} /\ record' \in Seq(Names)
    <3>1. record \in Seq(Names) /\ <<>> \in Seq(Names)
      BY <1>5 DEF GameTypeOK
    <3>2. record' = record \/ record' = <<>>
      BY <1>4
    <3>3. QED
      BY <1>4, <3>1, <3>2
  <2>3. winner' \in Seats' \cup {NoSeat} /\ nextOrder' \in Seq(Seats')
    BY <1>1, <1>5 DEF GameTypeOK, Seats
  <2>4. QED
    BY <1>1, <1>5, <2>1, <2>2, <2>3 DEF GameTypeOK
<1>11. NothingLeft'
  BY <1>1, <1>4, <1>6 DEF NothingLeft, BetweenDeals
<1>12. TributeFollowsPlaces'
  <2>1. CASE /\ phase' = "tribute" /\ givers' = plan.givers
             /\ receivers' = plan.receivers /\ UNCHANGED record
    BY <1>1, <1>3, <2>1 DEF TributeFollowsPlaces
  <2>2. CASE phase' = "play"
    BY <2>2 DEF TributeFollowsPlaces
  <2>3. QED
    BY <1>4, <2>1, <2>2
<1>13. QED
  BY <1>7, <1>8, <1>9, <1>10, <1>11, <1>12 DEF GameInv

(* A tribute card changes only who has paid.                               *)
LEMMA PayTributeKeeps ==
  ASSUME RoomInv, GameInv, NEW p \in People, PayTribute(p)
  PROVE  RoomInv' /\ GameInv'
<1>1. /\ phase = "tribute" /\ phase' = phase
      /\ inFlight[p] \in givers
      /\ given' = given \cup {inFlight[p]}
      /\ UNCHANGED room
      /\ UNCHANGED <<players, levels, level, winner, winnerTeam, turn,
                     nextOrder, givers, receivers, returned, record>>
  BY DEF PayTribute, room, grades
<1>2. RoomInv'
  BY <1>1, RoomInGame DEF Started
<1>3. GameTypeOK'
  BY <1>1 DEF GameInv, GameTypeOK, Seats
<1>4. RecordFollowsPeople' /\ LevelIsWinners' /\ RecordIsWhole' /\ NothingLeft'
      /\ TributeFollowsPlaces'
  BY <1>1 DEF GameInv, RecordFollowsPeople, LevelIsWinners, RecordIsWhole,
              NothingLeft, TributeFollowsPlaces, BetweenDeals
<1>5. QED
  BY <1>2, <1>3, <1>4 DEF GameInv

(* A returned card completes the exchange or changes only who has returned.*)
LEMMA ReturnTributeKeeps ==
  ASSUME RoomInv, GameInv, NEW p \in People, ReturnTribute(p)
  PROVE  RoomInv' /\ GameInv'
<1>1. /\ phase = "tribute" /\ inFlight[p] \in receivers
      /\ \/ /\ phase' = "play" /\ record' = <<>> /\ turn' \in givers
            /\ givers' = {} /\ receivers' = {} /\ given' = {} /\ returned' = {}
         \/ /\ returned' = returned \cup {inFlight[p]}
            /\ UNCHANGED <<givers, receivers, given, turn, phase, record>>
      /\ UNCHANGED room
      /\ UNCHANGED <<players, levels, level, winner, winnerTeam, nextOrder>>
  BY DEF ReturnTribute, OpenPlay, room, grades
<1>2. GameTypeOK /\ NothingLeft
  BY DEF GameInv
<1>3. RoomInv'
  BY <1>1, RoomInGame DEF Started
<1>4. GameTypeOK'
  <2>1. turn' \in Nat
    <3>1. \A s \in givers : s \in Nat
      BY <1>2 DEF GameTypeOK, Seats
    <3>2. QED
      BY <1>1, <1>2, <3>1 DEF GameTypeOK
  <2>2. CASE givers' = {} /\ receivers' = {} /\ given' = {} /\ returned' = {}
             /\ phase' = "play" /\ record' = <<>>
    BY <1>1, <1>2, <2>1, <2>2 DEF GameTypeOK, Seats
  <2>3. CASE returned' = returned \cup {inFlight[p]}
             /\ UNCHANGED <<givers, receivers, given, turn, phase, record>>
    BY <1>1, <1>2, <2>1, <2>3 DEF GameTypeOK, Seats
  <2>4. QED
    BY <1>1, <2>2, <2>3
<1>5. LevelIsWinners' /\ RecordFollowsPeople' /\ RecordIsWhole'
  BY <1>1 DEF GameInv, LevelIsWinners, RecordFollowsPeople, RecordIsWhole,
              BetweenDeals
<1>6. NothingLeft' /\ TributeFollowsPlaces'
  BY <1>1 DEF GameInv, NothingLeft, TributeFollowsPlaces, BetweenDeals
<1>7. QED
  BY <1>3, <1>4, <1>5, <1>6 DEF GameInv

-----------------------------------------------------------------------------
(* The invariant holds.                                                    *)

(* An empty room in its lobby.                                             *)
LEMMA InitInv ==
  ASSUME Init
  PROVE  IInv
<1>1. RoomInv
  <2>1. Range(players) = {} /\ Range(pending) = {}
    BY DEF Init, Range
  <2>2. RosterKept
    BY <2>1 DEF Init, RosterKept, EveryoneOnce, QueueServed, IsInjective,
                Seated, Started
  <2>3. QED
    BY <2>2, ConstantFacts DEF Init, RoomInv
<1>2. GameInv
  <2>1. 0 \in 0 .. LastLevel
    BY ConstantFacts
  <2>2. GameTypeOK
    BY <2>1 DEF Init, GameTypeOK
  <2>3. QED
    BY <2>2 DEF Init, GameInv, RecordFollowsPeople, LevelIsWinners,
                RecordIsWhole, NothingLeft, TributeFollowsPlaces, BetweenDeals
<1>3. FlightInv
  BY DEF Init, FlightInv
<1>4. QED
  BY <1>1, <1>2, <1>3 DEF IInv

(* Every command, and the end of a deal, keeps the invariant.              *)
LEMMA StepInv ==
  ASSUME IInv, [Next]_vars
  PROVE  IInv'
<1>1. RoomInv /\ GameInv /\ FlightInv
  BY DEF IInv
<1>2. UNCHANGED inFlight => FlightInv'
  BY <1>1 DEF FlightInv
<1>3. ASSUME NEW p \in People, Join(p) PROVE IInv'
  BY <1>1, <1>2, <1>3, JoinKeeps DEF IInv, Join
<1>4. ASSUME NEW p \in People, Participate(p) PROVE IInv'
  BY <1>1, <1>2, <1>4, ParticipateKeeps DEF IInv, Participate
<1>5. ASSUME NEW p \in People, StepAside(p) PROVE IInv'
  BY <1>1, <1>2, <1>5, StepAsideKeeps DEF IInv, StepAside
<1>6. ASSUME NEW p \in People, Disconnect(p) PROVE IInv'
  BY <1>1, <1>2, <1>6, DisconnectKeeps DEF IInv, Disconnect
<1>7. ASSUME NEW p \in People, NEW k \in 1 .. MaxBots, SetBots(p, k) PROVE IInv'
  BY <1>1, <1>2, <1>7, SetBotsKeeps DEF IInv, SetBots
<1>8. ASSUME NEW p \in People, NEW a \in Seats, NEW b \in Seats, Reorder(p, a, b)
      PROVE  IInv'
  BY <1>1, <1>2, <1>8, ReorderKeeps DEF IInv, Reorder
<1>9. ASSUME NEW p \in People, Start(p) PROVE IInv'
  BY <1>1, <1>2, <1>9, StartKeeps DEF IInv, Start
<1>10. ASSUME NEW p \in People, LookUp(p) PROVE IInv'
  BY <1>10, LookUpKeeps
<1>11. ASSUME NEW p \in People, Refused(p) PROVE IInv'
  BY <1>1, <1>11, RefusedKeeps, AnswerKeeps DEF IInv, Refused
<1>12. ASSUME NEW p \in People, Shuffle(p) PROVE IInv'
  BY <1>1, <1>12, ShuffleKeeps, AnswerKeeps DEF IInv, Shuffle
<1>13. ASSUME NEW p \in People, Deal(p) PROVE IInv'
  BY <1>1, <1>13, DealKeeps, AnswerKeeps DEF IInv, Deal
<1>14. ASSUME NEW p \in People, PayTribute(p) PROVE IInv'
  BY <1>1, <1>14, PayTributeKeeps, AnswerKeeps DEF IInv, PayTribute
<1>15. ASSUME NEW p \in People, ReturnTribute(p) PROVE IInv'
  BY <1>1, <1>15, ReturnTributeKeeps, AnswerKeeps DEF IInv, ReturnTribute
<1>16. CASE EndDeal
  BY <1>1, <1>2, <1>16, EndDealKeeps DEF IInv, EndDeal
<1>17. CASE UNCHANGED vars
  <2>1. UNCHANGED <<room, game>> /\ UNCHANGED inFlight
    BY <1>17 DEF vars, game
  <2>2. QED
    BY <1>1, <1>2, <2>1, GameUntouched DEF IInv
<1>18. QED
  BY <1>3, <1>4, <1>5, <1>6, <1>7, <1>8, <1>9, <1>10, <1>11, <1>12, <1>13,
     <1>14, <1>15, <1>16, <1>17 DEF Next

(* The invariant of the room and its deals, in every reachable state.      *)
THEOREM Invariant == Spec => []IInv
<1>1. Init => IInv
  BY InitInv
<1>2. IInv /\ [Next]_vars => IInv'
  BY StepInv
<1>3. QED
  BY <1>1, <1>2, PTL DEF Spec

(* Every variable of the room keeps its type, and every seat it remembers  *)
(* is a seat of the table it has now.                                      *)
THEOREM TypeCorrect == Spec => []TypeOK
<1>1. IInv => TypeOK
  BY DEF IInv, RoomInv, GameInv, GameTypeOK, FlightInv, TypeOK
<1>2. QED
  BY <1>1, Invariant, PTL

(* Nobody is lost or doubled between seats, queue and bench, and the queue *)
(* is served in pairs whenever a deal is over.                             *)
THEOREM RosterIsKept == Spec => []RosterKept
<1>1. IInv => RosterKept
  BY DEF IInv, RoomInv
<1>2. QED
  BY <1>1, Invariant, PTL

(* Swaps between two deals, newcomers and the shuffle carry the last       *)
(* deal's result along with the people who earned it.                      *)
THEOREM ResultIsCarriedOver == Spec => []ResultCarriedOver
<1>1. IInv => ResultCarriedOver
  BY DEF IInv, GameInv, ResultCarriedOver
<1>2. QED
  BY <1>1, Invariant, PTL

(* Tribute goes from people placed behind to people placed ahead of them,  *)
(* as many cards one way as the other.                                     *)
THEOREM TributeIsOwed == Spec => []TributeFollowsPlaces
<1>1. IInv => TributeFollowsPlaces
  BY DEF IInv, GameInv
<1>2. QED
  BY <1>1, Invariant, PTL

-----------------------------------------------------------------------------
(* A looked-up seat may go stale, but stays on the sender's side.          *)

Handshake == {"awaitingShuffle", "awaitingDeal", "tribute"}

(* Who has a command in flight is connected and seated, and between two    *)
(* deals the seat looked up is of the side of the seat they have now.      *)
OnTheirSide(q) ==
  /\ q \in online
  /\ \E s \in Seats :
       /\ players[s + 1] = q
       /\ phase \in Handshake => TeamOf(inFlight[q]) = TeamOf(s)

FlightsSided == \A q \in People : ~Idle(q) => OnTheirSide(q)

(* A seat is found by the name it holds.                                   *)
LEMMA SeatIs ==
  ASSUME players \in Seq(Names), IsInjective(players),
         NEW s \in Seats, NEW q, players[s + 1] = q
  PROVE  q \in Seated /\ SeatOf(q) = s
<1>1. /\ Len(players) \in Nat /\ DOMAIN players = 1 .. Len(players)
      /\ \A i, j \in 1 .. Len(players) : players[i] = players[j] => i = j
      /\ Seats = 0 .. Len(players) - 1
  BY DEF IsInjective, Seats
<1>2. \A t \in Seats : t \in Nat /\ t + 1 \in 1 .. Len(players)
  BY <1>1
<1>3. \A t \in Seats : players[t + 1] = q => t = s
  <2> SUFFICES ASSUME NEW t \in Seats, players[t + 1] = q
               PROVE  t = s
    OBVIOUS
  <2>1. t + 1 = s + 1
    BY <1>1, <1>2
  <2>2. QED
    BY <1>2, <2>1
<1>4. SeatOf(q) = s
  BY <1>3 DEF SeatOf
<1>5. QED
  BY <1>1, <1>2, <1>4 DEF Seated, Range

(* Where the table only grows, and the commands in flight stay the same    *)
(* and connected, their seats stay on their side.                          *)
LEMMA SidesWhenTableGrows ==
  ASSUME players \in Seq(Names), FlightsSided, UNCHANGED inFlight, TableGrows,
         \A q \in People : ~Idle(q) => q \in online',
         phase' = phase \/ phase' \notin Handshake
  PROVE  FlightsSided'
<1> SUFFICES ASSUME NEW q \in People, ~Idle(q)
             PROVE  OnTheirSide(q)'
  BY DEF FlightsSided, Idle
<1>1. PICK s \in Seats :
        /\ players[s + 1] = q
        /\ phase \in Handshake => TeamOf(inFlight[q]) = TeamOf(s)
  BY DEF FlightsSided, OnTheirSide
<1>2. /\ Len(players) \in Nat /\ Len(players') \in Nat
      /\ Len(players) <= Len(players')
      /\ s \in 0 .. Len(players) - 1
  BY DEF TableGrows, Seats
<1>3. s \in 0 .. Len(players') - 1 /\ s + 1 \in 1 .. Len(players)
  BY <1>2
<1>4. s \in Seats' /\ players'[s + 1] = q
  BY <1>1, <1>3 DEF TableGrows, Seats
<1>5. QED
  BY <1>1, <1>4 DEF OnTheirSide

(* In the lobby nothing is asked of the seats looked up but that their     *)
(* senders stay seated.                                                    *)
LEMMA SidesInLobby ==
  ASSUME RoomInv, FlightsSided, UNCHANGED <<inFlight, online>>, phase' = "lobby",
         players' \in Seq(Names),
         \A q \in People : ~Idle(q) /\ q \in Seated => q \in Range(players')
  PROVE  FlightsSided'
<1> SUFFICES ASSUME NEW q \in People, ~Idle(q)
             PROVE  OnTheirSide(q)'
  BY DEF FlightsSided, Idle
<1>1. q \in online /\ q \in Seated
  BY RoomFacts, SeatIs DEF FlightsSided, OnTheirSide
<1>2. PICK i \in DOMAIN players' : players'[i] = q
  BY <1>1 DEF Range
<1>3. i \in 1 .. Len(players') /\ Len(players') \in Nat
  BY <1>2
<1>4. i - 1 \in 0 .. Len(players') - 1 /\ (i - 1) + 1 = i
  BY <1>3
<1>5. QED
  BY <1>1, <1>2, <1>4 DEF OnTheirSide, Seats, Handshake

(* A newcomer sits down behind the others.                                 *)
LEMMA NewcomerBehind ==
  ASSUME RoomInv, NEW p \in People, p \notin Seated \cup Range(pending),
         Reserved < MaxSeats, UNCHANGED phase,
         IF Started THEN Queue(Append(pending, p))
         ELSE players' = Append(players, p) /\ UNCHANGED pending
  PROVE  TableGrows
<1>1. /\ players \in Seq(Names) /\ Len(players) \in Nat
      /\ pending \in Seq(People)
      /\ IsInjective(players) /\ IsInjective(pending)
      /\ Seated \cap Range(pending) = {}
  BY RoomFacts
<1>2. CASE Started
  <2>1. /\ Append(pending, p) \in Seq(People) /\ IsInjective(Append(pending, p))
        /\ Range(Append(pending, p)) = Range(pending) \cup {p}
    BY <1>1, Appended
  <2>2. Queue(Append(pending, p)) /\ Seated \cap Range(Append(pending, p)) = {}
    BY <1>1, <1>2, <2>1
  <2>3. QED
    BY <1>2, <2>1, <2>2, QueueKeeps
<1>3. CASE ~Started
  <2>1. p \in Names /\ p \notin Range(players)
    BY DEF Names, Seated
  <2>2. /\ players' \in Seq(Names) /\ Len(players') = Len(players) + 1
        /\ \A i \in 1 .. Len(players) : players'[i] = players[i]
    BY <1>1, <1>3, <2>1, Appended
  <2>3. Len(players') <= MaxSeats /\ Len(players) <= Len(players')
    BY <1>1, <1>3, <2>2, ConstantFacts DEF Reserved
  <2>4. QED
    BY <2>2, <2>3 DEF TableGrows
<1>4. QED
  BY <1>2, <1>3

(* Coming and sitting down moves nobody.                                   *)
LEMMA SidesWhenComing ==
  ASSUME RoomInv, FlightsSided, NEW p \in People, Join(p) \/ Participate(p)
  PROVE  FlightsSided'
<1>1. players \in Seq(Names) /\ Len(players) \in Nat /\ Len(players) <= MaxSeats
  BY RoomFacts
<1>2. UNCHANGED <<inFlight, phase>> /\ online \subseteq online'
  BY DEF Join, Participate
<1>3. \A q \in People : ~Idle(q) => q \in online'
  BY <1>2 DEF FlightsSided, OnTheirSide
<1>4. players' = players => TableGrows
  BY <1>1 DEF TableGrows
<1>5. CASE Join(p)
  <2>1. CASE p \notin Seated /\ Reserved < MaxSeats
    <3>1. p \notin Range(pending)
      BY <1>5, RoomFacts DEF Join
    <3>2. Reserved \in Int /\ MaxSeats \in Int
      <4>1. Len(pending) \in Nat
        BY RoomFacts
      <4>2. QED
        BY <1>1, <4>1, ConstantFacts DEF Reserved
    <3>3. ~(Reserved >= MaxSeats)
      BY <2>1, <3>2
    <3>4. IF Started THEN Queue(Append(pending, p))
          ELSE players' = Append(players, p) /\ UNCHANGED pending
      BY <1>5, <2>1, <3>3 DEF Join
    <3>5. TableGrows
      BY <1>2, <2>1, <3>1, <3>4, NewcomerBehind
    <3>6. QED
      BY <1>1, <1>2, <1>3, <3>5, SidesWhenTableGrows
  <2>2. CASE players' = players
    BY <1>1, <1>2, <1>3, <1>4, <2>2, SidesWhenTableGrows
  <2>3. QED
    BY <1>5, <2>1, <2>2 DEF Join
<1>6. CASE Participate(p)
  <2>1. TableGrows
    BY <1>2, <1>6, NewcomerBehind DEF Participate
  <2>2. QED
    BY <1>1, <1>2, <1>3, <2>1, SidesWhenTableGrows
<1>7. QED
  BY <1>5, <1>6

(* Who steps aside or goes has no command in flight.                       *)
LEMMA SidesWhenGoing ==
  ASSUME RoomInv, FlightsSided, NEW p \in People, StepAside(p) \/ Disconnect(p)
  PROVE  FlightsSided'
<1>1. /\ players \in Seq(Names) /\ Len(players) \in Nat
      /\ Len(players) <= MaxSeats /\ IsInjective(players)
  BY RoomFacts
<1>2. Idle(p) /\ UNCHANGED inFlight
  BY DEF StepAside, Disconnect
<1>3. players' = players => TableGrows
  BY <1>1 DEF TableGrows
<1>4. CASE StepAside(p)
  <2>1. UNCHANGED <<online, phase>>
    BY <1>4 DEF StepAside
  <2>2. CASE UNCHANGED players
    BY <1>1, <1>2, <1>3, <2>1, <2>2, SidesWhenTableGrows
       DEF FlightsSided, OnTheirSide
  <2>3. CASE ~Started /\ players' = Retained(players, Names \ {p})
    <3>1. /\ players' \in Seq(Names)
          /\ Range(players') = Range(players) \cap (Names \ {p})
      BY <1>1, <2>3, RetainedFacts
    <3>2. \A q \in People : ~Idle(q) /\ q \in Seated => q \in Range(players')
      BY <1>2, <3>1 DEF Seated, Names
    <3>3. phase' = "lobby"
      BY <2>1, <2>3 DEF Started
    <3>4. QED
      BY <1>2, <2>1, <3>1, <3>2, <3>3, SidesInLobby
  <2>4. QED
    BY <1>4, <2>2, <2>3 DEF StepAside
<1>5. CASE Disconnect(p)
  <2>1. \A q \in People : ~Idle(q) => q \in online /\ q # p
    BY <1>2 DEF FlightsSided, OnTheirSide
  <2>2. \A q \in People : ~Idle(q) => q \in online'
    BY <1>5, <2>1 DEF Disconnect
  <2>3. CASE online = {p}
    BY <1>2, <2>1, <2>3 DEF FlightsSided, Idle
  <2>4. CASE online # {p}
    <3>1. UNCHANGED <<players, phase>>
      BY <1>5, <2>4 DEF Disconnect
    <3>2. QED
      BY <1>1, <1>2, <1>3, <2>2, <3>1, SidesWhenTableGrows
  <2>5. QED
    BY <2>3, <2>4
<1>6. QED
  BY <1>4, <1>5

(* SetBots moves seats, but in the lobby, and unseats no person.           *)
LEMMA SidesWithBots ==
  ASSUME RoomInv, RoomInv', FlightsSided,
         NEW p \in People, NEW k \in 1 .. MaxBots, SetBots(p, k)
  PROVE  FlightsSided'
<1> DEFINE people == Retained(players, People)
           robots == [i \in 1 .. k |-> Robot(i)]
<1>1. /\ phase' = "lobby" /\ UNCHANGED <<inFlight, online>>
      /\ players' = people \o robots
  BY DEF SetBots, Started
<1>2. players \in Seq(Names) /\ IsInjective(players)
  BY RoomFacts
<1>3. /\ people \in Seq(Names) /\ IsInjective(people)
      /\ Range(people) = Seated \cap People
  BY <1>2, RetainedFacts DEF Seated
<1>4. /\ robots \in Seq(Names) /\ IsInjective(robots)
      /\ Range(robots) \cap People = {}
  BY RobotFacts
<1> HIDE DEF people, robots
<1>5. Range(people) \cap Range(robots) = {}
  BY <1>3, <1>4
<1>6. Range(people \o robots) = Range(people) \cup Range(robots)
  BY <1>3, <1>4, <1>5, Joined
<1>7. \A q \in People : ~Idle(q) /\ q \in Seated => q \in Range(players')
  BY <1>1, <1>3, <1>6
<1>8. players' \in Seq(Names)
  BY DEF RoomInv
<1>9. QED
  BY <1>1, <1>7, <1>8, SidesInLobby

(* A swap stays within a team.                                             *)
LEMMA SidesAfterSwap ==
  ASSUME RoomInv, FlightsSided, NEW p \in People,
         NEW a \in Seats, NEW b \in Seats, Reorder(p, a, b)
  PROVE  FlightsSided'
<1>1. /\ TeamOf(a) = TeamOf(b) /\ UNCHANGED <<inFlight, online, phase>>
      /\ players' = [players EXCEPT ![a + 1] = players[b + 1],
                                     ![b + 1] = players[a + 1]]
  BY DEF Reorder, MaySwap
<1>2. players \in Seq(Names) /\ IsInjective(players)
  BY RoomFacts
<1>3. /\ Len(players') = Len(players)
      /\ \A s \in Seats : /\ Remap(s, a, b) \in Seats
                           /\ TeamOf(Remap(s, a, b)) = TeamOf(s)
                           /\ players'[Remap(s, a, b) + 1] = players[s + 1]
  BY <1>1, <1>2, SwapFacts
<1> SUFFICES ASSUME NEW q \in People, ~Idle(q)
             PROVE  OnTheirSide(q)'
  BY <1>1 DEF FlightsSided, Idle
<1>4. PICK s \in Seats :
        /\ players[s + 1] = q
        /\ phase \in Handshake => TeamOf(inFlight[q]) = TeamOf(s)
  BY DEF FlightsSided, OnTheirSide
<1>5. q \in online
  BY DEF FlightsSided, OnTheirSide
<1>6. Seats' = Seats
  BY <1>3 DEF Seats
<1>7. QED
  BY <1>1, <1>3, <1>4, <1>5, <1>6 DEF OnTheirSide

(* A seat just looked up is the sender's.                                  *)
LEMMA SidesAfterLookUp ==
  ASSUME IInv, FlightsSided, NEW p \in People, LookUp(p)
  PROVE  FlightsSided'
<1>1. /\ p \in online \cap Seated
      /\ inFlight' = [inFlight EXCEPT ![p] = SeatOf(p)]
      /\ UNCHANGED <<players, online, phase>>
  BY DEF LookUp, room
<1>2. inFlight \in [People -> 0 .. MaxSeats - 1 \cup {NoSeat}]
  BY DEF IInv, FlightInv
<1>3. SeatOf(p) \in Seats /\ players[SeatOf(p) + 1] = p
  BY <1>1, SeatFound DEF IInv, RoomInv
<1> SUFFICES ASSUME NEW q \in People, ~Idle(q)'
             PROVE  OnTheirSide(q)'
  BY DEF FlightsSided
<1>4. CASE q = p
  <2>1. inFlight'[p] = SeatOf(p)
    BY <1>1, <1>2
  <2>2. Seats' = Seats
    BY <1>1 DEF Seats
  <2>3. QED
    BY <1>1, <1>3, <1>4, <2>1, <2>2 DEF OnTheirSide
<1>5. CASE q # p
  <2>1. inFlight'[q] = inFlight[q]
    BY <1>1, <1>2, <1>5
  <2>2. OnTheirSide(q)
    BY <2>1 DEF FlightsSided, Idle
  <2>3. QED
    BY <1>1, <2>1, <2>2 DEF OnTheirSide, Seats
<1>6. QED
  BY <1>4, <1>5

(* The commands of the handshake answer their own lookup and move nobody.  *)
LEMMA SidesAfterAnswer ==
  ASSUME IInv, FlightsSided, NEW p \in People,
         Refused(p) \/ Shuffle(p) \/ Deal(p) \/ PayTribute(p) \/ ReturnTribute(p)
  PROVE  FlightsSided'
<1>1. Answer(p) /\ UNCHANGED <<players, online>>
  BY DEF Refused, Shuffle, Deal, PayTribute, ReturnTribute, room
<1>2. phase' \in Handshake => phase \in Handshake
  BY DEF Refused, Shuffle, Deal, PayTribute, ReturnTribute, Handshake
<1>3. /\ inFlight \in [People -> 0 .. MaxSeats - 1 \cup {NoSeat}]
      /\ inFlight' = [inFlight EXCEPT ![p] = NoSeat]
  BY <1>1 DEF IInv, FlightInv, Answer
<1> SUFFICES ASSUME NEW q \in People, ~Idle(q)'
             PROVE  OnTheirSide(q)'
  BY DEF FlightsSided
<1>4. q # p
  BY <1>3 DEF Idle
<1>5. inFlight'[q] = inFlight[q]
  BY <1>3, <1>4
<1>6. OnTheirSide(q)
  BY <1>5 DEF FlightsSided, Idle
<1>7. QED
  BY <1>1, <1>2, <1>5, <1>6 DEF OnTheirSide, Seats

(* Every step keeps each seat in flight on its sender's side.              *)
LEMMA StepKeepsSides ==
  ASSUME IInv, IInv', FlightsSided, [Next]_vars
  PROVE  FlightsSided'
<1>1. /\ RoomInv /\ RoomInv'
      /\ players \in Seq(Names) /\ Len(players) \in Nat
      /\ Len(players) <= MaxSeats /\ IsInjective(players)
  BY RoomFacts DEF IInv
<1>2. players' = players => TableGrows
  BY <1>1 DEF TableGrows
<1>3. ASSUME NEW p \in People,
             Join(p) \/ Participate(p) \/ StepAside(p) \/ Disconnect(p)
      PROVE  FlightsSided'
  BY <1>1, <1>3, SidesWhenComing, SidesWhenGoing
<1>4. ASSUME NEW p \in People, NEW k \in 1 .. MaxBots, SetBots(p, k)
      PROVE  FlightsSided'
  BY <1>1, <1>4, SidesWithBots
<1>5. ASSUME NEW p \in People, NEW a \in Seats, NEW b \in Seats, Reorder(p, a, b)
      PROVE  FlightsSided'
  BY <1>1, <1>5, SidesAfterSwap
<1>6. ASSUME UNCHANGED <<inFlight, players, online>>,
             phase' = phase \/ phase' = "play"
      PROVE  FlightsSided'
  <2>1. phase' = phase \/ phase' \notin Handshake
    BY <1>6 DEF Handshake
  <2>2. \A q \in People : ~Idle(q) => q \in online'
    BY <1>6 DEF FlightsSided, OnTheirSide
  <2>3. QED
    BY <1>1, <1>2, <1>6, <2>1, <2>2, SidesWhenTableGrows
<1>7. ASSUME NEW p \in People, Start(p) PROVE FlightsSided'
  BY <1>6, <1>7 DEF Start, room
<1>8. ASSUME NEW p \in People, LookUp(p) PROVE FlightsSided'
  BY <1>8, SidesAfterLookUp
<1>9. ASSUME NEW p \in People,
             \/ Refused(p) \/ Shuffle(p) \/ Deal(p) \/ PayTribute(p)
             \/ ReturnTribute(p)
      PROVE  FlightsSided'
  BY <1>9, SidesAfterAnswer
<1>10. CASE EndDeal
  <2>1. UNCHANGED inFlight /\ \A q \in Seated \cap People : Idle(q)
    BY <1>10 DEF EndDeal
  <2>2. \A q \in People : ~Idle(q) => q \in Seated
    BY <1>1, SeatIs DEF FlightsSided, OnTheirSide
  <2>3. QED
    BY <2>1, <2>2 DEF FlightsSided, Idle
<1>11. CASE UNCHANGED vars
  BY <1>6, <1>11 DEF vars, room
<1>12. QED
  BY <1>3, <1>4, <1>5, <1>7, <1>8, <1>9, <1>10, <1>11 DEF Next

(* However many commands are in flight and whatever is swapped under them, *)
(* a stale seat is never one of the other team: losers shuffle, the        *)
(* winner's team deals, and tribute is paid and returned by the right side.*)
THEOREM StaleSeatsKeepTeam == Spec => []StaleSeatKeepsTeam
<1>1. Init => IInv /\ FlightsSided
  <2>1. Init => FlightsSided
    BY DEF Init, FlightsSided, Idle
  <2>2. QED
    BY <2>1, InitInv
<1>2. IInv /\ FlightsSided /\ [Next]_vars => (IInv /\ FlightsSided)'
  BY StepInv, StepKeepsSides
<1>3. IInv /\ FlightsSided => StaleSeatKeepsTeam
  <2> SUFFICES ASSUME IInv, FlightsSided, phase \in Handshake,
                      NEW p \in People, ~Idle(p)
               PROVE  p \in Seated /\ TeamOf(inFlight[p]) = TeamOf(SeatOf(p))
    BY DEF StaleSeatKeepsTeam, Handshake
  <2>1. PICK s \in Seats : /\ players[s + 1] = p
                            /\ TeamOf(inFlight[p]) = TeamOf(s)
    BY DEF FlightsSided, OnTheirSide
  <2>2. p \in Seated /\ SeatOf(p) = s
    BY <2>1, RoomFacts, SeatIs DEF IInv
  <2>3. QED
    BY <2>1, <2>2
<1>4. QED
  BY <1>1, <1>2, <1>3, PTL DEF Spec
=============================================================================
