---------------------------- MODULE GuandanTable ----------------------------
(***************************************************************************)
(* The table of a Guandan room: its seats, the two alternating teams, the  *)
(* order of play around it, and the pure functions of a finish order that  *)
(* end a deal and grade it.  Nothing here has state; the components that   *)
(* do (GuandanTrick, GuandanDeal, GuandanMatch) extend this module.        *)
(***************************************************************************)
EXTENDS Integers, Sequences, FiniteSets, Functions

CONSTANT PlayerCount    \* seats at the table

(* validate_start accepts even tables from four through fourteen seats.    *)
ASSUME PlayerCountAssumption == PlayerCount \in {4, 6, 8, 10, 12, 14}

Seats == 0 .. PlayerCount - 1

(* Teams alternate: even seats are team A (0), odd seats team B (1).       *)
TeamOf(s) == s % 2

(* Seats walked from one seat to reach another, going round; a seat is a   *)
(* full round away from itself.                                            *)
StepsTo(from, to) ==
  IF to > from THEN to - from ELSE to - from + PlayerCount

(* The first member of S met when walking on from a seat; the seat itself  *)
(* when S is empty or holds nobody else.                                   *)
NextAmong(S, from) ==
  IF S = {} THEN from
  ELSE CHOOSE s \in S : \A t \in S : StepsTo(from, s) <= StepsTo(from, t)

(* The members of S met strictly between two seats.                        *)
Between(S, from, to) == {s \in S : StepsTo(from, s) < StepsTo(from, to)}

-----------------------------------------------------------------------------
(* Finish orders: sequences of seats, first place first.                   *)

HalfTable == PlayerCount \div 2

(* The first half of the places all went to one team.                      *)
Swept(order) ==
  /\ Len(order) >= HalfTable
  /\ \A i \in 1 .. HalfTable : TeamOf(order[i]) = TeamOf(order[1])

(* When settlement stops a deal: a sweep, or one seat left.                *)
DealOver(order) == Swept(order) \/ Len(order) >= PlayerCount - 1

(* The sequences that list a set of seats in seat order (there is one).    *)
InSeatOrder(S) ==
  {q \in [1 .. Cardinality(S) -> S] :
     \A i, j \in 1 .. Cardinality(S) : i < j => q[i] < q[j]}

(* Mutant of Completions: the seats left holding cards are not placed.     *)
CompletionsMissingLosers(order) == {order}

(* The unplaced seats follow in seat order.                                *)
Completions(order) ==
  {order \o rest : rest \in InSeatOrder(Seats \ Range(order))}

(* The finish orders settlement can leave: after a sweep the losers are    *)
(* placed in seat order; otherwise any order of the seats.                 *)
Outcomes ==
  {order \in [1 .. PlayerCount -> Seats] :
     /\ IsInjective(order)
     /\ Swept(order) =>
          \A i, j \in HalfTable + 1 .. PlayerCount :
            i < j => order[i] < order[j]}

(* Mutant of PromotionSteps: the partner's place counted from zero.        *)
PromotionStepsFromZero(order) ==
  IF PlayerCount # 4 THEN 1
  ELSE 6 - (CHOOSE i \in 2 .. 4 : order[i] = (order[1] + 2) % PlayerCount)

(* Level steps earned by the first finisher's team, from the partner's     *)
(* place at a four-seat table; always one at a larger table.               *)
PromotionSteps(order) ==
  IF PlayerCount # 4 THEN 1
  ELSE 5 - (CHOOSE i \in 2 .. 4 : order[i] = (order[1] + 2) % PlayerCount)

(* The core crate's own grading of a four-seat finish order, whose last    *)
(* place may be left out: the first later place held by the winner's team. *)
CorePromotionSteps(order) ==
  LET seatAt(i) == IF i <= Len(order) THEN order[i]
                   ELSE CHOOSE s \in Seats : s \notin Range(order)
      mates     == {i \in 2 .. 4 : TeamOf(seatAt(i)) = TeamOf(order[1])}
  IN  5 - (CHOOSE i \in mates : \A j \in mates : i <= j)

(* Mutant of PaysWhom: four-seat tribute is paid by the third place.       *)
PaysWhomThird(order) ==
  IF Swept(order) THEN
    [givers    |-> {order[i] : i \in HalfTable + 1 .. PlayerCount},
     receivers |-> {order[i] : i \in 1 .. HalfTable}]
  ELSE IF PlayerCount = 4 THEN
    [givers |-> {order[2]}, receivers |-> {order[3]}]
  ELSE [givers |-> {}, receivers |-> {}]

(* tribute_plan for a complete finish order: a sweep is paid for by every  *)
(* loser; otherwise the last pays the first at a table of four, and nobody *)
(* pays at a larger one.                                                   *)
PaysWhom(order) ==
  IF Swept(order) THEN
    [givers    |-> {order[i] : i \in HalfTable + 1 .. PlayerCount},
     receivers |-> {order[i] : i \in 1 .. HalfTable}]
  ELSE IF PlayerCount = 4 THEN
    [givers |-> {order[4]}, receivers |-> {order[1]}]
  ELSE [givers |-> {}, receivers |-> {}]
=============================================================================
