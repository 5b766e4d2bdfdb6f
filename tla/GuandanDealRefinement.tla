------------------------ MODULE GuandanDealRefinement ------------------------
(***************************************************************************)
(* The handler's bookkeeping of a trick (a pass counter and the last       *)
(* player) against the core crate's TrickState (the set of seats that      *)
(* passed).                                                                *)
(***************************************************************************)
EXTENDS GuandanDeal

(* Who leads or played last; before the first play, the opening seat.      *)
MappedLeader ==
  IF lastPlayer # NoSeat THEN lastPlayer
  ELSE IF lastTrickWinner # NoSeat THEN lastTrickWinner ELSE turn

(* The passed flags, recovered from the positions round the table.         *)
MappedPassed ==
  IF lastPlayer = NoSeat THEN {} ELSE Between(Active, lastPlayer, turn)

Trick ==
  INSTANCE GuandanTrick WITH
    current <- turn, leader <- MappedLeader, lastPlay <- lastPlayer,
    passed <- MappedPassed, finished <- Seats \ Active,
    over <- phase # "play"

(* The handler's one departure from TrickState, which refuses a pass       *)
(* before a play: a later lead may be declined.  TrickState's leader, play *)
(* and passes stay as they are; only the turn moves.                       *)
LeadDeclined ==
  /\ \E s \in Seats : DeclineLead(s)
  /\ UNCHANGED <<MappedLeader, lastPlayer, MappedPassed, Active, phase>>

(* Every step of a deal is a step of TrickState, leaves it unchanged, or   *)
(* is a declined lead.  With Trick!Spec alone the declined leads fail, as  *)
(* "leader cannot pass before a play" says they should.                    *)
ImplementsTrickButDeclines ==
  /\ Trick!Init
  /\ [][Trick!Next \/ LeadDeclined]_(Trick!vars)

=============================================================================
