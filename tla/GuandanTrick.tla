---------------------------- MODULE GuandanTrick ----------------------------
(***************************************************************************)
(* The abstract trick: what core/src/guandan/trick.rs (TrickState), driven *)
(* by RoundState::play_cards, promises of one deal.  It remembers WHO has  *)
(* passed, where the room's handler only counts passes.                    *)
(* Its constant is given a value where it is instantiated.                 *)
(***************************************************************************)
EXTENDS GuandanTable

CONSTANT NoSeat     \* Option::None for a seat, not a member of Seats

VARIABLES
  current,      \* current_player
  leader,       \* who leads, or played last
  lastPlay,     \* last_play_player
  passed,       \* the seats that passed since the last play
  finished,     \* the seats without cards
  over          \* the deal has ended and dropped its trick

vars == <<current, leader, lastPlay, passed, finished, over>>

Init ==
  /\ current \in Seats
  /\ leader = current
  /\ lastPlay = NoSeat
  /\ passed = {}
  /\ finished = {}
  /\ over = FALSE

(* ensure_turn: it is the seat's turn and the seat still has cards.        *)
OnTurn(p) == ~over /\ current = p /\ p \notin finished

(* mark_play, followed by finish_player when the play empties the hand.    *)
Play(p, out) ==
  /\ OnTurn(p)
  /\ finished' = IF out THEN finished \cup {p} ELSE finished
  /\ lastPlay' = p
  /\ leader' = p
  /\ passed' = {}
  /\ current' = NextAmong(Seats \ finished', p)
  /\ UNCHANGED over

(* pass: closes the trick when every seat in the deal but the leader has   *)
(* passed since the last play; the leader, or the seat after a leader who  *)
(* is out, then leads.                                                     *)
Pass(p) ==
  /\ OnTurn(p)
  /\ lastPlay # NoSeat
  /\ LET silent == passed \cup {p}
         closed == (Seats \ finished) \ {leader} \subseteq silent
     IN IF closed
        THEN /\ current' = IF leader \in finished
                           THEN NextAmong(Seats \ finished, leader) ELSE leader
             /\ lastPlay' = NoSeat
             /\ passed' = {}
        ELSE /\ current' = NextAmong(Seats \ finished, p)
             /\ passed' = silent
             /\ UNCHANGED lastPlay
  /\ UNCHANGED <<leader, finished, over>>

(* The deal ends and its trick state is dropped: anything may be left.     *)
EndDeal ==
  /\ ~over
  /\ over'
  /\ current' \in Seats
  /\ leader' \in Seats
  /\ lastPlay' \in Seats \cup {NoSeat}
  /\ passed' \in SUBSET Seats
  /\ finished' \in SUBSET Seats

Next ==
  \/ \E p \in Seats :
       \/ \E out \in BOOLEAN : Play(p, out)
       \/ Pass(p)
  \/ EndDeal

Spec == Init /\ [][Next]_vars
=============================================================================
