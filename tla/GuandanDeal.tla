----------------------------- MODULE GuandanDeal -----------------------------
(***************************************************************************)
(* One deal of Guandan as the room's WebSocket handler plays it: the Play  *)
(* and Pass commands, settlement, and the robot turns that run inside the  *)
(* same storage operation (backend/src/guandan_handler.rs).                *)
(*                                                                         *)
(* Cards are abstracted to their number: a play removes one or more cards, *)
(* and which hands beat the table is left open, so every order of plays    *)
(* and passes that some card distribution allows is a behaviour.           *)
(*                                                                         *)
(* A command runs under the storage lock.  Its robot turns are modelled    *)
(* one at a time; robotTurns > 0 says that the operation still holds the   *)
(* lock, and keeps every other command out.                                *)
(***************************************************************************)
EXTENDS GuandanTable

CONSTANTS
  NoSeat,       \* Option::None for a seat
  HandSize,     \* cards dealt to a seat (27 in the code)
  Robots,       \* the seats whose name is_robot_name
  NearFinish    \* a hand this short is about to finish (2 in the code)

ASSUME NoSeatAssumption == NoSeat \notin Seats
ASSUME HandSizeAssumption == HandSize \in Nat \ {0}
ASSUME RobotsAssumption == Robots \subseteq Seats
ASSUME NearFinishAssumption == NearFinish \in Nat

VARIABLES
  turn,             \* the seat to act
  hand,             \* cards held by each seat
  lastPlayer,       \* who made the play to beat; NoSeat on an empty table
  passes,           \* passes counted since that play
  lastTrickWinner,  \* winner of the previous trick of the deal
  finishOrder,      \* seats in the order they ran out of cards
  aceTeams,         \* the teams whose level is Ace in this deal
  promotion,        \* last_promotion_steps once settled, else 0
  phase,            \* "play", or how settlement left the game
  robotTurns        \* iterations run_robot_turns still has, 0 when idle

vars == <<turn, hand, lastPlayer, passes, lastTrickWinner, finishOrder,
          aceTeams, promotion, phase, robotTurns>>

Humans == Seats \ Robots
Active == {s \in Seats : hand[s] > 0}

TypeOK ==
  /\ turn \in Seats
  /\ hand \in [Seats -> 0 .. HandSize]
  /\ lastPlayer \in Seats \cup {NoSeat}
  /\ passes \in 0 .. PlayerCount
  /\ lastTrickWinner \in Seats \cup {NoSeat}
  /\ finishOrder \in Seq(Seats)
  /\ aceTeams \subseteq {0, 1}
  /\ promotion \in 0 .. 3
  /\ phase \in {"play", "awaitingShuffle", "matchOver"}
  /\ robotTurns \in 0 .. PlayerCount

(* The loop condition of run_robot_turns, with k iterations left.          *)
RobotLoop(k) == IF phase' = "play" /\ turn' \in Robots THEN k ELSE 0

(* The deal opens with the draw winner, the previous winner or a tribute   *)
(* giver on turn; Start runs robot turns at once.                          *)
Init ==
  /\ turn \in Seats
  /\ hand = [s \in Seats |-> HandSize]
  /\ lastPlayer = NoSeat
  /\ passes = 0
  /\ lastTrickWinner = NoSeat
  /\ finishOrder = <<>>
  /\ aceTeams \in SUBSET {0, 1}
  /\ promotion = 0
  /\ phase = "play"
  /\ robotTurns = IF turn \in Robots THEN PlayerCount ELSE 0

-----------------------------------------------------------------------------
(* Settlement.                                                             *)

(* Mutant of WinsMatch: the partner's place is forgotten.                  *)
WinsMatchAlone(order) == TeamOf(order[1]) \in aceTeams

(* At Ace the match is won, at a four-seat table only if the winner's      *)
(* partner is not last.                                                    *)
WinsMatch(order) ==
  /\ TeamOf(order[1]) \in aceTeams
  /\ PlayerCount = 4 => PromotionSteps(order) >= 2

(* The match ends with the last play still on the table.                   *)
EndMatch(s, order) ==
  /\ WinsMatch(order)
  /\ phase' = "matchOver"
  /\ turn' = s
  /\ lastPlayer' = s
  /\ UNCHANGED lastTrickWinner

(* Otherwise the table is cleared and the next round awaits its shuffle.   *)
EndRound(order) ==
  /\ ~WinsMatch(order)
  /\ phase' = "awaitingShuffle"
  /\ turn' = order[1]
  /\ lastPlayer' = NoSeat
  /\ lastTrickWinner' = NoSeat

Settle(s, placed) ==
  \E order \in Completions(placed) :
    /\ finishOrder' = order
    /\ hand' = [t \in Seats |-> 0]
    /\ promotion' = PromotionSteps(order)
    /\ EndMatch(s, order) \/ EndRound(order)

-----------------------------------------------------------------------------
(* The moves shared by the handler and by run_robot_turns.                 *)

(* Mutant of LayCards: the passes of the previous play are kept.           *)
LayCardsKeepingPasses(s, k) ==
  LET left   == [hand EXCEPT ![s] = @ - k]
      placed == IF left[s] = 0 THEN Append(finishOrder, s) ELSE finishOrder
  IN  /\ UNCHANGED passes
      /\ \/ /\ DealOver(placed)
            /\ Settle(s, placed)
         \/ /\ ~DealOver(placed)
            /\ hand' = left
            /\ finishOrder' = placed
            /\ lastPlayer' = s
            /\ turn' = NextAmong({t \in Seats : left[t] > 0}, s)
            /\ UNCHANGED <<lastTrickWinner, promotion, phase>>

(* Seat s lays k cards.                                                    *)
LayCards(s, k) ==
  LET left   == [hand EXCEPT ![s] = @ - k]
      placed == IF left[s] = 0 /\ s \notin Range(finishOrder)
                THEN Append(finishOrder, s) ELSE finishOrder
  IN  /\ passes' = 0
      /\ \/ /\ DealOver(placed)
            /\ Settle(s, placed)
         \/ /\ ~DealOver(placed)
            /\ hand' = left
            /\ finishOrder' = placed
            /\ lastPlayer' = s
            /\ turn' = NextAmong({t \in Seats : left[t] > 0}, s)
            /\ UNCHANGED <<lastTrickWinner, promotion, phase>>

(* Mutant of RequiredPasses: seats that are out are waited for.            *)
RequiredPassesOfAll == Cardinality(Seats \ {lastPlayer})

RequiredPasses == Cardinality(Active \ {lastPlayer})

(* Mutant of KeepTrick: the pass is not counted.                           *)
KeepTrickUncounted ==
  /\ passes + 1 < RequiredPasses
  /\ turn' = NextAmong(Active, turn)
  /\ UNCHANGED <<passes, lastPlayer, lastTrickWinner>>

(* The seat on turn passes and the trick stays open.                       *)
KeepTrick ==
  /\ passes + 1 < RequiredPasses
  /\ passes' = passes + 1
  /\ turn' = NextAmong(Active, turn)
  /\ UNCHANGED <<lastPlayer, lastTrickWinner>>

(* Mutant of CloseTrick: a winner without cards is given the lead.         *)
CloseTrickToWinner ==
  /\ passes + 1 >= RequiredPasses
  /\ lastTrickWinner' = lastPlayer
  /\ turn' = lastPlayer
  /\ lastPlayer' = NoSeat
  /\ passes' = 0

(* Mutant of CloseTrick: the seat after the winner is given the lead.      *)
CloseTrickPastWinner ==
  /\ passes + 1 >= RequiredPasses
  /\ lastTrickWinner' = lastPlayer
  /\ turn' = NextAmong(Active, lastPlayer)
  /\ lastPlayer' = NoSeat
  /\ passes' = 0

(* The seat on turn is the last to pass: the last player leads, or the     *)
(* seat after a last player without cards.                                 *)
CloseTrick ==
  /\ passes + 1 >= RequiredPasses
  /\ lastTrickWinner' = lastPlayer
  /\ turn' = IF lastPlayer \in Active THEN lastPlayer
             ELSE NextAmong(Active, lastPlayer)
  /\ lastPlayer' = NoSeat
  /\ passes' = 0

PassOnTrick ==
  /\ lastPlayer # NoSeat
  /\ KeepTrick \/ CloseTrick
  /\ UNCHANGED <<hand, finishOrder, promotion, phase>>

-----------------------------------------------------------------------------
(* The commands.                                                           *)

(* What Play and Pass both check; nobody is connected as a robot.          *)
MayAct(s) ==
  /\ robotTurns = 0
  /\ phase = "play"
  /\ s \in Humans
  /\ turn = s

Play(s) ==
  /\ MayAct(s)
  /\ \E k \in 1 .. hand[s] : LayCards(s, k)
  /\ robotTurns' = RobotLoop(PlayerCount)
  /\ UNCHANGED aceTeams

Pass(s) ==
  /\ MayAct(s)
  /\ PassOnTrick
  /\ robotTurns' = RobotLoop(PlayerCount)
  /\ UNCHANGED aceTeams

(* Pass on an empty table: once a trick of the deal was won, the lead      *)
(* moves on.                                                               *)
DeclineLead(s) ==
  /\ MayAct(s)
  /\ lastPlayer = NoSeat
  /\ lastTrickWinner # NoSeat
  /\ turn' = NextAmong(Active, turn)
  /\ UNCHANGED <<hand, lastPlayer, passes, lastTrickWinner, finishOrder,
                 aceTeams, promotion, phase>>
  /\ robotTurns' = RobotLoop(PlayerCount)

(* robot_should_yield_to_teammate: not against a teammate's lead, unless   *)
(* an opponent is about to finish and the teammate is not.                 *)
RobotYields(s) ==
  /\ lastPlayer \in Seats \ {s}
  /\ TeamOf(lastPlayer) = TeamOf(s)
  /\ \/ \A t \in Active : TeamOf(t) # TeamOf(s) => hand[t] > NearFinish
     \/ hand[lastPlayer] <= NearFinish

(* Mutant of RobotTurn: a command runs one robot turn only.                *)
RobotTurnOnce ==
  /\ robotTurns > 0
  /\ \/ /\ ~RobotYields(turn)
        /\ \E k \in 1 .. hand[turn] : LayCards(turn, k)
     \/ PassOnTrick
  /\ robotTurns' = 0
  /\ UNCHANGED aceTeams

(* One iteration of run_robot_turns.  A robot on an empty table always     *)
(* finds a lead: every single card is one.                                 *)
RobotTurn ==
  /\ robotTurns > 0
  /\ \/ /\ ~RobotYields(turn)
        /\ \E k \in 1 .. hand[turn] : LayCards(turn, k)
     \/ PassOnTrick
  /\ robotTurns' = RobotLoop(robotTurns - 1)
  /\ UNCHANGED aceTeams

Next ==
  \/ \E s \in Seats : Play(s) \/ Pass(s) \/ DeclineLead(s)
  \/ RobotTurn

Spec == Init /\ [][Next]_vars

(* The seat on turn, or the robot loop, does act in the end.  The server   *)
(* has no turn timer: for people this is an assumption of its use.         *)
FairSpec == Spec /\ WF_vars(Next)

-----------------------------------------------------------------------------
(* Safety.                                                                 *)

(* The turn of an open deal is at a seat that holds cards, whatever seat   *)
(* just went out or won the trick (advance_turn, trick closing): nobody    *)
(* else may act, so a turn at an empty hand would freeze the table.        *)
TurnHasCards == phase = "play" => hand[turn] > 0

(* The handler counts passes instead of remembering who passed.  The count *)
(* is exactly the number of seats with cards between the last player and   *)
(* the seat on turn, and is 0 on an empty table; and the turn never comes  *)
(* back to the last player, who would have to beat their own play.         *)
PassesCountTheSilent ==
  phase = "play" =>
    IF lastPlayer = NoSeat THEN passes = 0
    ELSE /\ turn # lastPlayer
         /\ passes = Cardinality(Between(Active, lastPlayer, turn))

(* finish_order places exactly the seats without cards, each once; a deal  *)
(* in play has not met settlement's condition and a settled one places     *)
(* everybody.                                                              *)
FinishOrderExact ==
  /\ IsInjective(finishOrder)
  /\ Range(finishOrder) = Seats \ Active
  /\ phase = "play" <=> ~DealOver(finishOrder)

(* What a settled deal leaves is one of the finish orders a match goes on  *)
(* from: after a sweep the losers are placed in seat order, and everybody  *)
(* is placed (settle_and_redeal_if_complete).                              *)
SettlesToOutcome == phase # "play" => finishOrder \in Outcomes

(* Settlement's inline grading gives what the core crate's                 *)
(* four_player_promotion_steps and four_player_ace_win say of the stored   *)
(* order without its last place, which is what later steps are given.      *)
SettlementAgreesWithCore ==
  phase # "play" /\ PlayerCount = 4 =>
    LET steps == CorePromotionSteps(SubSeq(finishOrder, 1, 3))
    IN  /\ promotion = steps
        /\ phase = "matchOver" <=>
             TeamOf(finishOrder[1]) \in aceTeams /\ steps >= 2

(* A deal goes on only while both teams hold cards: "once every player on  *)
(* one team has finished" the deal ends "immediately" (comment in          *)
(* settle_multiplayer_if_complete).  The code ends it when the first half  *)
(* of the places went to one team, which is less.                          *)
BothTeamsHoldCards ==
  phase = "play" =>
    \A team \in {0, 1} : \E s \in Active : TeamOf(s) = team

(* When a command returns, no robot is left on turn while some person      *)
(* still holds cards: the cap of one round of robot turns is enough, even  *)
(* when seats go out in the middle of the round.                           *)
RobotsResolvedForHumans ==
  /\ robotTurns = 0
  /\ phase = "play"
  /\ Active \cap Humans # {}
  => turn \in Humans

(* The same without the condition: "Resolve consecutive bot seats after    *)
(* each human action".                                                     *)
RobotsResolved == robotTurns = 0 /\ phase = "play" => turn \in Humans

-----------------------------------------------------------------------------
(* Steps.                                                                  *)

(* Whatever branch moves the turn within a deal, closing a trick included, *)
(* it goes to the next seat round the table that still holds cards.        *)
TurnGoesRound == [][phase' = "play" => turn' = NextAmong(Active', turn)]_vars

-----------------------------------------------------------------------------
(* Liveness.                                                               *)

(* A trick once opened is closed, or ends the deal: passes and plays       *)
(* cannot go on for ever against one another.                              *)
TrickCloses ==
  lastPlayer # NoSeat ~> (lastPlayer = NoSeat \/ phase = "matchOver")
=============================================================================
