---------------------------- MODULE GuandanMatch ----------------------------
(***************************************************************************)
(* A Guandan room from its lobby through the deals of its matches: who     *)
(* sits where, who queues and who watches, the levels of the two teams,    *)
(* and the handshake between two deals (the losers shuffle, the winner     *)
(* deals, tribute is paid and returned).  The play of a deal is GuandanDeal;*)
(* here it is one step that ends in a finish order a deal can produce.     *)
(*                                                                         *)
(* Every command is one storage operation on the room, but ShuffleNextRound,*)
(* DealNextRound, TributeCard and ReturnTribute look their seat up in a    *)
(* read before it (current_seat): inFlight holds the commands between the  *)
(* two.                                                                    *)
(***************************************************************************)
EXTENDS Integers, Sequences, FiniteSets, Functions

CONSTANTS
  People,       \* the names people join with
  NoSeat,       \* Option::None for a seat or a team
  MaxSeats,     \* GUANDAN_MAX_PLAYER_COUNT (14 in the code)
  MaxBots,      \* robots SetBots may ask for (3 in the code)
  LastLevel,    \* steps from level Two to Ace (12 in the code)
  StartSizes,   \* bound: the table sizes at which matches are started
  MaxAway,      \* bound: how many may be away from a match others are in
  MaxInFlight   \* bound: how many commands have looked up a seat at a time

ASSUME MaxSeatsAssumption == MaxSeats \in {4, 6, 8, 10, 12, 14}
ASSUME MaxBotsAssumption == MaxBots \in 0 .. 3
ASSUME LastLevelAssumption == LastLevel \in Nat \ {0}
ASSUME StartSizesAssumption == StartSizes \subseteq {4, 6, 8, 10, 12, 14}
ASSUME MaxAwayAssumption == MaxAway \in Nat
ASSUME MaxInFlightAssumption == MaxInFlight \in Nat
ASSUME NoSeatAssumption == NoSeat \notin Nat

VARIABLES
  players,      \* player_names: the name at each seat, seat 0 first
  pending,      \* pending_players: the queue for the next deal
  observers,    \* GUANDAN_OBSERVERS of the room
  online,       \* the people with a connection to the room
  phase,        \* lobby, play, awaitingShuffle, awaitingDeal, tribute, matchOver
  levels,       \* team_levels
  level,        \* the level of the deal
  turn,         \* the seat that opens the deal, later the winner's
  winner,       \* last_game_winner
  winnerTeam,   \* last_game_winner_team
  nextOrder,    \* next_round_finish_order
  givers,       \* pending_tribute: who pays
  receivers,    \* pending_tribute: who returns a card
  given,        \* who has paid
  returned,     \* who has returned a card
  inFlight,     \* the seat looked up for each person's command, if any
  record        \* history: the names nextOrder stood for at settlement

room     == <<players, pending, observers, online>>
tribute  == <<givers, receivers, given, returned>>
grades   == <<levels, level, winner, winnerTeam>>
vars     == <<room, phase, grades, turn, nextOrder, tribute, inFlight, record>>

(* Teams alternate round the table.                                        *)
TeamOf(s) == s % 2

(* The table operators for a table of n seats.                             *)
T(n) == INSTANCE GuandanTable WITH PlayerCount <- n

Robot(i) == <<"robot", i>>
Names    == People \cup {Robot(i) : i \in 1 .. MaxBots}

(* Nobody joins under the name of a robot (the code does not refuse it).   *)
ASSUME RobotAssumption == \A i \in 1 .. MaxBots : Robot(i) \notin People

Seats    == 0 .. Len(players) - 1
Seated   == Range(players)
Started  == phase # "lobby"

(* The numbers of a set in increasing order.                               *)
Increasing(S) ==
  [k \in 1 .. Cardinality(S) |->
     CHOOSE i \in S : Cardinality({j \in S : j < i}) = k - 1]

(* Vec::retain: what is left of q when only the names in S stay.           *)
Retained(q, S) ==
  LET kept == Increasing({i \in DOMAIN q : q[i] \in S})
  IN  [k \in DOMAIN kept |-> q[kept[k]]]

(* current_seat                                                            *)
SeatOf(p) == CHOOSE s \in Seats : players[s + 1] = p

(* A connection handles one command at a time.                             *)
Idle(p) == inFlight[p] = NoSeat

TypeOK ==
  /\ players \in Seq(Names) /\ Len(players) <= MaxSeats
  /\ pending \in Seq(People)
  /\ observers \subseteq People
  /\ online \subseteq People
  /\ phase \in {"lobby", "play", "awaitingShuffle", "awaitingDeal",
                "tribute", "matchOver"}
  /\ levels \in [{0, 1} -> 0 .. LastLevel]
  /\ level \in 0 .. LastLevel
  /\ turn \in Nat
  /\ winner \in Seats \cup {NoSeat}
  /\ winnerTeam \in {0, 1, NoSeat}
  /\ nextOrder \in Seq(Seats)
  /\ givers \subseteq Seats /\ receivers \subseteq Seats
  /\ given \subseteq givers /\ returned \subseteq receivers
  /\ inFlight \in [People -> 0 .. MaxSeats - 1 \cup {NoSeat}]
  /\ record \in Seq(Names)

(* GuandanGameState::default()                                             *)
FreshGame ==
  /\ phase' = "lobby"
  /\ levels' = [t \in {0, 1} |-> 0]
  /\ level' = 0
  /\ turn' = 0
  /\ winner' = NoSeat
  /\ winnerTeam' = NoSeat
  /\ nextOrder' = <<>>
  /\ givers' = {} /\ receivers' = {} /\ given' = {} /\ returned' = {}
  /\ record' = <<>>

Init ==
  /\ players = <<>> /\ pending = <<>> /\ observers = {} /\ online = {}
  /\ phase = "lobby"
  /\ levels = [t \in {0, 1} |-> 0]
  /\ level = 0
  /\ turn = 0
  /\ winner = NoSeat
  /\ winnerTeam = NoSeat
  /\ nextOrder = <<>>
  /\ givers = {} /\ receivers = {} /\ given = {} /\ returned = {}
  /\ inFlight = [p \in People |-> NoSeat]
  /\ record = <<>>

-----------------------------------------------------------------------------
(* Coming, queueing, watching and leaving.                                 *)

(* promote_pending_players: as many of the queue as fit, in pairs.         *)
Promote(queue) ==
  LET fit  == IF Len(queue) < MaxSeats - Len(players)
              THEN Len(queue) ELSE MaxSeats - Len(players)
      even == fit - (fit % 2)
  IN  /\ players' = players \o SubSeq(queue, 1, even)
      /\ pending' = SubSeq(queue, even + 1, Len(queue))

(* Mutant of Queue: the newcomers wait for the next settlement.            *)
QueueOnly(queue) == pending' = queue /\ UNCHANGED players

(* A queue that changed is promoted at once before the shuffle.            *)
Queue(queue) ==
  IF phase = "awaitingShuffle" THEN Promote(queue)
  ELSE pending' = queue /\ UNCHANGED players

(* The places that are taken or promised.                                  *)
Reserved == Len(players) + IF Started THEN Len(pending) ELSE 0

Join(p) ==
  /\ p \in People \ online
  /\ online' = online \cup {p}
  /\ \/ /\ p \in Seated
        /\ UNCHANGED <<players, pending, observers>>
     \/ /\ p \notin Seated /\ Reserved < MaxSeats
        /\ IF Started THEN Queue(Append(pending, p))
           ELSE players' = Append(players, p) /\ UNCHANGED pending
        /\ UNCHANGED observers
     \/ /\ p \notin Seated /\ Reserved >= MaxSeats
        /\ observers' = observers \cup {p}
        /\ UNCHANGED <<players, pending>>
  /\ UNCHANGED <<phase, grades, turn, nextOrder, tribute, inFlight, record>>

(* SetParticipation with active: an observer sits down or queues.          *)
Participate(p) ==
  /\ p \in online /\ Idle(p)
  /\ p \in observers \ (Seated \cup Range(pending))
  /\ Reserved < MaxSeats
  /\ observers' = observers \ {p}
  /\ IF Started THEN Queue(Append(pending, p))
     ELSE players' = Append(players, p) /\ UNCHANGED pending
  /\ UNCHANGED <<online, phase, grades, turn, nextOrder, tribute, inFlight,
                 record>>

(* SetParticipation without active: out of the queue, or of a seat in the  *)
(* lobby, where the seats behind move up.                                  *)
StepAside(p) ==
  /\ p \in online /\ Idle(p)
  /\ \/ /\ Started
        /\ p \in Range(pending) \ Seated
        /\ pending' = Retained(pending, People \ {p})
        /\ UNCHANGED players
     \/ /\ ~Started
        /\ p \in Seated
        /\ players' = Retained(players, Names \ {p})
        /\ UNCHANGED pending
  /\ observers' = observers \cup {p}
  /\ UNCHANGED <<online, phase, grades, turn, nextOrder, tribute, inFlight,
                 record>>

(* A connection ends.  A seat is kept, a queue or observer's place is not; *)
(* with its last connection the room's state is dropped.                   *)
Disconnect(p) ==
  /\ p \in online /\ Idle(p)
  /\ Started /\ online # {p} =>
       Cardinality((Seated \cap People) \ online) < MaxAway
  /\ online' = online \ {p}
  /\ observers' = observers \ {p}
  /\ IF online = {p}
     THEN players' = <<>> /\ pending' = <<>> /\ FreshGame
     ELSE /\ pending' = Retained(pending, People \ {p})
          /\ UNCHANGED <<players, phase, grades, turn, nextOrder, tribute,
                         record>>
  /\ UNCHANGED inFlight

-----------------------------------------------------------------------------
(* The lobby.                                                              *)

(* SetBots: the robots of an earlier request go, k take the last seats.    *)
SetBots(p, k) ==
  LET people == Retained(players, People)
  IN  /\ p \in online \cap Seated /\ Idle(p)
      /\ ~Started
      /\ Len(people) + k <= MaxSeats
      /\ players' = people \o [i \in 1 .. k |-> Robot(i)]
      /\ UNCHANGED <<pending, observers, online, phase, grades, turn,
                     nextOrder, tribute, inFlight, record>>

(* Mutant of RemapOrder: the previous finish order keeps its old seats.    *)
RemapNothing(q, a, b) == q

(* remap_seat, and its forms for an option and for a sequence.             *)
Remap(s, a, b)       == IF s = a THEN b ELSE IF s = b THEN a ELSE s
RemapOrder(q, a, b)  == [i \in DOMAIN q |-> Remap(q[i], a, b)]

(* Mutant of MaySwap: the two seats may be of different teams.             *)
MaySwapAny(p, a, b) == a # b /\ SeatOf(p) \in {a, b}

(* What ReorderPlayers asks of the two seats: one team, one of them the    *)
(* sender's.                                                               *)
MaySwap(p, a, b) ==
  /\ a # b
  /\ TeamOf(a) = TeamOf(b)
  /\ SeatOf(p) \in {a, b}

(* swap_same_team_seats: the people move, and every seat number remembered *)
(* from the last deal moves with them.                                     *)
Reorder(p, a, b) ==
  /\ p \in online \cap Seated /\ Idle(p)
  /\ phase \in {"lobby", "awaitingShuffle"}
  /\ MaySwap(p, a, b)
  /\ players' = [players EXCEPT ![a + 1] = players[b + 1],
                                ![b + 1] = players[a + 1]]
  /\ turn' = Remap(turn, a, b)
  /\ winner' = Remap(winner, a, b)
  /\ nextOrder' = RemapOrder(nextOrder, a, b)
  /\ UNCHANGED <<pending, observers, online, phase, levels, level,
                 winnerTeam, tribute, inFlight, record>>

(* Start: a new match for the table as it is (validate_start: an even one  *)
(* of 4 to 14), in the lobby or after a won match; a draw decides who opens.*)
Start(p) ==
  /\ p \in online \cap Seated /\ Idle(p)
  /\ phase \in {"lobby", "matchOver"}
  /\ Len(players) \in StartSizes
  /\ phase' = "play"
  /\ levels' = [t \in {0, 1} |-> 0]
  /\ level' = 0
  /\ turn' \in Seats
  /\ winner' = NoSeat
  /\ winnerTeam' = NoSeat
  /\ nextOrder' = <<>>
  /\ UNCHANGED <<room, tribute, inFlight, record>>

-----------------------------------------------------------------------------
(* The end of a deal.                                                      *)

(* Mutant of Advance: nothing stops at Ace.                                *)
AdvancePastAce(lv, steps) == lv + steps

(* advance_winner_by: one level at a time, Ace is never passed.            *)
Advance(lv, steps) == IF lv + steps > LastLevel THEN LastLevel ELSE lv + steps

(* The match is won by a deal played at the winner's Ace, at a four-seat   *)
(* table only if the partner is not last.                                  *)
WinsMatch(n, order) ==
  /\ levels[TeamOf(order[1])] = LastLevel
  /\ n = 4 => T(n)!PromotionSteps(order) >= 2

(* Only the winning team advances, and the next deal is played at its      *)
(* level.                                                                  *)
GradeDeal(n, order) ==
  LET team == TeamOf(order[1])
  IN  /\ levels' = [levels EXCEPT
                      ![team] = Advance(@, T(n)!PromotionSteps(order))]
      /\ level' = levels'[team]

(* The deal in play ends with a finish order and is settled.  Everybody at *)
(* the table has had to act in it, so no command of theirs is in flight.   *)
EndDeal ==
  /\ phase = "play"
  /\ \A p \in Seated \cap People : Idle(p)
  /\ LET n == Len(players)
     IN \E order \in T(n)!Outcomes :
          /\ winner' = order[1]
          /\ winnerTeam' = TeamOf(order[1])
          /\ \/ /\ WinsMatch(n, order)
                /\ phase' = "matchOver"
                /\ UNCHANGED <<players, pending, levels, level, turn,
                               nextOrder, record>>
             \/ /\ ~WinsMatch(n, order)
                /\ GradeDeal(n, order)
                /\ phase' = "awaitingShuffle"
                /\ turn' = order[1]
                /\ nextOrder' = SubSeq(order, 1, n - 1)
                /\ record' = [i \in 1 .. n - 1 |-> players[order[i] + 1]]
                /\ Promote(pending)
  /\ UNCHANGED <<observers, online, tribute, inFlight>>

-----------------------------------------------------------------------------
(* Between two deals.                                                      *)

(* A command looks up the sender's seat.                                   *)
LookUp(p) ==
  /\ p \in online \cap Seated
  /\ phase \in {"lobby", "awaitingShuffle", "awaitingDeal", "tribute"}
  /\ Idle(p)
  /\ Cardinality({q \in People : ~Idle(q)}) < MaxInFlight
  /\ inFlight' = [inFlight EXCEPT ![p] = SeatOf(p)]
  /\ UNCHANGED <<room, phase, grades, turn, nextOrder, tribute, record>>

(* The operation of p's command runs, and answers it.                      *)
Answer(p) ==
  /\ ~Idle(p)
  /\ inFlight' = [inFlight EXCEPT ![p] = NoSeat]

(* It is refused, or was none of the commands below.                       *)
Refused(p) ==
  /\ Answer(p)
  /\ UNCHANGED <<room, phase, grades, turn, nextOrder, tribute, record>>

(* ShuffleNextRound: somebody of the losing team deals the cards out, to   *)
(* the table as it is now.                                                 *)
Shuffle(p) ==
  /\ Answer(p)
  /\ phase = "awaitingShuffle"
  /\ inFlight[p] \in Seats
  /\ TeamOf(inFlight[p]) # winnerTeam
  /\ phase' = "awaitingDeal"
  /\ UNCHANGED <<room, grades, turn, nextOrder, tribute, record>>

(* tribute_plan accepts a finish order of this table, complete or without  *)
(* its last place.                                                         *)
PlanFits == Len(nextOrder) \in {Len(players) - 1, Len(players)}

(* The seat that deals is the previous winner's.                           *)
MayDeal(s) == winner = s

(* Play may begin: the record of the last deal has served.                 *)
OpenPlay ==
  /\ phase' = "play"
  /\ record' = <<>>

(* DealNextRound: the previous winner opens the deal.  Tribute is owed     *)
(* unless the givers hold both big jokers and resist.                      *)
Deal(p) ==
  /\ Answer(p)
  /\ phase = "awaitingDeal"
  /\ MayDeal(inFlight[p])
  /\ PlanFits
  /\ \E order \in T(Len(players))!Completions(nextOrder) :
       LET plan == T(Len(players))!PaysWhom(order)
       IN \/ /\ plan.givers # {}
             /\ phase' = "tribute"
             /\ givers' = plan.givers
             /\ receivers' = plan.receivers
             /\ UNCHANGED record
          \/ OpenPlay /\ UNCHANGED <<givers, receivers>>
  /\ nextOrder' = <<>>
  /\ UNCHANGED <<room, grades, turn, given, returned>>

(* TributeCard                                                             *)
PayTribute(p) ==
  /\ Answer(p)
  /\ phase = "tribute"
  /\ inFlight[p] \in givers \ given
  /\ given' = given \cup {inFlight[p]}
  /\ UNCHANGED <<room, phase, grades, turn, nextOrder, givers, receivers,
                 returned, record>>

(* ReturnTribute, once everybody has paid; the last one completes the      *)
(* exchange, and the giver of the highest card opens.                      *)
ReturnTribute(p) ==
  /\ Answer(p)
  /\ phase = "tribute"
  /\ given = givers
  /\ inFlight[p] \in receivers \ returned
  /\ IF returned \cup {inFlight[p]} = receivers
     THEN /\ turn' \in givers
          /\ givers' = {} /\ receivers' = {} /\ given' = {} /\ returned' = {}
          /\ OpenPlay
     ELSE /\ returned' = returned \cup {inFlight[p]}
          /\ UNCHANGED <<givers, receivers, given, turn, phase, record>>
  /\ UNCHANGED <<room, grades, nextOrder>>

Next ==
  \/ \E p \in People :
       \/ Join(p) \/ Participate(p) \/ StepAside(p) \/ Disconnect(p)
       \/ \E k \in 1 .. MaxBots : SetBots(p, k)
       \/ \E a, b \in Seats : Reorder(p, a, b)
       \/ Start(p)
       \/ LookUp(p) \/ Refused(p)
       \/ Shuffle(p) \/ Deal(p) \/ PayTribute(p) \/ ReturnTribute(p)
  \/ EndDeal

Spec == Init /\ [][Next]_vars

-----------------------------------------------------------------------------
(* Safety.                                                                 *)

(* Nobody is in the room twice: seats, queue and observers are disjoint,   *)
(* and everybody connected is in one of them.                              *)
EveryoneOnce ==
  /\ IsInjective(players) /\ IsInjective(pending)
  /\ Seated \cap Range(pending) = {}
  /\ observers \cap (Seated \cup Range(pending)) = {}
  /\ online \subseteq Seated \cup Range(pending) \cup observers
  /\ Range(pending) \cup observers \subseteq online

(* A match is always at an even table, and between two deals the queue has *)
(* been seated as far as pairs fit ("two by two, in queue order").         *)
QueueServed ==
  /\ Started => Len(players) >= 4 /\ Len(players) % 2 = 0
  /\ phase = "awaitingShuffle" => Len(pending) < 2 \/ Len(players) = MaxSeats

(* Nobody is lost or doubled on the way between seats, queue and bench,    *)
(* at whichever of its five places the handler serves the queue.           *)
RosterKept == EveryoneOnce /\ QueueServed

(* Swaps between two deals carry the last deal's result along: the seat    *)
(* remembered as the winner's, and each place of the finish order, still   *)
(* is the seat of the person who earned it.                                *)
RecordFollowsPeople ==
  phase \in {"awaitingShuffle", "awaitingDeal"} =>
    /\ players[winner + 1] = record[1]
    /\ turn = winner
    /\ winnerTeam = TeamOf(winner)
    /\ Len(nextOrder) = Len(record)
    /\ \A i \in DOMAIN record : players[nextOrder[i] + 1] = record[i]

(* The level of a deal is the level of the team that won the one before.   *)
LevelIsWinners ==
  phase \in {"awaitingShuffle", "awaitingDeal", "tribute", "play"} =>
    level = IF winnerTeam = NoSeat THEN 0 ELSE levels[winnerTeam]

(* What the next deal takes over from the last one is still true of the    *)
(* people it was true of, through every swap and shuffle.                  *)
ResultCarriedOver == RecordFollowsPeople /\ LevelIsWinners

(* Tribute goes from people placed behind to people placed ahead of them,  *)
(* as many cards one way as the other.                                     *)
TributeFollowsPlaces ==
  phase = "tribute" =>
    /\ Cardinality(givers) = Cardinality(receivers)
    /\ \A g \in givers, r \in receivers :
         \E i \in DOMAIN record :
           /\ record[i] = players[r + 1]
           /\ \A j \in 1 .. i : record[j] # players[g + 1]

(* A seat looked up before a command's operation may be somebody else's by *)
(* the time it runs, for seats are swapped in between; but never a seat of *)
(* the other team.  So it is a loser who shuffles, one of the winner's     *)
(* team who deals, and each card of a tribute is paid and returned by the  *)
(* side that owes it.                                                      *)
StaleSeatKeepsTeam ==
  phase \in {"awaitingShuffle", "awaitingDeal", "tribute"} =>
    \A p \in People : ~Idle(p) =>
      /\ p \in Seated
      /\ TeamOf(inFlight[p]) = TeamOf(SeatOf(p))

(* A shuffled deal can be dealt: the finish order it will be asked tribute *)
(* by is one of this table.                                                *)
ShuffledCanBeDealt == phase = "awaitingDeal" => PlanFits
=============================================================================
