----------------------------- MODULE GuandanHand -----------------------------
(***************************************************************************)
(* One seated player between the server's table and the page: the hand,    *)
(* what is selected of it, the hint (GuandanNoBeatHint), the play button   *)
(* that GuandanNoBeatControls switches off behind React's back, and the    *)
(* Play and Pass commands, which name cards by their place in the hand.    *)
(*                                                                         *)
(* The page learns of a move from two messages, the table first and the    *)
(* hand after it, and shows each as it comes.  The other players are the   *)
(* turn coming back with some play on the table (GuandanDeal has them), at *)
(* any time: they wait for nothing that is on its way to or from the page. *)
(*                                                                         *)
(* History: hands, messages and commands carry the round they are of.  The *)
(* program carries nothing of the kind, which is what the last property is *)
(* about.                                                                  *)
(***************************************************************************)
EXTENDS GuandanHint

CONSTANTS
  Hands,      \* the hands a deal is looked at with
  Plays,      \* what others have put on the table at first
  Returns,    \* what the turn may come back to: a play, or the lead <<>>
  MaxRounds,  \* bound: how often the turn comes back
  MaxClicks   \* bound: what the player presses on the page

ASSUME HandsAssumption  == Hands \subseteq Seq(Cards) /\ Plays \subseteq Seq(Cards)
ASSUME PlaysAssumption  == \A play \in Plays : Legal(play) # {}
ASSUME ReturnsAssumption == Returns \subseteq Plays \cup {<<>>}
ASSUME BoundsAssumption == {MaxRounds, MaxClicks} \subseteq Nat

VARIABLES
  hand,      \* hands[seat] at the server
  table,     \* last_play at the server; empty when the player leads
  mine,      \* turn = seat at the server
  robots,    \* all others are robots, who move within the player's command
  upstream,  \* commands on their way, each with the hand and round it was given for
  downlink,  \* messages on their way to the page
  page,      \* hand (with its round), table and turn in GuandanStateContext
  canBeat,   \* the hint's memo of handCanBeat
  dealing,   \* dealStep # null: the last cards are not yet shown
  order,     \* handSortOrder
  selected,  \* of GuandanTable
  button,    \* is the play button enabled in the document?
  rounds,    \* how often the turn has come back
  clicks     \* how often the player has pressed something

server == <<hand, table, mine, robots, rounds>>
shown  == <<page, canBeat, dealing, order, selected, button>>
vars   == <<server, upstream, downlink, shown, clicks>>

Indices == Nat \ {0}

TypeOK ==
  /\ hand \in Seq(Cards) /\ table \in Seq(Cards) /\ {mine, robots} \subseteq BOOLEAN
  /\ \A c \in ToSet(upstream) :
       /\ c.do \in {"play", "pass"} /\ c.indexes \subseteq Indices
       /\ c.shown \in Seq(Cards) /\ c.round \in 0 .. rounds
  /\ \A m \in ToSet(downlink) :
       m.table \in Seq(Cards) /\ m.hand \in Seq(Cards) /\ m.round \in 0 .. rounds
  /\ page.round \in 0 .. rounds
  /\ page.hand \in Seq(Cards) /\ page.table \in Seq(Cards) /\ page.mine \in BOOLEAN
  /\ {canBeat, dealing} \subseteq BOOLEAN /\ order \in {"asc", "desc"} /\ button \in BOOLEAN
  /\ selected \subseteq Indices
  /\ rounds \in 0 .. MaxRounds /\ clicks \in 0 .. MaxClicks

(* shouldCheck                                                             *)
Checks(p) == p.mine /\ p.table # <<>> /\ p.hand # <<>>
Memo(p)   == Checks(p) => CanBeat(p.hand, p.table)

Init ==
  /\ hand \in Hands /\ table \in Plays /\ mine = TRUE /\ robots \in BOOLEAN
  /\ upstream = <<>> /\ downlink = <<>>
  /\ page = [hand |-> hand, table |-> table, mine |-> TRUE, round |-> 0]
  /\ canBeat = Memo(page)
  /\ dealing \in BOOLEAN /\ order \in {"asc", "desc"}
  /\ selected = {} /\ button = FALSE
  /\ rounds = 0 /\ clicks = 0

-----------------------------------------------------------------------------
(* The page.                                                               *)

(* A hand in the order of cardSortValue, cards alike as they came.         *)
Ordered(cards, direction) ==
  InOrder(DOMAIN cards,
    LAMBDA i, j : LET v == SortValue(cards[i])  w == SortValue(cards[j]) IN
                    direction * v < direction * w \/ (v = w /\ i < j))

(* visibleHand: while the deal is animated, only its first half.           *)
Shown(cards) == IF dealing THEN SubSeq(cards, 1, Len(cards) \div 2) ELSE cards
Visible      == Ordered(Shown(page.hand), IF order = "asc" THEN 1 ELSE -1)

(* A selection, and the button: React sets its disabled property only when *)
(* it differs from what React set before.                                  *)
Select(new) ==
  /\ selected' = new
  /\ button' = IF (new = {}) = (selected = {}) THEN button ELSE new # {}

Click == clicks < MaxClicks /\ clicks' = clicks + 1

(* toggleCard                                                              *)
ToggleCard ==
  /\ Click
  /\ \E i \in ToSet(Visible) : Select(SymDiff(selected, {i}))
  /\ UNCHANGED <<server, upstream, downlink, page, canBeat, dealing, order>>

ToggleOrder ==
  /\ Click
  /\ order' = IF order = "asc" THEN "desc" ELSE "asc"
  /\ UNCHANGED <<server, upstream, downlink, page, canBeat, dealing, selected, button>>

EndDealing ==
  /\ dealing /\ dealing' = FALSE
  /\ UNCHANGED <<server, upstream, downlink, page, canBeat, order, selected, button, clicks>>

(* Mutant of Pressed: places counted from 0 once and from 1 once.          *)
PressedBeside(suggested) ==
  LET ascending == Ordered(page.hand, 1) IN
  {Visible[n] - 1 : n \in {k \in DOMAIN Visible : ascending[k] \in suggested}}

(* selectSuggestedCards takes the n-th button of the hand for the n-th     *)
(* card of the hand in ascending order.                                    *)
Pressed(suggested) ==
  LET ascending == Ordered(page.hand, 1) IN
  (selected \ ToSet(Visible))
    \cup {Visible[n] : n \in {k \in DOMAIN Visible : ascending[k] \in suggested}}

ShowSuggestion ==
  /\ Click /\ Checks(page) /\ canBeat
  /\ LET found == Suggestions(page.hand, page.table) IN
     \E suggested \in IF found = {} THEN {{}} ELSE found : Select(Pressed(suggested))
  /\ UNCHANGED <<server, upstream, downlink, page, canBeat, dealing, order>>

Send(command, indexes) ==
  /\ Click
  /\ upstream' = Append(upstream, [do |-> command, indexes |-> indexes,
                                   shown |-> page.hand, round |-> page.round])

(* playSelected: nothing is cleared until the smaller hand arrives.        *)
PressPlay ==
  /\ button /\ selected # {}
  /\ Send("play", selected)
  /\ UNCHANGED <<server, downlink, shown>>

PressPass ==
  /\ page.table # <<>>
  /\ Send("pass", {})
  /\ UNCHANGED <<server, downlink, shown>>

(* reduceMessage, and the effects of the render after it: the selection    *)
(* goes when the hand has shrunk, GuandanNoBeatControls disables the play  *)
(* button of a hand that cannot beat the table and never enables it again. *)
Receive ==
  /\ downlink # <<>>
  /\ LET m == Head(downlink)
         dealt == m.kind = "hand" \/ m.hand = <<>>
         next == [page EXCEPT
                    !.hand = IF dealt THEN m.hand ELSE @,
                    !.round = IF dealt THEN m.round ELSE @,
                    !.table = IF m.kind = "state" THEN m.table ELSE @,
                    !.mine = IF m.kind = "state" THEN m.mine ELSE @]
         fewer == Len(next.hand) < Len(page.hand)
     IN /\ page' = next
        /\ canBeat' = Memo(next)
        /\ selected' = IF fewer THEN {} ELSE selected
        /\ button' = (button /\ canBeat' /\ (fewer => selected = {}))
  /\ downlink' = Tail(downlink)
  /\ UNCHANGED <<server, upstream, dealing, order, clicks>>

-----------------------------------------------------------------------------
(* The server.                                                             *)

(* The subscription task's answer to a publication.                        *)
Publish(newHand, newTable, newMine) ==
  LET m == [kind |-> "state", hand |-> newHand, table |-> newTable, mine |-> newMine,
            round |-> rounds']
  IN downlink' = downlink \o <<m, [m EXCEPT !.kind = "hand"]>>

(* Mutant of Admits: a command is not refused out of turn.                 *)
AdmitsAnyTime(c) ==
  c.do = "play" => /\ c.indexes \subseteq DOMAIN hand
                   /\ Accepts(Restrict(hand, c.indexes), table)

(* Does the server take the command?  A pass on an empty table declines    *)
(* the lead, which is allowed once a trick has been won.                   *)
Admits(c) ==
  /\ mine
  /\ c.do = "play" => /\ c.indexes \subseteq DOMAIN hand
                      /\ Accepts(Restrict(hand, c.indexes), table)

(* The hand without the cards played.                                      *)
Without(cards, indexes) ==
  LET kept == InOrder(DOMAIN cards \ indexes, <)
  IN [k \in DOMAIN kept |-> cards[kept[k]]]

(* Play and Pass.  Robots play on within the same operation, until the     *)
(* turn is the player's again.                                             *)
HandleCommand ==
  /\ upstream # <<>>
  /\ upstream' = Tail(upstream)
  /\ LET c == Head(upstream)
         kept == Without(hand, c.indexes)
         laid == IF c.do = "play" THEN Without(hand, DOMAIN hand \ c.indexes) ELSE table
     IN IF ~Admits(c) THEN UNCHANGED <<server, downlink>>
        ELSE \/ /\ ~robots \/ kept = <<>>
                /\ hand' = kept /\ table' = laid /\ mine' = FALSE
                /\ UNCHANGED rounds /\ Publish(kept, laid, FALSE)
             \/ /\ robots /\ kept # <<>> /\ rounds < MaxRounds
                /\ rounds' = rounds + 1
                /\ \E t \in Returns :
                     hand' = kept /\ table' = t /\ mine' = TRUE /\ Publish(kept, t, TRUE)
  /\ UNCHANGED <<robots, shown, clicks>>

(* The people at the table have moved, on their own connections: faster,   *)
(* it may be, than what is on its way to or from this page.                *)
OthersMove ==
  /\ ~robots /\ ~mine /\ hand # <<>>
  /\ rounds < MaxRounds /\ rounds' = rounds + 1
  /\ mine' = TRUE
  /\ \E t \in Returns : table' = t /\ Publish(hand, t, TRUE)
  /\ UNCHANGED <<hand, robots, upstream, shown, clicks>>

Next ==
  \/ ToggleCard \/ ToggleOrder \/ EndDealing \/ ShowSuggestion
  \/ PressPlay \/ PressPass \/ Receive
  \/ HandleCommand \/ OthersMove

Spec == Init /\ [][Next]_vars

-----------------------------------------------------------------------------
(* The hint is a function of the page: looked at once for each page.       *)
Untouched == selected = {} /\ order = "asc" /\ ~dealing

(* The page says that nothing in the hand beats the table (and the play    *)
(* button is disabled) exactly when the server would refuse every choice   *)
(* of cards from it: handCanBeat looks at a few sizes only and stops at    *)
(* the first sign of a bomb, the server reads the cards sent.              *)
HintIsTrue ==
  Checks(page) /\ Untouched =>
    (canBeat
       <=> \E chosen \in SUBSET DOMAIN page.hand :
             Accepts(Restrict(page.hand, chosen), page.table))

(* findSuggestedIndexes finds something whenever the page offers a hint,   *)
(* and the server accepts what it finds.                                   *)
SuggestionAccepted ==
  Checks(page) /\ Untouched =>
    LET found == Suggestions(page.hand, page.table) IN
    /\ canBeat => found # {}
    /\ \A chosen \in found : Accepts(Restrict(page.hand, chosen), page.table)

(* A command names cards by their place and carries no version.  What      *)
(* keeps a second press on the same hand from playing other cards is that  *)
(* the turn has gone on: a play that is judged in the round of the hand it *)
(* was pressed on is of that very hand.                                    *)
PlaysShownCards ==
  \A c \in ToSet(upstream) :
    c.do = "play" /\ c.round = rounds /\ Admits(c) => c.shown = hand
=============================================================================
