# Verification of YihuaMu

TLA+ models of YihuaMu, a server and web page for two card games: Guandan (the
repository's own addition) and Shengji (the game it grew out of). A Rust server
holds one state per room in memory, browsers talk to it over WebSockets, every
command is a closure that storage runs on the state of a room, and a React page
shows what comes back.

This directory models the Guandan half from the table up to the page, with the
victory mail and the Shengji page's connection, checks it with TLC on small
instances, and proves its safety with TLAPS: every invariant and action property of a
passing run is a theorem, under the assumptions section 6 names. `PROJECT.json` lists the
components, the runs, the source lines behind every definition, a plausible bug behind
every property (a mutant), the hazards, and the theorems.

## 1. The system

| Component | State | Operations | Modules |
|---|---|---|---|
| Guandan table (`core/src/guandan/mod.rs`, `team.rs`) | none | seats, alternating teams, level steps, promotion | `GuandanTable` |
| Guandan trick (`core/src/guandan/trick.rs`, `game.rs`) | current player, leader, last play, who passed, who is out | play, pass, finish | `GuandanTrick` |
| Guandan deal (`guandan_handler.rs`: Play, Pass, `settle_*`, `run_robot_turns`) | turn, hands, last play, pass counter, trick winner, finish order | play, pass, decline a lead, robot turns, settlement | `GuandanDeal` |
| Guandan match and lobby (`guandan_handler.rs`: the other commands; `guandan_serving_types.rs`) | seats, queue, observers, levels, previous winner and finish order, phase between deals | join, sit out, robots, swap, start, shuffle, deal, tribute, disconnect | `GuandanMatch` |
| Tribute exchange (`tribute.rs`, `guandan_serving_types.rs`) | who owes, cards laid, cards returned | decide, pay, return, finalize | `GuandanTribute` |
| Rooms and connections (`guandan_handler.rs`: Join, disconnect, forwarding task) | `GUANDAN_CONNECTIONS`, subscriptions, what each client was shown | the awaited steps of joining, of a command, of leaving | `GuandanRoom` |
| In-memory storage (`hash_map_storage.rs`) | states, subscribers | commit, publish, get, subscribe, unsubscribe | `GuandanRoom` |
| Guandan play rules (`strength.rs`, `compare.rs`, `rules.rs`) | none | readings of a choice of cards, which beats which | `GuandanHint` (in part) |
| Guandan page: connection and joining (`GuandanWebsocketProvider.tsx`, `GuandanStateProvider.tsx`, `GuandanTable.tsx`) | socket, message queue, stored and rendered table, the refs of the automatic Join | open, lose, reconnect, receive, drain, render with its effects, the join and start buttons | `GuandanClient` |
| Guandan page: hand and hint (`GuandanNoBeatHint.tsx`, `GuandanNoBeatControls.tsx`, `GuandanTable.tsx`) | hand, sort order, selection, hint, play button | toggle, sort, end of the dealing animation, suggest, play, pass, receive | `GuandanHint`, `GuandanHand` |
| Guandan page: victory mail (`GuandanTable.tsx`, `api/send-guandan-victory.js`) | status, attempt, address, what the browser remembers, mails counted | automatic send, retry, edit, answer, admit, mail | `VictoryEmail` |
| Shengji page: connection (`WebsocketProvider.tsx`, `TimerProvider.tsx`, `websocketHandler.ts`) | decode queue, stored state, refs, timers in a worker | send, arrive, decode, render, effects, expire, ring, close | `ShengjiSocket` |
| Shengji phases, mechanics, settings, sessions; state dump; Redis storage; HTTP; WASM; the rest of the pages | | | not modelled, see section 8 |

**Interaction.** A WebSocket handler takes one command at a time. A command reads
the state, if it needs the sender's seat (`current_seat`), and then runs one
*operation*: storage locks the map of states, runs the closure, replaces the state
with the next version, releases the lock, and publishes `StateChanged` to every
subscriber under a second lock. A forwarding task for each connection waits for
that message, reads the state as it then is, and sends it to its client. Two
things live beside storage: `GUANDAN_CONNECTIONS`, how often each name is
connected to a room, and `GUANDAN_OBSERVERS`. Robots have no connection; their
turns run inside the operation of a person's command. The page queues what it
receives, hands it to React one message per timer, and its effects send commands
of their own: the Join of a link, and the mail of a victory, which goes to a
function beside the server.

**What is hard.** On the server, everything decided outside the operation that uses
it: the seat of the sender, whether anybody is connected, whether the seat found at
the start of Join still exists at its end. Commit and publication are two steps.
Within an operation the difficulty is bookkeeping that must agree with itself over a
long game: a bare number of passes while players drop out of the trick; a finish
order that settlement completes; six seat numbers that follow a swap; a finish order
that outlives the table it was made at; a queue served at five places of the code. On
the page, React: a value is stored, rendered later, and acted on by effects later
still, while a connection is lost, a timer rings or an answer arrives in between;
and places in a hand stand for cards that may have gone.

**What makes each part correct**

- Deal: the turn is at a seat with cards; the count of passes is who passed; the
  finish order places the empty hands; the deal ends when it should; robots hand
  the turn back; a trick ends.
- Match: nobody is in the room twice; the queue is served; what is remembered of a
  deal stays with the people who earned it; levels follow winners; a seat looked up
  before an operation stays one of the sender's team.
- Tribute: cards are conserved; the strongest card is paid; better places get
  more; the exchange is mutual; nobody is asked for a card they cannot give.
- Room and storage: no client keeps an old state, or is shown an older one than
  before; connections are counted exactly; a room ends with its last connection.
- Page: a connection joins once, and does join; a page at rest is in the room it
  shows, and is in one if it is to join; the hint is true and its suggestion accepted; a
  play judged in its round takes the cards that were on show.
- Victory mail: one mail for a win and an address; what the browser remembers as sent,
  and will not send again, was mailed.
- Shengji page: the newest state ends up on show; silence is noticed, and an answer
  is not taken for silence.

The hazards, each at its line, are in `PROJECT.json`.

## 2. Modules

```
GuandanTable
  |-- GuandanTrick                  abstract: what the core crate promises
  |-- GuandanDeal
  |     '-- GuandanDealRefinement - GuandanDealProofs
  |-- GuandanTribute -------------- GuandanTributeProofs     MCGuandanTribute
  '.. GuandanMatch (INSTANCE) ----- GuandanMatchProofs       MCGuandanMatch
GuandanRoom ----------------------- GuandanRoomProofs
GuandanClient --------------------- GuandanClientProofs
GuandanHint -- GuandanHand -------- GuandanHandProofs        MCGuandanHand
VictoryEmail ---------------------- VictoryEmailProofs
ShengjiSocket --------------------- ShengjiSocketProofs
```

**`GuandanTable`** has no state. `StepsTo` and `NextAmong` are the search of
`advance_turn`: the next seat round the table out of a set. `Swept`, `DealOver`,
`Completions` are settlement's end of a deal and the finish order it stores;
`PromotionSteps` is the handler's grading of it and `CorePromotionSteps` the core
crate's; `PaysWhom` is `tribute_plan`; `Outcomes` are the finish orders a deal can
leave.

**`GuandanTrick`** is `TrickState` of the core crate driven by
`RoundState::play_cards`: it remembers the *set* of seats that passed. The server
does not use it; its handler keeps a counter. It is the abstract specification of
a deal, and has no step `TrickState` refuses.

**`GuandanDeal`** is a deal in the handler. A variable is a field of
`GuandanGameState` (`turn`, `lastPlayer`, `passes` = `passes_since_play`,
`lastTrickWinner`, `finishOrder`, `promotion` = `last_promotion_steps`), except
`hand` (the *number* of cards), `aceTeams` (which teams are at Ace; `GuandanMatch`
has the levels) and `robotTurns` (iterations left of `run_robot_turns`; while
positive the operation holds the lock). `Play`, `Pass` and `DeclineLead` are the
branches of the two commands, with the settlement they run; `RobotTurn` is one
iteration of the loop. Which cards beat which is left open: any non-empty part of
the hand may be played, so what is shown holds for every deal of cards, and a
robot on an empty table always leads.

**`GuandanDealRefinement`** maps a deal to a trick: the passed seats are the seats
with cards strictly between the last player and the turn. The handler makes one step
that `TrickState` refuses ("leader cannot pass before a play"): once a trick has been
won, the lead may be declined. `ImplementsTrickButDeclines` says that this is the only
one, and that it moves the turn and nothing else of the trick; `Trick!Spec` itself does
not hold of a deal.

**`GuandanMatch`** is a room over many deals. Each command is one action but
`ShuffleNextRound`, `DealNextRound`, `TributeCard` and `ReturnTribute`, which look
up a seat first: `LookUp` is the read and `Shuffle`, `Deal`, `PayTribute`,
`ReturnTribute` or `Refused` the operation, with anything in between. A deal is one
action, `EndDeal`, that ends in any of `Outcomes`; that a deal ends in nothing else
is the theorem `OutcomeCorrect`. `record` is history: the *people* behind the stored
finish order. `Retained` is `Vec::retain` and `Vec::remove`: what is left of a queue
when only some names stay, in their order. Connections are atomic here, and a name has
one: what two tabs of one name do is in `GuandanRoom`.

**`GuandanTribute`** is the exchange with cards: a card has a rank, is a heart or
not, and is one of its copies. `SubmitReturn` includes
`finalize_tribute_exchange` when it lays the last card, as the handler does.

**`GuandanRoom`** has the awaited steps of `websocket` as values of `pc`:
look-up, `room_has_connected_players`, the operation, the second look-up,
`set_connected`, `subscribe`, the announcement; and of its end: `unsubscribe`,
`set_connected`, the last operation. An operation is a commit and a publication
(`pc = "publishing"`). Of the game only `started`, and who is seated or queued, are
kept; their order does not matter here.

**`GuandanClient`** is one Guandan page. `stored` is what the setters stored, `view`
what the last render showed, `delivery` the one message handed to React. `Render`
shows all that is stored and runs the effects in the order React does, children
first, each when what it depends on differs from the last render; the reducer runs
in the same step, as an effect of the provider. `queue` outlives its connection, as
`messageQueueRef` does, and `Drain` waits for no render: the first timer of a queue is
of 0 ms, so that a message may overwrite the one before it. The server is what this
page sees of `GuandanRoom`: it may refuse a Join or leave it without an answer
(`HandleJoin`), and a game may be started, dropped or replaced at any time. Two mishaps
that the page never mends are remembered in the history variable `mishap`: `unjoined`,
this connection's Join came to nothing at the server, or its "joined" was overwritten;
and `misled`, a "joined" of the lost connection was reduced in the very render that
reset the table. The properties say that nothing else goes wrong.

**`GuandanHint`** has operators only: the shapes a choice of cards can have with
wild cards, the server's acceptance (`Accepts`), and the page's own search for a hand
that beats the table (`CanBeat`) and for a suggestion (`Suggestions`). What cards can be
read as is said once, in the patterns of the page (`Strengths`); the server's readings
(`Legal`) are those with a main rank, and that these are the readings of
`strength.rs` is a reading of the two sources, not something the model compares. What
it compares is the page's *search* with the rule of acceptance of `compare.rs` over all
choices of cards. **`GuandanHand`** puts them to work for one seated player: sort order,
dealing animation, selection by places, the play button, and commands that name places
in a hand the server may have changed. The other players move at any time, whatever is
on its way to or from the page. Hands, messages and commands carry as history the
`round` they are of (how often the turn has come back), which the program's do not.

**`VictoryEmail`** has the room's matches, whose numbers start again at 1 with a new
game, so that two wins may carry one `match_id`; the page's effect at every state
message, its retry and `localStorage`; the function with its count for each IP (read
before the await, written after it), with several requests in it at a time; and the
provider (external), which mails a new idempotency key, answers a known one with the
same content as before and refuses it with another.

**`ShengjiSocket`** has the decode queue, the worker's timers in their three places
(a callback, a running timer, a posted message), and the three copies of the state a
listener may see: stored, rendered, and in the ref. Every message passes the decode
queue: a connection is assumed to use one encoding, and plain text, which is handled at
once, is the simpler of the two.

The MC modules hold only decks, deals, hands and symmetry sets.

## 3. Runs

| Run | Instance | Properties | Shows |
|---|---|---|---|
| `deal` | 4 seats, 2 robots, 3 cards, fair | `TurnHasCards`, `PassesCountTheSilent`, `FinishOrderExact`, `SettlementAgreesWithCore`, `RobotsResolvedForHumans`, `TurnGoesRound`, `ImplementsTrickButDeclines`, `TrickCloses` | all of a deal's safety, that but for declined leads it implements the core crate's trick, that robots hand the turn back while a person holds cards, and that a trick closes |
| `match` | 3 people, 3 robots, 4 to 6 seats, 2 commands in flight, Ace one level up | `RosterKept`, `ResultCarriedOver`, `TributeFollowsPlaces`, `StaleSeatKeepsTeam` | room, queue, swaps, tribute and levels over any number of deals and matches, and what a seat looked up before an operation is still good for |
| `tribute` | every deal of 8 cards to 4 seats, level Five | `CardsConserved`, `TributeByRules`, `OpenerPaidMost` | the exchange card by card |
| `room` | 2 connections, 2 names, fair | `NoMissedUpdate`, `PresenceExact`, `ViewsGoForward`, `EventuallyShown` | counting, notification and clean-up under every interleaving of steps, and that everybody is eventually shown the latest state |
| `client` | 2 losses, 1 news, 2 clicks, fair | `JoinsOnce`, `JoinedMeansMember`, `RestMeansJoined`, `EventuallyJoined` | a page through lost and renewed connections, the link and the buttons, unanswered Joins and overwritten messages |
| `victory` | 2 addresses, 2 match numbers, 2 wins, 2 requests | `OneMailPerWin`, `RememberedMeansMailed` | repeated news of a win, retries, lost and late answers, edited addresses and repeated match numbers |
| `hand` | 5 hands, 9 plays, 3 returns, level Five | `HintIsTrue`, `SuggestionAccepted`, `PlaysShownCards` | the hint against the server's rules, and places against cards |
| `socket` | 2 commands, 2 news, fair | `LatestShown`, `NoFalseAlarm`, `SilenceNoticed` | the decode queue, refs and timers of the Shengji page |

Every passing run also checks the type invariant of its module. Four runs find
behaviours that contradict a comment or a text of the repository; `PROJECT.json` quotes
the line.

| Run | Property | What the code does |
|---|---|---|
| `team_out` | `BothTeamsHoldCards` | Settlement ends a deal when the first half of the places went to one team. At six seats a team can be out of cards without having them, and the other team plays on among itself, against the comment that the deal ends immediately. |
| `deal_stall` | `RobotsResolved` | `run_robot_turns` is capped at one turn a seat and entered only from a person's command. Once every person is out, the turn can rest at a robot, and no command can ever move it. The comment calls the cap deliberate, for rooms of robots alone; the room of the run has a person. |
| `match_stranded` | `ShuffledCanBeDealt` | Seating the queue between two deals makes the table larger than the stored finish order; `tribute_plan` then refuses every `DealNextRound`. |
| `victory_sent` | `ShownIsSent` | The answer of any request sets the status of the win and address on the page by then: the page says that the picture was sent to an address nothing was mailed to. |

## 4. Bounds, and why they are enough

- **Seats.** Four is the smallest table and the only one with promotion by places
  and with single tribute; six is the smallest with one step a deal, with three
  seats a team, and where a deal can go on after a team is out (`team_out`). Nothing in
  the code distinguishes larger tables; the proofs cover them all. `deal` seats two
  robots between two people, so that a robot is next whoever moves.
- **`HandSize`** 2 or 3 instead of 27: what a deal branches on is whether a hand is
  empty, and, for a robot, whether it is short (`NearFinish`, 1 instead of 2). Three
  cards give a full trick before anybody is out.
- **`LastLevel`** 1 instead of 12: Ace is reached, stayed at and won.
  **`MaxSeats`** 6 instead of 14: a table can grow by exactly one pair.
  **`StartSizes`** {4}: matches start at four seats and grow to six. Three people and
  **`MaxBots`** 3 are the six names for it; with no seventh name nobody in `match` comes
  to a full table, and the branch of Join that makes them an observer is left to the
  theorems (observers come from `StepAside`). **`MaxAway`** 1: one player may be offline
  while others play. **`MaxInFlight`** 2: two commands between their look-ups and their
  operations, with any other command before either; the code has no such limit, and the
  theorems have none. `match_stranded` takes four people, two robots and one command in
  flight, enough for its counterexample. People are interchangeable (`PeopleSymmetry`).
- **Tribute deals.** Two cards a seat from eight: two big jokers, the wild level
  card, two plain level cards (so that givers can tie), an Ace, two returnable cards.
  Every deal and every finish order is checked. A receiver with nothing returnable
  stops the exchange in such small hands; with 27 cards that practically needs a
  stacked deck. The proofs take any finite deck in which every hand has a card that
  is not wild.
- **Room.** Two connections, each with any of two names: two tabs of one name, or two
  players, one of whom can find the room the other is about to leave. A third connection
  makes the run too long for its liveness property; the theorems are for any number.
  Each connection is opened once; a match, once started, is not followed. The two halves
  of a forwarding step (receive, read) are one, since only the read matters to what is
  shown. **`MaxWaiting`** 9 notifications waiting in one subscription are never reached,
  so that, as in the code, no publication waits.
- **Client.** **`MaxDrops`** 2: the second loss may come while what is left of the
  first is still queued. **`MaxClicks`** 2: a join and a start, or two joins.
  **`MaxNews`** 1: one publication of others, with a "joined" of its own or without, at
  any time. **`TimersOnTime`**: a connection that opens, and the reconnect timer, which
  is a second or more, do not overtake a render that is due, and the queue is drained
  before the reconnect timer. A browser that sleeps can break this; it is an assumption
  of the run and of the theorems. Nothing is assumed of the drain timer, which is of 0 or
  8 ms: it may overtake any render.
- **Hand.** Five hands and nine plays, chosen for the branches of the two searches
  (wild cards in pairs, triples with pairs, runs of pairs, straights and straight
  flushes, bombs of four to seven, the joker bomb), one of the hands with two wild cards.
  **`MaxRounds`** 1, **`MaxClicks`** 3: select, play, play again while the answer is on
  its way and while the others move. One level, Five. The theorems are for any hands and
  plays, any level and any number of rounds and clicks; those about the two searches
  suppose hands of three decks or fewer.
- **Victory.** **`MaxMatches`** and **`MaxWins`** 2: two wins with two numbers, or, the
  game being replaced in between, with one. **`MaxRequests`** 2: two for one win, or one
  for each. Two addresses, and **`MaxPerWindow`** 1, the least with which the limit is
  met.
- **Socket.** **`MaxSends`** and **`MaxNews`** 2: a second command while the first
  one's timer is being taken back, and news that crosses both.

Deadlock is not checked: deals end, a room waits for its clients, a page for its
player, and the tribute of small hands can stop as just said.

## 5. Fairness

- `deal` assumes weak fairness of `Next`. The robot loop runs by itself; for people
  this is an assumption on players (the server has no turn timer), and `TrickCloses`
  says that *if* people act the rules end the trick.
- `room` assumes weak fairness of every handler step that awaits only storage
  and of every forwarding task, which the async runtime schedules. Joining, starting
  a match and leaving are the client's and unfair.
- `client` assumes weak fairness of the timers, of rendering, of the server taking the
  commands it is sent (not of its answering them), and of a connection attempt's success,
  which `scheduleReconnect` repeats for ever. Losing a connection, news and clicks are
  unfair.
- `match`, `tribute`, `victory` and `hand` state safety only and assume nothing.
- `socket` assumes weak fairness of what the browser does by itself: timers, renders,
  effects, decoding. Nothing is assumed of the network or the server: that an answer
  may never come is the point of `SilenceNoticed`.

## 6. Proofs

`GuandanDealProofs`, `GuandanTributeProofs` and `GuandanMatchProofs` are for every
even table from 4 to 14 seats.

`GuandanDealProofs` starts with the geometry of a round table: `NextAmong` is the
nearest member and the only one (`NextAmongNearest`, `NextAmongUnique`); the seats
strictly between the last player and the turn grow by the seat that passes
(`BetweenGrows`) until the walk round the table is complete (`BetweenWraps`); listing
the unplaced seats in seat order completes a finish order (`CompletionPlacesAll`); and
`PromotionSteps` is 1, 2 or 3.

It then proves `Spec => []IInv`. The invariants of the runs are not
inductive one by one: that a trick closes on the right count needs that the turn is
at a seat with cards and the counter is exact, which needs the finish order to be
exactly the empty hands, which needs the end of the deal to be noticed. `IInv` is
their conjunction with the type invariant and with `RobotOnTurn` (while the robot
loop holds the lock a robot is on turn). The moves (`LayCards`, `KeepTrick`,
`CloseTrick`, `PassOnTrick`, `DeclineLead`) have a lemma each, and the proof that
`Next` keeps `IInv` one step for each action. From `IInv` follow `TypeCorrect`,
`TurnAtCards`, `PassCounterExact`, `FinishOrderCorrect` and the action property
`TurnOrder`. `RobotCapSuffices` needs one invariant more,
`RobotReach`: the loop has at least as many iterations left as there are seats up to
some person with cards. `OutcomeCorrect` rests on `CompletionIsOutcome`: a sweep is
noticed with its last place, so that exactly the losers are listed in seat order;
`GradingAgrees` on `OutcomeCorrect` and on `PromotionAgrees`, the equality of the two
readings of a four-seat finish order.

`DealImplementsTrickButDeclines` is the refinement: initial states map to initial states
of `TrickState`, and every step to one of its steps, to none, or to a declined lead,
which it refuses (`DeclineKeepsTrick`: the lead, the play and the passes stay as they
are). Both close the trick on the same pass because, by `PassCounterExact`, the counter
is the size of the mapped set.

`TrickRunsOut` is what of `TrickCloses` can be said without fairness: in an open trick
the counter is below the passes required, and every step that leaves it open uses up
cards or, with the hands unchanged, one of the passes still to come. What is left to
TLC is that a step is taken.

`GuandanTributeProofs` splits the invariant by phase. `Before` nothing is laid;
`During` every hand is what was dealt without what its seat has laid, and what is
laid was legal; `After` there are cards `pay` and `ret`, one for each giver and
receiver, that the exchange has moved (`Made`). Ordering givers by their card, then by
seat, is a strict total order, so places are numbered without gaps or ties
(`PlacesDiffer`, and `PlacesTaken` by counting); hence every receiver has exactly one
giver (`Mates`), from which `CardsAreConserved`, `TributeIsByRules` and
`HighestGiverOpens` follow.

`GuandanMatchProofs` is for any number of people, of deals and matches, and of
commands in flight. It rests on facts about queues of names without repetition, stated
over positions: adding at the end (`Appended`), joining two queues (`Joined`), keeping
some names (`RetainedFacts`, from the fact that there is a k-th position for every k,
`EachPlaceTaken`) and swapping two (`SwapFacts`). The inductive invariant has three
parts. `RoomInv`: who sits, queues and watches, with `RosterKept`. `GameInv`: types,
`RecordFollowsPeople`, `LevelIsWinners` and `TributeFollowsPlaces`, and what these
need to be inductive: `RecordIsWhole` (between two deals the record names everybody of
the last table but its last, each once, and the table has not become smaller, so that
the places a swap changes are places of seated people) and `NothingLeft` (no giver or
finish order survives into the next deal or the lobby). `FlightInv`: a looked-up seat
may be anybody's by now, but is a number below the table bound. `OutcomeFacts` and
`CompletedFacts` say what settlement stores; `TributePlan` says who owes whom by it:
the receivers are its head, the givers its tail, and the two do not meet. From the
invariant follow `TypeCorrect`, `RosterIsKept`, `ResultIsCarriedOver` and
`TributeIsOwed`. `StaleSeatsKeepTeam` needs a second layer, `FlightsSided`: who has a
command in flight is connected and seated, and between two deals the seat looked up is of
the side of the seat they have now. It is kept because swaps between deals stay within a
team (`SidesAfterSwap`), the table grows only at its end (`SidesWhenTableGrows`), and the
table of a room that is left by everybody starts empty, with nothing in flight
(`SidesWhenGoing`). More than the side does not survive a swap: section 7.

`GuandanHandProofs` is for any hands and plays. A hand in order is a function of places
because a finite set with a strict order has one member for every place
(`EachPlaceTaken`); so the places of the page and those of the server are places of
cards. The strengthening of `PlaysShownCards` is `OneHand`: every hand spoken of, on the
page, in a message on its way and in a command on its way, is of a round that has come,
and is the server's own hand if that round is the present one and the turn still the
player's (`Known`). A move ends the turn or begins a round (`MoveKeeps`), and a play ends
the turn in the same operation that takes the cards; so a second press that is judged in
the round of the first finds the turn gone. One that is judged in a later round, because
people moved in between or because robots did within the operation of the first, is out
of the property's hypothesis, and does play other cards: section 7.

Its larger part is about the two searches of the hint, and compares them with the
server's rules for every hand, every play on the table and every level. The argument
has four parts.

- *What cards can be read as.* `ReadingFacts` lists, shape by shape, what a reading
  says of the cards: so many fixed cards of one rank and the rest wild, five ranks of
  one suit, four or five jokers (`ReadingsByShape`, `CardReadings`, `JokerReadings`).
  `RankBombRead` and `FlushRead` are the other direction for bombs: such cards have
  that reading. `LegalReadings` says where the page's readings and the server's agree.
- *Where the bombs are.* `BombHeld`: if some choice from a hand reads as a bomb, then
  `HasAnyBomb` says so. `BombFound`: if it says so, there are four, five or six cards
  of the hand that read as one. What is tried beyond six cards is the first seven or
  more of a rank in the order of the hand, the wild cards last; `LargeBomb` exchanges
  any bomb of that size for the one that is tried, as all of them are equally strong.
- *The page's answer* (`CanBeatTrue`). A play that beats the table either has its
  number of cards (`PlayAnswered`), or is a bomb: one of four to six cards is tried as
  it is (`BombAnswered`), a larger one through `LargeBomb`, and over a table that no
  bomb reading helps any bomb will do (`BombAnswers`).
- *The suggestion* (`SuggestionsTrue`). A finite set of scores, lists of six numbers
  compared from the first on, has a smallest member if it has one at all
  (`SmallestTaken`, entry by entry with `LeastTaken`); what is scored is what is tried
  and beats every reading of the table, so the server accepts it. That the scores are
  numbers needs the type of a sum over indexes, a recursive function: `SumType` takes
  the least index at which it would fail.

`HintInv` carries this to the specification: the page's answer is kept from the last
render that asked (`Memo`), the play it was asked about is a play of the deal
(`Asked`), and hands only lose cards, so that few wild cards stay few (`FewWild`). It
is inductive together with `IInv` (`HintInvariant`), and from both follow `HintTrue`
and `SuggestionTrue`.

`GuandanRoomProofs` is for any finite set of connections and any names. Its
strengthenings are about who holds the state alive: exactly the handlers between their
two ends are subscribed (`SubsArePresent`); a started match has a subscriber, and only
a started one has a queue (`MatchIsWatched`); seats nobody is subscribed for belong to
somebody about to be (`SeatsAreAwaited`); and no client was shown a version that is
still to come (`ShownIsPast`). The last also carries the action property
`NeverBackwards`: a state that was dropped and made anew starts at a low version,
which nobody is left to compare.

`GuandanClientProofs` is for any number of losses, news and clicks, under
`TimersOnTime`. The server has joined a live connection exactly if the page has its room
or the word of it is on its way, but for the two mishaps (`MemberIsTold`); the refs know
of the connection's Join, taken or not (`Joining`, `AttemptKnown`), because a new
connection starts with nothing left of the old one (`NewIsEmpty`, `LossForgets`) unless
the page is misled, and a misled page keeps the room it shows and never joins
(`MisledShows`). `RenderStores` and `RenderJoins` say once what a render does to the
table and to the refs. From the invariant follow `NoDoubleJoin`, `RoomsAreTrue` and
`JoinersRest`.

`VictoryEmailProofs` rests on `KnownExact`: the provider knows the key of a win, together
with that win, just when it has mailed it, and then it has mailed it once; another win
may have the same key and never be mailed. A good answer is one about a mail that was
sent for the win it was asked for (`GoodMeansMailed`), and what the browser remembers is
the address of such a request under the `match_id` of its win, whatever the page shows
when the answer comes.

`ShengjiSocketProofs` has `NewestLast`: the newest state is the last one on the wire,
or if there is none there the last one in the decode queue, or the one being decoded,
or the one stored; and `UpInOrder`: the number of a timer that has gone off is taken
back from the store, the render and the ref in that order, so that after an answer no
ref names a timer that could still raise an alarm (`NoneArmed`).

**Assumed**: only the named `ASSUME`s on the constants (even table of 4 to 14; the
robots are seats; hand size positive; finite decks and connections, every hand with a
card that is not wild; `NoSeat` is no number; nobody joins under a robot's name), which
TLC evaluates in the runs, `TimersOnTime` where a theorem of `GuandanClientProofs` says
so, and `FewWild` of every dealt hand in the three theorems about the hint: at most three
wild cards and four jokers of one kind. There is one wild card and one joker of each kind
to a deck and one deck to two seats (`deck.rs`), so this holds of every hand at four and
six seats; at eight and at ten seats there are exceptions to what the theorems say
(section 7). That robots' names are nobody's is an assumption on players: Join takes any
name, and one that begins like a robot's is counted among the robots.

What the models themselves assume: a name has one connection at a time in
`GuandanMatch` (`GuandanRoom` has several); the provider of `VictoryEmail` remembers its
keys as long as the model runs; a connection of `ShengjiSocket` uses one
encoding and brings the states in the order of their commits; and the views of
`GuandanRoom` are what the forwarding task sends, without the snapshot that Start sends
to its own client before the notifications (`guandan_handler.rs:1501-1518`, a hazard of
its own).

**Checked by TLC only**: the liveness properties `TrickCloses`, `EventuallyShown`,
`EventuallyJoined` and `SilenceNoticed`, which are outside the prover's reach. The run
`hand` also stands for the two searches beside their theorems: on its hands it
evaluates them as they are written.

## 7. Known, and not in a property of a passing run

What the models reach, or the code shows, beside the four findings of section 3. Some of
it is against a text of the repository, which is then named.

On the server:

- The winner of a trick may pass instead of leading, and so may everybody after them.
  `trick.rs` ("leader cannot pass before a play", and its test
  `leader_cannot_pass_without_opening_play`) and a text of the page say that a leader
  cannot. The refinement of section 2 names this step as its one exception.
- `DealNextRound` looks up the seat before its operation, and compares that number with
  the previous winner's seat ("only the previous winner may deal"). Swaps and the shuffle
  may come in between, with a second command in flight: the player who sat there deals in
  place of the person who won, or, at six seats, in place of a robot that won, and then
  the deal opens at that robot and no command moves it. `StaleSeatKeepsTeam` is what
  remains true of such a seat.
- A robot that wins a deal cannot deal the next one, and two robots that lose cannot
  shuffle: robots send no commands, and the match waits for ever.
- Join asks whether anybody is connected before its operation: a match started in
  between by its one seated player is replaced with that player connected.
- A handler subscribes several steps after it was seated. The last subscriber leaving in
  between drops the state with the newcomer's seat, and the newcomer is then connected to
  a room in which they do not sit. `PresenceExact` and `NoMissedUpdate` hold all the same.
- A receiver of tribute without a suited card from 2 to 10 off level cannot return.
- Two connections that give one name at the same time can both be seated under it.
- Of two tabs of one name, the first to close gives up the name's place in the queue.
- `Start` sends its own client the hand of a seat looked up before the operation.
- A manual shuffle moves one card of a freshly ordered deck.
- The last operation of a disconnect recreates the state it dropped; the Guandan
  storage is never pruned, so an (empty) entry stays for every abandoned room.

On the page:

- A Join that the server refuses, or leaves without an answer because the seat it gave is
  gone when it looks again (`guandan_handler.rs:1109`), is never tried again while the
  connection lives: `joinPendingRef` stays set (`mishap = "unjoined"`).
- Two messages handed to React between two renders: the first is lost. The first timer of
  a queue is of 0 ms (`GuandanWebsocketProvider.tsx:105`), so that a message that follows
  a drained queue may do this to the one before. The room's next publication makes up for
  a lost state; nothing does for a lost "joined".
- A "joined" of the lost connection that is reduced in the render that resets the table
  leaves a room on a page that will not join it again (`mishap = "misled"`).
- The page keeps its hand when the room's game is dropped or replaced while its
  connection lives (`hash_map_storage.rs:186-189`, `guandan_handler.rs:1060`): nothing
  takes `serverDealt` back until the connection is lost.
- `startRequested` is set before Start is sent and never taken back: after a Start
  that was refused or lost the start panel stays hidden until the page is reloaded.
- The play button is disabled in the document when nothing beats the table, and never
  enabled again by anybody but React, which sets it only when the selection turns
  empty or not empty: a selection kept from before leaves a dead button.
- At eight seats or more, a hand of four wild cards and no other suited card holds a
  bomb that the page does not find: `hasAnyBomb` counts the wild cards only together
  with an ordinary rank. The page says that nothing beats the table, and the server
  would accept the four.
- At ten seats or more, five jokers of one kind pass for a bomb on the page, which can
  suggest them; the server knows no such bomb and refuses.
- With the hand sorted from high to low, the suggestion marks other cards than those
  found: it counts the buttons of the page against the ascending order. The player
  sees what is marked.
- Play sends places without saying of which hand. A second press that is judged only
  after the turn has come back, as it may be when the others move fast, and is at once
  when they are robots, takes the cards at those places of the smaller hand.
- The victory mail. A second win with the `match_id` of an earlier one, in a new game of
  the room, finds its address remembered and is called sent without a mail; or it carries
  the idempotency key of the first and, its picture being another, is refused. Two
  pictures of one win may differ too, by the minute printed on them, so that a retry
  after a lost answer may be refused although the mail has gone. And the count of an IP
  is written back as it was read before the await, with one more: two requests at a time
  are counted once, and one that the provider answers from memory is counted as a mail.

## 8. Not modelled, and why

- **Shengji game phases, mechanics and settings** (`core/src/game_state`,
  `mechanics`, `settings.rs`): the upstream program's game. Its formats and scoring
  are combinatorics over cards without state, covered by the repository's tests; its
  phases are left out for the game this repository adds.
- **Shengji sessions and the state dump**: only what a page sees of them. That the
  server publishes whole states outside the lock (`utils.rs`) is listed as a hazard;
  `ShengjiSocket` starts from states in the order of their commits.
- **Building and ordering the deck**, plays at a lead beyond what the hands of the run
  can make, the alert threshold (a display setting) and `EndRound` (settlement always
  runs first).
- **Redis storage** (not used by the server), HTTP routing, the WASM bridge
  (stateless).
- **The Shengji page's forms** (`Initialize.tsx`, `Play.tsx`, `Draw.tsx`,
  `SettingsPane.tsx`, `ScoringSettings.tsx`, ...): they render the server's state and
  send one action per control; what they keep is local to a form. Chat lines are
  modelled as messages without content.
- **Layout, sounds, card images and the generated card components**.
- On the Guandan page: the custom order of the hand, the tribute buttons (the server's
  side is `GuandanTribute`), texts, statistics and pictures.

The share of the source the definitions stand for is small when counted over the
TypeScript alone (about a seventeenth): more than half of those lines are generated
card images and type tables, and most of the rest is markup. What holds state and
waits for somebody (the sockets, the timers, the effects, the searches of the hint and
the mail) is modelled; the server and the core crate, where the game is decided, are
Rust.

## 9. Plan

Done: everything in section 2.

Left, in this order:

1. `ShengjiSession`: operations that publish whole states after the lock, kick,
   disconnect; dump and reload at version 1 as crash and restart. It would replace the
   assumption of `ShengjiSocket` on the order of states.
2. `ShengjiExchange` and `ShengjiPhases`: bids of an epoch, the kitty and its theft,
   the agreed reset over Draw, Exchange and Play.
3. The queue of two tabs of one name: `GuandanMatch` with the connections of
   `GuandanRoom`.
