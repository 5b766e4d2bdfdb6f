---------------------------- MODULE GuandanClient ----------------------------
(***************************************************************************)
(* One Guandan page: GuandanWebsocketProvider, which reconnects for ever   *)
(* and hands the server's messages to React one per timer,                 *)
(* GuandanStateProvider, which reduces them into the table, and of         *)
(* GuandanTable the effects and handlers that join a room and start it.    *)
(*                                                                         *)
(* React is what makes this hard.  A setState only stores a value; a later *)
(* render shows every stored value at once, so that what is stored twice   *)
(* between two renders is seen once; and the effects of a render run after *)
(* it, children first, when a value they depend on has changed.            *)
(*                                                                         *)
(* The server is what this page sees of GuandanRoom: a connection that has *)
(* joined or not, and a room that plays or waits.  It may leave a Join     *)
(* without an answer; two messages may be handed over between two renders, *)
(* of which the first is then lost; and a message of a lost connection may *)
(* be reduced after the table has been reset.  The page mends none of it:  *)
(* mishap remembers which of these has happened.                           *)
(***************************************************************************)
EXTENDS Integers, Sequences

CONSTANTS
  MaxDrops,     \* bound: how often a connection is lost
  MaxNews,      \* bound: publications nobody on this page caused
  MaxClicks,    \* bound: presses of the join and start buttons
  TimersOnTime  \* a connection that opens, and a reconnect timer (1 s at
                \* least), do not overtake a render, nor the timer the last drain

ASSUME BoundsAssumption == MaxDrops \in Nat /\ MaxNews \in Nat /\ MaxClicks \in Nat
ASSUME TimersAssumption == TimersOnTime \in BOOLEAN

VARIABLES
  socket,    \* websocketRef: the current connection, or a timer for the next
  member,    \* the server has joined_room for this connection
  playing,   \* state.game.started at the server
  upstream,  \* commands on their way to the server
  wire,      \* messages on their way to the page
  queue,     \* messageQueueRef; its timer is armed while it is not empty
  delivery,  \* the message last stored for React, with its sequence number
  stored,    \* what setStatus, setState and setStartRequested stored
  view,      \* what the last render showed
  autoJoin,  \* autoJoinFromLink
  refs,      \* autoJoinKeyRef (set or null) and joinPendingRef
  mishap,    \* history: "unjoined", when this connection's Join was not taken
             \* or its "joined" was lost on the page; "misled", when the page
             \* shows the room of a lost connection; or "none"
  left       \* what remains of the three bounds

server  == <<member, playing>>
network == <<upstream, wire>>
vars    == <<socket, server, network, queue, delivery, stored, view, autoJoin,
             refs, mishap, left>>

Statuses == {"connecting", "connected", "disconnected"}
Commands == {"join", "start"}
Messages == {"connected", "joined", "waiting", "state", "error"}

(* Of the table: has it a room, and has the server dealt (serverDealt)?    *)
Tables     == [room : BOOLEAN, dealt : BOOLEAN]
EmptyTable == [room |-> FALSE, dealt |-> FALSE]
Shown      == [status : Statuses, table : Tables, startRequested : BOOLEAN]

TypeOK ==
  /\ socket \in {"connecting", "open", "closed"}
  /\ member \in BOOLEAN /\ playing \in BOOLEAN
  /\ upstream \in Seq(Commands)
  /\ wire \in Seq(Messages) /\ queue \in Seq(Messages)
  /\ delivery \in [message : Messages \cup {"none"}, sequence : Nat]
  /\ stored \in Shown
  /\ view \in [shown : Shown, sequence : Nat]
  /\ autoJoin \in BOOLEAN
  /\ refs \in [key : BOOLEAN, pending : BOOLEAN] /\ (refs.pending => refs.key)
  /\ mishap \in {"none", "unjoined", "misled"}
  /\ left \in [drops : 0 .. MaxDrops, news : 0 .. MaxNews, clicks : 0 .. MaxClicks]

Init ==
  /\ socket = "connecting"
  /\ member = FALSE /\ playing \in BOOLEAN
  /\ upstream = <<>> /\ wire = <<>> /\ queue = <<>>
  /\ delivery = [message |-> "none", sequence |-> 0]
  /\ stored = [status |-> "connecting", table |-> EmptyTable,
               startRequested |-> FALSE]
  /\ view = [shown |-> stored, sequence |-> 0]
  /\ autoJoin \in BOOLEAN
  /\ refs = [key |-> FALSE, pending |-> FALSE]
  /\ mishap = "none"
  /\ left = [drops |-> MaxDrops, news |-> MaxNews, clicks |-> MaxClicks]

(* Something is stored that no render has shown.                           *)
RenderDue == stored # view.shown \/ delivery.sequence # view.sequence

GameStarted(shown) == shown.table.dealt \/ shown.startRequested

-----------------------------------------------------------------------------
(* The connection.                                                         *)

Open ==
  /\ socket = "connecting"
  /\ TimersOnTime => ~RenderDue
  /\ socket' = "open"
  /\ stored' = [stored EXCEPT !.status = "connected"]
  /\ wire' = <<"connected">>
  /\ UNCHANGED <<server, upstream, queue, delivery, view, autoJoin, refs, mishap, left>>

(* The close event.  What is on its way is lost, the queue is not.  The    *)
(* server may have been restarted, or have closed the room for want of     *)
(* players: then a game is gone too.                                       *)
Close ==
  /\ socket # "closed" /\ left.drops > 0
  /\ socket' = "closed"
  /\ stored' = [stored EXCEPT !.status = "disconnected"]
  /\ upstream' = <<>> /\ wire' = <<>>
  /\ member' = FALSE /\ playing' \in {playing, FALSE}
  /\ mishap' = IF mishap = "unjoined" THEN "none" ELSE mishap
  /\ left' = [left EXCEPT !.drops = @ - 1]
  /\ UNCHANGED <<queue, delivery, view, autoJoin, refs>>

(* The timer of scheduleReconnect.                                         *)
Reconnect ==
  /\ socket = "closed"
  /\ TimersOnTime => queue = <<>> /\ ~RenderDue
  /\ socket' = "connecting"
  /\ stored' = [stored EXCEPT !.status = "connecting"]
  /\ UNCHANGED <<server, network, queue, delivery, view, autoJoin, refs, mishap,
                 left>>

Receive ==
  /\ wire # <<>>
  /\ wire' = Tail(wire)
  /\ queue' = Append(queue, Head(wire))
  /\ UNCHANGED <<socket, server, upstream, delivery, stored, view, autoJoin, refs,
                 mishap, left>>

(* The answer to this connection's Join, stored and not yet rendered.      *)
JoinedOverwritten ==
  /\ socket = "open" /\ ~stored.table.room
  /\ delivery.sequence # view.sequence /\ delivery.message = "joined"

(* drainMessages: one message, then another timer.  The timer is of 8 ms,  *)
(* or of none when the queue was empty (enqueueMessage), and need not wait *)
(* for the render of the message before: setDelivery then overwrites it.   *)
Drain ==
  /\ queue # <<>>
  /\ queue' = Tail(queue)
  /\ delivery' = [message |-> Head(queue), sequence |-> delivery.sequence + 1]
  /\ mishap' = IF JoinedOverwritten THEN "unjoined" ELSE mishap
  /\ UNCHANGED <<socket, server, network, stored, view, autoJoin, refs, left>>

-----------------------------------------------------------------------------
(* The effects of a render that shows v, each run when what it depends on  *)
(* differs from the last render; e holds the refs, and whether a Join has  *)
(* been sent.                                                              *)

StatusChanged(v) == v.status # view.shown.status
RoomChanged(v)   == v.table.room # view.shown.table.room

(* A link that names room and player joins as soon as it is connected.     *)
(* send looks at the socket itself, which may have closed meanwhile.       *)
JoinFromLink(v, e) ==
  IF /\ StatusChanged(v) \/ RoomChanged(v)
     /\ autoJoin /\ v.status = "connected" /\ ~v.table.room
     /\ ~e.pending /\ ~e.key /\ socket = "open"
  THEN [key |-> TRUE, pending |-> TRUE, sent |-> TRUE] ELSE e

ClearPending(v, e) ==
  IF RoomChanged(v) /\ v.table.room THEN [e EXCEPT !.pending = FALSE] ELSE e

(* Mutant of ForgetAttempt: the Join still counts as waiting.              *)
ForgetKey(v, e) ==
  IF StatusChanged(v) /\ v.status # "connected" THEN [e EXCEPT !.key = FALSE] ELSE e

(* Mutant of ForgetAttempt: the attempt is remembered over a reconnect.    *)
RememberAttempt(v, e) ==
  IF StatusChanged(v) /\ v.status # "connected" THEN [e EXCEPT !.pending = FALSE]
  ELSE e

ForgetAttempt(v, e) ==
  IF StatusChanged(v) /\ v.status # "connected"
  THEN [e EXCEPT !.key = FALSE, !.pending = FALSE] ELSE e

(* Mutant of LeaveWhenLost: the table outlives its connection.             *)
StayWhenLost(v, table) == table

(* A page that has lost its connection is in no room.                      *)
LeaveWhenLost(v, table) ==
  IF /\ StatusChanged(v) \/ RoomChanged(v)
     /\ v.status = "disconnected" /\ v.table.room
  THEN EmptyTable ELSE table

(* reduceMessage.  A queued message of a lost connection is reduced too.   *)
Reduce(table, message) ==
  CASE message = "joined" ->
         IF table.room THEN table ELSE [EmptyTable EXCEPT !.room = TRUE]
    [] message = "state" -> [table EXCEPT !.dealt = TRUE]
    [] OTHER -> table

Render ==
  LET v == stored
      e == ForgetAttempt(v, ClearPending(v, JoinFromLink(v,
             [key |-> refs.key, pending |-> refs.pending, sent |-> FALSE])))
      lost == LeaveWhenLost(v, v.table)
  IN  /\ RenderDue
      /\ view' = [shown |-> v, sequence |-> delivery.sequence]
      /\ refs' = [key |-> e.key, pending |-> e.pending]
      /\ upstream' = IF e.sent THEN Append(upstream, "join") ELSE upstream
      /\ stored' = [v EXCEPT
           !.startRequested = @ \/ v.table.dealt,
           !.table = IF delivery.sequence # view.sequence
                     THEN Reduce(lost, delivery.message) ELSE lost]
      /\ mishap' = IF lost = v.table THEN mishap
                   ELSE IF stored'.table.room THEN "misled" ELSE "none"
      /\ UNCHANGED <<socket, server, wire, queue, delivery, autoJoin, left>>

-----------------------------------------------------------------------------
(* The buttons.                                                            *)

(* Mutant of MayJoin: a Join that waits for its answer does not stop the   *)
(* next.                                                                   *)
MayJoinAgain == TRUE

MayJoin == ~refs.pending

(* joinRoom, offered while the page is in no room.                         *)
JoinRoom ==
  /\ left.clicks > 0 /\ ~view.shown.table.room /\ MayJoin
  /\ autoJoin' = TRUE
  /\ left' = [left EXCEPT !.clicks = @ - 1]
  /\ refs' = [key |-> socket = "open", pending |-> socket = "open"]
  /\ upstream' = IF socket = "open" THEN Append(upstream, "join") ELSE upstream
  /\ UNCHANGED <<socket, server, wire, queue, delivery, stored, view, mishap>>

(* The start panel is shown, and startGame acts, only before gameStarted.  *)
StartPanel == view.shown.table.room /\ ~GameStarted(view.shown)

StartGame ==
  /\ left.clicks > 0 /\ StartPanel /\ socket = "open"
  /\ upstream' = Append(upstream, "start")
  /\ stored' = [stored EXCEPT !.startRequested = TRUE]
  /\ left' = [left EXCEPT !.clicks = @ - 1]
  /\ UNCHANGED <<socket, server, wire, queue, delivery, view, autoJoin, refs, mishap>>

-----------------------------------------------------------------------------
(* The server.                                                             *)

(* What a joined connection is sent of the room.                           *)
Picture(started) == IF started THEN "state" ELSE "waiting"

Answer(answers) ==
  /\ upstream' = Tail(upstream)
  /\ wire' = wire \o answers

(* A second Join is refused.  The first may find no room to join, or lose  *)
(* the seat it was given before it looks it up, and is then refused or not *)
(* answered at all; and a game that nobody is connected to is replaced by  *)
(* a new one, which waits.                                                 *)
HandleJoin ==
  /\ upstream # <<>> /\ Head(upstream) = "join"
  /\ \/ member /\ Answer(<<"error">>) /\ UNCHANGED <<server, mishap>>
     \/ /\ ~member /\ member' = TRUE /\ playing' \in {playing, FALSE}
        /\ Answer(<<"joined", Picture(playing')>>)
        /\ UNCHANGED mishap
     \/ /\ ~member /\ mishap' = "unjoined"
        /\ Answer(<<"error">>) \/ Answer(<<>>)
        /\ UNCHANGED server
  /\ UNCHANGED <<socket, queue, delivery, stored, view, autoJoin, refs, left>>

(* Start is refused when the room plays or the count is not the one asked  *)
(* for, as it may be by the time the command arrives.                      *)
HandleStart ==
  /\ upstream # <<>> /\ Head(upstream) = "start"
  /\ \/ ~playing /\ member /\ playing' = TRUE /\ Answer(<<"state">>)
     \/ UNCHANGED playing /\ Answer(<<"error">>)
  /\ UNCHANGED <<socket, member, queue, delivery, stored, view, autoJoin, refs,
                 mishap, left>>

(* Another player does something: the room may start, or be another game   *)
(* from now on, dropped or replaced; a page whose seat has changed is told *)
(* "joined" again.                                                         *)
News ==
  /\ left.news > 0
  /\ left' = [left EXCEPT !.news = @ - 1]
  /\ playing' \in BOOLEAN
  /\ IF member
     THEN \E again \in {<<>>, <<"joined">>} : wire' = wire \o again \o <<Picture(playing')>>
     ELSE UNCHANGED wire
  /\ UNCHANGED <<socket, member, upstream, queue, delivery, stored, view,
                 autoJoin, refs, mishap>>

Next ==
  \/ Open \/ Close \/ Reconnect \/ Receive \/ Drain \/ Render
  \/ JoinRoom \/ StartGame
  \/ HandleJoin \/ HandleStart \/ News

Spec == Init /\ [][Next]_vars

(* Timers fire, the browser renders, the server answers and a connection   *)
(* attempt is answered.  Nobody must press a button, and no connection     *)
(* must be lost.                                                           *)
FairSpec ==
  /\ Spec
  /\ WF_vars(Open) /\ WF_vars(Reconnect) /\ WF_vars(Receive) /\ WF_vars(Drain)
  /\ WF_vars(Render) /\ WF_vars(HandleJoin) /\ WF_vars(HandleStart)

-----------------------------------------------------------------------------
(* Nothing is on its way between the page and the server.                  *)
Settled ==
  /\ socket = "open" /\ ~RenderDue
  /\ upstream = <<>> /\ wire = <<>> /\ queue = <<>>

(* One connection joins once, whatever link, button and reconnect do: the  *)
(* server never has to answer "already joined a guandan room".             *)
JoinsOnce ==
  \A i \in DOMAIN upstream : upstream[i] = "join" =>
    ~member /\ \A j \in DOMAIN upstream : upstream[j] = "join" => i = j

(* A page that shows a room is in it: no table left over from a lost       *)
(* connection, whatever was still in the queue, keeps the page from        *)
(* joining again, unless a "joined" of the lost connection was reduced in  *)
(* the very render that reset the table.                                   *)
JoinedMeansMember ==
  Settled /\ view.shown.table.room => member \/ mishap = "misled"

(* A page that is to join has, when nothing is on its way, unless this     *)
(* connection's Join came to nothing: no order of close, reconnect,        *)
(* renders and presses leaves it waiting for an answer to a Join that no   *)
(* longer exists.                                                          *)
RestMeansJoined ==
  Settled /\ autoJoin => mishap # "none" \/ (member /\ view.shown.table.room)

(* And it comes to that, through every loss of its connection.             *)
EventuallyJoined ==
  autoJoin ~> [](mishap # "none" \/ (member /\ view.shown.table.room))
=============================================================================
