---------------------------- MODULE ShengjiSocket ----------------------------
(***************************************************************************)
(* The Shengji page and its one connection: WebsocketProvider, which       *)
(* decodes the server's messages one after another and holds every command *)
(* against the clock, the handlers that turn a message into a part of      *)
(* AppState, and TimerProvider, whose timers run in a worker.              *)
(*                                                                         *)
(* What makes this hard: listeners read the state and the timer from refs  *)
(* that an effect copies from the last render, so they may be two steps    *)
(* behind; a message is decoded some time after it has arrived; and a      *)
(* timer that is cleared may have gone off already.                        *)
(*                                                                         *)
(* The server publishes states in the order in which it commits them (see  *)
(* the hazard at utils.rs), and all that it sends can be decoded.          *)
(***************************************************************************)
EXTENDS Integers, Sequences

CONSTANTS
  MaxSends,  \* bound: commands the page sends
  MaxNews    \* bound: messages caused by other players

ASSUME BoundsAssumption == MaxSends \in Nat /\ MaxNews \in Nat

VARIABLES
  game,      \* the version of the room's state
  upstream,  \* commands on their way
  wire,      \* messages on their way
  socket,    \* of the page; "silent" when the network has died unnoticed
  blobs,     \* the queue of getBlobArrayBuffer
  reading,   \* its inflight: the blob being read, or none
  stored,    \* the React state: AppState and the timer of the last command
  rendered,  \* the same in the last render
  refs,      \* stateRef and timerRef
  timers,    \* callbacks, those the worker runs and those it says are up
  sends,     \* commands sent; the last one's number is its timer's
  answered,  \* history: has a message arrived since the last command?
  news       \* messages caused by others

serverVars == <<game, upstream, wire>>
decoder    == <<blobs, reading>>
react      == <<stored, rendered, refs>>
vars       == <<serverVars, socket, decoder, react, timers, sends, answered, news>>

(* A message carries a state, a line for the chat or the errors, or the    *)
(* order to leave.                                                         *)
Messages == [kind : {"state"}, version : Nat] \cup [kind : {"line", "kicked"}]
State(v) == [kind |-> "state", version |-> v]
Line     == [kind |-> "line"]
Kicked   == [kind |-> "kicked"]

NoTimer == 0
Idle    == [kind |-> "none"]

(* What is on show of AppState, and the timer.                             *)
Views == [connected : BOOLEAN, game : Nat, timer : 0 .. MaxSends]

TypeOK ==
  /\ game \in Nat /\ upstream \in 0 .. MaxSends /\ wire \in Seq(Messages)
  /\ socket \in {"open", "silent", "closing", "closed"}
  /\ blobs \in Seq(Messages) /\ reading \in Messages \cup {Idle}
  /\ {stored, rendered, refs} \subseteq Views
  /\ timers \in [callbacks : SUBSET (1 .. sends), running : SUBSET (1 .. sends),
                 up : SUBSET (1 .. sends)]
  /\ timers.running \cap timers.up = {}
  /\ sends \in 0 .. MaxSends /\ news \in 0 .. MaxNews /\ answered \in BOOLEAN

(* The page has joined and has been told so.                               *)
Init ==
  /\ game = 1 /\ upstream = 0 /\ wire = <<>>
  /\ socket = "open"
  /\ blobs = <<>> /\ reading = Idle
  /\ stored = [connected |-> TRUE, game |-> 1, timer |-> NoTimer]
  /\ rendered = stored /\ refs = stored
  /\ timers = [callbacks |-> {}, running |-> {}, up |-> {}]
  /\ sends = 0 /\ answered = TRUE /\ news = 0

-----------------------------------------------------------------------------
(* The timers.                                                             *)

(* Mutant of WithoutTimer: the worker is told, but the callback kept.      *)
KeepCallback(t, id) == [t EXCEPT !.running = @ \ {id}]

(* clearTimeout: the callback is dropped at once; the worker, which is     *)
(* told, may have posted that the time is up.                              *)
WithoutTimer(t, id) ==
  [t EXCEPT !.callbacks = @ \ {id}, !.running = @ \ {id}]

WithTimer(t, id) ==
  [t EXCEPT !.callbacks = @ \cup {id}, !.running = @ \cup {id}]

(* Mutant of NewTimer: the number is taken before it is counted on.        *)
OldTimer == sends

(* timeoutId: every command has a timer of its own.                        *)
NewTimer == sends + 1

(* Five seconds have passed, which is more than a render or a decoding     *)
(* takes.                                                                  *)
Expire ==
  /\ stored = rendered /\ rendered = refs /\ reading = Idle
  /\ \E id \in timers.running :
       timers' = [timers EXCEPT !.running = @ \ {id}, !.up = @ \cup {id}]
  /\ UNCHANGED <<serverVars, socket, decoder, react, sends, answered, news>>

(* Is this the timer of the last command, as far as the ref knows?         *)
Alarm(id) == refs.timer = id

(* The worker's message: the callback, if it is still there.               *)
Ring ==
  \E id \in timers.up :
    /\ timers' = [timers EXCEPT !.up = @ \ {id}, !.callbacks = @ \ {id}]
    /\ stored' = IF id \in timers.callbacks /\ Alarm(id)
                 THEN [stored EXCEPT !.connected = FALSE] ELSE stored
    /\ UNCHANGED <<serverVars, socket, decoder, rendered, refs, sends, answered,
                   news>>

-----------------------------------------------------------------------------
(* React.                                                                  *)

Render ==
  /\ rendered # stored /\ rendered = refs
  /\ rendered' = stored
  /\ UNCHANGED <<serverVars, socket, decoder, stored, refs, timers, sends,
                 answered, news>>

(* Mutant of Copied: the timer is not copied.                              *)
CopiedState(r) == [r EXCEPT !.timer = refs.timer]

Copied(r) == r

(* The effects of a render.                                                *)
Effects ==
  /\ refs # rendered
  /\ refs' = Copied(rendered)
  /\ UNCHANGED <<serverVars, socket, decoder, stored, rendered, timers, sends,
                 answered, news>>

-----------------------------------------------------------------------------
(* The connection.                                                         *)

(* send: what the page shows may be out of date, the command is sent.      *)
Send ==
  /\ sends < MaxSends /\ rendered.connected
  /\ sends' = sends + 1
  /\ timers' = WithTimer(WithoutTimer(timers, refs.timer), NewTimer)
  /\ stored' = [stored EXCEPT !.timer = NewTimer]
  /\ upstream' = IF socket = "open" THEN upstream + 1 ELSE upstream
  /\ answered' = FALSE
  /\ UNCHANGED <<game, wire, socket, decoder, rendered, refs, news>>

(* enqueue: one blob is read at a time.  Every message of a connection is  *)
(* taken for a blob, as one connection uses one encoding; a server that    *)
(* sends plain text sends nothing else, and such messages are handled at   *)
(* once, in the order they arrive.                                         *)
Enqueue(message) ==
  IF reading = Idle THEN reading' = message /\ UNCHANGED blobs
  ELSE blobs' = Append(blobs, message) /\ UNCHANGED reading

(* The message event, before anything is decoded.                          *)
Arrive ==
  /\ socket = "open" /\ wire # <<>>
  /\ wire' = Tail(wire)
  /\ Enqueue(Head(wire))
  /\ timers' = WithoutTimer(timers, refs.timer)
  /\ stored' = [stored EXCEPT !.timer = NoTimer]
  /\ answered' = TRUE
  /\ UNCHANGED <<game, upstream, socket, rendered, refs, sends, news>>

(* Mutant of Update: a handler gives back all of the state it was given.   *)
UpdateAll(message) ==
  [stored EXCEPT !.connected = TRUE,
                 !.game = IF message.kind = "state" THEN message.version ELSE refs.game]

(* websocketHandler sets a part of the state, which updateState merges.    *)
Update(message) ==
  [stored EXCEPT !.connected = TRUE,
                 !.game = IF message.kind = "state" THEN message.version ELSE @]

(* onload: the message is handled, and the next blob read.                 *)
Decode ==
  /\ reading # Idle
  /\ IF reading.kind = "kicked"
     THEN /\ socket' = IF socket = "closed" THEN socket ELSE "closing"
          /\ UNCHANGED stored
     ELSE stored' = Update(reading) /\ UNCHANGED socket
  /\ IF blobs = <<>> THEN reading' = Idle /\ UNCHANGED blobs
     ELSE reading' = Head(blobs) /\ blobs' = Tail(blobs)
  /\ UNCHANGED <<serverVars, rendered, refs, timers, sends, answered, news>>

(* The close event, after the page or the server has closed.               *)
Close ==
  /\ socket \in {"open", "closing"}
  /\ socket' = "closed"
  /\ upstream' = 0 /\ wire' = <<>>
  /\ stored' = [stored EXCEPT !.connected = FALSE]
  /\ UNCHANGED <<game, decoder, rendered, refs, timers, sends, answered, news>>

(* The network dies without a close event.                                 *)
FallSilent ==
  /\ socket = "open"
  /\ socket' = "silent"
  /\ upstream' = 0 /\ wire' = <<>>
  /\ UNCHANGED <<game, decoder, react, timers, sends, answered, news>>

-----------------------------------------------------------------------------
(* The server.                                                             *)

(* A successful operation: its broadcast and the new state.                *)
Operate ==
  /\ game' = game + 1
  /\ wire' = wire \o <<Line, State(game + 1)>>

(* A command is carried out, or refused or a chat message: a line.         *)
Serve ==
  /\ socket = "open" /\ upstream > 0
  /\ upstream' = upstream - 1
  /\ Operate \/ (wire' = Append(wire, Line) /\ UNCHANGED game)
  /\ UNCHANGED <<socket, decoder, react, timers, sends, answered, news>>

(* Others act, chat, or take this player's name.                           *)
News ==
  /\ socket = "open" /\ news < MaxNews
  /\ news' = news + 1
  /\ \/ Operate
     \/ \E m \in {Line, Kicked} : wire' = Append(wire, m) /\ UNCHANGED game
  /\ UNCHANGED <<upstream, socket, decoder, react, timers, sends, answered>>

Next ==
  \/ Expire \/ Ring \/ Render \/ Effects
  \/ Send \/ Arrive \/ Decode \/ Close \/ FallSilent
  \/ Serve \/ News

Spec == Init /\ [][Next]_vars

(* The browser's own work is done in the end; the network and the server   *)
(* owe nothing.                                                            *)
FairSpec ==
  /\ Spec
  /\ WF_vars(Expire) /\ WF_vars(Ring) /\ WF_vars(Render) /\ WF_vars(Effects)
  /\ WF_vars(Decode)

-----------------------------------------------------------------------------
(* When all has arrived, the page shows the room's last state: neither the *)
(* decoder's queue nor a handler that reads an old stateRef can put an     *)
(* older one in its place.                                                 *)
LatestShown ==
  /\ socket = "open" /\ wire = <<>> /\ blobs = <<>> /\ reading = Idle
  /\ rendered = stored
  => rendered.game = game

(* "We expect a response back from the server within 5 seconds": a page is *)
(* not declared lost when anything has arrived since its last command,     *)
(* however the timer's going off crosses with the answer.                  *)
NoFalseAlarm ==
  [][Ring /\ stored.connected /\ ~stored'.connected => ~answered]_vars

(* "Otherwise, we should assume we have lost our websocket connection": a  *)
(* command nothing answers ends in a page that says so.                    *)
SilenceNoticed == ~answered ~> answered \/ ~rendered.connected
=============================================================================
