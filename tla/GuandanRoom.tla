----------------------------- MODULE GuandanRoom ----------------------------
(***************************************************************************)
(* The connections of one Guandan room against the in-memory storage       *)
(* (HashMapStorage).  A websocket handler joins in several awaited steps,  *)
(* handles commands one at a time, and leaves in several steps; its        *)
(* forwarding task turns every notification into a read of the state.  An  *)
(* operation commits under the lock of the states and publishes afterwards *)
(* under the lock of the subscribers.                                      *)
(*                                                                         *)
(* Of the game only its being started matters here, and who is seated or   *)
(* queued, in whatever order; GuandanMatch follows the rest, with joining  *)
(* and leaving atomic.                                                     *)
(***************************************************************************)
EXTENDS Integers, FiniteSets

CONSTANTS
  Conns,      \* websocket connections, each opened once
  Names,      \* the names people give; two connections may give the same
  NoName,     \* a connection that has given none
  MaxWaiting  \* bound: publications wait for a subscription this far behind

ASSUME ConnsAssumption == IsFiniteSet(Conns)
ASSUME NamesAssumption == NoName \notin Names
ASSUME MaxWaitingAssumption == MaxWaiting \in Nat \ {0}

VARIABLES
  stored,     \* the states of the room in state_map: none, or one
  subs,       \* the connections subscribed to the room
  queue,      \* notifications waiting in each subscription
  shown,      \* the last version each forwarding task has sent
  connected,  \* GUANDAN_CONNECTIONS: how often each name is connected
  pc,         \* where each handler is
  name,       \* the name given in Join
  live,       \* room_has_connected_players, read before the operation
  after       \* where a handler goes on when its operation has published

network == <<subs, queue, shown>>
vars    == <<stored, network, connected, pc, name, live, after>>

(* Handlers between the operation of Join and their subscription, and      *)
(* those that have been told they joined.                                  *)
Steps == {"open", "unknown", "entering", "publishing", "rechecking",
          "accepted", "registered", "subscribed", "joined", "unsubscribed",
          "deregistered", "gone"}

State == [version : Nat, started : BOOLEAN,
          players : SUBSET Names, pending : SUBSET Names]

TypeOK ==
  /\ stored \subseteq State /\ Cardinality(stored) <= 1
  /\ \A s \in stored : s.version > 0
  /\ subs \subseteq Conns
  /\ queue \in [Conns -> Nat]
  /\ shown \in [Conns -> Nat]
  /\ connected \in [Names -> 0 .. Cardinality(Conns)]
  /\ pc \in [Conns -> Steps]
  /\ name \in [Conns -> Names \cup {NoName}]
  /\ live \in [Conns -> BOOLEAN]
  /\ after \in [Conns -> Steps]

(* new_guandan_room                                                        *)
Fresh == [version |-> 0, started |-> FALSE, players |-> {}, pending |-> {}]

(* What get and the operations read: the state, or a fresh one.            *)
Current == IF stored = {} THEN Fresh ELSE CHOOSE s \in stored : TRUE

Init ==
  /\ stored = {}
  /\ subs = {}
  /\ queue = [c \in Conns |-> 0]
  /\ shown = [c \in Conns |-> 0]
  /\ connected = [n \in Names |-> 0]
  /\ pc = [c \in Conns |-> "open"]
  /\ name = [c \in Conns |-> NoName]
  /\ live = [c \in Conns |-> FALSE]
  /\ after = [c \in Conns |-> "open"]

Goto(c, step) == pc' = [pc EXCEPT ![c] = step]

(* Mutant of Raised: an operation forgets its call.                        *)
AsItIs(game) == game

(* bump_version, which every operation calls.                              *)
Raised(game) == [game EXCEPT !.version = Current.version + 1]

(* execute_operation_with_messages up to the release of the state lock;    *)
(* the handler publishes next and then goes on at a step.                  *)
Commit(c, game, step) ==
  /\ stored' = {Raised(game)}
  /\ Goto(c, "publishing")
  /\ after' = [after EXCEPT ![c] = step]

(* Mutant of Notify: the sender is left out.                               *)
NotifyOthers(c) ==
  queue' = [d \in Conns |-> IF d \in subs \ {c} THEN queue[d] + 1 ELSE queue[d]]

(* StateChanged to every subscriber, whose channel is unbounded in the code.*)
Notify(c) ==
  queue' = [d \in Conns |-> IF d \in subs THEN queue[d] + 1 ELSE queue[d]]

Publish(c) ==
  /\ pc[c] = "publishing"
  /\ \A d \in subs : queue[d] < MaxWaiting
  /\ Notify(c)
  /\ Goto(c, after[c])
  /\ after' = [after EXCEPT ![c] = "open"]
  /\ UNCHANGED <<stored, subs, shown, connected, name, live>>

-----------------------------------------------------------------------------
(* Join.                                                                   *)

(* The name's seat is looked up first: who has one keeps it.               *)
LookUp(c, n) ==
  /\ pc[c] = "open"
  /\ name' = [name EXCEPT ![c] = n]
  /\ Goto(c, IF n \in Current.players THEN "accepted" ELSE "unknown")
  /\ UNCHANGED <<stored, network, connected, live, after>>

(* Is anybody connected to the room?  Asked before the operation.          *)
CheckLive(c) ==
  /\ pc[c] = "unknown"
  /\ live' = [live EXCEPT ![c] = \E n \in Names : connected[n] > 0]
  /\ Goto(c, "entering")
  /\ UNCHANGED <<stored, network, connected, name, after>>

(* The operation of Join: a queue place in a started game, a seat in the   *)
(* lobby; a started game without connections is thrown away for a new one. *)
Enter(c) ==
  LET n    == name[c]
      game == Current
  IN  /\ pc[c] = "entering"
      /\ Commit(c,
           IF ~game.started
             THEN [game EXCEPT !.players = @ \cup {n}]
           ELSE IF live[c]
             THEN [game EXCEPT !.pending = @ \cup {n}]
           ELSE [Fresh EXCEPT !.players = {n}],
           "rechecking")
      /\ live' = [live EXCEPT ![c] = FALSE]
      /\ UNCHANGED <<network, connected, name>>

(* Seat and queue are read again; a handler that finds neither answers     *)
(* nothing and waits for another Join.                                     *)
Recheck(c) ==
  /\ pc[c] = "rechecking"
  /\ IF name[c] \in Current.players \cup Current.pending
     THEN Goto(c, "accepted") /\ UNCHANGED name
     ELSE Goto(c, "open") /\ name' = [name EXCEPT ![c] = NoName]
  /\ UNCHANGED <<stored, network, connected, live, after>>

(* set_connected                                                           *)
Register(c) ==
  /\ pc[c] = "accepted"
  /\ connected' = [connected EXCEPT ![name[c]] = @ + 1]
  /\ Goto(c, "registered")
  /\ UNCHANGED <<stored, network, name, live, after>>

Subscribe(c) ==
  /\ pc[c] = "registered"
  /\ subs' = subs \cup {c}
  /\ Goto(c, "subscribed")
  /\ UNCHANGED <<stored, queue, shown, connected, name, live, after>>

(* The operation that ends Join only raises the version, so that everybody *)
(* is shown the newcomer and the newcomer the state.                       *)
Announce(c) ==
  /\ pc[c] = "subscribed"
  /\ Commit(c, Current, "joined")
  /\ UNCHANGED <<network, connected, name, live>>

-----------------------------------------------------------------------------
(* While joined.                                                           *)

(* A command that changes the state: Start, by somebody with a seat.       *)
Start(c) ==
  /\ pc[c] = "joined"
  /\ name[c] \in Current.players /\ ~Current.started
  /\ Commit(c, [Current EXCEPT !.started = TRUE], "joined")
  /\ UNCHANGED <<network, connected, name, live>>

(* The forwarding task: sub.recv, then a read of the state as it is.  Only *)
(* the read matters: a notification taken earlier waits for nobody.        *)
Forward(c) ==
  /\ c \in subs /\ queue[c] > 0
  /\ queue' = [queue EXCEPT ![c] = @ - 1]
  /\ shown' = [shown EXCEPT ![c] = Current.version]
  /\ UNCHANGED <<stored, subs, connected, pc, name, live, after>>

-----------------------------------------------------------------------------
(* Leaving.                                                                *)

(* Mutant of DropWhenLast: the state outlives the last subscriber.         *)
DropNever(rest) == UNCHANGED stored

(* Mutant of DropWhenLast: one subscriber may be left behind.              *)
DropEarly(rest) ==
  stored' = IF Cardinality(rest) <= 1 THEN {} ELSE stored

(* The state goes with the last subscriber.                                *)
DropWhenLast(rest) == stored' = IF rest = {} THEN {} ELSE stored

(* storage.unsubscribe, under both locks.  The forwarding task has nothing *)
(* more to read.                                                           *)
Unsubscribe(c) ==
  /\ pc[c] = "joined"
  /\ subs' = subs \ {c}
  /\ DropWhenLast(subs \ {c})
  /\ queue' = [queue EXCEPT ![c] = 0]
  /\ shown' = [shown EXCEPT ![c] = 0]
  /\ Goto(c, "unsubscribed")
  /\ UNCHANGED <<connected, name, live, after>>

(* The code's subtraction stops at zero; by TypeOK it never has to.        *)
Fewer(count) == count - 1

Deregister(c) ==
  /\ pc[c] = "unsubscribed"
  /\ connected' = [connected EXCEPT ![name[c]] = Fewer(@)]
  /\ Goto(c, "deregistered")
  /\ UNCHANGED <<stored, network, name, live, after>>

(* The last operation gives up the name's place in the queue.              *)
Farewell(c) ==
  /\ pc[c] = "deregistered"
  /\ Commit(c, [Current EXCEPT !.pending = @ \ {name[c]}], "gone")
  /\ name' = [name EXCEPT ![c] = NoName]
  /\ UNCHANGED <<network, connected, live>>

Handler(c) ==
  \/ CheckLive(c) \/ Enter(c) \/ Recheck(c) \/ Register(c) \/ Subscribe(c)
  \/ Announce(c) \/ Publish(c) \/ Deregister(c) \/ Farewell(c)

Next ==
  \E c \in Conns :
    \/ \E n \in Names : LookUp(c, n)
    \/ CheckLive(c) \/ Enter(c) \/ Recheck(c) \/ Register(c) \/ Subscribe(c)
    \/ Announce(c) \/ Publish(c)
    \/ Start(c) \/ Forward(c)
    \/ Unsubscribe(c) \/ Deregister(c) \/ Farewell(c)

Spec == Init /\ [][Next]_vars

(* Handlers and forwarding tasks run to their next wait for the client; a  *)
(* client owes nothing.                                                    *)
FairSpec ==
  /\ Spec
  /\ \A c \in Conns : WF_vars(Handler(c)) /\ WF_vars(Forward(c))

-----------------------------------------------------------------------------
(* Safety.                                                                 *)

(* No joined client is left behind: one that was last shown an older state *)
(* has a notification waiting or is about to be notified, although         *)
(* commit and publication are two steps.                                   *)
NoMissedUpdate ==
  \A c \in subs :
    pc[c] = "joined" /\ shown[c] < Current.version =>
      \/ queue[c] > 0
      \/ \E d \in Conns : pc[d] = "publishing"

(* Connections that have been told they joined and have not left.          *)
Present ==
  {c \in Conns : \/ pc[c] \in {"registered", "subscribed", "joined"}
                 \/ pc[c] = "publishing" /\ after[c] = "joined"}

(* A name counts as online exactly as often as it has a connection between *)
(* the two ends of its visit.                                              *)
ConnectionsCounted ==
  \A n \in Names :
    connected[n] =
      Cardinality({c \in Present \cup {d \in Conns : pc[d] = "unsubscribed"} :
                     name[c] = n})

(* "Games are automatically closed when all players have disconnected":    *)
(* when every connection is gone no seat, queue or game remains.           *)
AbandonedRoomEmpty ==
  (\A c \in Conns : pc[c] \in {"open", "gone"}) =>
    Current.players = {} /\ Current.pending = {} /\ ~Current.started

(* Who counts as present is present, and a room without anybody is empty.  *)
PresenceExact == ConnectionsCounted /\ AbandonedRoomEmpty

(* No forwarding task ever shows its client an older state than before.    *)
ViewsGoForward ==
  [][\A c \in subs : c \in subs' => shown'[c] >= shown[c]]_vars

-----------------------------------------------------------------------------
(* Liveness.                                                               *)

(* Whoever has joined is eventually shown the latest state, or leaves.     *)
EventuallyShown ==
  \A c \in Conns :
    pc[c] = "joined" ~> pc[c] # "joined" \/ shown[c] = Current.version
=============================================================================
