-------------------------- MODULE GuandanClientProofs --------------------------
(***************************************************************************)
(* Theorems about GuandanClient, for any number of losses, news and        *)
(* clicks, where timers are on time (TimersOnTime).                        *)
(***************************************************************************)
EXTENDS GuandanClient, TLAPS

(* A queue that lists a message, and one that lists it at most once.       *)
Lists(q, m) == \E i \in DOMAIN q : q[i] = m
Once(q, m)  == \A i, j \in DOMAIN q : q[i] = m /\ q[j] = m => i = j

(* A message that is to be reduced, and one that is anywhere on its way.   *)
Undelivered(m) == delivery.sequence # view.sequence /\ delivery.message = m
OnItsWay(m)    == Undelivered(m) \/ Lists(queue, m) \/ Lists(wire, m)

StatusOf(s) == CASE s = "connecting" -> "connecting"
                 [] s = "open" -> "connected"
                 [] s = "closed" -> "disconnected"

(* The connection joins, or has joined, or was not taken.                  *)
Joining == member \/ Lists(upstream, "join") \/ mishap = "unjoined"

Misled == mishap = "misled"

InOrder == delivery.sequence >= view.sequence

(* What the socket says of the rest.                                       *)
SocketShown ==
  /\ stored.status = StatusOf(socket)
  /\ socket # "open" =>
       upstream = <<>> /\ wire = <<>> /\ ~member /\ mishap # "unjoined"

(* A page that is misled keeps its room.                                   *)
MisledShows == Misled => stored.table.room /\ view.shown.table.room

(* A new connection starts without a message or an attempt, and without a  *)
(* room, unless the page is misled.                                        *)
NewIsEmpty ==
  socket = "connecting" =>
    /\ queue = <<>> /\ delivery.sequence = view.sequence
    /\ stored.table.room \/ view.shown.table.room => Misled
    /\ ~refs.key

(* A page that shows its loss has forgotten its attempt, and will leave.   *)
LossForgets ==
  socket = "closed" /\ view.shown.status = "disconnected" =>
    ~refs.key /\ (view.shown.table.room /\ stored.table.room => Misled)

OpenShown ==
  socket = "open" =>
    /\ view.shown.status # "disconnected"
    /\ view.shown.table.room => stored.table.room

(* The server has joined a connection that is told so, unless the page     *)
(* loses it, and no other, unless the page is misled.                      *)
MemberIsTold ==
  socket = "open" =>
    /\ stored.table.room \/ OnItsWay("joined") => member \/ Misled
    /\ member => stored.table.room \/ OnItsWay("joined") \/ mishap = "unjoined"

(* The refs know of the connection's Join.                                 *)
AttemptKnown ==
  socket = "open" =>
    /\ Joining <=> refs.key
    /\ Joining => refs.pending \/ view.shown.table.room
    /\ autoJoin /\ view.shown.status = "connected" => Joining \/ Misled
    /\ Misled => ~Joining

IInv ==
  /\ TypeOK /\ InOrder /\ SocketShown /\ MisledShows /\ NewIsEmpty
  /\ LossForgets /\ OpenShown /\ MemberIsTold /\ JoinsOnce /\ AttemptKnown

-----------------------------------------------------------------------------
(* Queues.                                                                 *)

LEMMA EmptyLists ==
  ASSUME NEW m
  PROVE  ~Lists(<<>>, m) /\ Once(<<>>, m)
BY DEF Lists, Once

LEMMA AppendLists ==
  ASSUME NEW S, NEW q \in Seq(S), NEW x \in S, NEW m
  PROVE  /\ Append(q, x) \in Seq(S)
         /\ Lists(Append(q, x), m) <=> Lists(q, m) \/ x = m
         /\ Once(q, m) /\ (x = m => ~Lists(q, m)) => Once(Append(q, x), m)
<1> DEFINE r == Append(q, x)
<1>1. /\ DOMAIN r = 1 .. Len(q) + 1 /\ DOMAIN q = 1 .. Len(q) /\ Len(q) \in Nat
      /\ r[Len(q) + 1] = x /\ \A i \in DOMAIN q : r[i] = q[i]
      /\ r \in Seq(S)
  OBVIOUS
<1> HIDE DEF r
<1>2. \A i \in DOMAIN r : i \in DOMAIN q \/ i = Len(q) + 1
  BY <1>1
<1>3. /\ \A i \in DOMAIN q : i \in DOMAIN r
      /\ Len(q) + 1 \in DOMAIN r
  BY <1>1
<1>4. Lists(r, m) <=> Lists(q, m) \/ x = m
  BY <1>1, <1>2, <1>3 DEF Lists
<1>5. Once(q, m) /\ (x = m => ~Lists(q, m)) => Once(r, m)
  BY <1>1, <1>2, <1>3 DEF Lists, Once
<1>6. QED
  BY <1>1, <1>4, <1>5 DEF r

LEMMA TailLists ==
  ASSUME NEW S, NEW q \in Seq(S), q # <<>>, NEW m
  PROVE  /\ Tail(q) \in Seq(S) /\ Head(q) \in S
         /\ Lists(q, m) <=> Head(q) = m \/ Lists(Tail(q), m)
         /\ Once(q, m) => Once(Tail(q), m) /\ (Head(q) = m => ~Lists(Tail(q), m))
<1> DEFINE t == Tail(q)
<1>1. /\ DOMAIN q = 1 .. Len(q) /\ Len(q) \in Nat /\ Len(q) >= 1
      /\ DOMAIN t = 1 .. Len(q) - 1
      /\ Head(q) = q[1] /\ Head(q) \in S /\ t \in Seq(S)
      /\ \A i \in DOMAIN t : t[i] = q[i + 1]
  OBVIOUS
<1> HIDE DEF t
<1>2. \A i \in DOMAIN t : i + 1 \in DOMAIN q /\ i + 1 # 1 /\ i \in Int
  BY <1>1
<1>3. 1 \in DOMAIN q /\ \A i \in DOMAIN q : i = 1 \/ (i - 1 \in DOMAIN t /\ (i - 1) + 1 = i)
  BY <1>1
<1>4. Lists(q, m) <=> Head(q) = m \/ Lists(t, m)
  <2>1. ASSUME Lists(q, m) PROVE Head(q) = m \/ Lists(t, m)
    <3>1. PICK i \in DOMAIN q : q[i] = m
      BY <2>1 DEF Lists
    <3>2. CASE i = 1
      BY <3>1, <3>2, <1>1
    <3>3. CASE i # 1
      <4>1. i - 1 \in DOMAIN t /\ t[i - 1] = q[(i - 1) + 1]
        BY <3>3, <1>1, <1>3
      <4>2. t[i - 1] = m
        BY <4>1, <3>1, <3>3, <1>3
      <4>3. QED
        BY <4>1, <4>2 DEF Lists
    <3>4. QED
      BY <3>2, <3>3
  <2>2. ASSUME Head(q) = m \/ Lists(t, m) PROVE Lists(q, m)
    BY <2>2, <1>1, <1>2, <1>3 DEF Lists
  <2>3. QED
    BY <2>1, <2>2
<1>5. ASSUME Once(q, m) PROVE Once(t, m) /\ (Head(q) = m => ~Lists(t, m))
  <2>1. Once(t, m)
    <3> SUFFICES ASSUME NEW i \in DOMAIN t, NEW j \in DOMAIN t, t[i] = m, t[j] = m
                 PROVE  i = j
      BY DEF Once
    <3>1. q[i + 1] = m /\ q[j + 1] = m
      BY <1>1
    <3>2. i + 1 = j + 1
      BY <3>1, <1>2, <1>5 DEF Once
    <3>3. QED
      BY <3>2, <1>2
  <2>2. ASSUME Head(q) = m, Lists(t, m) PROVE FALSE
    <3>1. PICK i \in DOMAIN t : t[i] = m
      BY <2>2 DEF Lists
    <3>2. q[i + 1] = m /\ q[1] = m
      BY <3>1, <2>2, <1>1
    <3>3. QED
      BY <3>2, <1>2, <1>3, <1>5 DEF Once
  <2>3. QED
    BY <2>1, <2>2
<1>6. QED
  BY <1>1, <1>4, <1>5 DEF t

(* JoinsOnce in these words.                                               *)
LEMMA JoinsOnceMeans ==
  JoinsOnce <=> /\ Lists(upstream, "join") => ~member
                /\ Once(upstream, "join")
BY DEF JoinsOnce, Lists, Once

-----------------------------------------------------------------------------
LEMMA InitIInv == Init => IInv
<1> SUFFICES ASSUME Init PROVE IInv
  OBVIOUS
<1>1. /\ \A m : ~Lists(queue, m) /\ Once(queue, m)
      /\ \A m : ~Lists(wire, m) /\ Once(wire, m)
      /\ \A m : ~Lists(upstream, m) /\ Once(upstream, m)
  BY EmptyLists DEF Init
<1>2. TypeOK
  <2>1. left \in [drops : 0 .. MaxDrops, news : 0 .. MaxNews, clicks : 0 .. MaxClicks]
    <3>1. MaxDrops \in 0 .. MaxDrops /\ MaxNews \in 0 .. MaxNews
          /\ MaxClicks \in 0 .. MaxClicks
      BY BoundsAssumption
    <3>2. QED
      BY <3>1 DEF Init
  <2>2. stored \in Shown /\ view \in [shown : Shown, sequence : Nat]
    BY DEF Init, Shown, Statuses, Tables, EmptyTable
  <2>3. /\ upstream \in Seq(Commands) /\ wire \in Seq(Messages) /\ queue \in Seq(Messages)
        /\ delivery \in [message : Messages \cup {"none"}, sequence : Nat]
        /\ refs \in [key : BOOLEAN, pending : BOOLEAN] /\ ~refs.pending
        /\ mishap \in {"none", "unjoined", "misled"}
    BY DEF Init
  <2>4. QED
    BY <2>1, <2>2, <2>3 DEF Init, TypeOK
<1>3. /\ InOrder /\ SocketShown /\ MisledShows /\ NewIsEmpty /\ LossForgets
      /\ OpenShown
  BY DEF Init, InOrder, SocketShown, StatusOf, MisledShows, Misled, NewIsEmpty,
         LossForgets, OpenShown, EmptyTable
<1>4. MemberIsTold /\ AttemptKnown
  BY <1>1 DEF Init, MemberIsTold, AttemptKnown, Joining, Misled, OnItsWay,
              Undelivered, EmptyTable
<1>5. JoinsOnce
  BY <1>1, JoinsOnceMeans
<1>6. QED
  BY <1>2, <1>3, <1>4, <1>5 DEF IInv

-----------------------------------------------------------------------------
(* What a render does.                                                     *)

(* It shows that the connection of the room is lost.                       *)
Leaves ==
  /\ StatusChanged(stored) \/ RoomChanged(stored)
  /\ stored.status = "disconnected" /\ stored.table.room

(* JoinFromLink sends a Join.                                              *)
Fires ==
  /\ StatusChanged(stored) \/ RoomChanged(stored)
  /\ autoJoin /\ stored.status = "connected" /\ ~stored.table.room
  /\ ~refs.pending /\ ~refs.key /\ socket = "open"

Forgets == StatusChanged(stored) /\ stored.status # "connected"

LEMMA TypeFacts ==
  ASSUME TypeOK
  PROVE  /\ delivery.sequence \in Nat /\ view.sequence \in Nat
         /\ stored.status \in Statuses /\ view.shown.status \in Statuses
         /\ stored.table \in Tables
         /\ stored.table.room \in BOOLEAN /\ stored.table.dealt \in BOOLEAN
         /\ stored.startRequested \in BOOLEAN
         /\ view.shown \in Shown /\ view.shown.table.room \in BOOLEAN
         /\ refs.key \in BOOLEAN /\ refs.pending \in BOOLEAN
BY DEF TypeOK, Shown, Tables

LEMMA RenderStores ==
  ASSUME TypeOK, Render
  PROVE  /\ view' = [shown |-> stored, sequence |-> delivery.sequence]
         /\ stored' \in Shown /\ stored'.status = stored.status
         /\ stored'.table.room <=>
              (stored.table.room /\ ~Leaves) \/ Undelivered("joined")
         /\ ~Leaves => mishap' = mishap
         /\ Leaves => mishap' = IF stored'.table.room THEN "misled" ELSE "none"
<1> DEFINE lost == LeaveWhenLost(stored, stored.table)
           table == IF delivery.sequence # view.sequence
                    THEN Reduce(lost, delivery.message) ELSE lost
           requested == stored.startRequested \/ stored.table.dealt
<1>1. /\ view' = [shown |-> stored, sequence |-> delivery.sequence]
      /\ stored' = [stored EXCEPT !.startRequested = requested, !.table = table]
      /\ mishap' = IF lost = stored.table THEN mishap
                   ELSE IF stored'.table.room THEN "misled" ELSE "none"
  BY DEF Render
<1>2. /\ lost \in Tables
      /\ lost.room <=> stored.table.room /\ ~Leaves
      /\ lost = stored.table <=> ~Leaves
  BY TypeFacts DEF LeaveWhenLost, Leaves, EmptyTable, Tables
<1> HIDE DEF lost
<1>3. /\ table \in Tables
      /\ table.room <=> lost.room \/ Undelivered("joined")
  <2>1. CASE delivery.sequence = view.sequence
    BY <2>1, <1>2 DEF Undelivered
  <2>2. CASE delivery.sequence # view.sequence
    <3>1. table = Reduce(lost, delivery.message)
      BY <2>2
    <3>2. CASE delivery.message = "joined"
      BY <2>2, <3>1, <3>2, <1>2 DEF Undelivered, Reduce, EmptyTable, Tables
    <3>3. CASE delivery.message = "state"
      BY <2>2, <3>1, <3>3, <1>2 DEF Undelivered, Reduce, Tables
    <3>4. CASE delivery.message \notin {"joined", "state"}
      BY <2>2, <3>1, <3>4, <1>2 DEF Undelivered, Reduce
    <3>5. QED
      BY <3>2, <3>3, <3>4
  <2>3. QED
    BY <2>1, <2>2
<1>4. requested \in BOOLEAN
  BY TypeFacts
<1>7. mishap' = IF Leaves THEN IF stored'.table.room THEN "misled" ELSE "none"
                ELSE mishap
  BY <1>1, <1>2
<1> HIDE DEF table, requested
<1>5. /\ stored' \in Shown /\ stored'.status = stored.status /\ stored'.table = table
  BY <1>1, <1>3, <1>4 DEF TypeOK, Shown
<1>6. QED
  BY <1>1, <1>2, <1>3, <1>5, <1>7

LEMMA RenderJoins ==
  ASSUME TypeOK, Render
  PROVE  /\ upstream' = IF Fires THEN Append(upstream, "join") ELSE upstream
         /\ refs' \in [key : BOOLEAN, pending : BOOLEAN]
         /\ refs'.key <=> (refs.key \/ Fires) /\ ~Forgets
         /\ refs'.pending <=>
              /\ refs.pending \/ Fires
              /\ ~(RoomChanged(stored) /\ stored.table.room) /\ ~Forgets
<1> DEFINE e0 == [key |-> refs.key, pending |-> refs.pending, sent |-> FALSE]
           e1 == JoinFromLink(stored, e0)
           e2 == ClearPending(stored, e1)
           e3 == ForgetAttempt(stored, e2)
           E == [key : BOOLEAN, pending : BOOLEAN, sent : BOOLEAN]
<1>1. /\ refs' = [key |-> e3.key, pending |-> e3.pending]
      /\ upstream' = IF e3.sent THEN Append(upstream, "join") ELSE upstream
  BY DEF Render
<1>2. /\ e1 \in E
      /\ e1.key <=> refs.key \/ Fires
      /\ e1.pending <=> refs.pending \/ Fires
      /\ e1.sent <=> Fires
  <2>1. refs.key \in BOOLEAN /\ refs.pending \in BOOLEAN
    BY TypeFacts
  <2>2. CASE Fires
    <3>1. e1 = [key |-> TRUE, pending |-> TRUE, sent |-> TRUE]
      BY <2>2 DEF JoinFromLink, Fires
    <3> HIDE DEF e1
    <3>2. QED
      BY <2>2, <3>1
  <2>3. CASE ~Fires
    <3>1. e1 = e0
      BY <2>3 DEF JoinFromLink, Fires
    <3> HIDE DEF e1
    <3>2. QED
      BY <2>1, <2>3, <3>1
  <2>4. QED
    BY <2>2, <2>3
<1> HIDE DEF e1
<1>3. /\ e2 \in E
      /\ e2.key = e1.key /\ e2.sent = e1.sent
      /\ e2.pending <=> e1.pending /\ ~(RoomChanged(stored) /\ stored.table.room)
  BY <1>2 DEF ClearPending
<1> HIDE DEF e2
<1>4. /\ e3 \in E
      /\ e3.sent = e2.sent
      /\ e3.key <=> e2.key /\ ~Forgets
      /\ e3.pending <=> e2.pending /\ ~Forgets
  BY <1>3 DEF ForgetAttempt, Forgets
<1> HIDE DEF e3
<1>5. /\ refs' \in [key : BOOLEAN, pending : BOOLEAN]
      /\ refs'.key = e3.key /\ refs'.pending = e3.pending
  BY <1>1, <1>4
<1>6. QED
  BY <1>1, <1>2, <1>3, <1>4, <1>5

-----------------------------------------------------------------------------
(* The parts of the invariant that only speak of what is on its way.       *)

LEMMA SameWay ==
  ASSUME UNCHANGED <<wire, queue, delivery, view>>
  PROVE  /\ \A m : (Undelivered(m))' <=> Undelivered(m)
         /\ \A m : (OnItsWay(m))' <=> OnItsWay(m)
BY DEF OnItsWay, Undelivered, Lists

LEMMA SameCommands ==
  ASSUME UNCHANGED <<member, upstream, mishap>>
  PROVE  /\ Joining' <=> Joining
         /\ JoinsOnce' <=> JoinsOnce
         /\ Misled' <=> Misled
BY DEF Joining, Lists, JoinsOnce, Misled

(* A status that is stored changes nothing else.                           *)
LEMMA StatusStored ==
  ASSUME TypeOK, NEW s \in Statuses, stored' = [stored EXCEPT !.status = s]
  PROVE  /\ stored' \in Shown /\ stored'.status = s
         /\ stored'.table = stored.table
BY DEF TypeOK, Shown

-----------------------------------------------------------------------------
(* The connection.                                                         *)

LEMMA OpenKeeps == ASSUME TimersOnTime, IInv, Open PROVE IInv'
<1>1. /\ socket = "connecting" /\ socket' = "open" /\ ~RenderDue
      /\ stored' = [stored EXCEPT !.status = "connected"]
      /\ wire' = <<"connected">>
      /\ UNCHANGED <<member, playing, upstream, queue, delivery, view, autoJoin, refs,
                     mishap, left>>
  BY DEF Open, server
<1>2. TypeOK /\ InOrder /\ NewIsEmpty /\ SocketShown /\ MisledShows
  BY DEF IInv
<1>3. /\ stored' \in Shown /\ stored'.status = "connected"
      /\ stored'.table = stored.table
  BY <1>1, <1>2, StatusStored DEF Statuses
<1>4. /\ queue = <<>> /\ upstream = <<>> /\ ~member /\ ~refs.key /\ ~refs.pending
      /\ stored.table.room => Misled
      /\ mishap # "unjoined" /\ view.shown = stored
      /\ delivery.sequence = view.sequence /\ stored.status = "connecting"
  BY <1>1, <1>2 DEF NewIsEmpty, SocketShown, StatusOf, RenderDue, TypeOK
<1>5. /\ wire' \in Seq(Messages)
      /\ \A m : (Lists(wire, m))' => m = "connected"
      /\ \A m : (~Lists(queue, m))' /\ (~Lists(upstream, m))'
  <2>1. DOMAIN wire' = {1} /\ wire'[1] = "connected"
    BY <1>1
  <2>2. "connected" \in Messages
    BY DEF Messages
  <2>3. queue' = <<>> /\ upstream' = <<>>
    BY <1>1, <1>4
  <2>4. \A m : (~Lists(queue, m))' /\ (~Lists(upstream, m))'
    BY <2>3, EmptyLists
  <2>5. \A m : (Lists(wire, m))' => m = "connected"
    BY <2>1 DEF Lists
  <2>6. QED
    BY <1>1, <2>2, <2>4, <2>5
<1>6. (\A m : ~Undelivered(m))'
  BY <1>1, <1>4 DEF Undelivered
<1>7. ~(OnItsWay("joined"))'
  BY <1>5, <1>6 DEF OnItsWay
<1>8. TypeOK'
  BY <1>1, <1>2, <1>3, <1>5 DEF TypeOK
<1>9. Misled' <=> Misled
  BY <1>1 DEF Misled
<1>10. /\ InOrder' /\ SocketShown' /\ MisledShows' /\ NewIsEmpty' /\ LossForgets'
       /\ OpenShown'
  BY <1>1, <1>3, <1>4, <1>9, <1>2, TypeFacts
     DEF InOrder, SocketShown, StatusOf, MisledShows, NewIsEmpty, LossForgets, OpenShown
<1>11. MemberIsTold'
  BY <1>1, <1>3, <1>4, <1>7, <1>9 DEF MemberIsTold
<1>12. ~Joining' /\ JoinsOnce'
  BY <1>1, <1>4, <1>5, EmptyLists, JoinsOnceMeans DEF Joining, JoinsOnce
<1>13. AttemptKnown'
  BY <1>1, <1>4, <1>12 DEF AttemptKnown
<1>14. QED
  BY <1>8, <1>10, <1>11, <1>12, <1>13 DEF IInv

LEMMA CloseKeeps == ASSUME IInv, Close PROVE IInv'
<1>1. /\ socket # "closed" /\ left.drops > 0 /\ socket' = "closed"
      /\ stored' = [stored EXCEPT !.status = "disconnected"]
      /\ upstream' = <<>> /\ wire' = <<>>
      /\ member' = FALSE /\ playing' \in {playing, FALSE}
      /\ mishap' = IF mishap = "unjoined" THEN "none" ELSE mishap
      /\ left' = [left EXCEPT !.drops = @ - 1]
      /\ UNCHANGED <<queue, delivery, view, autoJoin, refs>>
  BY DEF Close
<1>2. /\ TypeOK /\ InOrder /\ NewIsEmpty /\ OpenShown /\ MisledShows /\ LossForgets
  BY DEF IInv
<1>3. /\ stored' \in Shown /\ stored'.status = "disconnected"
      /\ stored'.table = stored.table
  BY <1>1, <1>2, StatusStored DEF Statuses
<1>4. (Misled' <=> Misled) /\ mishap' # "unjoined"
  BY <1>1 DEF Misled
<1>5. TypeOK'
  <2>1. left' \in [drops : 0 .. MaxDrops, news : 0 .. MaxNews, clicks : 0 .. MaxClicks]
    <3>1. left \in [drops : 0 .. MaxDrops, news : 0 .. MaxNews, clicks : 0 .. MaxClicks]
      BY <1>2 DEF TypeOK
    <3>2. left.drops - 1 \in 0 .. MaxDrops
      BY <3>1, <1>1, BoundsAssumption
    <3>3. QED
      BY <3>1, <3>2, <1>1
  <2>2. wire' \in Seq(Messages) /\ upstream' \in Seq(Commands)
    BY <1>1
  <2>3. /\ member' \in BOOLEAN /\ playing' \in BOOLEAN
        /\ mishap' \in {"none", "unjoined", "misled"}
    BY <1>1, <1>2 DEF TypeOK
  <2>4. QED
    BY <1>1, <1>2, <1>3, <2>1, <2>2, <2>3 DEF TypeOK
<1>6. InOrder' /\ SocketShown' /\ MisledShows' /\ NewIsEmpty' /\ OpenShown'
  BY <1>1, <1>2, <1>3, <1>4 DEF InOrder, SocketShown, StatusOf, MisledShows, NewIsEmpty,
     OpenShown
<1>7. LossForgets'
  <2>1. socket \in {"connecting", "open"}
    BY <1>1, <1>2 DEF TypeOK
  <2>2. CASE socket = "connecting"
    BY <2>2, <1>1, <1>2, <1>4 DEF LossForgets, NewIsEmpty
  <2>3. CASE socket = "open"
    BY <2>3, <1>1, <1>2 DEF LossForgets, OpenShown
  <2>4. QED
    BY <2>1, <2>2, <2>3
<1>8. MemberIsTold' /\ AttemptKnown'
  BY <1>1 DEF MemberIsTold, AttemptKnown
<1>9. JoinsOnce'
  BY <1>1 DEF JoinsOnce
<1>10. QED
  BY <1>5, <1>6, <1>7, <1>8, <1>9 DEF IInv

LEMMA ReconnectKeeps == ASSUME TimersOnTime, IInv, Reconnect PROVE IInv'
<1>1. /\ socket = "closed" /\ socket' = "connecting" /\ queue = <<>> /\ ~RenderDue
      /\ stored' = [stored EXCEPT !.status = "connecting"]
      /\ UNCHANGED <<member, playing, upstream, wire, queue, delivery, view,
                     autoJoin, refs, mishap, left>>
  BY DEF Reconnect, server, network
<1>2. /\ TypeOK /\ InOrder /\ SocketShown /\ MisledShows /\ LossForgets /\ JoinsOnce
  BY DEF IInv
<1>3. /\ stored' \in Shown /\ stored'.status = "connecting"
      /\ stored'.table = stored.table
  BY <1>1, <1>2, StatusStored DEF Statuses
<1>4. /\ upstream = <<>> /\ wire = <<>> /\ ~member /\ ~refs.key
      /\ stored.table.room => Misled
      /\ view.shown = stored
      /\ delivery.sequence = view.sequence
  BY <1>1, <1>2 DEF SocketShown, StatusOf, LossForgets, RenderDue
<1>5. TypeOK'
  BY <1>1, <1>2, <1>3 DEF TypeOK
<1>6. Misled' <=> Misled
  BY <1>1 DEF Misled
<1>7. /\ InOrder' /\ SocketShown' /\ MisledShows' /\ NewIsEmpty' /\ LossForgets'
      /\ OpenShown'
  BY <1>1, <1>2, <1>3, <1>4, <1>6 DEF InOrder, SocketShown, StatusOf, MisledShows,
     NewIsEmpty, LossForgets, OpenShown
<1>8. MemberIsTold' /\ AttemptKnown'
  BY <1>1 DEF MemberIsTold, AttemptKnown
<1>9. JoinsOnce'
  BY <1>1, <1>2, SameCommands
<1>10. QED
  BY <1>5, <1>7, <1>8, <1>9 DEF IInv

LEMMA ReceiveKeeps == ASSUME IInv, Receive PROVE IInv'
<1>1. /\ wire # <<>> /\ wire' = Tail(wire) /\ queue' = Append(queue, Head(wire))
      /\ UNCHANGED <<socket, member, playing, upstream, delivery, stored, view,
                     autoJoin, refs, mishap, left>>
  BY DEF Receive, server
<1>2. TypeOK /\ SocketShown
  BY DEF IInv
<1>3. socket = "open"
  BY <1>1, <1>2 DEF SocketShown
<1>4. wire \in Seq(Messages) /\ queue \in Seq(Messages)
  BY <1>2 DEF TypeOK
<1>5. wire' \in Seq(Messages) /\ Head(wire) \in Messages /\ queue' \in Seq(Messages)
  BY <1>1, <1>4, TailLists, AppendLists
<1>6. \A m : /\ Lists(wire, m) <=> Head(wire) = m \/ Lists(wire', m)
             /\ Lists(queue', m) <=> Lists(queue, m) \/ Head(wire) = m
  BY <1>1, <1>4, <1>5, TailLists, AppendLists
<1>7. \A m : (Undelivered(m))' <=> Undelivered(m)
  BY <1>1 DEF Undelivered
<1>8. \A m : (OnItsWay(m))' <=> OnItsWay(m)
  BY <1>6, <1>7 DEF OnItsWay
<1>9. TypeOK'
  BY <1>1, <1>2, <1>5 DEF TypeOK
<1>10. (Joining' <=> Joining) /\ JoinsOnce' /\ (Misled' <=> Misled)
  BY <1>1, SameCommands DEF IInv
<1>11. /\ InOrder' /\ SocketShown' /\ MisledShows' /\ NewIsEmpty' /\ LossForgets'
       /\ OpenShown'
  BY <1>1, <1>2, <1>3, <1>10 DEF IInv, InOrder, SocketShown, MisledShows, NewIsEmpty,
     LossForgets, OpenShown
<1>12. MemberIsTold' /\ AttemptKnown'
  BY <1>1, <1>8, <1>10 DEF IInv, MemberIsTold, AttemptKnown
<1>13. QED
  BY <1>9, <1>10, <1>11, <1>12 DEF IInv

LEMMA DrainKeeps == ASSUME IInv, Drain PROVE IInv'
<1>1. /\ queue # <<>> /\ queue' = Tail(queue)
      /\ delivery' = [message |-> Head(queue), sequence |-> delivery.sequence + 1]
      /\ mishap' = IF JoinedOverwritten THEN "unjoined" ELSE mishap
      /\ UNCHANGED <<socket, member, playing, upstream, wire, stored, view,
                     autoJoin, refs, left>>
  BY DEF Drain, server, network
<1>2. /\ TypeOK /\ InOrder /\ SocketShown /\ NewIsEmpty /\ MisledShows
      /\ MemberIsTold /\ AttemptKnown /\ JoinsOnce
  BY DEF IInv
<1>3. socket # "connecting"
  BY <1>1, <1>2 DEF NewIsEmpty
<1>4. queue \in Seq(Messages)
  BY <1>2 DEF TypeOK
<1>5. queue' \in Seq(Messages) /\ Head(queue) \in Messages
  BY <1>1, <1>4, TailLists
<1>6. \A m : Lists(queue, m) <=> Head(queue) = m \/ Lists(queue', m)
  BY <1>1, <1>4, TailLists
<1>7. /\ delivery'.message = Head(queue)
      /\ delivery'.sequence \in Nat /\ delivery'.sequence > view.sequence
      /\ delivery'.sequence # view.sequence
  <2>1. delivery.sequence \in Nat /\ view.sequence \in Nat
        /\ delivery.sequence >= view.sequence
    BY <1>2, TypeFacts DEF InOrder
  <2>2. QED
    BY <2>1, <1>1
<1>8. \A m : (Undelivered(m))' <=> Head(queue) = m
  BY <1>1, <1>7 DEF Undelivered
<1>9. \A m : (Lists(wire, m))' <=> Lists(wire, m)
  BY <1>1 DEF Lists
<1>10. \A m : OnItsWay(m) <=> Undelivered(m) \/ (OnItsWay(m))'
  BY <1>6, <1>8, <1>9 DEF OnItsWay
<1>11. JoinedOverwritten => member /\ socket = "open" /\ ~Misled
  BY <1>2 DEF JoinedOverwritten, MemberIsTold, OnItsWay, Undelivered, MisledShows
<1>12. /\ Misled' <=> Misled
       /\ Joining' <=> Joining
       /\ socket # "open" => mishap' = mishap
  <2>1. (Lists(upstream, "join"))' <=> Lists(upstream, "join")
    BY <1>1 DEF Lists
  <2>2. CASE JoinedOverwritten
    BY <2>1, <2>2, <1>1, <1>11 DEF Misled, Joining
  <2>3. CASE ~JoinedOverwritten
    BY <2>1, <2>3, <1>1 DEF Misled, Joining
  <2>4. QED
    BY <2>2, <2>3
<1>13. TypeOK'
  <2>1. delivery' \in [message : Messages \cup {"none"}, sequence : Nat]
    BY <1>1, <1>5, <1>7
  <2>2. mishap' \in {"none", "unjoined", "misled"}
    BY <1>1, <1>2 DEF TypeOK
  <2>3. QED
    BY <1>1, <1>2, <1>5, <2>1, <2>2 DEF TypeOK
<1>14. InOrder'
  <2>1. view.sequence \in Nat /\ view'.sequence = view.sequence
    BY <1>1, <1>2, TypeFacts
  <2>2. QED
    BY <2>1, <1>7 DEF InOrder
<1>15. SocketShown' /\ MisledShows' /\ NewIsEmpty' /\ LossForgets' /\ OpenShown'
  BY <1>1, <1>2, <1>3, <1>12 DEF IInv, SocketShown, MisledShows, NewIsEmpty,
     LossForgets, OpenShown
<1>16. MemberIsTold'
  <2> SUFFICES ASSUME socket = "open" PROVE MemberIsTold'
    BY <1>1 DEF MemberIsTold
  <2>1. stored.table.room \/ (OnItsWay("joined"))' => member \/ Misled
    BY <1>2, <1>10 DEF MemberIsTold
  <2>2. ASSUME member
        PROVE  stored.table.room \/ (OnItsWay("joined"))' \/ mishap' = "unjoined"
    <3>1. CASE Undelivered("joined")
      BY <3>1, <1>1 DEF JoinedOverwritten, Undelivered
    <3>2. CASE ~Undelivered("joined")
      BY <2>2, <3>2, <1>1, <1>2, <1>10 DEF MemberIsTold
    <3>3. QED
      BY <3>1, <3>2
  <2>3. QED
    BY <2>1, <2>2, <1>1, <1>12 DEF MemberIsTold
<1>17. AttemptKnown'
  BY <1>1, <1>2, <1>12 DEF AttemptKnown
<1>18. JoinsOnce'
  BY <1>1, <1>2 DEF JoinsOnce
<1>19. QED
  BY <1>13, <1>14, <1>15, <1>16, <1>17, <1>18 DEF IInv

-----------------------------------------------------------------------------
(* The page.                                                               *)

(* A Join is only sent by a connection that has not joined.                *)
LEMMA JoinSent ==
  ASSUME IInv, ~Joining, upstream' = Append(upstream, "join"),
         UNCHANGED <<member, mishap>>
  PROVE  /\ upstream' \in Seq(Commands)
         /\ JoinsOnce' /\ Joining'
<1>1. /\ upstream \in Seq(Commands) /\ "join" \in Commands
      /\ ~Lists(upstream, "join") /\ ~member /\ JoinsOnce
  BY DEF IInv, TypeOK, Joining, Commands
<1>2. /\ upstream' \in Seq(Commands)
      /\ Lists(upstream', "join")
      /\ Once(upstream, "join") => Once(upstream', "join")
  BY <1>1, AppendLists
<1>3. Once(upstream', "join")
  BY <1>1, <1>2, JoinsOnceMeans
<1>4. JoinsOnce'
  BY <1>1, <1>3 DEF JoinsOnce, Once
<1>5. Joining'
  BY <1>2 DEF Joining
<1>6. QED
  BY <1>2, <1>4, <1>5

LEMMA RenderKeeps == ASSUME IInv, Render PROVE IInv'
<1>1. UNCHANGED <<socket, member, playing, wire, queue, delivery, autoJoin, left>>
  BY DEF Render, server
<1>2. /\ TypeOK /\ InOrder /\ SocketShown /\ MisledShows /\ NewIsEmpty
      /\ LossForgets /\ OpenShown /\ MemberIsTold /\ JoinsOnce /\ AttemptKnown
  BY DEF IInv
<1>3. /\ view' = [shown |-> stored, sequence |-> delivery.sequence]
      /\ stored' \in Shown /\ stored'.status = stored.status
      /\ stored'.table.room <=>
           (stored.table.room /\ ~Leaves) \/ Undelivered("joined")
      /\ ~Leaves => mishap' = mishap
      /\ Leaves => mishap' = IF stored'.table.room THEN "misled" ELSE "none"
  BY <1>2, RenderStores
<1>4. /\ upstream' = IF Fires THEN Append(upstream, "join") ELSE upstream
      /\ refs' \in [key : BOOLEAN, pending : BOOLEAN]
      /\ refs'.key <=> (refs.key \/ Fires) /\ ~Forgets
      /\ refs'.pending <=>
           /\ refs.pending \/ Fires
           /\ ~(RoomChanged(stored) /\ stored.table.room) /\ ~Forgets
  BY <1>2, RenderJoins
<1>5. /\ stored.status = StatusOf(socket)
      /\ view'.shown = stored /\ view'.sequence = delivery.sequence
      /\ refs.pending => refs.key
      /\ socket \in {"connecting", "open", "closed"}
  BY <1>2, <1>3 DEF SocketShown, TypeOK
<1>6. /\ \A m : ~(Undelivered(m))'
      /\ \A m : (Lists(queue, m))' <=> Lists(queue, m)
      /\ \A m : (Lists(wire, m))' <=> Lists(wire, m)
  BY <1>1, <1>5 DEF Undelivered, Lists
<1>7. \A m : OnItsWay(m) <=> Undelivered(m) \/ (OnItsWay(m))'
  BY <1>6 DEF OnItsWay
<1>8. Fires => ~Joining /\ ~Forgets /\ ~Leaves /\ socket = "open"
  BY <1>2 DEF Fires, Forgets, Leaves, AttemptKnown
<1>9. /\ upstream' \in Seq(Commands) /\ JoinsOnce'
      /\ ~Leaves => (Joining' <=> Joining \/ Fires)
  <2>1. CASE Fires
    <3>1. ~Joining /\ upstream' = Append(upstream, "join") /\ mishap' = mishap
      BY <2>1, <1>3, <1>4, <1>8
    <3>2. QED
      BY <2>1, <3>1, <1>1, JoinSent
  <2>2. CASE ~Fires
    <3>1. upstream' = upstream
      BY <2>2, <1>4
    <3>2. JoinsOnce'
      BY <3>1, <1>1, <1>2 DEF JoinsOnce
    <3>3. ~Leaves => (Joining' <=> Joining)
      BY <3>1, <1>1, <1>3, SameCommands
    <3>4. QED
      BY <2>2, <3>1, <3>2, <3>3, <1>2 DEF TypeOK
  <2>3. QED
    BY <2>1, <2>2
<1>10. TypeOK'
  <2>1. view' \in [shown : Shown, sequence : Nat]
    BY <1>2, <1>3, TypeFacts DEF TypeOK
  <2>2. refs'.pending => refs'.key
    BY <1>4, <1>5
  <2>3. mishap' \in {"none", "unjoined", "misled"}
    BY <1>2, <1>3 DEF TypeOK
  <2>4. QED
    BY <1>1, <1>2, <1>3, <1>4, <1>9, <2>1, <2>2, <2>3 DEF TypeOK
<1>11. InOrder'
  <2>1. delivery'.sequence = view'.sequence /\ delivery.sequence \in Nat
    BY <1>1, <1>2, <1>5, TypeFacts
  <2>2. QED
    BY <2>1, <1>1 DEF InOrder
<1>12. SocketShown'
  <2>1. socket # "open" => upstream' = upstream /\ mishap' # "unjoined"
    BY <1>2, <1>3, <1>4, <1>8 DEF SocketShown
  <2>2. QED
    BY <1>1, <1>2, <1>3, <2>1 DEF SocketShown
<1>13. /\ ~Leaves => (Misled' <=> Misled)
       /\ Leaves => (Misled' <=> stored'.table.room)
  BY <1>3 DEF Misled
<1>14. MisledShows'
  <2>1. Leaves => stored.table.room
    BY DEF Leaves
  <2>2. QED
    BY <2>1, <1>2, <1>3, <1>5, <1>13 DEF MisledShows
<1>15. NewIsEmpty'
  <2> SUFFICES ASSUME socket = "connecting" PROVE NewIsEmpty'
    BY <1>1 DEF NewIsEmpty
  <2>1. /\ queue = <<>> /\ delivery.sequence = view.sequence
        /\ stored.table.room => Misled
        /\ ~refs.key /\ ~Fires /\ ~Leaves
    BY <1>2, <1>5, <1>8 DEF NewIsEmpty, Leaves, StatusOf
  <2>2. (stored'.table.room => stored.table.room) /\ ~refs'.key
    BY <2>1, <1>3, <1>4 DEF Undelivered
  <2>3. QED
    BY <2>1, <2>2, <1>1, <1>5, <1>13 DEF NewIsEmpty
<1>16. LossForgets'
  <2> SUFFICES ASSUME socket = "closed" PROVE LossForgets'
    BY <1>1 DEF LossForgets
  <2>1. stored.status = "disconnected" /\ ~Fires
    BY <1>5, <1>8 DEF StatusOf
  <2>2. ~refs'.key
    <3>1. CASE view.shown.status = "disconnected"
      BY <3>1, <2>1, <1>2, <1>4 DEF LossForgets
    <3>2. CASE view.shown.status # "disconnected"
      BY <3>2, <2>1, <1>4 DEF Forgets, StatusChanged
    <3>3. QED
      BY <3>1, <3>2
  <2>3. stored.table.room /\ stored'.table.room => Misled'
    <3>1. CASE Leaves
      BY <3>1, <1>13
    <3>2. CASE ~Leaves /\ stored.table.room
      <4>1. view.shown.status = "disconnected" /\ view.shown.table.room
        BY <3>2, <2>1, <1>2, TypeFacts DEF Leaves, StatusChanged, RoomChanged
      <4>2. QED
        BY <3>2, <4>1, <1>2, <1>13 DEF LossForgets
    <3>3. QED
      BY <3>1, <3>2
  <2>4. QED
    BY <2>2, <2>3, <1>5 DEF LossForgets
<1>17. socket = "open" =>
         /\ stored.status = "connected" /\ ~Leaves /\ ~Forgets
         /\ stored.table.room => stored'.table.room
         /\ mishap' = mishap
  BY <1>3, <1>5 DEF StatusOf, Leaves, Forgets
<1>18. OpenShown'
  BY <1>1, <1>5, <1>17 DEF OpenShown
<1>19. MemberIsTold'
  BY <1>1, <1>2, <1>3, <1>7, <1>13, <1>17 DEF MemberIsTold
<1>20. AttemptKnown'
  <2> SUFFICES ASSUME socket = "open" PROVE AttemptKnown'
    BY <1>1 DEF AttemptKnown
  <2>1. Joining' <=> Joining \/ Fires
    BY <1>9, <1>17
  <2>2. Joining' <=> refs'.key
    BY <2>1, <1>2, <1>4, <1>17 DEF AttemptKnown
  <2>3. Joining' => refs'.pending \/ stored.table.room
    <3>1. Joining => refs.pending \/ stored.table.room
      BY <1>2 DEF AttemptKnown, OpenShown
    <3>2. QED
      BY <2>1, <3>1, <1>4, <1>17
  <2>4. ASSUME autoJoin PROVE Joining' \/ Misled
    <3>1. CASE view.shown.status = "connected"
      BY <2>1, <3>1, <2>4, <1>2 DEF AttemptKnown
    <3>2. CASE view.shown.status # "connected"
      <4>1. StatusChanged(stored)
        BY <3>2, <1>17 DEF StatusChanged
      <4>2. stored.table.room => Joining \/ Misled
        BY <1>2 DEF MemberIsTold, Joining
      <4>3. refs.key \/ refs.pending => Joining
        BY <1>2, <1>5 DEF AttemptKnown
      <4>4. ~stored.table.room /\ ~refs.key /\ ~refs.pending => Fires
        BY <4>1, <2>4, <1>17 DEF Fires
      <4>5. QED
        BY <2>1, <4>2, <4>3, <4>4
    <3>3. QED
      BY <3>1, <3>2
  <2>5. Misled => ~Joining'
    BY <2>1, <1>2 DEF AttemptKnown, MisledShows, Fires
  <2>6. QED
    BY <2>2, <2>3, <2>4, <2>5, <1>1, <1>5, <1>13, <1>17 DEF AttemptKnown
<1>21. QED
  BY <1>9, <1>10, <1>11, <1>12, <1>14, <1>15, <1>16, <1>18, <1>19, <1>20 DEF IInv

(* A press of a button is one of those that are left.                      *)
LEMMA ClickCounts ==
  ASSUME TypeOK, left.clicks > 0
  PROVE  [left EXCEPT !.clicks = @ - 1] \in
           [drops : 0 .. MaxDrops, news : 0 .. MaxNews, clicks : 0 .. MaxClicks]
<1>1. left \in [drops : 0 .. MaxDrops, news : 0 .. MaxNews, clicks : 0 .. MaxClicks]
  BY DEF TypeOK
<1>2. left.clicks - 1 \in 0 .. MaxClicks
  BY <1>1, BoundsAssumption
<1>3. QED
  BY <1>1, <1>2

LEMMA JoinRoomKeeps == ASSUME IInv, JoinRoom PROVE IInv'
<1>1. /\ left.clicks > 0 /\ ~view.shown.table.room /\ ~refs.pending
      /\ autoJoin' = TRUE
      /\ left' = [left EXCEPT !.clicks = @ - 1]
      /\ refs' = [key |-> socket = "open", pending |-> socket = "open"]
      /\ upstream' = IF socket = "open" THEN Append(upstream, "join") ELSE upstream
      /\ UNCHANGED <<socket, member, playing, wire, queue, delivery, stored, view, mishap>>
  BY DEF JoinRoom, MayJoin, server
<1>2. /\ TypeOK /\ InOrder /\ SocketShown /\ MisledShows /\ NewIsEmpty
      /\ LossForgets /\ OpenShown /\ MemberIsTold /\ JoinsOnce /\ AttemptKnown
  BY DEF IInv
<1>3. (socket = "open" => ~Joining) /\ ~Misled
  BY <1>1, <1>2 DEF AttemptKnown, MisledShows
<1>4. /\ upstream' \in Seq(Commands) /\ JoinsOnce'
      /\ socket = "open" => Joining'
  <2>1. CASE socket = "open"
    <3>1. ~Joining /\ upstream' = Append(upstream, "join")
      BY <2>1, <1>1, <1>3
    <3>2. QED
      BY <3>1, <1>1, JoinSent
  <2>2. CASE socket # "open"
    <3>1. upstream' = upstream
      BY <2>2, <1>1
    <3>2. QED
      BY <2>2, <3>1, <1>1, <1>2, SameCommands DEF TypeOK
  <2>3. QED
    BY <2>1, <2>2
<1>5. /\ refs' \in [key : BOOLEAN, pending : BOOLEAN]
      /\ refs'.key <=> socket = "open"
      /\ refs'.pending <=> socket = "open"
  BY <1>1
<1>6. Misled' <=> Misled
  BY <1>1 DEF Misled
<1>7. TypeOK'
  <2>1. left' \in [drops : 0 .. MaxDrops, news : 0 .. MaxNews, clicks : 0 .. MaxClicks]
    BY <1>1, <1>2, ClickCounts
  <2>2. QED
    BY <1>1, <1>2, <1>4, <1>5, <2>1 DEF TypeOK
<1>8. /\ InOrder' /\ SocketShown' /\ MisledShows' /\ NewIsEmpty' /\ LossForgets'
      /\ OpenShown'
  BY <1>1, <1>2, <1>5, <1>6 DEF InOrder, SocketShown, MisledShows, NewIsEmpty,
     LossForgets, OpenShown
<1>9. MemberIsTold'
  BY <1>1, <1>2, <1>6, SameWay DEF MemberIsTold
<1>10. AttemptKnown'
  BY <1>1, <1>3, <1>4, <1>5, <1>6 DEF AttemptKnown
<1>11. QED
  BY <1>4, <1>7, <1>8, <1>9, <1>10 DEF IInv

(* A command or an answer other than a Join leaves the attempt alone.      *)
LEMMA OtherCommand ==
  ASSUME IInv, UNCHANGED <<member, mishap>>,
         (Lists(upstream, "join"))' <=> Lists(upstream, "join"),
         Once(upstream, "join") => (Once(upstream, "join"))'
  PROVE  JoinsOnce' /\ (Joining' <=> Joining) /\ (Misled' <=> Misled)
<1>1. JoinsOnce
  BY DEF IInv
<1>2. /\ (Lists(upstream, "join"))' => ~member'
      /\ (Once(upstream, "join"))'
  BY <1>1, JoinsOnceMeans
<1>3. JoinsOnce'
  BY <1>2 DEF JoinsOnce, Lists, Once
<1>4. QED
  BY <1>3 DEF Joining, Misled

LEMMA StartGameKeeps == ASSUME IInv, StartGame PROVE IInv'
<1>1. /\ left.clicks > 0 /\ socket = "open"
      /\ upstream' = Append(upstream, "start")
      /\ stored' = [stored EXCEPT !.startRequested = TRUE]
      /\ left' = [left EXCEPT !.clicks = @ - 1]
      /\ UNCHANGED <<socket, member, playing, wire, queue, delivery, view, autoJoin,
                     refs, mishap>>
  BY DEF StartGame, server
<1>2. /\ TypeOK /\ SocketShown
  BY DEF IInv
<1>3. /\ stored' \in Shown /\ stored'.status = stored.status
      /\ stored'.table = stored.table
  BY <1>1, <1>2 DEF TypeOK, Shown
<1>4. /\ upstream' \in Seq(Commands)
      /\ Lists(upstream', "join") <=> Lists(upstream, "join")
      /\ Once(upstream, "join") => Once(upstream', "join")
  <2>1. upstream \in Seq(Commands) /\ "start" \in Commands /\ "start" # "join"
    BY <1>2 DEF TypeOK, Commands
  <2>2. QED
    BY <1>1, <2>1, AppendLists
<1>5. JoinsOnce' /\ (Joining' <=> Joining) /\ (Misled' <=> Misled)
  <2>1. /\ (Lists(upstream, "join"))' <=> Lists(upstream, "join")
        /\ Once(upstream, "join") => (Once(upstream, "join"))'
    BY <1>4 DEF Lists, Once
  <2>2. QED
    BY <2>1, <1>1, OtherCommand
<1>6. TypeOK'
  <2>1. left' \in [drops : 0 .. MaxDrops, news : 0 .. MaxNews, clicks : 0 .. MaxClicks]
    BY <1>1, <1>2, ClickCounts
  <2>2. QED
    BY <1>1, <1>2, <1>3, <1>4, <2>1 DEF TypeOK
<1>7. /\ InOrder' /\ SocketShown' /\ MisledShows' /\ NewIsEmpty' /\ LossForgets'
      /\ OpenShown'
  BY <1>1, <1>2, <1>3, <1>5 DEF IInv, InOrder, SocketShown, MisledShows, NewIsEmpty,
     LossForgets, OpenShown
<1>8. MemberIsTold' /\ AttemptKnown'
  BY <1>1, <1>3, <1>5, SameWay DEF IInv, MemberIsTold, AttemptKnown
<1>9. QED
  BY <1>5, <1>6, <1>7, <1>8 DEF IInv

-----------------------------------------------------------------------------
(* The server.                                                             *)

(* What the server sends goes to the end of the wire.                      *)
LEMMA SentOn ==
  ASSUME TypeOK, NEW x \in Messages, wire' = Append(wire, x),
         UNCHANGED <<queue, delivery, view>>
  PROVE  /\ wire' \in Seq(Messages)
         /\ \A m : (OnItsWay(m))' <=> OnItsWay(m) \/ x = m
<1>1. wire \in Seq(Messages)
  BY DEF TypeOK
<1>2. /\ wire' \in Seq(Messages)
      /\ \A m : (Lists(wire, m))' <=> Lists(wire, m) \/ x = m
  <2>1. /\ wire' \in Seq(Messages)
        /\ \A m : Lists(wire', m) <=> Lists(wire, m) \/ x = m
    BY <1>1, AppendLists
  <2>2. QED
    BY <2>1 DEF Lists
<1>3. /\ \A m : (Undelivered(m))' <=> Undelivered(m)
      /\ \A m : (Lists(queue, m))' <=> Lists(queue, m)
  BY DEF Undelivered, Lists
<1>4. QED
  BY <1>2, <1>3 DEF OnItsWay

(* The same for two messages, of which the first is "joined".              *)
LEMMA SentJoined ==
  ASSUME TypeOK, NEW x \in Messages \ {"joined"}, wire' = wire \o <<"joined", x>>,
         UNCHANGED <<queue, delivery, view>>
  PROVE  wire' \in Seq(Messages) /\ (OnItsWay("joined"))'
<1> DEFINE half == Append(wire, "joined")
<1>1. wire \in Seq(Messages) /\ "joined" \in Messages
  BY DEF TypeOK, Messages
<1>2. wire' = Append(half, x)
  BY <1>1
<1>3. half \in Seq(Messages) /\ Lists(half, "joined")
  BY <1>1, AppendLists
<1> HIDE DEF half
<1>4. wire' \in Seq(Messages) /\ Lists(wire', "joined")
  <2>1. x \in Messages
    OBVIOUS
  <2>2. /\ Append(half, x) \in Seq(Messages)
        /\ Lists(Append(half, x), "joined") <=> Lists(half, "joined") \/ x = "joined"
    BY <1>3, <2>1, AppendLists
  <2>3. QED
    BY <1>2, <1>3, <2>2
<1>5. QED
  BY <1>4 DEF OnItsWay, Lists

LEMMA HandleJoinKeeps == ASSUME IInv, HandleJoin PROVE IInv'
<1>1. /\ upstream # <<>> /\ Head(upstream) = "join" /\ upstream' = Tail(upstream)
      /\ UNCHANGED <<socket, queue, delivery, stored, view, autoJoin, refs, left>>
  BY DEF HandleJoin, Answer
<1>2. /\ TypeOK /\ InOrder /\ SocketShown /\ MisledShows /\ OpenShown
      /\ MemberIsTold /\ JoinsOnce /\ AttemptKnown
  BY DEF IInv
<1>3. upstream \in Seq(Commands) /\ wire \in Seq(Messages) /\ playing \in BOOLEAN
  BY <1>2 DEF TypeOK
<1>4. /\ Lists(upstream, "join") /\ Once(upstream, "join") /\ ~member
      /\ upstream' \in Seq(Commands)
      /\ ~Lists(upstream', "join")
  BY <1>1, <1>2, <1>3, TailLists, JoinsOnceMeans
<1>5. socket = "open" /\ Joining
  BY <1>1, <1>2, <1>4 DEF SocketShown, Joining
<1>6. ~Misled /\ ~stored.table.room /\ ~OnItsWay("joined")
  BY <1>2, <1>4, <1>5 DEF MemberIsTold, AttemptKnown
<1>7. /\ wire' \in Seq(Messages) /\ member' \in BOOLEAN /\ playing' \in BOOLEAN
      /\ mishap' \in {mishap, "unjoined"}
      /\ (OnItsWay("joined"))' => member'
      /\ member' => (OnItsWay("joined"))'
      /\ member' \/ mishap' = "unjoined"
  <2>1. CASE /\ member' = TRUE /\ playing' \in {playing, FALSE}
             /\ Answer(<<"joined", Picture(playing')>>) /\ UNCHANGED mishap
    <3> DEFINE x == Picture(playing')
    <3>1. x \in Messages \ {"joined"}
      BY DEF Picture, Messages
    <3>2. wire' = wire \o <<"joined", x>>
      BY <2>1 DEF Answer
    <3> HIDE DEF x
    <3>3. wire' \in Seq(Messages) /\ (OnItsWay("joined"))'
      BY <3>1, <3>2, <1>1, <1>2, SentJoined
    <3>4. QED
      BY <2>1, <3>3, <1>3
  <2>2. CASE mishap' = "unjoined" /\ Answer(<<"error">>) /\ UNCHANGED server
    <3>1. wire' = Append(wire, "error")
      BY <2>2, <1>3 DEF Answer
    <3>2. "error" \in Messages
      BY DEF Messages
    <3>3. wire' \in Seq(Messages) /\ ((OnItsWay("joined"))' <=> OnItsWay("joined"))
      BY <3>1, <3>2, <1>1, <1>2, SentOn
    <3>4. member' = FALSE /\ playing' = playing /\ ~(OnItsWay("joined"))'
      BY <2>2, <3>3, <1>2, <1>4, <1>6 DEF server, TypeOK
    <3>5. QED
      BY <2>2, <3>3, <3>4, <1>3, <1>4
  <2>3. CASE mishap' = "unjoined" /\ Answer(<<>>) /\ UNCHANGED server
    <3>1. wire' = wire
      BY <2>3, <1>3 DEF Answer
    <3>2. (OnItsWay("joined"))' <=> OnItsWay("joined")
      BY <3>1, <1>1, SameWay
    <3>3. member' = FALSE /\ playing' = playing /\ ~(OnItsWay("joined"))'
      BY <2>3, <3>2, <1>2, <1>4, <1>6 DEF server, TypeOK
    <3>4. QED
      BY <2>3, <3>1, <3>3, <1>3, <1>4
  <2>4. QED
    BY <2>1, <2>2, <2>3, <1>4 DEF HandleJoin
<1>8. Joining' /\ ~Misled'
  BY <1>6, <1>7 DEF Joining, Misled
<1>9. TypeOK'
  <2>1. mishap' \in {"none", "unjoined", "misled"}
    BY <1>2, <1>7 DEF TypeOK
  <2>2. QED
    BY <1>1, <1>2, <1>4, <1>7, <2>1 DEF TypeOK
<1>10. /\ InOrder' /\ SocketShown' /\ MisledShows' /\ NewIsEmpty' /\ LossForgets'
       /\ OpenShown'
  BY <1>1, <1>2, <1>5, <1>8 DEF InOrder, SocketShown, MisledShows, NewIsEmpty,
     LossForgets, OpenShown
<1>11. MemberIsTold'
  BY <1>1, <1>6, <1>7 DEF MemberIsTold
<1>12. JoinsOnce'
  BY <1>4 DEF JoinsOnce, Lists, Once
<1>13. AttemptKnown'
  BY <1>1, <1>2, <1>5, <1>8 DEF AttemptKnown
<1>14. QED
  BY <1>9, <1>10, <1>11, <1>12, <1>13 DEF IInv

LEMMA HandleStartKeeps == ASSUME IInv, HandleStart PROVE IInv'
<1>1. /\ upstream # <<>> /\ Head(upstream) = "start" /\ upstream' = Tail(upstream)
      /\ UNCHANGED <<socket, member, queue, delivery, stored, view, autoJoin, refs,
                     mishap, left>>
  BY DEF HandleStart, Answer
<1>2. TypeOK /\ SocketShown
  BY DEF IInv
<1>3. upstream \in Seq(Commands) /\ wire \in Seq(Messages)
  BY <1>2 DEF TypeOK
<1>4. PICK x \in {"state", "error"} :
        wire' = Append(wire, x) /\ playing' \in BOOLEAN
  <2>1. \A x : wire \o <<x>> = Append(wire, x)
    BY <1>3
  <2>2. CASE ~playing /\ member /\ playing' = TRUE /\ Answer(<<"state">>)
    BY <2>1, <2>2 DEF Answer
  <2>3. CASE UNCHANGED playing /\ Answer(<<"error">>)
    BY <2>1, <2>3, <1>2 DEF Answer, TypeOK
  <2>4. QED
    BY <2>2, <2>3 DEF HandleStart
<1>5. x \in Messages /\ x # "joined"
  BY <1>4 DEF Messages
<1>6. wire' \in Seq(Messages) /\ ((OnItsWay("joined"))' <=> OnItsWay("joined"))
  BY <1>1, <1>2, <1>4, <1>5, SentOn
<1>7. socket = "open"
  BY <1>1, <1>2 DEF SocketShown
<1>8. /\ upstream' \in Seq(Commands)
      /\ Lists(upstream', "join") <=> Lists(upstream, "join")
      /\ Once(upstream, "join") => Once(upstream', "join")
  BY <1>1, <1>3, TailLists
<1>9. JoinsOnce' /\ (Joining' <=> Joining) /\ (Misled' <=> Misled)
  <2>1. /\ (Lists(upstream, "join"))' <=> Lists(upstream, "join")
        /\ Once(upstream, "join") => (Once(upstream, "join"))'
    BY <1>8 DEF Lists, Once
  <2>2. QED
    BY <2>1, <1>1, OtherCommand
<1>10. TypeOK'
  BY <1>1, <1>2, <1>4, <1>6, <1>8 DEF TypeOK
<1>11. /\ InOrder' /\ SocketShown' /\ MisledShows' /\ NewIsEmpty' /\ LossForgets'
       /\ OpenShown'
  BY <1>1, <1>2, <1>7, <1>9 DEF IInv, InOrder, SocketShown, MisledShows, NewIsEmpty,
     LossForgets, OpenShown
<1>12. MemberIsTold' /\ AttemptKnown'
  BY <1>1, <1>6, <1>9 DEF IInv, MemberIsTold, AttemptKnown
<1>13. QED
  BY <1>9, <1>10, <1>11, <1>12 DEF IInv

LEMMA NewsKeeps == ASSUME IInv, News PROVE IInv'
<1>1. /\ left.news > 0 /\ left' = [left EXCEPT !.news = @ - 1]
      /\ playing' \in BOOLEAN
      /\ UNCHANGED <<socket, member, upstream, queue, delivery, stored, view,
                     autoJoin, refs, mishap>>
  BY DEF News
<1>2. TypeOK /\ SocketShown
  BY DEF IInv
<1>3. wire \in Seq(Messages)
  BY <1>2 DEF TypeOK
<1>4. /\ wire' \in Seq(Messages)
      /\ OnItsWay("joined") => (OnItsWay("joined"))'
      /\ (OnItsWay("joined"))' => OnItsWay("joined") \/ member
      /\ ~member => wire' = wire
  <2> DEFINE x == Picture(playing')
  <2>1. x \in Messages \ {"joined"}
    BY DEF Picture, Messages
  <2>2. CASE member /\ wire' = wire \o <<>> \o <<x>>
    <3>1. wire' = Append(wire, x)
      BY <2>2, <1>3
    <3>2. QED
      BY <2>1, <2>2, <3>1, <1>1, <1>2, SentOn
  <2>3. CASE member /\ wire' = wire \o <<"joined">> \o <<x>>
    <3>1. wire' = wire \o <<"joined", x>>
      BY <2>3, <1>3
    <3>2. wire' \in Seq(Messages) /\ (OnItsWay("joined"))'
      BY <2>1, <3>1, <1>1, <1>2, SentJoined
    <3>3. QED
      BY <2>3, <3>2
  <2>4. CASE ~member /\ UNCHANGED wire
    BY <2>4, <1>1, <1>3, SameWay
  <2>5. QED
    BY <2>2, <2>3, <2>4 DEF News
<1>5. TypeOK'
  <2>1. left' \in [drops : 0 .. MaxDrops, news : 0 .. MaxNews, clicks : 0 .. MaxClicks]
    <3>1. left \in [drops : 0 .. MaxDrops, news : 0 .. MaxNews, clicks : 0 .. MaxClicks]
      BY <1>2 DEF TypeOK
    <3>2. left.news - 1 \in 0 .. MaxNews
      BY <3>1, <1>1, BoundsAssumption
    <3>3. QED
      BY <3>1, <3>2, <1>1
  <2>2. QED
    BY <1>1, <1>2, <1>4, <2>1 DEF TypeOK
<1>6. (Joining' <=> Joining) /\ JoinsOnce' /\ (Misled' <=> Misled)
  BY <1>1, SameCommands DEF IInv
<1>7. SocketShown'
  <2>1. socket # "open" => ~member /\ wire' = wire
    BY <1>2, <1>4 DEF SocketShown
  <2>2. QED
    BY <2>1, <1>1, <1>2 DEF SocketShown
<1>8. InOrder' /\ MisledShows' /\ NewIsEmpty' /\ LossForgets' /\ OpenShown'
  BY <1>1, <1>6 DEF IInv, InOrder, MisledShows, NewIsEmpty, LossForgets, OpenShown
<1>9. MemberIsTold' /\ AttemptKnown'
  BY <1>1, <1>4, <1>6 DEF IInv, MemberIsTold, AttemptKnown
<1>10. QED
  BY <1>5, <1>6, <1>7, <1>8, <1>9 DEF IInv

LEMMA StutterKeeps == ASSUME IInv, UNCHANGED vars PROVE IInv'
<1>1. UNCHANGED <<socket, member, playing, upstream, wire, queue, delivery, stored,
                  view, autoJoin, refs, mishap, left>>
  BY DEF vars, server, network
<1>2. (Joining' <=> Joining) /\ JoinsOnce' /\ (Misled' <=> Misled)
  BY <1>1, SameCommands DEF IInv
<1>3. /\ TypeOK' /\ InOrder' /\ SocketShown' /\ MisledShows' /\ NewIsEmpty'
      /\ LossForgets' /\ OpenShown'
  BY <1>1, <1>2 DEF IInv, TypeOK, InOrder, SocketShown, MisledShows, NewIsEmpty,
     LossForgets, OpenShown
<1>4. MemberIsTold' /\ AttemptKnown'
  BY <1>1, <1>2, SameWay DEF IInv, MemberIsTold, AttemptKnown
<1>5. QED
  BY <1>2, <1>3, <1>4 DEF IInv

-----------------------------------------------------------------------------
(* Every reachable state of a page whose timers are on time keeps the      *)
(* inductive invariant.                                                    *)
THEOREM Invariance == ASSUME TimersOnTime PROVE Spec => []IInv
<1>1. Init => IInv
  BY InitIInv
<1>2. IInv /\ [Next]_vars => IInv'
  <2> SUFFICES ASSUME IInv, [Next]_vars PROVE IInv'
    OBVIOUS
  <2>1. CASE Open
    BY <2>1, OpenKeeps
  <2>2. CASE Close
    BY <2>2, CloseKeeps
  <2>3. CASE Reconnect
    BY <2>3, ReconnectKeeps
  <2>4. CASE Receive
    BY <2>4, ReceiveKeeps
  <2>5. CASE Drain
    BY <2>5, DrainKeeps
  <2>6. CASE Render
    BY <2>6, RenderKeeps
  <2>7. CASE JoinRoom
    BY <2>7, JoinRoomKeeps
  <2>8. CASE StartGame
    BY <2>8, StartGameKeeps
  <2>9. CASE HandleJoin
    BY <2>9, HandleJoinKeeps
  <2>10. CASE HandleStart
    BY <2>10, HandleStartKeeps
  <2>11. CASE News
    BY <2>11, NewsKeeps
  <2>12. CASE UNCHANGED vars
    BY <2>12, StutterKeeps
  <2>13. QED
    BY <2>1, <2>2, <2>3, <2>4, <2>5, <2>6, <2>7, <2>8, <2>9, <2>10, <2>11, <2>12 DEF Next
<1>3. QED
  BY <1>1, <1>2, PTL DEF Spec

(* Every variable of the page keeps its type: a Join that waits for its    *)
(* answer is always one that has been tried.                               *)
THEOREM TypeCorrect == ASSUME TimersOnTime PROVE Spec => []TypeOK
<1>1. IInv => TypeOK
  BY DEF IInv
<1>2. QED
  BY <1>1, Invariance, PTL

(* For any number of losses, news and clicks: one connection joins once.   *)
THEOREM NoDoubleJoin == ASSUME TimersOnTime PROVE Spec => []JoinsOnce
<1>1. IInv => JoinsOnce
  BY DEF IInv
<1>2. QED
  BY <1>1, Invariance, PTL

(* A page at rest has nothing on its way, and what it shows is what is     *)
(* stored.                                                                 *)
LEMMA AtRest ==
  ASSUME IInv, Settled
  PROVE  /\ socket = "open" /\ view.shown = stored /\ stored.status = "connected"
         /\ \A m : ~OnItsWay(m) /\ ~Lists(upstream, m)
<1>1. /\ socket = "open" /\ view.shown = stored
      /\ delivery.sequence = view.sequence
      /\ upstream = <<>> /\ wire = <<>> /\ queue = <<>>
  BY DEF Settled, RenderDue
<1>2. \A m : ~OnItsWay(m) /\ ~Lists(upstream, m)
  BY <1>1, EmptyLists DEF OnItsWay, Undelivered
<1>3. QED
  BY <1>1, <1>2 DEF IInv, SocketShown, StatusOf

(* For any number of losses, news and clicks: a page at rest that shows a  *)
(* room is a member of it, unless a "joined" of a lost connection misled   *)
(* it.  What carries it over a reconnection is that the reset at the loss, *)
(* the queue and the next connection's Join are tied to one another.       *)
THEOREM RoomsAreTrue == ASSUME TimersOnTime PROVE Spec => []JoinedMeansMember
<1>1. IInv => JoinedMeansMember
  <2> SUFFICES ASSUME IInv, Settled, view.shown.table.room
               PROVE  member \/ mishap = "misled"
    BY DEF JoinedMeansMember
  <2>1. socket = "open" /\ stored.table.room
    BY AtRest
  <2>2. QED
    BY <2>1 DEF IInv, MemberIsTold, Misled
<1>2. QED
  BY <1>1, Invariance, PTL

(* For any number of losses, news and clicks: a page at rest that is to    *)
(* join has joined and shows it, unless its Join came to nothing or it is  *)
(* misled.                                                                 *)
THEOREM JoinersRest == ASSUME TimersOnTime PROVE Spec => []RestMeansJoined
<1>1. IInv => RestMeansJoined
  <2> SUFFICES ASSUME IInv, Settled, autoJoin, mishap = "none"
               PROVE  member /\ view.shown.table.room
    BY DEF RestMeansJoined
  <2>1. /\ socket = "open" /\ view.shown = stored /\ stored.status = "connected"
        /\ ~OnItsWay("joined") /\ ~Lists(upstream, "join")
    BY AtRest
  <2>2. member
    BY <2>1 DEF IInv, AttemptKnown, Joining, Misled
  <2>3. QED
    BY <2>1, <2>2 DEF IInv, MemberIsTold
<1>2. QED
  BY <1>1, Invariance, PTL
=============================================================================
