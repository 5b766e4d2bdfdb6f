--------------------------- MODULE GuandanRoomProofs ---------------------------
(***************************************************************************)
(* Theorems about GuandanRoom, for any finite set of connections, any      *)
(* names, and subscriptions of any length.                                 *)
(***************************************************************************)
EXTENDS GuandanRoom, FiniteSetTheorems, TLAPS

(* The state of the room is none or one, and one has a version.            *)
OneState == stored = {} \/ \E s \in State : stored = {s} /\ s.version > 0

(* TypeOK but for what the other parts say better.                         *)
Types ==
  /\ subs \subseteq Conns
  /\ queue \in [Conns -> Nat] /\ shown \in [Conns -> Nat]
  /\ connected \in [Names -> Int]
  /\ pc \in [Conns -> Steps] /\ after \in [Conns -> Steps]
  /\ name \in [Conns -> Names \cup {NoName}]
  /\ live \in [Conns -> BOOLEAN]

(* A handler that has committed the operation of Join and not yet looked   *)
(* whether its seat is still there.                                        *)
AtRecheck(c) ==
  pc[c] = "rechecking" \/ (pc[c] = "publishing" /\ after[c] = "rechecking")

(* A handler between the two ends of its subscription.                     *)
Subscribed(c) ==
  \/ pc[c] \in {"subscribed", "joined"}
  \/ pc[c] = "publishing" /\ after[c] = "joined"

SubsArePresent == \A c \in Conns : c \in subs <=> Subscribed(c)

(* Handlers know the name they work for, and one that publishes where to   *)
(* go on.                                                                  *)
HandlersKnow ==
  \A c \in Conns :
    /\ pc[c] \notin {"open", "gone", "publishing"} => name[c] \in Names
    /\ pc[c] = "publishing" =>
         /\ after[c] \in {"rechecking", "joined", "gone"}
         /\ after[c] # "gone" => name[c] \in Names

(* The connections a name is counted for.                                  *)
Counted(n) ==
  {c \in Present \cup {d \in Conns : pc[d] = "unsubscribed"} : name[c] = n}

(* A match goes on only with somebody subscribed, and a queue only waits   *)
(* for a match.                                                            *)
MatchIsWatched ==
  /\ Current.pending # {} => Current.started
  /\ Current.started => subs # {}

(* Seats nobody is subscribed for are held for somebody who is about to.   *)
Awaits(c) ==
  \/ pc[c] \in {"accepted", "registered"}
  \/ AtRecheck(c) /\ name[c] \in Current.players

SeatsAreAwaited ==
  Current.players # {} /\ subs = {} => \E c \in Conns : Awaits(c)

(* Whoever is subscribed has been shown no version that is still to come,  *)
(* and whoever is not, none.                                               *)
ShownIsPast ==
  \A c \in Conns : shown[c] <= IF c \in subs THEN Current.version ELSE 0

IInv ==
  /\ OneState /\ Types /\ HandlersKnow /\ SubsArePresent
  /\ ConnectionsCounted /\ MatchIsWatched /\ SeatsAreAwaited
  /\ ShownIsPast /\ NoMissedUpdate

-----------------------------------------------------------------------------
(* The state of the room.                                                  *)

LEMMA CurrentIsState ==
  ASSUME OneState
  PROVE  /\ Current \in State
         /\ stored = {} => Current = Fresh
         /\ \A s : stored = {s} => Current = s
<1>1. Fresh \in State
  BY DEF Fresh, State
<1>2. \A s : stored = {s} => Current = s
  BY DEF Current
<1>3. QED
  BY <1>1, <1>2 DEF OneState, Current

LEMMA OneToType ==
  ASSUME OneState
  PROVE  /\ stored \subseteq State /\ Cardinality(stored) <= 1
         /\ \A s \in stored : s.version > 0
<1>1. CASE stored = {}
  BY <1>1, FS_EmptySet
<1>2. CASE \E s \in State : stored = {s} /\ s.version > 0
  <2>1. PICK s \in State : stored = {s} /\ s.version > 0
    BY <1>2
  <2>2. Cardinality(stored) = 1
    BY <2>1, FS_Singleton
  <2>3. QED
    BY <2>1, <2>2
<1>3. QED
  BY <1>1, <1>2 DEF OneState

(* An operation leaves its state, one version on.                          *)
LEMMA CommitLeaves ==
  ASSUME OneState, NEW c, NEW step, NEW game \in State, Commit(c, game, step)
  PROVE  /\ OneState' /\ Current' \in State
         /\ Current'.version = Current.version + 1
         /\ Current'.started = game.started
         /\ Current'.players = game.players
         /\ Current'.pending = game.pending
<1> DEFINE s == [game EXCEPT !.version = Current.version + 1]
<1>1. Current \in State
  BY CurrentIsState
<1>2. /\ s \in State /\ s.version = Current.version + 1
      /\ s.started = game.started /\ s.players = game.players
      /\ s.pending = game.pending /\ s.version > 0
  BY <1>1 DEF State
<1>3. stored' = {s}
  BY DEF Commit, Raised
<1> HIDE DEF s
<1>4. Current' = s
  BY <1>3 DEF Current
<1>5. QED
  BY <1>2, <1>3, <1>4 DEF OneState

LEMMA SameState ==
  ASSUME UNCHANGED stored
  PROVE  Current' = Current /\ (OneState => OneState')
BY DEF Current, OneState

(* The counting of a name's connections.                                   *)
LEMMA CountedFinite ==
  ASSUME NEW n
  PROVE  /\ IsFiniteSet(Counted(n)) /\ Counted(n) \subseteq Conns
         /\ Cardinality(Counted(n)) \in 0 .. Cardinality(Conns)
<1>1. Counted(n) \subseteq Conns
  BY DEF Counted, Present
<1>2. /\ IsFiniteSet(Counted(n)) /\ Cardinality(Counted(n)) <= Cardinality(Conns)
  BY <1>1, ConnsAssumption, FS_Subset
<1>3. Cardinality(Counted(n)) \in Nat /\ Cardinality(Conns) \in Nat
  BY <1>2, ConnsAssumption, FS_CardinalityType
<1>4. QED
  BY <1>1, <1>2, <1>3

LEMMA CountedSame ==
  ASSUME ConnectionsCounted, UNCHANGED connected,
         \A n \in Names : Counted(n)' = Counted(n)
  PROVE  ConnectionsCounted'
BY DEF ConnectionsCounted, Counted

(* Steps that leave state and subscriptions alone.                         *)
LEMMA StateAlone ==
  ASSUME IInv, UNCHANGED <<stored, subs>>,
         \A d \in Conns : Awaits(d) => Awaits(d)'
  PROVE  OneState' /\ Current' = Current /\ MatchIsWatched' /\ SeatsAreAwaited'
<1>1. Current' = Current /\ OneState'
  BY SameState DEF IInv
<1>2. MatchIsWatched'
  BY <1>1 DEF IInv, MatchIsWatched
<1>3. SeatsAreAwaited'
  BY <1>1 DEF IInv, SeatsAreAwaited
<1>4. QED
  BY <1>1, <1>2, <1>3

(* What a forwarding task knows and has waiting does not change, and       *)
(* nobody who publishes stops: nobody is left behind.                      *)
LEMMA NetworkAlone ==
  ASSUME IInv, UNCHANGED <<stored, queue, shown>>,
         subs \subseteq subs', subs' \subseteq Conns,
         \A d \in Conns : pc[d] = "publishing" => pc'[d] = "publishing",
         \A d \in Conns : pc'[d] = "joined" => pc[d] = "joined" /\ (d \in subs' => d \in subs)
  PROVE  ShownIsPast' /\ NoMissedUpdate'
<1>1. Current' = Current /\ Current.version \in Nat
  BY SameState, CurrentIsState DEF IInv, State
<1>2. ShownIsPast'
  BY <1>1 DEF IInv, ShownIsPast, Types
<1>3. NoMissedUpdate'
  BY <1>1 DEF IInv, NoMissedUpdate, Types
<1>4. QED
  BY <1>2, <1>3

(* A commit raises the version, and its handler is about to publish.       *)
LEMMA CommitShown ==
  ASSUME IInv, NEW c \in Conns, NEW step, NEW game \in State,
         Commit(c, game, step), UNCHANGED network
  PROVE  ShownIsPast' /\ NoMissedUpdate'
<1>1. Current'.version = Current.version + 1 /\ Current.version \in Nat
  BY CommitLeaves, CurrentIsState DEF IInv, State
<1>2. \A d \in Conns : shown[d] \in Nat
  BY DEF IInv, Types
<1>3. ShownIsPast'
  BY <1>1, <1>2 DEF IInv, ShownIsPast, network
<1>4. pc'[c] = "publishing"
  BY DEF IInv, Types, Commit, Goto
<1>5. NoMissedUpdate'
  BY <1>4 DEF NoMissedUpdate
<1>6. QED
  BY <1>3, <1>5

LEMMA LookUpKeeps ==
  ASSUME IInv, NEW c \in Conns, NEW n \in Names, LookUp(c, n)
  PROVE  IInv'
<1> DEFINE step == IF n \in Current.players THEN "accepted" ELSE "unknown"
<1>1. /\ pc[c] = "open" /\ step \in {"accepted", "unknown"}
      /\ pc' = [pc EXCEPT ![c] = step] /\ name' = [name EXCEPT ![c] = n]
      /\ UNCHANGED <<stored, subs, queue, shown, connected, live, after>>
  BY DEF LookUp, Goto, network
<1> HIDE DEF step
<1>2. \A d \in Conns : /\ pc'[d] = IF d = c THEN step ELSE pc[d]
                       /\ name'[d] = IF d = c THEN n ELSE name[d]
  BY <1>1 DEF IInv, Types
<1>3. Types'
  BY <1>1 DEF IInv, Types, Steps
<1>4. HandlersKnow' /\ SubsArePresent'
  BY <1>1, <1>2 DEF IInv, HandlersKnow, SubsArePresent, Subscribed
<1>5. ConnectionsCounted'
  <2>1. \A m \in Names : Counted(m)' = Counted(m)
    BY <1>1, <1>2 DEF Counted, Present
  <2>2. QED
    BY <1>1, <2>1, CountedSame DEF IInv
<1>6. OneState' /\ MatchIsWatched' /\ SeatsAreAwaited'
  <2>1. Current' = Current
    BY <1>1, SameState
  <2>2. \A d \in Conns : Awaits(d) => Awaits(d)'
    BY <1>1, <1>2, <2>1 DEF Awaits, AtRecheck
  <2>3. QED
    BY <1>1, <2>2, StateAlone
<1>7. ShownIsPast' /\ NoMissedUpdate'
  BY <1>1, <1>2, NetworkAlone DEF IInv, Types
<1>8. QED
  BY <1>3, <1>4, <1>5, <1>6, <1>7 DEF IInv

(* A handler goes from one step to the next, and that is all.              *)
LEMMA StepKeeps ==
  ASSUME IInv, NEW c \in Conns, NEW step \in Steps \ {"publishing", "joined"},
         pc[c] \notin {"publishing", "joined"}, Goto(c, step),
         UNCHANGED <<stored, subs, queue, shown, connected, name, after>>,
         live' \in [Conns -> BOOLEAN],
         step \notin {"open", "gone"} => name[c] \in Names,
         Subscribed(c) <=> step = "subscribed",
         \A m \in Names : Counted(m)' = Counted(m),
         Awaits(c) => Awaits(c)'
  PROVE  IInv'
<1>1. \A d \in Conns : pc'[d] = IF d = c THEN step ELSE pc[d]
  BY DEF IInv, Types, Goto
<1>2. Types'
  BY DEF IInv, Types, Goto
<1>3. HandlersKnow' /\ SubsArePresent'
  BY <1>1 DEF IInv, HandlersKnow, SubsArePresent, Subscribed
<1>4. ConnectionsCounted'
  BY CountedSame DEF IInv
<1>5. OneState' /\ MatchIsWatched' /\ SeatsAreAwaited'
  <2>1. Current' = Current
    BY SameState
  <2>2. \A d \in Conns : Awaits(d) => Awaits(d)'
    BY <1>1, <2>1 DEF Awaits, AtRecheck
  <2>3. QED
    BY <2>2, StateAlone
<1>6. ShownIsPast' /\ NoMissedUpdate'
  BY <1>1, NetworkAlone DEF IInv, Types
<1>7. QED
  BY <1>2, <1>3, <1>4, <1>5, <1>6 DEF IInv

LEMMA CheckLiveKeeps ==
  ASSUME IInv, NEW c \in Conns, CheckLive(c)
  PROVE  IInv'
<1>1. /\ pc[c] = "unknown" /\ Goto(c, "entering")
      /\ UNCHANGED <<stored, subs, queue, shown, connected, name, after>>
      /\ live' \in [Conns -> BOOLEAN]
  BY DEF CheckLive, network, IInv, Types
<1>2. \A d \in Conns : pc'[d] = IF d = c THEN "entering" ELSE pc[d]
  BY <1>1 DEF IInv, Types, Goto
<1>3. \A m \in Names : Counted(m)' = Counted(m)
  BY <1>1, <1>2 DEF Counted, Present
<1>4. name[c] \in Names /\ ~Awaits(c) /\ ~Subscribed(c)
  BY <1>1 DEF IInv, HandlersKnow, Awaits, AtRecheck, Subscribed
<1>5. "entering" \in Steps \ {"publishing", "joined"}
  BY DEF Steps
<1>6. QED
  BY <1>1, <1>3, <1>4, <1>5, StepKeeps

LEMMA EnterKeeps ==
  ASSUME IInv, NEW c \in Conns, Enter(c)
  PROVE  IInv'
<1> DEFINE n == name[c]
           game == IF ~Current.started
                     THEN [Current EXCEPT !.players = @ \cup {n}]
                   ELSE IF live[c]
                     THEN [Current EXCEPT !.pending = @ \cup {n}]
                   ELSE [Fresh EXCEPT !.players = {n}]
<1>1. /\ pc[c] = "entering" /\ Commit(c, game, "rechecking")
      /\ UNCHANGED <<network, connected, name>>
      /\ live' \in [Conns -> BOOLEAN]
  BY DEF Enter, IInv, Types
<1>2. n \in Names
  BY <1>1 DEF IInv, HandlersKnow
<1>3. Current \in State /\ OneState
  BY CurrentIsState DEF IInv
<1>4. /\ game \in State
      /\ game.pending # {} => game.started
      /\ game.started => Current.started
      /\ n \in game.players \/ (Current.started /\ subs # {})
  <2>1. /\ Current.pending # {} => Current.started
        /\ Current.started => subs # {}
    BY DEF IInv, MatchIsWatched
  <2>2. Fresh \in State /\ Fresh.pending = {} /\ Fresh.started = FALSE
    BY DEF Fresh, State
  <2>3. CASE ~Current.started
    <3>1. game = [Current EXCEPT !.players = @ \cup {n}]
      BY <2>3
    <3>2. /\ game \in State /\ game.pending = Current.pending
          /\ game.started = Current.started /\ n \in game.players
      BY <1>2, <1>3, <3>1 DEF State
    <3> HIDE DEF game, n
    <3>3. QED
      BY <2>1, <2>3, <3>2
  <2>4. CASE Current.started /\ live[c]
    <3>1. game = [Current EXCEPT !.pending = @ \cup {n}]
      BY <2>4
    <3>2. game \in State /\ game.started = Current.started
      BY <1>2, <1>3, <3>1 DEF State
    <3> HIDE DEF game, n
    <3>3. QED
      BY <2>1, <2>4, <3>2
  <2>5. CASE Current.started /\ ~live[c]
    <3>1. game = [Fresh EXCEPT !.players = {n}]
      BY <2>5
    <3>2. /\ game \in State /\ game.pending = {}
          /\ game.started = FALSE /\ n \in game.players
      BY <1>2, <2>2, <3>1 DEF State
    <3> HIDE DEF game, n
    <3>3. QED
      BY <2>5, <3>2
  <2>6. QED
    BY <2>3, <2>4, <2>5
<1> HIDE DEF game, n
<1>5. /\ OneState' /\ Current'.started = game.started
      /\ Current'.players = game.players /\ Current'.pending = game.pending
  BY <1>1, <1>3, <1>4, CommitLeaves
<1>6. /\ \A d \in Conns : pc'[d] = IF d = c THEN "publishing" ELSE pc[d]
      /\ \A d \in Conns : after'[d] = IF d = c THEN "rechecking" ELSE after[d]
      /\ pc' \in [Conns -> Steps] /\ after' \in [Conns -> Steps]
      /\ UNCHANGED <<subs, queue, shown, connected, name>>
  BY <1>1 DEF IInv, Types, Commit, Goto, Steps, network
<1>7. Types'
  BY <1>1, <1>6 DEF IInv, Types
<1>8. HandlersKnow' /\ SubsArePresent'
  BY <1>1, <1>2, <1>6 DEF IInv, HandlersKnow, SubsArePresent, Subscribed, n
<1>9. ConnectionsCounted'
  <2>1. \A m \in Names : Counted(m)' = Counted(m)
    BY <1>1, <1>6 DEF Counted, Present
  <2>2. QED
    BY <1>6, <2>1, CountedSame DEF IInv
<1>10. MatchIsWatched'
  BY <1>4, <1>5, <1>6 DEF IInv, MatchIsWatched
<1>11. SeatsAreAwaited'
  <2>1. AtRecheck(c)'
    BY <1>6 DEF AtRecheck
  <2>2. QED
    BY <1>4, <1>5, <1>6, <2>1 DEF SeatsAreAwaited, Awaits, n
<1>12. ShownIsPast' /\ NoMissedUpdate'
  BY <1>1, <1>4, CommitShown
<1>13. QED
  BY <1>5, <1>7, <1>8, <1>9, <1>10, <1>11, <1>12 DEF IInv

LEMMA RecheckKeeps ==
  ASSUME IInv, NEW c \in Conns, Recheck(c)
  PROVE  IInv'
<1>1. /\ pc[c] = "rechecking"
      /\ UNCHANGED <<stored, subs, queue, shown, connected, live, after>>
  BY DEF Recheck, network
<1>2. name[c] \in Names /\ ~Subscribed(c)
  BY <1>1 DEF IInv, HandlersKnow, Subscribed
<1>3. CASE name[c] \in Current.players \cup Current.pending
  <2>1. Goto(c, "accepted") /\ UNCHANGED name
    BY <1>3 DEF Recheck
  <2>2. \A d \in Conns : pc'[d] = IF d = c THEN "accepted" ELSE pc[d]
    BY <2>1 DEF IInv, Types, Goto
  <2>3. \A m \in Names : Counted(m)' = Counted(m)
    BY <1>1, <2>1, <2>2 DEF Counted, Present
  <2>4. Awaits(c)'
    BY <2>2 DEF Awaits
  <2>5. "accepted" \in Steps \ {"publishing", "joined"} /\ live' \in [Conns -> BOOLEAN]
    BY <1>1 DEF Steps, IInv, Types
  <2>6. QED
    BY <1>1, <1>2, <2>1, <2>3, <2>4, <2>5, StepKeeps
<1>4. CASE name[c] \notin Current.players \cup Current.pending
  <2>1. Goto(c, "open") /\ name' = [name EXCEPT ![c] = NoName]
    BY <1>4 DEF Recheck
  <2>2. \A d \in Conns : /\ pc'[d] = IF d = c THEN "open" ELSE pc[d]
                         /\ name'[d] = IF d = c THEN NoName ELSE name[d]
    BY <2>1 DEF IInv, Types, Goto
  <2>3. Types'
    BY <1>1, <2>1 DEF IInv, Types, Goto, Steps
  <2>4. HandlersKnow' /\ SubsArePresent'
    BY <1>1, <2>2 DEF IInv, HandlersKnow, SubsArePresent, Subscribed
  <2>5. ConnectionsCounted'
    <3>1. \A m \in Names : Counted(m)' = Counted(m)
      BY <1>1, <2>2 DEF Counted, Present
    <3>2. QED
      BY <1>1, <3>1, CountedSame DEF IInv
  <2>6. OneState' /\ MatchIsWatched' /\ SeatsAreAwaited'
    <3>1. Current' = Current
      BY <1>1, SameState
    <3>2. ~Awaits(c)
      BY <1>1, <1>4 DEF Awaits, AtRecheck
    <3>3. \A d \in Conns : Awaits(d) => Awaits(d)'
      BY <1>1, <2>2, <3>1, <3>2 DEF Awaits, AtRecheck
    <3>4. QED
      BY <1>1, <3>3, StateAlone
  <2>7. ShownIsPast' /\ NoMissedUpdate'
    BY <1>1, <2>2, NetworkAlone DEF IInv, Types
  <2>8. QED
    BY <2>3, <2>4, <2>5, <2>6, <2>7 DEF IInv
<1>5. QED
  BY <1>3, <1>4

LEMMA RegisterKeeps ==
  ASSUME IInv, NEW c \in Conns, Register(c)
  PROVE  IInv'
<1>1. /\ pc[c] = "accepted" /\ Goto(c, "registered")
      /\ connected' = [connected EXCEPT ![name[c]] = @ + 1]
      /\ UNCHANGED <<stored, subs, queue, shown, name, live, after>>
  BY DEF Register, network
<1>2. \A d \in Conns : pc'[d] = IF d = c THEN "registered" ELSE pc[d]
  BY <1>1 DEF IInv, Types, Goto
<1>3. name[c] \in Names
  BY <1>1 DEF IInv, HandlersKnow
<1>4. Types'
  BY <1>1, <1>3 DEF IInv, Types, Goto, Steps
<1>5. HandlersKnow' /\ SubsArePresent'
  BY <1>1, <1>2 DEF IInv, HandlersKnow, SubsArePresent, Subscribed
<1>6. ConnectionsCounted'
  <2> SUFFICES ASSUME NEW m \in Names
               PROVE  connected'[m] = Cardinality(Counted(m)')
    BY DEF ConnectionsCounted, Counted
  <2>1. connected[m] = Cardinality(Counted(m)) /\ connected[m] \in Int
    BY DEF IInv, ConnectionsCounted, Counted, Types
  <2>2. CASE m = name[c]
    <3>1. Counted(m)' = Counted(m) \cup {c} /\ c \notin Counted(m)
      BY <1>1, <1>2, <2>2 DEF Counted, Present
    <3>2. Cardinality(Counted(m) \cup {c}) = Cardinality(Counted(m)) + 1
      BY <3>1, CountedFinite, FS_AddElement
    <3>3. connected'[m] = connected[m] + 1
      BY <1>1, <2>2 DEF IInv, Types
    <3>4. QED
      BY <2>1, <3>1, <3>2, <3>3
  <2>3. CASE m # name[c]
    <3>1. Counted(m)' = Counted(m)
      BY <1>1, <1>2, <2>3 DEF Counted, Present
    <3>2. connected'[m] = connected[m]
      BY <1>1, <2>3 DEF IInv, Types
    <3>3. QED
      BY <2>1, <3>1, <3>2
  <2>4. QED
    BY <2>2, <2>3
<1>7. OneState' /\ MatchIsWatched' /\ SeatsAreAwaited'
  <2>1. Current' = Current
    BY <1>1, SameState
  <2>2. \A d \in Conns : Awaits(d) => Awaits(d)'
    BY <1>1, <1>2, <2>1 DEF Awaits, AtRecheck
  <2>3. QED
    BY <1>1, <2>2, StateAlone
<1>8. ShownIsPast' /\ NoMissedUpdate'
  BY <1>1, <1>2, NetworkAlone DEF IInv, Types
<1>9. QED
  BY <1>4, <1>5, <1>6, <1>7, <1>8 DEF IInv

LEMMA SubscribeKeeps ==
  ASSUME IInv, NEW c \in Conns, Subscribe(c)
  PROVE  IInv'
<1>1. /\ pc[c] = "registered" /\ Goto(c, "subscribed") /\ subs' = subs \cup {c}
      /\ UNCHANGED <<stored, queue, shown, connected, name, live, after>>
  BY DEF Subscribe
<1>2. \A d \in Conns : pc'[d] = IF d = c THEN "subscribed" ELSE pc[d]
  BY <1>1 DEF IInv, Types, Goto
<1>3. Types'
  BY <1>1 DEF IInv, Types, Goto, Steps
<1>4. HandlersKnow' /\ SubsArePresent'
  BY <1>1, <1>2 DEF IInv, HandlersKnow, SubsArePresent, Subscribed
<1>5. ConnectionsCounted'
  <2>1. \A m \in Names : Counted(m)' = Counted(m)
    BY <1>1, <1>2 DEF Counted, Present
  <2>2. QED
    BY <1>1, <2>1, CountedSame DEF IInv
<1>6. OneState' /\ MatchIsWatched' /\ SeatsAreAwaited'
  <2>1. Current' = Current /\ OneState'
    BY <1>1, SameState DEF IInv
  <2>2. QED
    BY <1>1, <2>1 DEF IInv, MatchIsWatched, SeatsAreAwaited
<1>7. ShownIsPast' /\ NoMissedUpdate'
  BY <1>1, <1>2, NetworkAlone DEF IInv, Types
<1>8. QED
  BY <1>3, <1>4, <1>5, <1>6, <1>7 DEF IInv

(* A joined handler's own operation: Announce, and what it does after.     *)
LEMMA OperationKeeps ==
  ASSUME IInv, NEW c \in Conns, NEW game \in State,
         Subscribed(c), pc[c] # "publishing", Commit(c, game, "joined"),
         UNCHANGED <<network, connected, name, live>>,
         game.players = Current.players, game.pending = Current.pending,
         game.started = Current.started \/ (game.started /\ subs # {})
  PROVE  IInv'
<1>1. Current \in State /\ OneState
  BY CurrentIsState DEF IInv
<1>2. /\ OneState' /\ Current'.started = game.started
      /\ Current'.players = game.players /\ Current'.pending = game.pending
  BY <1>1, CommitLeaves
<1>3. /\ \A d \in Conns : pc'[d] = IF d = c THEN "publishing" ELSE pc[d]
      /\ \A d \in Conns : after'[d] = IF d = c THEN "joined" ELSE after[d]
      /\ pc' \in [Conns -> Steps] /\ after' \in [Conns -> Steps]
      /\ UNCHANGED <<subs, queue, shown, connected, name, live>>
  BY DEF IInv, Types, Commit, Goto, Steps, network
<1>4. Types'
  BY <1>3 DEF IInv, Types
<1>5. HandlersKnow' /\ SubsArePresent'
  BY <1>3 DEF IInv, HandlersKnow, SubsArePresent, Subscribed
<1>6. ConnectionsCounted'
  <2>1. \A m \in Names : Counted(m)' = Counted(m)
    BY <1>3 DEF Counted, Present, Subscribed
  <2>2. QED
    BY <1>3, <2>1, CountedSame DEF IInv
<1>7. subs # {}
  BY DEF IInv, SubsArePresent
<1>8. MatchIsWatched' /\ SeatsAreAwaited'
  BY <1>2, <1>3, <1>7 DEF IInv, MatchIsWatched, SeatsAreAwaited
<1>9. ShownIsPast' /\ NoMissedUpdate'
  BY CommitShown
<1>10. QED
  BY <1>2, <1>4, <1>5, <1>6, <1>8, <1>9 DEF IInv

LEMMA AnnounceKeeps ==
  ASSUME IInv, NEW c \in Conns, Announce(c)
  PROVE  IInv'
<1>1. /\ pc[c] = "subscribed" /\ Commit(c, Current, "joined")
      /\ UNCHANGED <<network, connected, name, live>>
  BY DEF Announce
<1>2. Subscribed(c) /\ Current \in State
  BY <1>1, CurrentIsState DEF Subscribed, IInv
<1>3. QED
  BY <1>1, <1>2, OperationKeeps

LEMMA StartKeeps ==
  ASSUME IInv, NEW c \in Conns, Start(c)
  PROVE  IInv'
<1> DEFINE game == [Current EXCEPT !.started = TRUE]
<1>1. /\ pc[c] = "joined" /\ Commit(c, game, "joined")
      /\ UNCHANGED <<network, connected, name, live>>
  BY DEF Start
<1>2. Subscribed(c) /\ subs # {} /\ Current \in State
  BY <1>1, CurrentIsState DEF Subscribed, IInv, SubsArePresent
<1>3. /\ game \in State /\ game.players = Current.players
      /\ game.pending = Current.pending /\ game.started
  BY <1>2 DEF State
<1> HIDE DEF game
<1>4. QED
  BY <1>1, <1>2, <1>3, OperationKeeps

LEMMA PublishKeeps ==
  ASSUME IInv, NEW c \in Conns, Publish(c)
  PROVE  IInv'
<1>1. /\ pc[c] = "publishing" /\ Goto(c, after[c]) /\ Notify(c)
      /\ after' = [after EXCEPT ![c] = "open"]
      /\ UNCHANGED <<stored, subs, shown, connected, name, live>>
  BY DEF Publish
<1>2. after[c] \in {"rechecking", "joined", "gone"}
  BY <1>1 DEF IInv, HandlersKnow
<1>3. /\ \A d \in Conns : pc'[d] = IF d = c THEN after[c] ELSE pc[d]
      /\ \A d \in Conns : after'[d] = IF d = c THEN "open" ELSE after[d]
  BY <1>1 DEF IInv, Types, Goto
<1>4. /\ \A d \in Conns : queue'[d] = IF d \in subs THEN queue[d] + 1 ELSE queue[d]
      /\ queue' \in [Conns -> Nat]
  BY <1>1 DEF IInv, Types, Notify
<1>5. Types'
  BY <1>1, <1>4 DEF IInv, Types, Goto, Steps
<1>6. HandlersKnow' /\ SubsArePresent'
  BY <1>1, <1>2, <1>3 DEF IInv, HandlersKnow, SubsArePresent, Subscribed
<1>7. ConnectionsCounted'
  <2>1. \A m \in Names : Counted(m)' = Counted(m)
    BY <1>1, <1>2, <1>3 DEF Counted, Present
  <2>2. QED
    BY <1>1, <2>1, CountedSame DEF IInv
<1>8. OneState' /\ Current' = Current /\ MatchIsWatched' /\ SeatsAreAwaited'
  <2>1. Current' = Current
    BY <1>1, SameState
  <2>2. \A d \in Conns : Awaits(d) => Awaits(d)'
    BY <1>1, <1>2, <1>3, <2>1 DEF Awaits, AtRecheck
  <2>3. QED
    BY <1>1, <2>2, StateAlone
<1>9. ShownIsPast'
  BY <1>1, <1>8 DEF IInv, ShownIsPast
<1>10. NoMissedUpdate'
  <2>1. \A d \in subs' : queue'[d] > 0
    BY <1>1, <1>4 DEF IInv, Types
  <2>2. QED
    BY <2>1 DEF NoMissedUpdate
<1>11. QED
  BY <1>5, <1>6, <1>7, <1>8, <1>9, <1>10 DEF IInv

LEMMA ForwardKeeps ==
  ASSUME IInv, NEW c \in Conns, Forward(c)
  PROVE  IInv'
<1>1. /\ c \in subs /\ queue[c] > 0
      /\ queue' = [queue EXCEPT ![c] = @ - 1]
      /\ shown' = [shown EXCEPT ![c] = Current.version]
      /\ UNCHANGED <<stored, subs, connected, pc, name, live, after>>
  BY DEF Forward
<1>2. Current' = Current /\ OneState' /\ Current.version \in Nat
  BY <1>1, SameState, CurrentIsState DEF IInv, State
<1>3. /\ \A d \in Conns : /\ shown'[d] = IF d = c THEN Current.version ELSE shown[d]
                          /\ d # c => queue'[d] = queue[d]
      /\ queue' \in [Conns -> Nat]
  BY <1>1 DEF IInv, Types
<1>4. Types'
  BY <1>1, <1>2, <1>3 DEF IInv, Types
<1>5. HandlersKnow' /\ SubsArePresent'
  BY <1>1 DEF IInv, HandlersKnow, SubsArePresent, Subscribed
<1>6. ConnectionsCounted'
  <2>1. \A m \in Names : Counted(m)' = Counted(m)
    BY <1>1 DEF Counted, Present
  <2>2. QED
    BY <1>1, <2>1, CountedSame DEF IInv
<1>7. MatchIsWatched' /\ SeatsAreAwaited'
  BY <1>1, <1>2 DEF IInv, MatchIsWatched, SeatsAreAwaited, Awaits, AtRecheck
<1>8. ShownIsPast'
  BY <1>1, <1>2, <1>3 DEF IInv, ShownIsPast
<1>9. NoMissedUpdate'
  <2> SUFFICES ASSUME NEW d \in subs, pc[d] = "joined", shown'[d] < Current.version
               PROVE  queue'[d] > 0 \/ \E e \in Conns : pc[e] = "publishing"
    BY <1>1, <1>2 DEF NoMissedUpdate
  <2>1. d \in Conns
    BY DEF IInv, Types
  <2>2. d # c
    BY <1>2, <1>3, <2>1
  <2>3. shown[d] < Current.version /\ queue'[d] = queue[d]
    BY <1>3, <2>1, <2>2
  <2>4. QED
    BY <2>3 DEF IInv, NoMissedUpdate
<1>10. QED
  BY <1>2, <1>4, <1>5, <1>6, <1>7, <1>8, <1>9 DEF IInv

LEMMA UnsubscribeKeeps ==
  ASSUME IInv, NEW c \in Conns, Unsubscribe(c)
  PROVE  IInv'
<1>1. /\ pc[c] = "joined" /\ subs' = subs \ {c} /\ Goto(c, "unsubscribed")
      /\ stored' = IF subs' = {} THEN {} ELSE stored
      /\ queue' = [queue EXCEPT ![c] = 0] /\ shown' = [shown EXCEPT ![c] = 0]
      /\ UNCHANGED <<connected, name, live, after>>
  BY DEF Unsubscribe, DropWhenLast
<1>2. \A d \in Conns :
        /\ pc'[d] = IF d = c THEN "unsubscribed" ELSE pc[d]
        /\ shown'[d] = IF d = c THEN 0 ELSE shown[d]
        /\ queue'[d] = IF d = c THEN 0 ELSE queue[d]
  BY <1>1 DEF IInv, Types, Goto
<1>3. Types'
  BY <1>1 DEF IInv, Types, Goto, Steps
<1>4. HandlersKnow' /\ SubsArePresent'
  BY <1>1, <1>2 DEF IInv, HandlersKnow, SubsArePresent, Subscribed
<1>5. ConnectionsCounted'
  <2>1. \A m \in Names : Counted(m)' = Counted(m)
    BY <1>1, <1>2 DEF Counted, Present
  <2>2. QED
    BY <1>1, <2>1, CountedSame DEF IInv
<1>6. CASE subs' = {}
  <2>1. stored' = {} /\ OneState'
    BY <1>1, <1>6 DEF OneState
  <2>2. Current' = Fresh
    BY <2>1 DEF Current
  <2>3. MatchIsWatched' /\ SeatsAreAwaited'
    BY <2>2 DEF MatchIsWatched, SeatsAreAwaited, Fresh
  <2>4. ShownIsPast' /\ NoMissedUpdate'
    BY <1>1, <1>2, <1>6 DEF IInv, Types, ShownIsPast, NoMissedUpdate
  <2>5. QED
    BY <1>3, <1>4, <1>5, <2>1, <2>3, <2>4 DEF IInv
<1>7. CASE subs' # {}
  <2>1. OneState' /\ Current' = Current /\ Current.version \in Nat
    BY <1>1, <1>7, SameState, CurrentIsState DEF IInv, State
  <2>2. MatchIsWatched' /\ SeatsAreAwaited'
    BY <1>1, <1>7, <2>1 DEF IInv, MatchIsWatched, SeatsAreAwaited
  <2>3. ShownIsPast'
    BY <1>1, <1>2, <2>1 DEF IInv, Types, ShownIsPast
  <2>4. NoMissedUpdate'
    BY <1>1, <1>2, <2>1 DEF IInv, Types, NoMissedUpdate
  <2>5. QED
    BY <1>3, <1>4, <1>5, <2>1, <2>2, <2>3, <2>4 DEF IInv
<1>8. QED
  BY <1>6, <1>7

LEMMA DeregisterKeeps ==
  ASSUME IInv, NEW c \in Conns, Deregister(c)
  PROVE  IInv'
<1>1. /\ pc[c] = "unsubscribed" /\ Goto(c, "deregistered")
      /\ connected' = [connected EXCEPT ![name[c]] = @ - 1]
      /\ UNCHANGED <<stored, subs, queue, shown, name, live, after>>
  BY DEF Deregister, Fewer, network
<1>2. \A d \in Conns : pc'[d] = IF d = c THEN "deregistered" ELSE pc[d]
  BY <1>1 DEF IInv, Types, Goto
<1>3. name[c] \in Names
  BY <1>1 DEF IInv, HandlersKnow
<1>4. Types'
  BY <1>1, <1>3 DEF IInv, Types, Goto, Steps
<1>5. HandlersKnow' /\ SubsArePresent'
  BY <1>1, <1>2 DEF IInv, HandlersKnow, SubsArePresent, Subscribed
<1>6. ConnectionsCounted'
  <2> SUFFICES ASSUME NEW m \in Names
               PROVE  connected'[m] = Cardinality(Counted(m)')
    BY DEF ConnectionsCounted, Counted
  <2>1. connected[m] = Cardinality(Counted(m)) /\ connected[m] \in Int
    BY DEF IInv, ConnectionsCounted, Counted, Types
  <2>2. CASE m = name[c]
    <3>1. Counted(m)' = Counted(m) \ {c} /\ c \in Counted(m)
      BY <1>1, <1>2, <2>2 DEF Counted, Present
    <3>2. Cardinality(Counted(m) \ {c}) = Cardinality(Counted(m)) - 1
      BY <3>1, CountedFinite, FS_RemoveElement
    <3>3. connected'[m] = connected[m] - 1
      BY <1>1, <2>2 DEF IInv, Types
    <3>4. QED
      BY <2>1, <3>1, <3>2, <3>3
  <2>3. CASE m # name[c]
    <3>1. Counted(m)' = Counted(m)
      BY <1>1, <1>2, <2>3 DEF Counted, Present
    <3>2. connected'[m] = connected[m]
      BY <1>1, <2>3 DEF IInv, Types
    <3>3. QED
      BY <2>1, <3>1, <3>2
  <2>4. QED
    BY <2>2, <2>3
<1>7. OneState' /\ MatchIsWatched' /\ SeatsAreAwaited'
  <2>1. Current' = Current
    BY <1>1, SameState
  <2>2. \A d \in Conns : Awaits(d) => Awaits(d)'
    BY <1>1, <1>2, <2>1 DEF Awaits, AtRecheck
  <2>3. QED
    BY <1>1, <2>2, StateAlone
<1>8. ShownIsPast' /\ NoMissedUpdate'
  BY <1>1, <1>2, NetworkAlone DEF IInv, Types
<1>9. QED
  BY <1>4, <1>5, <1>6, <1>7, <1>8 DEF IInv

LEMMA FarewellKeeps ==
  ASSUME IInv, NEW c \in Conns, Farewell(c)
  PROVE  IInv'
<1> DEFINE game == [Current EXCEPT !.pending = @ \ {name[c]}]
<1>1. /\ pc[c] = "deregistered" /\ Commit(c, game, "gone")
      /\ name' = [name EXCEPT ![c] = NoName]
      /\ UNCHANGED <<network, connected, live>>
  BY DEF Farewell
<1>2. Current \in State /\ OneState
  BY CurrentIsState DEF IInv
<1>3. /\ game \in State /\ game.players = Current.players
      /\ game.started = Current.started /\ game.pending \subseteq Current.pending
  BY <1>2 DEF State
<1> HIDE DEF game
<1>4. /\ OneState' /\ Current'.started = game.started
      /\ Current'.players = game.players /\ Current'.pending = game.pending
  BY <1>1, <1>2, <1>3, CommitLeaves
<1>5. /\ \A d \in Conns : pc'[d] = IF d = c THEN "publishing" ELSE pc[d]
      /\ \A d \in Conns : after'[d] = IF d = c THEN "gone" ELSE after[d]
      /\ \A d \in Conns : name'[d] = IF d = c THEN NoName ELSE name[d]
      /\ pc' \in [Conns -> Steps] /\ after' \in [Conns -> Steps]
      /\ UNCHANGED <<subs, queue, shown, connected, live>>
  BY <1>1 DEF IInv, Types, Commit, Goto, Steps, network
<1>6. Types'
  BY <1>1, <1>5 DEF IInv, Types
<1>7. HandlersKnow' /\ SubsArePresent'
  BY <1>1, <1>5 DEF IInv, HandlersKnow, SubsArePresent, Subscribed
<1>8. ConnectionsCounted'
  <2>1. \A m \in Names : Counted(m)' = Counted(m)
    BY <1>1, <1>5 DEF Counted, Present
  <2>2. QED
    BY <1>5, <2>1, CountedSame DEF IInv
<1>9. MatchIsWatched'
  BY <1>3, <1>4, <1>5 DEF IInv, MatchIsWatched
<1>10. SeatsAreAwaited'
  <2>1. \A d \in Conns : Awaits(d) => Awaits(d)'
    BY <1>1, <1>3, <1>4, <1>5 DEF Awaits, AtRecheck
  <2>2. QED
    BY <1>3, <1>4, <1>5, <2>1 DEF IInv, SeatsAreAwaited
<1>11. ShownIsPast' /\ NoMissedUpdate'
  BY <1>1, <1>3, CommitShown
<1>12. QED
  BY <1>4, <1>6, <1>7, <1>8, <1>9, <1>10, <1>11 DEF IInv

-----------------------------------------------------------------------------
LEMMA InitIInv == ASSUME Init PROVE IInv
<1>1. /\ stored = {} /\ subs = {} /\ queue = [c \in Conns |-> 0]
      /\ shown = [c \in Conns |-> 0] /\ connected = [n \in Names |-> 0]
      /\ pc = [c \in Conns |-> "open"] /\ name = [c \in Conns |-> NoName]
      /\ live = [c \in Conns |-> FALSE] /\ after = [c \in Conns |-> "open"]
  BY DEF Init
<1>2. Current = Fresh
  BY <1>1 DEF Current
<1>3. OneState /\ Types /\ HandlersKnow /\ SubsArePresent
  BY <1>1 DEF OneState, Types, HandlersKnow, SubsArePresent, Subscribed, Steps
<1>4. ConnectionsCounted
  <2>1. \A n \in Names : Counted(n) = {}
    BY <1>1 DEF Counted, Present
  <2>2. QED
    BY <1>1, <2>1, FS_EmptySet DEF ConnectionsCounted, Counted
<1>5. MatchIsWatched /\ SeatsAreAwaited
  BY <1>2 DEF MatchIsWatched, SeatsAreAwaited, Fresh
<1>6. ShownIsPast /\ NoMissedUpdate
  BY <1>1 DEF ShownIsPast, NoMissedUpdate
<1>7. QED
  BY <1>3, <1>4, <1>5, <1>6 DEF IInv

LEMMA StutterKeeps == ASSUME IInv, UNCHANGED vars PROVE IInv'
<1>1. UNCHANGED <<stored, subs, queue, shown, connected, pc, name, live, after>>
  BY DEF vars, network
<1>2. Current' = Current /\ OneState'
  BY <1>1, SameState DEF IInv
<1>3. Types' /\ HandlersKnow' /\ SubsArePresent'
  BY <1>1 DEF IInv, Types, HandlersKnow, SubsArePresent, Subscribed
<1>4. ConnectionsCounted'
  BY <1>1 DEF IInv, ConnectionsCounted, Present
<1>5. MatchIsWatched' /\ SeatsAreAwaited'
  BY <1>1, <1>2 DEF IInv, MatchIsWatched, SeatsAreAwaited, Awaits, AtRecheck
<1>6. ShownIsPast' /\ NoMissedUpdate'
  BY <1>1, <1>2 DEF IInv, ShownIsPast, NoMissedUpdate
<1>7. QED
  BY <1>2, <1>3, <1>4, <1>5, <1>6 DEF IInv

(* The strengthening is inductive: it holds from the start and every step  *)
(* of a handler, a forwarding task or a client keeps it.                   *)
THEOREM Invariance == Spec => []IInv
<1>1. Init => IInv
  BY InitIInv
<1>2. ASSUME IInv, [Next]_vars PROVE IInv'
  <2>1. CASE UNCHANGED vars
    BY <1>2, <2>1, StutterKeeps
  <2>2. ASSUME NEW c \in Conns,
               \/ \E n \in Names : LookUp(c, n)
               \/ CheckLive(c) \/ Enter(c) \/ Recheck(c) \/ Register(c) \/ Subscribe(c)
               \/ Announce(c) \/ Publish(c)
               \/ Start(c) \/ Forward(c)
               \/ Unsubscribe(c) \/ Deregister(c) \/ Farewell(c)
        PROVE  IInv'
    BY <1>2, <2>2, LookUpKeeps, CheckLiveKeeps, EnterKeeps, RecheckKeeps, RegisterKeeps,
       SubscribeKeeps, AnnounceKeeps, PublishKeeps, StartKeeps, ForwardKeeps,
       UnsubscribeKeeps, DeregisterKeeps, FarewellKeeps
  <2>3. QED
    BY <1>2, <2>1, <2>2 DEF Next
<1>3. QED
  BY <1>1, <1>2, PTL DEF Spec

LEMMA TypesFollow == ASSUME IInv PROVE TypeOK
<1>1. /\ stored \subseteq State /\ Cardinality(stored) <= 1
      /\ \A s \in stored : s.version > 0
  BY OneToType DEF IInv
<1>2. connected \in [Names -> 0 .. Cardinality(Conns)]
  <2>1. \A n \in Names : connected[n] \in 0 .. Cardinality(Conns)
    BY CountedFinite DEF IInv, ConnectionsCounted, Counted
  <2>2. QED
    BY <2>1 DEF IInv, Types
<1>3. QED
  BY <1>1, <1>2 DEF TypeOK, IInv, Types

(* Every variable has its type in every reachable state: in particular no  *)
(* name is ever counted for more connections than there are, or for fewer  *)
(* than none, so that set_connected's subtraction never has to stop at 0.  *)
THEOREM TypeCorrect == Spec => []TypeOK
<1>1. IInv => TypeOK
  BY TypesFollow
<1>2. QED
  BY <1>1, Invariance, PTL

(* Commit and publication are two steps, and a forwarding task reads the   *)
(* state after it has taken its notification: no joined client is left     *)
(* with an older state for good.                                           *)
THEOREM NobodyLeftBehind == Spec => []NoMissedUpdate
<1>1. IInv => NoMissedUpdate
  BY DEF IInv
<1>2. QED
  BY <1>1, Invariance, PTL

(* GUANDAN_CONNECTIONS agrees with the handlers, and when all of them are  *)
(* gone neither a seat nor a queue nor a game is left in the storage.      *)
THEOREM PresenceTrue == Spec => []PresenceExact
<1>1. ASSUME IInv PROVE PresenceExact
  <2>1. ASSUME \A c \in Conns : pc[c] \in {"open", "gone"}
        PROVE  Current.players = {} /\ Current.pending = {} /\ ~Current.started
    <3>1. \A c \in Conns : ~Subscribed(c) /\ ~Awaits(c)
      BY <2>1 DEF Subscribed, Awaits, AtRecheck
    <3>2. subs = {}
      BY <3>1, <1>1 DEF IInv, Types, SubsArePresent
    <3>3. QED
      BY <1>1, <3>1, <3>2 DEF IInv, MatchIsWatched, SeatsAreAwaited
  <2>2. QED
    BY <1>1, <2>1 DEF IInv, PresenceExact, AbandonedRoomEmpty
<1>2. QED
  BY <1>1, Invariance, PTL

(* No client sees the game go back: what a forwarding task sends is never  *)
(* older than what it has sent, although the state may be dropped and      *)
(* begun anew while others come and go.                                    *)
THEOREM NeverBackwards == Spec => ViewsGoForward
<1>1. ASSUME IInv, [Next]_vars
      PROVE  [\A c \in subs : c \in subs' => shown'[c] >= shown[c]]_vars
  <2> SUFFICES ASSUME NEW d \in subs, d \in subs', Next
               PROVE  shown'[d] >= shown[d]
    BY <1>1
  <2>1. d \in Conns /\ shown \in [Conns -> Nat]
    BY <1>1 DEF IInv, Types
  <2>2. PICK c \in Conns :
          \/ \E n \in Names : LookUp(c, n)
          \/ CheckLive(c) \/ Enter(c) \/ Recheck(c) \/ Register(c) \/ Subscribe(c)
          \/ Announce(c) \/ Publish(c)
          \/ Start(c) \/ Forward(c)
          \/ Unsubscribe(c) \/ Deregister(c) \/ Farewell(c)
    BY DEF Next
  <2>3. CASE Forward(c)
    <3>1. shown' = [shown EXCEPT ![c] = Current.version]
      BY <2>3 DEF Forward
    <3>2. shown[d] <= Current.version /\ Current.version \in Nat
      BY <1>1, <2>1, CurrentIsState DEF IInv, ShownIsPast, State
    <3>3. QED
      BY <2>1, <3>1, <3>2
  <2>4. CASE Unsubscribe(c)
    <3>1. shown' = [shown EXCEPT ![c] = 0] /\ c \notin subs'
      BY <2>4 DEF Unsubscribe
    <3>2. QED
      BY <2>1, <3>1
  <2>5. CASE UNCHANGED shown
    BY <2>1, <2>5
  <2>6. QED
    BY <2>2, <2>3, <2>4, <2>5
       DEF LookUp, CheckLive, Enter, Recheck, Register, Subscribe, Announce, Publish,
           Start, Deregister, Farewell, network
<1>2. QED
  BY <1>1, Invariance, PTL DEF Spec, ViewsGoForward
=============================================================================
