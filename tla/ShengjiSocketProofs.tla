-------------------------- MODULE ShengjiSocketProofs -------------------------
(***************************************************************************)
(* Theorems about ShengjiSocket, for any number of commands and news: the  *)
(* newest state ends up on show, and no alarm is raised over a command     *)
(* that something has arrived after.                                       *)
(***************************************************************************)
EXTENDS ShengjiSocket, TLAPS

(* Messages of a queue that carry a state, and the version of the last.    *)
States(q)   == {i \in DOMAIN q : q[i].kind = "state"}
EndsAt(q, v) == \E i \in States(q) : q[i].version = v /\ \A j \in States(q) : j <= i

(* The newest state is the last one on its way, or the one stored: where   *)
(* the way is wire, blobs, the blob being read, in the order from the end. *)
NewestLast ==
  socket = "open" =>
    IF States(wire) # {} THEN EndsAt(wire, game)
    ELSE IF States(blobs) # {} THEN EndsAt(blobs, game)
    ELSE IF reading.kind = "state" THEN reading.version = game
    ELSE stored.game = game

(* Blobs wait only behind one that is being read.                          *)
ReadFirst == blobs # <<>> => reading # Idle

(* A timer's number is one of a command that was sent.                     *)
TimersSent ==
  /\ stored.timer <= sends /\ rendered.timer <= sends /\ refs.timer <= sends

(* After an answer no timer is stored.                                     *)
AnsweredNoTimer == answered => stored.timer = NoTimer

(* A timer that has gone off reaches the store, the render and the ref in  *)
(* the order in which it is taken back from them.                          *)
UpInOrder ==
  \A id \in timers.up :
    /\ stored.timer = id => rendered.timer = id
    /\ rendered.timer = id => refs.timer = id

(* After an answer the ref names no timer that could still raise an alarm. *)
NoneArmed == answered => refs.timer \notin timers.up \cap timers.callbacks

(* A command on its way was sent.                                          *)
CommandsSent == upstream <= sends

(* The inductive invariant.                                                *)
IInv ==
  /\ TypeOK /\ CommandsSent
  /\ NewestLast /\ ReadFirst
  /\ TimersSent /\ AnsweredNoTimer /\ UpInOrder /\ NoneArmed

(* What it says of timers.                                                 *)
TimerParts == TimersSent /\ AnsweredNoTimer /\ UpInOrder /\ NoneArmed

-----------------------------------------------------------------------------
(* Queues.                                                                 *)

LEMMA AppendState ==
  ASSUME NEW q \in Seq(Messages), NEW v \in Nat
  PROVE  /\ States(Append(q, State(v))) # {}
         /\ EndsAt(Append(q, State(v)), v)
<1> DEFINE r == Append(q, State(v))
<1>1. /\ DOMAIN r = 1 .. Len(q) + 1 /\ Len(q) \in Nat
      /\ r[Len(q) + 1] = State(v)
  BY DEF State, Messages
<1>2. Len(q) + 1 \in States(r)
  BY <1>1 DEF States, State
<1>3. \A j \in States(r) : j <= Len(q) + 1
  BY <1>1 DEF States
<1>4. r[Len(q) + 1].version = v
  BY <1>1 DEF State
<1>5. QED
  BY <1>2, <1>3, <1>4 DEF EndsAt

LEMMA AppendOther ==
  ASSUME NEW q \in Seq(Messages), NEW m \in Messages, m.kind # "state", NEW v
  PROVE  /\ States(Append(q, m)) = States(q)
         /\ EndsAt(Append(q, m), v) <=> EndsAt(q, v)
<1> DEFINE r == Append(q, m)
<1>1. /\ DOMAIN r = 1 .. Len(q) + 1 /\ Len(q) \in Nat /\ DOMAIN q = 1 .. Len(q)
      /\ r[Len(q) + 1] = m
      /\ \A i \in DOMAIN q : r[i] = q[i]
  OBVIOUS
<1>2. States(r) = States(q)
  BY <1>1 DEF States
<1>3. \A i \in States(q) : r[i] = q[i]
  BY <1>1 DEF States
<1>4. QED
  BY <1>2, <1>3 DEF EndsAt

LEMMA TailStates ==
  ASSUME NEW q \in Seq(Messages), q # <<>>, NEW v
  PROVE  /\ Tail(q) \in Seq(Messages) /\ Head(q) \in Messages
         /\ States(Tail(q)) # {} => States(q) # {} /\ (EndsAt(q, v) => EndsAt(Tail(q), v))
         /\ States(Tail(q)) = {} /\ EndsAt(q, v) =>
              Head(q).kind = "state" /\ Head(q).version = v
         /\ States(q) = {} => States(Tail(q)) = {} /\ Head(q).kind # "state"
         /\ States(Tail(q)) = {} /\ Head(q).kind # "state" => States(q) = {}
<1>1. /\ Len(q) \in Nat \ {0} /\ DOMAIN q = 1 .. Len(q)
      /\ Len(Tail(q)) = Len(q) - 1 /\ DOMAIN Tail(q) = 1 .. Len(q) - 1
      /\ \A i \in 1 .. Len(q) - 1 : Tail(q)[i] = q[i + 1]
      /\ Head(q) = q[1] /\ 1 \in DOMAIN q
      /\ Tail(q) \in Seq(Messages) /\ Head(q) \in Messages
  OBVIOUS
<1>2. \A i \in States(Tail(q)) : i \in Nat /\ i + 1 \in States(q) /\ Tail(q)[i] = q[i + 1]
  BY <1>1 DEF States
<1>3. \A i \in States(q) : i = 1 \/ (i - 1 \in States(Tail(q)) /\ Tail(q)[i - 1] = q[i])
  <2> SUFFICES ASSUME NEW i \in States(q), i # 1
               PROVE  i - 1 \in States(Tail(q)) /\ Tail(q)[i - 1] = q[i]
    OBVIOUS
  <2>1. i \in 2 .. Len(q) /\ q[i].kind = "state"
    BY <1>1 DEF States
  <2>2. i - 1 \in 1 .. Len(q) - 1 /\ (i - 1) + 1 = i
    BY <1>1, <2>1
  <2>3. Tail(q)[i - 1] = q[i]
    BY <1>1, <2>2
  <2>4. QED
    BY <1>1, <2>1, <2>2, <2>3 DEF States
<1>4. ASSUME States(Tail(q)) # {}, EndsAt(q, v)
      PROVE  EndsAt(Tail(q), v)
  <2>1. PICK i \in States(q) : q[i].version = v /\ \A j \in States(q) : j <= i
    BY <1>4 DEF EndsAt
  <2>2. PICK k \in States(Tail(q)) : TRUE
    BY <1>4
  <2>3. i # 1
    <3>1. k \in Nat /\ k >= 1 /\ k + 1 \in States(q)
      BY <1>1, <1>2 DEF States
    <3>2. k + 1 <= i
      BY <2>1, <3>1
    <3>3. QED
      BY <3>1, <3>2
  <2>4. i - 1 \in States(Tail(q)) /\ Tail(q)[i - 1] = q[i]
    BY <1>3, <2>1, <2>3
  <2>5. \A j \in States(Tail(q)) : j <= i - 1
    <3> SUFFICES ASSUME NEW j \in States(Tail(q)) PROVE j <= i - 1
      OBVIOUS
    <3>1. j \in Nat /\ j + 1 <= i
      BY <1>2, <2>1
    <3>2. i \in Nat
      BY <1>1 DEF States
    <3>3. QED
      BY <3>1, <3>2
  <2>6. QED
    BY <2>1, <2>4, <2>5 DEF EndsAt
<1>5. ASSUME States(Tail(q)) = {}, EndsAt(q, v)
      PROVE  Head(q).kind = "state" /\ Head(q).version = v
  <2>1. PICK i \in States(q) : q[i].version = v
    BY <1>5 DEF EndsAt
  <2>2. i = 1
    BY <1>3, <1>5
  <2>3. QED
    BY <1>1, <2>1, <2>2 DEF States
<1>6. States(q) = {} => States(Tail(q)) = {} /\ Head(q).kind # "state"
  BY <1>1, <1>2 DEF States
<1>7. States(Tail(q)) = {} /\ Head(q).kind # "state" => States(q) = {}
  <2>1. 1 \in States(q) => Head(q).kind = "state"
    BY <1>1 DEF States
  <2>2. QED
    BY <1>3, <2>1
<1>8. QED
  BY <1>1, <1>2, <1>4, <1>5, <1>6, <1>7

LEMMA EmptyStates == States(<<>>) = {}
BY DEF States

-----------------------------------------------------------------------------
LEMMA InitIInv == Init => IInv
<1> SUFFICES ASSUME Init PROVE IInv
  OBVIOUS
<1>1. TypeOK
  BY BoundsAssumption DEF Init, TypeOK, Views, NoTimer, Idle, Messages
<1>2. NewestLast /\ ReadFirst
  BY EmptyStates DEF Init, NewestLast, ReadFirst, Idle
<1>3. TimersSent /\ AnsweredNoTimer /\ UpInOrder /\ NoneArmed
  BY DEF Init, TimersSent, AnsweredNoTimer, UpInOrder, NoneArmed, NoTimer
<1>4. QED
  BY <1>1, <1>2, <1>3 DEF IInv, CommandsSent, Init

(* An operation of the server and what it puts on the wire.                *)
LEMMA OperateKeeps ==
  ASSUME IInv, Operate, UNCHANGED <<socket, decoder, stored>>
  PROVE  game' \in Nat /\ wire' \in Seq(Messages) /\ NewestLast'
<1>1. wire \in Seq(Messages) /\ game \in Nat /\ game + 1 \in Nat
  BY DEF IInv, TypeOK
<1>2. Line \in Messages /\ State(game + 1) \in Messages
  BY <1>1 DEF Line, State, Messages
<1>3. wire' = Append(Append(wire, Line), State(game + 1)) /\ game' = game + 1
  BY <1>1, <1>2 DEF Operate
<1>4. Append(wire, Line) \in Seq(Messages)
  BY <1>1, <1>2
<1>5. States(wire') # {} /\ EndsAt(wire', game')
  BY <1>1, <1>3, <1>4, AppendState
<1>6. wire' \in Seq(Messages)
  BY <1>2, <1>3, <1>4
<1>7. QED
  BY <1>1, <1>3, <1>5, <1>6 DEF NewestLast

(* A message without a state.                                              *)
LEMMA OtherKeeps ==
  ASSUME IInv, NEW m \in {Line, Kicked}, wire' = Append(wire, m),
         UNCHANGED <<game, socket, decoder, stored>>
  PROVE  wire' \in Seq(Messages) /\ NewestLast'
<1>1. wire \in Seq(Messages)
  BY DEF IInv, TypeOK
<1>2. m \in Messages /\ m.kind # "state"
  BY DEF Line, Kicked, Messages
<1>3. States(wire') = States(wire) /\ (EndsAt(wire', game) <=> EndsAt(wire, game))
  BY <1>1, <1>2, AppendOther
<1>4. wire' \in Seq(Messages)
  BY <1>1, <1>2
<1>5. QED
  BY <1>3, <1>4 DEF IInv, NewestLast, decoder

-----------------------------------------------------------------------------
(* The invariant, action by action.                                        *)
LEMMA ExpireKeeps == ASSUME IInv, Expire PROVE IInv'
<1>1. PICK id \in timers.running :
        timers' = [timers EXCEPT !.running = @ \ {id}, !.up = @ \cup {id}]
  BY DEF Expire
<1>2. /\ stored = rendered /\ rendered = refs
      /\ UNCHANGED <<game, upstream, wire, socket, blobs, reading, stored,
                     rendered, refs, sends, answered, news>>
  BY DEF Expire, serverVars, decoder, react
<1>3. TypeOK' /\ CommandsSent'
  BY <1>1, <1>2 DEF IInv, TypeOK, CommandsSent
<1>4. NewestLast' /\ ReadFirst'
  BY <1>2 DEF IInv, NewestLast, ReadFirst
<1>5. TimerParts'
  BY <1>1, <1>2 DEF IInv, TypeOK, TimerParts, TimersSent, AnsweredNoTimer,
     UpInOrder, NoneArmed, NoTimer
<1>6. QED
  BY <1>3, <1>4, <1>5 DEF IInv, TimerParts

LEMMA RingKeeps == ASSUME IInv, Ring PROVE IInv'
<1>1. PICK id \in timers.up :
        /\ timers' = [timers EXCEPT !.up = @ \ {id}, !.callbacks = @ \ {id}]
        /\ stored' = IF id \in timers.callbacks /\ Alarm(id)
                     THEN [stored EXCEPT !.connected = FALSE] ELSE stored
        /\ UNCHANGED <<game, upstream, wire, socket, blobs, reading, rendered,
                       refs, sends, answered, news>>
  BY DEF Ring, serverVars, decoder
<1>2. stored' \in Views /\ stored'.game = stored.game /\ stored'.timer = stored.timer
  BY <1>1 DEF IInv, TypeOK, Views
<1>3. TypeOK' /\ CommandsSent'
  BY <1>1, <1>2 DEF IInv, TypeOK, CommandsSent
<1>4. NewestLast' /\ ReadFirst'
  BY <1>1, <1>2 DEF IInv, NewestLast, ReadFirst
<1>5. TimerParts'
  BY <1>1, <1>2 DEF IInv, TypeOK, TimerParts, TimersSent, AnsweredNoTimer,
     UpInOrder, NoneArmed
<1>6. QED
  BY <1>3, <1>4, <1>5 DEF IInv, TimerParts

LEMMA RenderKeeps == ASSUME IInv, Render PROVE IInv'
<1>1. /\ rendered = refs /\ rendered' = stored
      /\ UNCHANGED <<game, upstream, wire, socket, blobs, reading, stored, refs,
                     timers, sends, answered, news>>
  BY DEF Render, serverVars, decoder
<1>2. TypeOK' /\ CommandsSent'
  BY <1>1 DEF IInv, TypeOK, CommandsSent
<1>3. NewestLast' /\ ReadFirst'
  BY <1>1 DEF IInv, NewestLast, ReadFirst
<1>4. TimerParts'
  BY <1>1 DEF IInv, TimerParts, TimersSent, AnsweredNoTimer, UpInOrder, NoneArmed
<1>5. QED
  BY <1>2, <1>3, <1>4 DEF IInv, TimerParts

LEMMA EffectsKeeps == ASSUME IInv, Effects PROVE IInv'
<1>1. /\ refs' = rendered
      /\ UNCHANGED <<game, upstream, wire, socket, blobs, reading, stored,
                     rendered, timers, sends, answered, news>>
  BY DEF Effects, Copied, serverVars, decoder
<1>2. TypeOK' /\ CommandsSent'
  BY <1>1 DEF IInv, TypeOK, CommandsSent
<1>3. NewestLast' /\ ReadFirst'
  BY <1>1 DEF IInv, NewestLast, ReadFirst
<1>4. TimerParts'
  BY <1>1 DEF IInv, TimerParts, TimersSent, AnsweredNoTimer, UpInOrder, NoneArmed
<1>5. QED
  BY <1>2, <1>3, <1>4 DEF IInv, TimerParts

LEMMA SendKeeps == ASSUME IInv, Send PROVE IInv'
<1>1. /\ sends \in Nat /\ sends < MaxSends /\ MaxSends \in Nat /\ upstream \in Nat
      /\ sends' = sends + 1
      /\ timers' = WithTimer(WithoutTimer(timers, refs.timer), sends + 1)
      /\ stored' = [stored EXCEPT !.timer = sends + 1]
      /\ upstream' \in {upstream, upstream + 1}
      /\ answered' = FALSE
      /\ UNCHANGED <<game, wire, socket, blobs, reading, rendered, refs, news>>
  BY BoundsAssumption DEF Send, NewTimer, decoder, IInv, TypeOK
<1>2. /\ stored' \in Views /\ stored'.game = stored.game
      /\ stored'.timer = sends + 1
  <2>1. sends + 1 \in 0 .. MaxSends
    BY <1>1
  <2>2. stored \in [connected : BOOLEAN, game : Nat, timer : 0 .. MaxSends]
    BY DEF IInv, TypeOK, Views
  <2>3. QED
    BY <1>1, <2>1, <2>2 DEF Views
<1>3. /\ timers' \in [callbacks : SUBSET (1 .. sends'), running : SUBSET (1 .. sends'),
                       up : SUBSET (1 .. sends')]
      /\ timers'.up = timers.up /\ timers'.running \cap timers'.up = {}
      /\ timers.up \subseteq 1 .. sends
  <2> DEFINE T(n) == [callbacks : SUBSET (1 .. n), running : SUBSET (1 .. n),
                      up : SUBSET (1 .. n)]
  <2>1. timers \in T(sends) /\ timers.running \cap timers.up = {}
    BY DEF IInv, TypeOK
  <2>2. /\ 1 .. sends \subseteq 1 .. sends' /\ sends + 1 \in 1 .. sends'
        /\ sends + 1 \notin 1 .. sends
    BY <1>1
  <2>3. timers' = [callbacks |-> (timers.callbacks \ {refs.timer}) \cup {sends + 1},
                   running |-> (timers.running \ {refs.timer}) \cup {sends + 1},
                   up |-> timers.up]
    BY <1>1, <2>1 DEF WithTimer, WithoutTimer
  <2>4. /\ timers.callbacks \subseteq 1 .. sends
        /\ timers.running \subseteq 1 .. sends
        /\ timers.up \subseteq 1 .. sends
    BY <2>1
  <2>5. timers'.up = timers.up /\ timers'.running \cap timers'.up = {}
    BY <2>1, <2>2, <2>3, <2>4
  <2>6. /\ (timers.callbacks \ {refs.timer}) \cup {sends + 1} \subseteq 1 .. sends'
        /\ (timers.running \ {refs.timer}) \cup {sends + 1} \subseteq 1 .. sends'
        /\ timers.up \subseteq 1 .. sends'
    BY <2>2, <2>4
  <2>7. timers' \in T(sends')
    BY <2>3, <2>6
  <2>8. QED
    BY <2>4, <2>5, <2>7
<1>4. TypeOK' /\ CommandsSent'
  <2>1. upstream' \in 0 .. MaxSends /\ upstream' <= sends' /\ sends' \in 0 .. MaxSends
    BY <1>1 DEF IInv, CommandsSent
  <2>2. QED
    BY <1>1, <1>2, <1>3, <2>1 DEF IInv, TypeOK, CommandsSent
<1>5. NewestLast' /\ ReadFirst'
  BY <1>1, <1>2 DEF IInv, NewestLast, ReadFirst
<1>6. TimerParts'
  <2>1. TimersSent'
    BY <1>1, <1>2 DEF IInv, TypeOK, Views, TimersSent
  <2>2. AnsweredNoTimer' /\ NoneArmed'
    BY <1>1 DEF AnsweredNoTimer, NoneArmed
  <2>3. UpInOrder'
    BY <1>1, <1>2, <1>3 DEF IInv, UpInOrder
  <2>4. QED
    BY <2>1, <2>2, <2>3 DEF TimerParts
<1>7. QED
  BY <1>4, <1>5, <1>6 DEF IInv, TimerParts

(* A message joins the blobs: what is newest on the whole way stays so.    *)
LEMMA EnqueueKeeps ==
  ASSUME IInv, socket = "open", wire # <<>>,
         Enqueue(Head(wire)), wire' = Tail(wire),
         UNCHANGED <<game, socket>>, stored'.game = stored.game
  PROVE  /\ wire' \in Seq(Messages) /\ blobs' \in Seq(Messages)
         /\ reading' \in Messages \cup {Idle}
         /\ NewestLast' /\ ReadFirst'
<1> DEFINE m == Head(wire)
<1>1. /\ wire \in Seq(Messages) /\ blobs \in Seq(Messages) /\ game \in Nat
      /\ reading \in Messages \cup {Idle}
  BY DEF IInv, TypeOK
<1>2. /\ Tail(wire) \in Seq(Messages) /\ m \in Messages
      /\ States(Tail(wire)) # {} =>
           States(wire) # {} /\ (EndsAt(wire, game) => EndsAt(Tail(wire), game))
      /\ States(Tail(wire)) = {} /\ EndsAt(wire, game) =>
           m.kind = "state" /\ m.version = game
      /\ States(wire) = {} => States(Tail(wire)) = {} /\ m.kind # "state"
      /\ States(Tail(wire)) = {} /\ m.kind # "state" => States(wire) = {}
  BY <1>1, TailStates
<1>3. IF States(wire) # {} THEN EndsAt(wire, game)
      ELSE IF States(blobs) # {} THEN EndsAt(blobs, game)
      ELSE IF reading.kind = "state" THEN reading.version = game
      ELSE stored.game = game
  BY DEF IInv, NewestLast
<1>4. m.kind = "state" => m = State(m.version) /\ m.version \in Nat
  BY <1>2 DEF Messages, State
<1> HIDE DEF m
<1>5. CASE reading = Idle
  <2>1. blobs = <<>> /\ States(blobs) = {} /\ reading.kind # "state"
    BY <1>5, EmptyStates DEF IInv, ReadFirst, Idle
  <2>2. reading' = m /\ blobs' = blobs
    BY <1>5 DEF Enqueue, m
  <2>3. NewestLast'
    BY <1>2, <1>3, <2>1, <2>2 DEF NewestLast
  <2>4. ReadFirst'
    BY <2>1, <2>2 DEF ReadFirst
  <2>5. QED
    BY <1>1, <1>2, <2>2, <2>3, <2>4
<1>6. CASE reading # Idle
  <2>1. reading' = reading /\ blobs' = Append(blobs, m)
    BY <1>6 DEF Enqueue, m
  <2>2. m.kind # "state" => States(blobs') = States(blobs)
                           /\ (EndsAt(blobs', game) <=> EndsAt(blobs, game))
    BY <1>1, <1>2, <2>1, AppendOther
  <2>3. m.kind = "state" => States(blobs') # {} /\ EndsAt(blobs', m.version)
    BY <1>1, <1>4, <2>1, AppendState
  <2>4. NewestLast'
    BY <1>2, <1>3, <2>1, <2>2, <2>3 DEF NewestLast
  <2>5. ReadFirst'
    BY <1>6, <2>1 DEF ReadFirst
  <2>6. QED
    BY <1>1, <1>2, <2>1, <2>4, <2>5
<1>7. QED
  BY <1>5, <1>6

LEMMA ArriveKeeps == ASSUME IInv, Arrive PROVE IInv'
<1>1. /\ socket = "open" /\ wire # <<>> /\ wire' = Tail(wire)
      /\ Enqueue(Head(wire))
      /\ timers' = WithoutTimer(timers, refs.timer)
      /\ stored' = [stored EXCEPT !.timer = NoTimer]
      /\ answered' = TRUE
      /\ UNCHANGED <<game, upstream, socket, rendered, refs, sends, news>>
  BY DEF Arrive
<1>2. /\ stored' \in Views /\ stored'.game = stored.game /\ stored'.timer = 0
      /\ sends \in Nat
  <2>1. 0 \in 0 .. MaxSends
    BY BoundsAssumption
  <2>2. /\ stored \in [connected : BOOLEAN, game : Nat, timer : 0 .. MaxSends]
        /\ sends \in Nat
    BY DEF IInv, TypeOK, Views
  <2>3. QED
    BY <1>1, <2>1, <2>2 DEF Views, NoTimer
<1>3. /\ timers' \in [callbacks : SUBSET (1 .. sends), running : SUBSET (1 .. sends),
                       up : SUBSET (1 .. sends)]
      /\ timers'.up = timers.up /\ timers'.running \cap timers'.up = {}
      /\ timers'.callbacks = timers.callbacks \ {refs.timer}
      /\ timers.up \subseteq 1 .. sends
  BY <1>1 DEF WithoutTimer, IInv, TypeOK
<1>4. /\ wire' \in Seq(Messages) /\ blobs' \in Seq(Messages)
      /\ reading' \in Messages \cup {Idle}
      /\ NewestLast' /\ ReadFirst'
  BY <1>1, <1>2, EnqueueKeeps
<1>5. TypeOK' /\ CommandsSent'
  BY <1>1, <1>2, <1>3, <1>4 DEF IInv, TypeOK, CommandsSent
<1>6. TimerParts'
  <2>1. TimersSent'
    BY <1>1, <1>2 DEF IInv, TimersSent
  <2>2. AnsweredNoTimer' /\ NoneArmed'
    BY <1>1, <1>2, <1>3 DEF AnsweredNoTimer, NoneArmed, NoTimer
  <2>3. UpInOrder'
    BY <1>1, <1>2, <1>3 DEF IInv, UpInOrder
  <2>4. QED
    BY <2>1, <2>2, <2>3 DEF TimerParts
<1>7. QED
  BY <1>4, <1>5, <1>6 DEF IInv, TimerParts

LEMMA DecodeKeeps == ASSUME IInv, Decode PROVE IInv'
<1>1. /\ reading # Idle
      /\ UNCHANGED <<game, upstream, wire, rendered, refs, timers, sends, answered,
                     news>>
  BY DEF Decode, serverVars
<1>2. /\ wire \in Seq(Messages) /\ blobs \in Seq(Messages) /\ game \in Nat
      /\ reading \in Messages
  BY <1>1 DEF IInv, TypeOK
<1>3. /\ stored' \in Views /\ stored'.timer = stored.timer
      /\ socket' \in {"open", "silent", "closing", "closed"}
      /\ socket' = "open" => /\ socket = "open"
                             /\ stored'.game = IF reading.kind = "state"
                                               THEN reading.version ELSE stored.game
  <2>1. CASE reading.kind = "kicked"
    BY <2>1 DEF Decode, IInv, TypeOK
  <2>2. CASE reading.kind # "kicked"
    <3>1. stored' = Update(reading) /\ socket' = socket
      BY <2>2 DEF Decode
    <3>2. reading.kind = "state" => reading.version \in Nat
      BY <1>2 DEF Messages
    <3>3. QED
      BY <3>1, <3>2 DEF Update, IInv, TypeOK, Views
  <2>3. QED
    BY <2>1, <2>2
<1>4. CASE blobs = <<>>
  <2>1. reading' = Idle /\ blobs' = blobs
    BY <1>4 DEF Decode
  <2>2. States(blobs) = {} /\ reading'.kind # "state"
    BY <1>4, <2>1, EmptyStates DEF Idle
  <2>3. NewestLast' /\ ReadFirst'
    BY <1>1, <1>3, <1>4, <2>1, <2>2 DEF IInv, NewestLast, ReadFirst
  <2>4. TypeOK' /\ CommandsSent'
    BY <1>1, <1>3, <2>1 DEF IInv, TypeOK, CommandsSent
  <2>5. TimerParts'
    BY <1>1, <1>3 DEF IInv, TimerParts, TimersSent, AnsweredNoTimer, UpInOrder,
       NoneArmed
  <2>6. QED
    BY <2>3, <2>4, <2>5 DEF IInv, TimerParts
<1>5. CASE blobs # <<>>
  <2>1. reading' = Head(blobs) /\ blobs' = Tail(blobs)
    BY <1>5 DEF Decode
  <2>2. /\ Tail(blobs) \in Seq(Messages) /\ Head(blobs) \in Messages
        /\ States(Tail(blobs)) # {} =>
             States(blobs) # {} /\ (EndsAt(blobs, game) => EndsAt(Tail(blobs), game))
        /\ States(Tail(blobs)) = {} /\ EndsAt(blobs, game) =>
             Head(blobs).kind = "state" /\ Head(blobs).version = game
        /\ States(blobs) = {} =>
             States(Tail(blobs)) = {} /\ Head(blobs).kind # "state"
        /\ States(Tail(blobs)) = {} /\ Head(blobs).kind # "state" => States(blobs) = {}
    BY <1>2, <1>5, TailStates
  <2>3. NewestLast'
    BY <1>1, <1>3, <2>1, <2>2 DEF IInv, NewestLast
  <2>4. ReadFirst'
    BY <2>1, <2>2 DEF ReadFirst, Idle, Messages
  <2>5. TypeOK' /\ CommandsSent'
    BY <1>1, <1>3, <2>1, <2>2 DEF IInv, TypeOK, CommandsSent
  <2>6. TimerParts'
    BY <1>1, <1>3 DEF IInv, TimerParts, TimersSent, AnsweredNoTimer, UpInOrder,
       NoneArmed
  <2>7. QED
    BY <2>3, <2>4, <2>5, <2>6 DEF IInv, TimerParts
<1>6. QED
  BY <1>4, <1>5

LEMMA CloseKeeps == ASSUME IInv, Close \/ FallSilent PROVE IInv'
<1>1. /\ socket' \in {"silent", "closed"} /\ upstream' = 0 /\ wire' = <<>>
      /\ stored' = [stored EXCEPT !.connected = FALSE] \/ stored' = stored
      /\ UNCHANGED <<game, blobs, reading, rendered, refs, timers, sends, answered,
                     news>>
  BY DEF Close, FallSilent, decoder, react
<1>2. stored' \in Views /\ stored'.timer = stored.timer
  BY <1>1 DEF IInv, TypeOK, Views
<1>3. TypeOK' /\ CommandsSent'
  BY <1>1, <1>2, BoundsAssumption DEF IInv, TypeOK, CommandsSent
<1>4. NewestLast' /\ ReadFirst'
  BY <1>1 DEF IInv, NewestLast, ReadFirst
<1>5. TimerParts'
  BY <1>1, <1>2 DEF IInv, TimerParts, TimersSent, AnsweredNoTimer, UpInOrder,
     NoneArmed
<1>6. QED
  BY <1>3, <1>4, <1>5 DEF IInv, TimerParts

LEMMA ServerKeeps == ASSUME IInv, Serve \/ News PROVE IInv'
<1>1. /\ upstream' \in 0 .. MaxSends /\ upstream' <= sends /\ news' \in 0 .. MaxNews
      /\ UNCHANGED <<socket, decoder, react, timers, sends, answered>>
  BY BoundsAssumption DEF Serve, News, IInv, TypeOK, CommandsSent
<1>2. Operate \/ \E m \in {Line, Kicked} : wire' = Append(wire, m) /\ UNCHANGED game
  BY DEF Serve, News
<1>3. game' \in Nat /\ wire' \in Seq(Messages) /\ NewestLast'
  <2>1. CASE Operate
    BY <1>1, <2>1, OperateKeeps DEF react
  <2>2. CASE \E m \in {Line, Kicked} : wire' = Append(wire, m) /\ UNCHANGED game
    BY <1>1, <2>2, OtherKeeps DEF react, IInv, TypeOK
  <2>3. QED
    BY <1>2, <2>1, <2>2
<1>4. TypeOK' /\ CommandsSent'
  BY <1>1, <1>3 DEF IInv, TypeOK, CommandsSent, decoder, react
<1>5. ReadFirst' /\ TimerParts'
  BY <1>1 DEF IInv, ReadFirst, decoder, react, TimerParts, TimersSent,
     AnsweredNoTimer, UpInOrder, NoneArmed
<1>6. QED
  BY <1>3, <1>4, <1>5 DEF IInv, TimerParts

-----------------------------------------------------------------------------
(* The invariant holds in every reachable state.                           *)
THEOREM Invariance == Spec => []IInv
<1>1. ASSUME IInv, [Next]_vars PROVE IInv'
  <2>1. CASE Next
    BY <1>1, <2>1, ExpireKeeps, RingKeeps, RenderKeeps, EffectsKeeps, SendKeeps,
       ArriveKeeps, DecodeKeeps, CloseKeeps, ServerKeeps DEF Next
  <2>2. CASE UNCHANGED vars
    BY <1>1, <2>2 DEF vars, serverVars, decoder, react, IInv, TypeOK, CommandsSent,
       NewestLast, ReadFirst, TimersSent, AnsweredNoTimer, UpInOrder, NoneArmed
  <2>3. QED
    BY <1>1, <2>1, <2>2
<1>2. QED
  BY <1>1, InitIInv, PTL DEF Spec

(* Every variable keeps its type.                                          *)
THEOREM TypeCorrect == Spec => []TypeOK
BY Invariance, PTL DEF IInv

(* When all has arrived the page shows the room's last state.              *)
THEOREM NewestShown == Spec => []LatestShown
<1>1. IInv => LatestShown
  <2> SUFFICES ASSUME IInv, socket = "open", wire = <<>>, blobs = <<>>,
                      reading = Idle, rendered = stored
               PROVE  rendered.game = game
    BY DEF LatestShown
  <2>1. States(wire) = {} /\ States(blobs) = {} /\ reading.kind # "state"
    BY EmptyStates DEF Idle
  <2>2. QED
    BY <2>1 DEF IInv, NewestLast
<1>2. QED
  BY <1>1, Invariance, PTL

(* No alarm is raised when anything has arrived since the last command.    *)
THEOREM AlarmsAreTrue == Spec => NoFalseAlarm
<1>1. ASSUME IInv, Ring, stored.connected, ~stored'.connected
      PROVE  ~answered
  <2>1. PICK id \in timers.up :
          stored' = IF id \in timers.callbacks /\ Alarm(id)
                    THEN [stored EXCEPT !.connected = FALSE] ELSE stored
    BY <1>1 DEF Ring
  <2>2. id \in timers.callbacks /\ refs.timer = id
    BY <1>1, <2>1 DEF Alarm
  <2>3. QED
    BY <1>1, <2>2 DEF IInv, NoneArmed
<1>2. IInv /\ [Next]_vars =>
        [Ring /\ stored.connected /\ ~stored'.connected => ~answered]_vars
  BY <1>1
<1>3. QED
  BY <1>2, Invariance, PTL DEF Spec, NoFalseAlarm
=============================================================================
