-------------------------- MODULE VictoryEmailProofs --------------------------
(***************************************************************************)
(* Theorems about VictoryEmail, for any addresses, number of matches, wins *)
(* and requests, and limit of mails.                                       *)
(***************************************************************************)
EXTENDS VictoryEmail, TLAPS

(* A request the function has admitted was counted below the limit.        *)
SeenBelowLimit ==
  \A i \in DOMAIN requests :
    requests[i].at = "admitted" => requests[i].seen < MaxPerWindow

(* A good answer is one about a mail that was sent for this win.           *)
GoodMeansMailed ==
  \A i \in DOMAIN requests :
    requests[i].ok => mails[<<requests[i].win, requests[i].to>>] > 0

(* The key of all the requests for win w that mail address a.              *)
KeyFor(w, a) == <<wins[w].id, wins[w].team, a>>

(* The provider knows the key of a win, with that win, just when it has    *)
(* mailed the win; another win may have the same key and never be mailed.  *)
KnownExact ==
  /\ \A k \in known : k[2] <= Len(wins)
  /\ \A w \in Wins, a \in Addresses :
       /\ mails[<<w, a>>] <= 1
       /\ mails[<<w, a>>] > 0 <=> w <= Len(wins) /\ <<KeyFor(w, a), w>> \in known

(* The inductive invariant.                                                *)
IInv ==
  /\ TypeOK
  /\ SeenBelowLimit
  /\ GoodMeansMailed
  /\ KnownExact
  /\ RememberedMeansMailed

-----------------------------------------------------------------------------
LEMMA InitIInv == Init => IInv
<1> SUFFICES ASSUME Init PROVE IInv
  OBVIOUS
<1>1. /\ requests = <<>> /\ requests \in Seq(Requests) /\ Len(requests) = 0
      /\ DOMAIN requests = {}
      /\ wins = <<>> /\ wins \in Seq(WinRecords) /\ Len(wins) = 0
  BY DEF Init
<1>2. /\ mails \in [Mails -> Nat] /\ \A k \in Mails : mails[k] = 0
      /\ sentTo \in [Ids -> Addresses \cup {Nobody}]
      /\ \A m \in Ids : sentTo[m] = Nobody
      /\ known = {}
  BY DEF Init
<1>3. TypeOK
  <2>1. /\ 0 \in 0 .. MaxMatches /\ 0 \in 0 .. MaxPerWindow /\ 0 <= MaxRequests
        /\ 0 <= MaxWins /\ 0 \in 0 .. 0
    BY BoundsAssumption
  <2>2. QED
    BY <1>1, <1>2, <2>1 DEF Init, TypeOK
<1>4. KnownExact
  <2>1. \A w \in Wins, a \in Addresses : mails[<<w, a>>] = 0
    BY <1>2 DEF Mails
  <2>2. QED
    BY <1>1, <1>2, <2>1 DEF KnownExact
<1>5. SeenBelowLimit /\ GoodMeansMailed /\ RememberedMeansMailed
  BY <1>1, <1>2 DEF SeenBelowLimit, GoodMeansMailed, RememberedMeansMailed
<1>6. QED
  BY <1>3, <1>4, <1>5 DEF IInv

(* A request is what it is said to be.                                     *)
LEMMA RequestFacts ==
  ASSUME TypeOK, NEW i \in DOMAIN requests
  PROVE  /\ requests[i] \in Requests
         /\ requests[i].win \in Wins /\ requests[i].to \in Addresses
         /\ requests[i].win <= Len(wins)
         /\ requests[i].ok \in BOOLEAN /\ requests[i].seen \in Nat
         /\ KeyOf(i) = KeyFor(requests[i].win, requests[i].to)
<1>1. requests[i] \in Requests /\ requests[i].win <= Len(wins)
  BY DEF TypeOK
<1>2. KeyOf(i) = KeyFor(requests[i].win, requests[i].to)
  BY DEF KeyOf, KeyFor
<1>3. QED
  BY <1>1, <1>2 DEF Requests

(* A win of the past has a match_id and a team.                            *)
LEMMA WinFacts ==
  ASSUME TypeOK, NEW w \in 1 .. Len(wins)
  PROVE  w \in Wins /\ w \in DOMAIN wins /\ wins[w].id \in Ids /\ wins[w].team \in Teams
<1>1. wins \in Seq(WinRecords) /\ Len(wins) \in Nat /\ Len(wins) <= MaxWins
  BY DEF TypeOK
<1>2. w \in DOMAIN wins /\ wins[w] \in WinRecords
  <2>1. DOMAIN wins = 1 .. Len(wins)
    BY <1>1
  <2>2. \A v \in DOMAIN wins : wins[v] \in WinRecords
    BY <1>1
  <2>3. QED
    BY <2>1, <2>2
<1>3. w \in Wins
  BY <1>1, BoundsAssumption DEF Wins
<1>4. QED
  BY <1>2, <1>3 DEF WinRecords

(* A request that is posted changes none of what is known of the others.   *)
LEMMA SendKeeps ==
  ASSUME IInv, NEW w \in 1 .. Len(wins), Send(w),
         UNCHANGED <<wins, email, mails, known>>
  PROVE  /\ requests' \in Seq(Requests) /\ Len(requests') <= MaxRequests
         /\ \A i \in DOMAIN requests' : requests'[i].win <= Len(wins')
         /\ SeenBelowLimit' /\ GoodMeansMailed'
         /\ status' \in {"missing", "sending"}
         /\ shownTo' = email
<1>1. CASE email = Nobody
  BY <1>1 DEF Send, IInv, TypeOK, SeenBelowLimit, GoodMeansMailed
<1>2. CASE email # Nobody
  <2> DEFINE r == [win |-> w, to |-> email, at |-> "posted", seen |-> 0,
                   ok |-> FALSE, heard |-> FALSE]
  <2>1. r \in Requests /\ r.win <= Len(wins)
    BY <1>2, WinFacts DEF IInv, TypeOK, Requests
  <2>2. /\ requests' = Append(requests, r) /\ Len(requests) < MaxRequests
        /\ status' = "sending" /\ shownTo' = email
    BY <1>2 DEF Send
  <2>3. requests \in Seq(Requests)
    BY DEF IInv, TypeOK
  <2>4. /\ requests' \in Seq(Requests)
        /\ Len(requests') = Len(requests) + 1
        /\ \A i \in DOMAIN requests' :
             IF i = Len(requests) + 1 THEN requests'[i] = r
             ELSE i \in DOMAIN requests /\ requests'[i] = requests[i]
    BY <2>1, <2>2, <2>3
  <2>5. Len(requests') <= MaxRequests
    BY <2>2, <2>3, <2>4, BoundsAssumption
  <2>6. SeenBelowLimit' /\ GoodMeansMailed'
    BY <2>4 DEF IInv, SeenBelowLimit, GoodMeansMailed
  <2>7. \A i \in DOMAIN requests' : requests'[i].win <= Len(wins')
    BY <2>1, <2>4 DEF IInv, TypeOK
  <2>8. QED
    BY <2>2, <2>4, <2>5, <2>6, <2>7
<1>3. QED
  BY <1>1, <1>2

(* One request moves on.                                                   *)
LEMMA RequestMoves ==
  ASSUME IInv, NEW i \in DOMAIN requests, NEW r \in Requests,
         requests' = [requests EXCEPT ![i] = r],
         r.win = requests[i].win, r.to = requests[i].to,
         wins' = wins, mails' \in [Mails -> Nat],
         \A k \in Mails : mails'[k] >= mails[k],
         r.at = "admitted" => r.seen < MaxPerWindow,
         r.ok => mails'[<<r.win, r.to>>] > 0
  PROVE  /\ requests' \in Seq(Requests) /\ Len(requests') <= MaxRequests
         /\ \A j \in DOMAIN requests' : requests'[j].win <= Len(wins')
         /\ SeenBelowLimit' /\ GoodMeansMailed'
<1>1. requests \in Seq(Requests) /\ Len(requests) <= MaxRequests
      /\ mails \in [Mails -> Nat]
  BY DEF IInv, TypeOK
<1>2. /\ requests' \in Seq(Requests)
      /\ Len(requests') = Len(requests)
      /\ DOMAIN requests' = DOMAIN requests
      /\ requests'[i] = r
      /\ \A j \in DOMAIN requests \ {i} : requests'[j] = requests[j]
  BY <1>1
<1>3. \A j \in DOMAIN requests :
        <<requests[j].win, requests[j].to>> \in Mails /\ requests[j].win <= Len(wins)
  BY RequestFacts DEF IInv, Mails
<1>4. SeenBelowLimit'
  BY <1>2 DEF IInv, SeenBelowLimit
<1>5. GoodMeansMailed'
  <2> SUFFICES ASSUME NEW j \in DOMAIN requests, requests'[j].ok
               PROVE  mails'[<<requests'[j].win, requests'[j].to>>] > 0
    BY <1>2 DEF GoodMeansMailed
  <2>1. CASE j = i
    BY <2>1, <1>2
  <2>2. CASE j # i
    <3> DEFINE m == <<requests[j].win, requests[j].to>>
    <3>1. requests'[j] = requests[j] /\ mails[m] > 0 /\ m \in Mails
      BY <2>2, <1>2, <1>3 DEF IInv, GoodMeansMailed
    <3>2. mails[m] \in Nat /\ mails'[m] \in Nat /\ mails'[m] >= mails[m]
      BY <1>1, <3>1
    <3>3. QED
      BY <3>1, <3>2
  <2>3. QED
    BY <2>1, <2>2
<1>6. \A j \in DOMAIN requests' : requests'[j].win <= Len(wins')
  BY <1>2, <1>3
<1>7. QED
  BY <1>1, <1>2, <1>4, <1>5, <1>6

-----------------------------------------------------------------------------
LEMMA StartMatchKeeps == ASSUME IInv, StartMatch PROVE IInv'
<1>1. /\ match' \in 0 .. MaxMatches /\ won' = FALSE
      /\ UNCHANGED <<wins, email, shownWin, status, shownTo, attempt, retryUsed,
                     sentTo, requests, mails, known, counted>>
  BY BoundsAssumption DEF StartMatch, page, api, IInv, TypeOK
<1>2. TypeOK'
  BY <1>1 DEF IInv, TypeOK
<1>3. QED
  BY <1>1, <1>2 DEF IInv, SeenBelowLimit, GoodMeansMailed, KnownExact, KeyFor,
     RememberedMeansMailed

LEMMA DropGameKeeps == ASSUME IInv, DropGame PROVE IInv'
<1>1. /\ match' \in 0 .. MaxMatches /\ won' = FALSE
      /\ UNCHANGED <<wins, email, shownWin, status, shownTo, attempt, retryUsed,
                     sentTo, requests, mails, known, counted>>
  BY BoundsAssumption DEF DropGame, page, api, IInv, TypeOK
<1>2. TypeOK'
  BY <1>1 DEF IInv, TypeOK
<1>3. QED
  BY <1>1, <1>2 DEF IInv, SeenBelowLimit, GoodMeansMailed, KnownExact, KeyFor,
     RememberedMeansMailed

(* A new win has not been mailed, and its key is known with older wins only.*)
LEMMA WinKeeps == ASSUME IInv, Win PROVE IInv'
<1> USE DEF IInv
<1>1. PICK t \in Teams : wins' = Append(wins, [id |-> match, team |-> t])
  BY DEF Win
<1>2. /\ match \in Ids /\ won' = TRUE /\ Len(wins) < MaxWins
      /\ UNCHANGED <<match, email, shownWin, status, shownTo, attempt, retryUsed,
                     sentTo, requests, mails, known, counted>>
  BY BoundsAssumption DEF Win, page, api, TypeOK, Ids
<1>3. wins \in Seq(WinRecords) /\ Len(wins) \in Nat
  BY DEF TypeOK
<1>4. /\ wins' \in Seq(WinRecords)
      /\ Len(wins') = Len(wins) + 1
      /\ \A w \in 1 .. Len(wins) : wins'[w] = wins[w]
  <2>1. [id |-> match, team |-> t] \in WinRecords
    BY <1>2 DEF WinRecords
  <2>2. QED
    BY <1>1, <1>3, <2>1
<1>5. Len(wins') <= MaxWins /\ Len(wins') > 0 /\ Len(wins) <= Len(wins')
  BY <1>2, <1>3, <1>4, BoundsAssumption
<1>6. shownWin \in 0 .. Len(wins')
  BY <1>3, <1>4 DEF TypeOK
<1>7. \A i \in DOMAIN requests : requests[i].win <= Len(wins')
  <2> SUFFICES ASSUME NEW i \in DOMAIN requests PROVE requests[i].win <= Len(wins')
    OBVIOUS
  <2>1. requests[i].win \in Nat /\ requests[i].win <= Len(wins)
    BY RequestFacts DEF Wins
  <2>2. QED
    BY <2>1, <1>3, <1>4
<1>8. TypeOK'
  BY <1>2, <1>4, <1>5, <1>6, <1>7 DEF TypeOK
<1>9. KnownExact'
  <2>1. \A k \in known : k[2] \in Nat /\ k[2] <= Len(wins)
    BY DEF TypeOK, KnownExact, Wins
  <2>2. \A k \in known : k[2] <= Len(wins')
    BY <2>1, <1>3, <1>4
  <2> SUFFICES ASSUME NEW w \in Wins, NEW a \in Addresses
               PROVE  /\ mails[<<w, a>>] <= 1
                      /\ mails[<<w, a>>] > 0 <=>
                           w <= Len(wins') /\ <<KeyFor(w, a)', w>> \in known
    BY <2>2, <1>2 DEF KnownExact
  <2>3. /\ mails[<<w, a>>] <= 1
        /\ mails[<<w, a>>] > 0 <=> w <= Len(wins) /\ <<KeyFor(w, a), w>> \in known
    BY DEF KnownExact
  <2>4. CASE w <= Len(wins)
    <3>1. w \in 1 .. Len(wins) /\ w <= Len(wins')
      BY <2>4, <1>3, <1>4 DEF Wins
    <3>2. KeyFor(w, a)' = KeyFor(w, a)
      BY <3>1, <1>4 DEF KeyFor
    <3>3. QED
      BY <2>3, <2>4, <3>1, <3>2
  <2>5. CASE ~(w <= Len(wins))
    <3>1. <<KeyFor(w, a)', w>> \notin known
      BY <2>1, <2>5
    <3>2. QED
      BY <2>3, <2>5, <3>1
  <2>6. QED
    BY <2>4, <2>5
<1>10. RememberedMeansMailed'
  <2> SUFFICES ASSUME NEW m \in Ids, sentTo[m] # Nobody
               PROVE  \E w \in 1 .. Len(wins') :
                        wins'[w].id = m /\ mails[<<w, sentTo[m]>>] > 0
    BY <1>2 DEF RememberedMeansMailed
  <2>1. PICK w \in 1 .. Len(wins) : wins[w].id = m /\ mails[<<w, sentTo[m]>>] > 0
    BY DEF RememberedMeansMailed
  <2>2. w \in 1 .. Len(wins') /\ wins'[w] = wins[w]
    BY <1>3, <1>4
  <2>3. QED
    BY <2>1, <2>2
<1>11. SeenBelowLimit' /\ GoodMeansMailed'
  BY <1>2 DEF SeenBelowLimit, GoodMeansMailed
<1>12. QED
  BY <1>8, <1>9, <1>10, <1>11

LEMMA ShowWinKeeps == ASSUME IInv, ShowWin PROVE IInv'
<1> USE DEF IInv
<1> DEFINE w == Len(wins)
<1>1. /\ won /\ w \in 1 .. Len(wins) /\ shownWin' = w /\ shownWin' \in 0 .. Len(wins)
      /\ UNCHANGED <<match, won, wins, email, retryUsed, sentTo, mails, known, counted>>
  BY DEF ShowWin, TypeOK, game, api
<1>2. AutoSend(w) /\ wins[w].id \in Ids
  BY <1>1, WinFacts DEF ShowWin
<1> HIDE DEF w
<1> DEFINE key == <<wins[w].id, email>>
<1>3. KnownExact' /\ RememberedMeansMailed'
  BY <1>1 DEF KnownExact, KeyFor, RememberedMeansMailed
<1>4. CASE /\ shownTo' = email /\ requests' = requests
           /\ status' \in {"missing", "sent", status}
           /\ attempt' \in (Ids \X Addresses) \cup {Nobody}
  BY <1>1, <1>3, <1>4 DEF TypeOK, SeenBelowLimit, GoodMeansMailed
<1>5. CASE email # Nobody /\ attempt' = key /\ Send(w)
  <2>1. attempt' \in Ids \X Addresses
    BY <1>2, <1>5 DEF TypeOK
  <2>2. /\ requests' \in Seq(Requests) /\ Len(requests') <= MaxRequests
        /\ \A i \in DOMAIN requests' : requests'[i].win <= Len(wins')
        /\ SeenBelowLimit' /\ GoodMeansMailed'
        /\ status' \in {"missing", "sending"} /\ shownTo' = email
    BY <1>1, <1>5, SendKeeps
  <2>3. QED
    BY <1>1, <1>3, <2>1, <2>2 DEF TypeOK
<1>6. QED
  <2>1. attempt \in (Ids \X Addresses) \cup {Nobody}
        /\ (email # Nobody => key \in Ids \X Addresses)
    BY <1>2 DEF TypeOK
  <2>2. CASE email = Nobody
    BY <1>2, <1>4, <2>1, <2>2 DEF AutoSend
  <2>3. CASE email # Nobody /\ attempt = key
    BY <1>2, <1>4, <2>1, <2>3 DEF AutoSend
  <2>4. CASE email # Nobody /\ attempt # key /\ sentTo[wins[w].id] = email
    BY <1>2, <1>4, <2>1, <2>4 DEF AutoSend
  <2>5. CASE email # Nobody /\ attempt # key /\ sentTo[wins[w].id] # email
    BY <1>2, <1>5, <2>5 DEF AutoSend
  <2>6. QED
    BY <2>2, <2>3, <2>4, <2>5

LEMMA RetryKeeps == ASSUME IInv, Retry PROVE IInv'
<1> USE DEF IInv
<1>1. /\ shownWin \in 1 .. Len(wins) /\ retryUsed' = TRUE
      /\ UNCHANGED <<match, won, wins, shownWin, email, attempt, sentTo, mails, known,
                     counted>>
  BY DEF Retry, TypeOK, game, api
<1>2. Send(shownWin)
  BY DEF Retry
<1>3. /\ requests' \in Seq(Requests) /\ Len(requests') <= MaxRequests
      /\ \A i \in DOMAIN requests' : requests'[i].win <= Len(wins')
      /\ SeenBelowLimit' /\ GoodMeansMailed'
      /\ status' \in {"missing", "sending"} /\ shownTo' = email
  BY <1>1, <1>2, SendKeeps
<1>4. QED
  BY <1>1, <1>3 DEF TypeOK, KnownExact, KeyFor, RememberedMeansMailed

LEMMA HearKeeps ==
  ASSUME IInv, NEW i \in DOMAIN requests, Hear(i) PROVE IInv'
<1> USE DEF IInv
<1> DEFINE r == [requests[i] EXCEPT !.heard = TRUE]
<1>1. /\ requests[i] \in Requests /\ requests \in Seq(Requests)
      /\ mails \in [Mails -> Nat]
  BY DEF TypeOK
<1>2. /\ r \in Requests /\ r.win = requests[i].win /\ r.to = requests[i].to
      /\ r.at = requests[i].at /\ r.seen = requests[i].seen /\ r.ok = requests[i].ok
  BY <1>1 DEF Requests
<1>3. /\ requests' = [requests EXCEPT ![i] = r]
      /\ UNCHANGED <<match, won, wins, email, shownWin, shownTo, attempt, retryUsed,
                     mails, known, counted>>
  BY DEF Hear, game, api
<1>4. /\ requests' \in Seq(Requests) /\ Len(requests') <= MaxRequests
      /\ \A j \in DOMAIN requests' : requests'[j].win <= Len(wins')
      /\ SeenBelowLimit' /\ GoodMeansMailed'
  <2>1. r.at = "admitted" => r.seen < MaxPerWindow
    BY <1>2 DEF SeenBelowLimit
  <2>2. r.ok => mails[<<r.win, r.to>>] > 0
    BY <1>2 DEF GoodMeansMailed
  <2>3. \A k \in Mails : mails[k] >= mails[k]
    BY <1>1
  <2> HIDE DEF r, IInv
  <2>4. QED
    BY <1>1, <1>2, <1>3, <2>1, <2>2, <2>3, RequestMoves
<1>5. KnownExact'
  BY <1>3 DEF KnownExact, KeyFor
<1>6. CASE Conclude(requests[i], FALSE)
  <2>1. status' = "failed" /\ sentTo' = sentTo
    BY <1>6 DEF Conclude
  <2>2. QED
    BY <1>3, <1>4, <1>5, <2>1 DEF TypeOK, RememberedMeansMailed
<1>7. CASE requests[i].ok /\ Conclude(requests[i], requests[i].ok)
  <2> DEFINE w == requests[i].win
             a == requests[i].to
  <2>1. /\ status' = "sent" /\ sentTo' = [sentTo EXCEPT ![wins[w].id] = a]
        /\ mails[<<w, a>>] > 0
    BY <1>7 DEF Conclude, GoodMeansMailed
  <2>2. w \in Wins /\ a \in Addresses /\ w <= Len(wins) /\ Len(wins) \in Nat
    BY RequestFacts DEF TypeOK
  <2> HIDE DEF w, a
  <2>3. w \in 1 .. Len(wins)
    BY <2>2 DEF Wins
  <2>4. wins[w].id \in Ids
    BY <2>3, WinFacts
  <2>5. sentTo' \in [Ids -> Addresses \cup {Nobody}]
    BY <2>1, <2>2 DEF TypeOK
  <2>6. RememberedMeansMailed'
    <3> SUFFICES ASSUME NEW m \in Ids, sentTo'[m] # Nobody
                 PROVE  \E v \in 1 .. Len(wins) :
                          wins[v].id = m /\ mails[<<v, sentTo'[m]>>] > 0
      BY <1>3 DEF RememberedMeansMailed
    <3>1. CASE m = wins[w].id
      <4>1. sentTo'[m] = a
        BY <2>1, <3>1 DEF TypeOK
      <4>2. QED
        BY <2>1, <2>3, <3>1, <4>1
    <3>2. CASE m # wins[w].id
      <4>1. sentTo'[m] = sentTo[m]
        BY <2>1, <3>2 DEF TypeOK
      <4>2. QED
        BY <4>1 DEF RememberedMeansMailed
    <3>3. QED
      BY <3>1, <3>2
  <2>7. QED
    BY <1>3, <1>4, <1>5, <2>1, <2>5, <2>6 DEF TypeOK
<1>8. QED
  <2>1. requests[i].ok \in BOOLEAN
    BY <1>1 DEF Requests
  <2>2. \/ Conclude(requests[i], FALSE)
        \/ requests[i].ok /\ Conclude(requests[i], requests[i].ok)
    <3>1. CASE requests[i].ok
      BY <3>1 DEF Hear
    <3>2. CASE ~requests[i].ok
      BY <2>1, <3>2 DEF Hear, Conclude
    <3>3. QED
      BY <2>1, <3>1, <3>2
  <2>3. QED
    BY <1>6, <1>7, <2>2

LEMMA AdmitKeeps ==
  ASSUME IInv, NEW i \in DOMAIN requests, Admit(i) PROVE IInv'
<1> USE DEF IInv
<1>1. /\ requests[i] \in Requests /\ requests \in Seq(Requests)
      /\ mails \in [Mails -> Nat] /\ counted \in 0 .. MaxPerWindow
  BY DEF TypeOK
<1>2. PICK r \in Requests :
        /\ requests' = [requests EXCEPT ![i] = r]
        /\ r.win = requests[i].win /\ r.to = requests[i].to
        /\ r.ok = requests[i].ok
        /\ r.at = "admitted" => r.seen < MaxPerWindow
  <2>1. CASE counted >= MaxPerWindow
    <3> DEFINE r == [requests[i] EXCEPT !.at = "done"]
    <3>1. requests' = [requests EXCEPT ![i] = r]
      BY <2>1 DEF Admit
    <3>2. r \in Requests /\ r.win = requests[i].win /\ r.to = requests[i].to
          /\ r.ok = requests[i].ok /\ r.at = "done"
      BY <1>1 DEF Requests
    <3>3. QED
      BY <3>1, <3>2
  <2>2. CASE ~(counted >= MaxPerWindow)
    <3> DEFINE r == [requests[i] EXCEPT !.at = "admitted", !.seen = counted]
    <3>1. requests' = [requests EXCEPT ![i] = r]
      BY <2>2, <1>1 DEF Admit
    <3> counted \in Nat
      BY <1>1, BoundsAssumption
    <3>2. r \in Requests /\ r.win = requests[i].win /\ r.to = requests[i].to
          /\ r.ok = requests[i].ok /\ r.seen = counted
      BY <1>1 DEF Requests
    <3>3. counted < MaxPerWindow
      BY <1>1, <2>2, BoundsAssumption
    <3>4. QED
      BY <3>1, <3>2, <3>3
  <2>3. QED
    BY <2>1, <2>2
<1>3. UNCHANGED <<match, won, wins, email, shownWin, status, shownTo, attempt,
                  retryUsed, sentTo, mails, known, counted>>
  BY DEF Admit, game, page, api
<1>4. /\ requests' \in Seq(Requests) /\ Len(requests') <= MaxRequests
      /\ \A j \in DOMAIN requests' : requests'[j].win <= Len(wins')
      /\ SeenBelowLimit' /\ GoodMeansMailed'
  <2>1. r.ok => mails[<<r.win, r.to>>] > 0
    BY <1>2 DEF GoodMeansMailed
  <2>2. \A k \in Mails : mails[k] >= mails[k]
    BY <1>1
  <2> HIDE DEF IInv
  <2>3. QED
    BY <1>1, <1>2, <1>3, <2>1, <2>2, RequestMoves
<1>5. QED
  BY <1>3, <1>4 DEF TypeOK, KnownExact, KeyFor, RememberedMeansMailed

-----------------------------------------------------------------------------
(* Whatever the provider answers, it mails a win only when it does not     *)
(* know the key of the win, and remembers the key from then on.            *)
LEMMA AcceptKeeps ==
  ASSUME IInv, NEW i \in DOMAIN requests, wins' = wins,
         Accept(KeyOf(i), requests[i]) \/ UNCHANGED <<mails, known>>
  PROVE  /\ mails' \in [Mails -> Nat] /\ known' \subseteq Keys \X Wins
         /\ \A k \in Mails : mails'[k] >= mails[k]
         /\ KnownExact'
         /\ Accept(KeyOf(i), requests[i]) =>
              mails'[<<requests[i].win, requests[i].to>>] > 0
<1> USE DEF IInv
<1> DEFINE w == requests[i].win
           a == requests[i].to
<1>1. w \in Wins /\ a \in Addresses /\ w <= Len(wins) /\ KeyOf(i) = KeyFor(w, a)
  BY RequestFacts
<1>2. w \in Nat /\ Len(wins) \in Nat /\ w \in 1 .. Len(wins)
  BY <1>1 DEF TypeOK, Wins
<1>3. KeyFor(w, a) \in Keys
  BY <1>1, <1>2, WinFacts DEF KeyFor, Keys
<1>4. mails \in [Mails -> Nat] /\ known \subseteq Keys \X Wins /\ <<w, a>> \in Mails
  BY <1>1 DEF TypeOK, Mails
<1>5. \A v \in Wins, b \in Addresses : KeyFor(v, b)' = KeyFor(v, b)
  BY DEF KeyFor
<1>6. \A v \in Wins, b \in Addresses :
        /\ <<v, b>> \in Mails /\ mails[<<v, b>>] \in Nat /\ mails[<<v, b>>] <= 1
        /\ mails[<<v, b>>] > 0 <=> v <= Len(wins) /\ <<KeyFor(v, b), v>> \in known
  BY <1>4 DEF KnownExact, Mails
<1>7. \A k \in known : k[2] <= Len(wins)
  BY DEF KnownExact
<1>8. CASE UNCHANGED <<mails, known>>
  <2>1. KnownExact'
    BY <1>8, <1>5 DEF KnownExact
  <2>2. \A k \in Mails : mails'[k] >= mails[k]
    BY <1>8, <1>4
  <2>3. Accept(KeyOf(i), requests[i]) => mails'[<<w, a>>] > 0
    <3> SUFFICES ASSUME Accept(KeyOf(i), requests[i]) PROVE mails[<<w, a>>] > 0
      BY <1>8
    <3>1. \/ mails' = [mails EXCEPT ![<<w, a>>] = @ + 1]
          \/ <<KeyFor(w, a), w>> \in known
      BY <1>1 DEF Accept
    <3>2. CASE mails' = [mails EXCEPT ![<<w, a>>] = @ + 1]
      BY <1>4, <1>8, <3>2
    <3>3. CASE <<KeyFor(w, a), w>> \in known
      BY <1>1, <1>6, <3>3
    <3>4. QED
      BY <3>1, <3>2, <3>3
  <2>4. QED
    BY <1>4, <1>8, <2>1, <2>2, <2>3
<1>9. CASE ~UNCHANGED <<mails, known>>
  <2>1. /\ \A k \in known : k[1] # KeyFor(w, a)
        /\ mails' = [mails EXCEPT ![<<w, a>>] = @ + 1]
        /\ known' = known \cup {<<KeyFor(w, a), w>>}
    BY <1>1, <1>9 DEF Accept
  <2>2. mails[<<w, a>>] = 0
    <3>1. <<KeyFor(w, a), w>> \notin known
      BY <2>1
    <3>2. QED
      BY <1>1, <1>6, <3>1
  <2>3. /\ mails' \in [Mails -> Nat] /\ mails'[<<w, a>>] = 1
        /\ \A k \in Mails \ {<<w, a>>} : mails'[k] = mails[k]
    BY <1>4, <2>1, <2>2
  <2>4. \A k \in Mails : mails'[k] >= mails[k]
    BY <1>4, <2>2, <2>3
  <2>5. known' \subseteq Keys \X Wins
    BY <1>1, <1>3, <1>4, <2>1
  <2>6. \A k \in known' : k[2] <= Len(wins)
    BY <1>1, <1>7, <2>1
  <2> HIDE DEF w, a
  <2>7. ASSUME NEW v \in Wins, NEW b \in Addresses
        PROVE  /\ mails'[<<v, b>>] <= 1
               /\ mails'[<<v, b>>] > 0 <=> v <= Len(wins) /\ <<KeyFor(v, b), v>> \in known'
    <3>1. CASE v = w /\ b = a
      BY <1>1, <2>1, <2>3, <3>1
    <3>2. CASE ~(v = w /\ b = a)
      <4>1. <<v, b>> # <<w, a>> /\ mails'[<<v, b>>] = mails[<<v, b>>]
        BY <1>6, <2>3, <3>2
      <4>2. <<KeyFor(v, b), v>> \in known' <=> <<KeyFor(v, b), v>> \in known
        <5>1. v = w => KeyFor(v, b) # KeyFor(w, a)
          BY <3>2 DEF KeyFor
        <5>2. <<KeyFor(v, b), v>> # <<KeyFor(w, a), w>>
          BY <5>1
        <5>3. QED
          BY <2>1, <5>2
      <4>3. QED
        BY <1>6, <4>1, <4>2
    <3>3. QED
      BY <3>1, <3>2
  <2>8. KnownExact'
    BY <1>5, <2>6, <2>7 DEF KnownExact
  <2>9. mails'[<<requests[i].win, requests[i].to>>] > 0
    BY <2>3 DEF w, a
  <2>10. QED
    BY <2>3, <2>4, <2>5, <2>8, <2>9
<1>10. QED
  BY <1>8, <1>9

LEMMA MailKeeps ==
  ASSUME IInv, NEW i \in DOMAIN requests, Mail(i) PROVE IInv'
<1> USE DEF IInv
<1>1. /\ requests[i] \in Requests /\ requests \in Seq(Requests)
      /\ mails \in [Mails -> Nat] /\ counted \in 0 .. MaxPerWindow
      /\ requests[i].seen < MaxPerWindow /\ requests[i].seen \in Nat
  <2>1. requests[i].at = "admitted"
    BY DEF Mail
  <2>2. QED
    BY <2>1, RequestFacts DEF TypeOK, SeenBelowLimit
<1>2. UNCHANGED <<match, won, wins, email, shownWin, status, shownTo, attempt,
                  retryUsed, sentTo>>
  BY DEF Mail, game, page
<1>3. Accept(KeyOf(i), requests[i]) \/ UNCHANGED <<mails, known>>
  BY DEF Mail
<1> HIDE DEF IInv
<1>4. /\ mails' \in [Mails -> Nat] /\ known' \subseteq Keys \X Wins
      /\ \A k \in Mails : mails'[k] >= mails[k]
      /\ KnownExact'
      /\ Accept(KeyOf(i), requests[i]) =>
           mails'[<<requests[i].win, requests[i].to>>] > 0
  BY <1>2, <1>3, AcceptKeeps
<1>5. counted' \in 0 .. MaxPerWindow
  BY <1>1, BoundsAssumption DEF Mail
<1> USE DEF IInv
<1>6. PICK r \in Requests :
        /\ requests' = [requests EXCEPT ![i] = r]
        /\ r.win = requests[i].win /\ r.to = requests[i].to
        /\ r.at = "done"
        /\ r.ok => Accept(KeyOf(i), requests[i]) \/ requests[i].ok
  <2>1. CASE /\ Accept(KeyOf(i), requests[i])
             /\ requests' = [requests EXCEPT ![i].at = "done", ![i].seen = 0,
                                             ![i].ok = TRUE]
    <3> DEFINE r == [requests[i] EXCEPT !.at = "done", !.seen = 0, !.ok = TRUE]
    <3>1. requests' = [requests EXCEPT ![i] = r]
      BY <2>1, <1>1
    <3>2. r \in Requests /\ r.win = requests[i].win /\ r.to = requests[i].to
          /\ r.at = "done"
      BY <1>1 DEF Requests
    <3>3. QED
      BY <2>1, <3>1, <3>2
  <2>2. CASE requests' = [requests EXCEPT ![i].at = "done", ![i].seen = 0]
    <3> DEFINE r == [requests[i] EXCEPT !.at = "done", !.seen = 0]
    <3>1. requests' = [requests EXCEPT ![i] = r]
      BY <2>2, <1>1
    <3>2. r \in Requests /\ r.win = requests[i].win /\ r.to = requests[i].to
          /\ r.at = "done" /\ r.ok = requests[i].ok
      BY <1>1 DEF Requests
    <3>3. QED
      BY <2>2, <3>1, <3>2
  <2>3. QED
    BY <2>1, <2>2 DEF Mail
<1>7. /\ requests' \in Seq(Requests) /\ Len(requests') <= MaxRequests
      /\ \A j \in DOMAIN requests' : requests'[j].win <= Len(wins')
      /\ SeenBelowLimit' /\ GoodMeansMailed'
  <2>1. r.ok => mails'[<<r.win, r.to>>] > 0
    <3>1. CASE Accept(KeyOf(i), requests[i])
      BY <1>4, <1>6, <3>1
    <3>2. CASE requests[i].ok
      <4> DEFINE m == <<requests[i].win, requests[i].to>>
      <4>1. m \in Mails /\ mails[m] > 0
        BY <3>2, RequestFacts DEF GoodMeansMailed, Mails
      <4>2. mails[m] \in Nat /\ mails'[m] \in Nat /\ mails'[m] >= mails[m]
        BY <1>1, <1>4, <4>1
      <4>3. QED
        BY <1>6, <4>1, <4>2
    <3>3. QED
      BY <1>6, <3>1, <3>2
  <2> HIDE DEF IInv
  <2>2. QED
    BY <1>1, <1>2, <1>4, <1>6, <2>1, RequestMoves
<1>8. RememberedMeansMailed'
  <2> SUFFICES ASSUME NEW m \in Ids, sentTo[m] # Nobody
               PROVE  \E w \in 1 .. Len(wins) :
                        wins[w].id = m /\ mails'[<<w, sentTo[m]>>] > 0
    BY <1>2 DEF RememberedMeansMailed
  <2>1. PICK w \in 1 .. Len(wins) : wins[w].id = m /\ mails[<<w, sentTo[m]>>] > 0
    BY DEF RememberedMeansMailed
  <2> DEFINE k == <<w, sentTo[m]>>
  <2>2. k \in Mails
    BY WinFacts DEF TypeOK, Mails
  <2>3. mails[k] \in Nat /\ mails'[k] \in Nat /\ mails'[k] >= mails[k]
    BY <1>1, <1>4, <2>2
  <2>4. QED
    BY <2>1, <2>3
<1>9. QED
  BY <1>2, <1>4, <1>5, <1>7, <1>8 DEF TypeOK

-----------------------------------------------------------------------------
(* The invariant holds in every reachable state.                           *)
THEOREM Invariance == Spec => []IInv
<1>1. ASSUME IInv, [Next]_vars PROVE IInv'
  <2>1. CASE StartMatch \/ Win \/ DropGame
    BY <1>1, <2>1, StartMatchKeeps, WinKeeps, DropGameKeeps
  <2>2. CASE ShowWin \/ Retry
    BY <1>1, <2>2, ShowWinKeeps, RetryKeeps
  <2>3. CASE HideWin
    <3>1. 0 \in 0 .. Len(wins)
      BY <1>1 DEF IInv, TypeOK
    <3>2. QED
      BY <1>1, <2>3, <3>1 DEF HideWin, game, api, IInv, TypeOK, SeenBelowLimit,
         GoodMeansMailed, KnownExact, KeyFor, RememberedMeansMailed
  <2>4. CASE EditEmail
    BY <1>1, <2>4 DEF EditEmail, game, page, api, IInv, TypeOK, SeenBelowLimit,
       GoodMeansMailed, KnownExact, KeyFor, RememberedMeansMailed
  <2>5. CASE WindowPasses
    <3>1. 0 \in 0 .. MaxPerWindow
      BY BoundsAssumption
    <3>2. QED
      BY <1>1, <2>5, <3>1 DEF WindowPasses, game, page, IInv, TypeOK, SeenBelowLimit,
         GoodMeansMailed, KnownExact, KeyFor, RememberedMeansMailed
  <2>6. ASSUME NEW i \in 1 .. Len(requests), Hear(i) \/ Admit(i) \/ Mail(i)
        PROVE  IInv'
    <3>1. i \in DOMAIN requests
      BY <1>1 DEF IInv, TypeOK
    <3>2. QED
      BY <1>1, <2>6, <3>1, HearKeeps, AdmitKeeps, MailKeeps
  <2>7. CASE UNCHANGED vars
    BY <1>1, <2>7 DEF vars, game, page, api, IInv, TypeOK, SeenBelowLimit,
       GoodMeansMailed, KnownExact, KeyFor, RememberedMeansMailed
  <2>8. QED
    BY <1>1, <2>1, <2>2, <2>3, <2>4, <2>5, <2>6, <2>7 DEF Next
<1>2. QED
  BY <1>1, InitIInv, PTL DEF Spec

(* Every variable keeps its type.                                          *)
THEOREM TypeCorrect == Spec => []TypeOK
BY Invariance, PTL DEF IInv

(* However often the page asks again, and however the answers are lost, no *)
(* address gets two mails for one win; it rests on KnownExact, that the    *)
(* requests for one win all carry one key.                                 *)
THEOREM MailedOncePerWin == Spec => []OneMailPerWin
<1>1. IInv => OneMailPerWin
  <2> SUFFICES ASSUME IInv, NEW k \in Mails PROVE mails[k] <= 1
    BY DEF OneMailPerWin
  <2>1. PICK w \in Wins, a \in Addresses : k = <<w, a>>
    BY DEF Mails
  <2>2. QED
    BY <2>1 DEF IInv, KnownExact
<1>2. QED
  BY <1>1, Invariance, PTL

(* What the browser remembers as sent, under a match_id, was mailed to     *)
(* that address for a win with that match_id.                              *)
THEOREM RememberedTrue == Spec => []RememberedMeansMailed
BY Invariance, PTL DEF IInv
=============================================================================
