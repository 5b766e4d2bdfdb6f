---------------------------- MODULE VictoryEmail -----------------------------
(***************************************************************************)
(* The mail with the picture of a won match: the effects and the retry     *)
(* button of one GuandanTable page, and the function behind                *)
(* api/send-guandan-victory, which has several requests of the page in     *)
(* hand at a time.                                                         *)
(*                                                                         *)
(* A room numbers its matches, and a room whose players have all gone is   *)
(* given a new game that numbers them from 1 again: two wins may have one  *)
(* match_id.  The page hears of a win again and again, as every state      *)
(* message repeats it, a lost connection takes it away and the next brings *)
(* it back.  The mail provider is modelled by what the function asks of    *)
(* it: one mail for one Idempotency-Key, which it remembers as long as the *)
(* model runs.                                                             *)
(***************************************************************************)
EXTENDS Integers, Sequences

CONSTANTS
  Addresses,    \* addresses that pass for one, half typed ones included
  Nobody,       \* no address, or one that does not pass
  MaxMatches,   \* bound: matches of one game
  MaxWins,      \* bound: matches won in the room, of whichever game
  MaxRequests,  \* bound: requests the page makes
  MaxPerWindow  \* mails one IP may send in ten minutes

ASSUME NobodyAssumption == Nobody \notin Addresses
ASSUME BoundsAssumption ==
  /\ MaxMatches \in Nat \ {0} /\ MaxWins \in Nat \ {0}
  /\ MaxRequests \in Nat \ {0} /\ MaxPerWindow \in Nat \ {0}

VARIABLES
  match,      \* match_id of the room's game, 0 before its first match
  won,        \* match_winner # None
  wins,       \* the wins of the room so far: their match_id and match_winner
  shownWin,   \* the win the page's state tells of, 0 for matchWinner = null
  email,      \* getPersonalEmail
  status,     \* screenshotEmailStatus
  shownTo,    \* screenshotEmail
  attempt,    \* screenshotAttemptRef: the match and address last tried
  retryUsed,  \* screenshotRetryUsedRef
  sentTo,     \* localStorage guandan_screenshot_sent:<room>:<match_id>
  requests,   \* the requests made, oldest first
  mails,      \* mails the provider has sent, for each win and address
  known,      \* the Idempotency-Keys it knows, each with the win it mailed
  counted     \* sendsByIp of the page's IP

game == <<match, won, wins>>
page == <<shownWin, status, shownTo, attempt, retryUsed>>
api  == <<mails, known, counted>>
vars == <<game, email, page, sentTo, requests, api>>

Ids   == 1 .. MaxMatches
Wins  == 1 .. MaxWins
Teams == {"A", "B"}
Mails == Wins \X Addresses
Keys  == Ids \X Teams \X Addresses

(* A win: the match_id and match_winner of the room's state.               *)
WinRecords == [id : Ids, team : Teams]

(* A request is posted, with its picture, admitted by the function and     *)
(* mailed; the page hears of its end, before or after the function is done.*)
Requests == [win : Wins, to : Addresses, at : {"posted", "admitted", "done"},
             seen : Nat, ok : BOOLEAN, heard : BOOLEAN]

TypeOK ==
  /\ match \in 0 .. MaxMatches /\ won \in BOOLEAN
  /\ wins \in Seq(WinRecords) /\ Len(wins) <= MaxWins
  /\ won => Len(wins) > 0
  /\ shownWin \in 0 .. Len(wins)
  /\ email \in Addresses \cup {Nobody}
  /\ status \in {"idle", "missing", "sending", "sent", "failed"}
  /\ shownTo \in Addresses \cup {Nobody}
  /\ attempt \in (Ids \X Addresses) \cup {Nobody}
  /\ retryUsed \in BOOLEAN
  /\ sentTo \in [Ids -> Addresses \cup {Nobody}]
  /\ requests \in Seq(Requests) /\ Len(requests) <= MaxRequests
  /\ \A i \in DOMAIN requests : requests[i].win <= Len(wins)
  /\ mails \in [Mails -> Nat]
  /\ known \subseteq Keys \X Wins
  /\ counted \in 0 .. MaxPerWindow

Init ==
  /\ match = 0 /\ won = FALSE /\ wins = <<>>
  /\ shownWin = 0
  /\ email \in Addresses \cup {Nobody}
  /\ status = "idle" /\ shownTo = Nobody /\ attempt = Nobody /\ retryUsed = FALSE
  /\ sentTo = [m \in Ids |-> Nobody]
  /\ requests = <<>>
  /\ mails = [k \in Mails |-> 0] /\ known = {} /\ counted = 0

-----------------------------------------------------------------------------
(* The room.                                                               *)

(* initialize_new_match, when nothing is played or the last match is won.  *)
StartMatch ==
  /\ match = 0 \/ won
  /\ match < MaxMatches
  /\ match' = match + 1 /\ won' = FALSE
  /\ UNCHANGED <<wins, email, page, sentTo, requests, api>>

(* The settlement that decides the match.                                  *)
Win ==
  /\ match > 0 /\ ~won /\ Len(wins) < MaxWins
  /\ won' = TRUE
  /\ \E t \in Teams : wins' = Append(wins, [id |-> match, team |-> t])
  /\ UNCHANGED <<match, email, page, sentTo, requests, api>>

(* Nobody is connected: the game is dropped, or replaced by a new one when *)
(* somebody joins.                                                         *)
DropGame ==
  /\ match > 0
  /\ match' = 0 /\ won' = FALSE
  /\ UNCHANGED <<wins, email, page, sentTo, requests, api>>

-----------------------------------------------------------------------------
(* The page.                                                               *)

(* sendVictoryScreenshot up to its first await.                            *)
Send(w) ==
  /\ shownTo' = email
  /\ IF email = Nobody
     THEN status' = "missing" /\ UNCHANGED requests
     ELSE /\ Len(requests) < MaxRequests
          /\ status' = "sending"
          /\ requests' = Append(requests,
               [win |-> w, to |-> email, at |-> "posted", seen |-> 0,
                ok |-> FALSE, heard |-> FALSE])

(* The effect of every state message that tells of a win.                  *)
AutoSend(w) ==
  LET key == <<wins[w].id, email>>
  IN  IF email = Nobody
        THEN shownTo' = email /\ status' = "missing" /\ UNCHANGED <<attempt, requests>>
      ELSE IF attempt = key
        THEN shownTo' = email /\ UNCHANGED <<status, attempt, requests>>
      ELSE IF sentTo[wins[w].id] = email
        THEN shownTo' = email /\ attempt' = key /\ status' = "sent"
             /\ UNCHANGED requests
      ELSE attempt' = key /\ Send(w)

(* A state message with a match_winner, the first or another.              *)
ShowWin ==
  /\ won
  /\ shownWin' = Len(wins)
  /\ AutoSend(Len(wins))
  /\ UNCHANGED <<game, email, retryUsed, sentTo, api>>

(* matchWinner is null: the next match has started, or the connection is   *)
(* lost and reset has emptied the table.                                   *)
HideWin ==
  /\ shownWin # 0
  /\ shownWin' = 0
  /\ status' = "idle" /\ shownTo' = Nobody /\ attempt' = Nobody
  /\ retryUsed' = FALSE
  /\ UNCHANGED <<game, email, sentTo, requests, api>>

(* updateEmail, at every key pressed.                                      *)
EditEmail ==
  /\ email' \in (Addresses \cup {Nobody}) \ {email}
  /\ UNCHANGED <<game, page, sentTo, requests, api>>

(* retryVictoryScreenshot                                                  *)
Retry ==
  /\ shownWin # 0 /\ status \in {"failed", "missing"} /\ ~retryUsed
  /\ retryUsed' = TRUE
  /\ Send(shownWin)
  /\ UNCHANGED <<game, shownWin, email, attempt, sentTo, api>>

(* Mutant of Conclude: any answer is a success.                            *)
ConcludeAnyhow(r, good) ==
  status' = "sent" /\ sentTo' = [sentTo EXCEPT ![wins[r.win].id] = r.to]

(* What follows the await: the match and address are those of the request, *)
(* the status is the page's own, whatever has happened since.              *)
Conclude(r, good) ==
  IF good
  THEN status' = "sent" /\ sentTo' = [sentTo EXCEPT ![wins[r.win].id] = r.to]
  ELSE status' = "failed" /\ UNCHANGED sentTo

(* The answer arrives; or the picture cannot be drawn, or the request or   *)
(* its answer is lost, which the page cannot tell apart.                   *)
Hear(i) ==
  /\ ~requests[i].heard
  /\ requests' = [requests EXCEPT ![i].heard = TRUE]
  /\ \/ requests[i].at = "done" /\ Conclude(requests[i], requests[i].ok)
     \/ Conclude(requests[i], FALSE)
  /\ UNCHANGED <<game, email, shownWin, shownTo, attempt, retryUsed, api>>

-----------------------------------------------------------------------------
(* The function.                                                           *)

(* Mutant of Admit: nobody counts.                                         *)
AdmitAll(i) ==
  /\ requests[i].at = "posted"
  /\ requests' = [requests EXCEPT ![i].at = "admitted", ![i].seen = counted]
  /\ UNCHANGED <<game, email, page, sentTo, api>>

(* Up to its await: the mails of this IP are counted, and many are refused.*)
Admit(i) ==
  /\ requests[i].at = "posted"
  /\ requests' = IF counted >= MaxPerWindow
                 THEN [requests EXCEPT ![i].at = "done"]
                 ELSE [requests EXCEPT ![i].at = "admitted", ![i].seen = counted]
  /\ UNCHANGED <<game, email, page, sentTo, api>>

(* Mutant of KeyOf: a retry has a key of its own.                          *)
KeyOfEachRequest(i) ==
  LET r == requests[i] IN <<wins[r.win].id, wins[r.win].team, r.to, i>>

(* idempotencyKey                                                          *)
KeyOf(i) == LET r == requests[i] IN <<wins[r.win].id, wins[r.win].team, r.to>>

(* The provider mails an unknown key and remembers it.  A known key with   *)
(* the picture it came with is answered as it was then, and one with       *)
(* another picture refused: the pictures of two wins differ, and so may    *)
(* two of one win, by the minute printed on them.                          *)
Accept(key, r) ==
  \/ /\ \A k \in known : k[1] # key
     /\ mails' = [mails EXCEPT ![<<r.win, r.to>>] = @ + 1]
     /\ known' = known \cup {<<key, r.win>>}
  \/ /\ <<key, r.win>> \in known
     /\ UNCHANGED <<mails, known>>

(* From the await on: what was counted before it is written back with one  *)
(* more.  The provider may also refuse, or accept and not be heard.        *)
Mail(i) ==
  /\ requests[i].at = "admitted"
  /\ \/ /\ Accept(KeyOf(i), requests[i])
        /\ counted' = requests[i].seen + 1
        /\ requests' = [requests EXCEPT ![i].at = "done", ![i].seen = 0, ![i].ok = TRUE]
     \/ /\ Accept(KeyOf(i), requests[i]) \/ UNCHANGED <<mails, known>>
        /\ UNCHANGED counted
        /\ requests' = [requests EXCEPT ![i].at = "done", ![i].seen = 0]
  /\ UNCHANGED <<game, email, page, sentTo>>

(* Ten minutes without a request: what was counted is no longer recent.    *)
WindowPasses ==
  /\ counted > 0
  /\ \A i \in 1 .. Len(requests) : requests[i].at # "admitted"
  /\ counted' = 0
  /\ UNCHANGED <<game, email, page, sentTo, requests, mails, known>>

Next ==
  \/ StartMatch \/ Win \/ DropGame
  \/ ShowWin \/ HideWin \/ EditEmail \/ Retry
  \/ \E i \in 1 .. Len(requests) :
       Hear(i) \/ Admit(i) \/ Mail(i)
  \/ WindowPasses

Spec == Init /\ [][Next]_vars

-----------------------------------------------------------------------------
(* However often a page reconnects, is told of the win, retries or loses   *)
(* an answer, nobody gets two mails for one win: all the requests it makes *)
(* for a win carry the key of the first.                                   *)
OneMailPerWin == \A k \in Mails : mails[k] <= 1

(* What the browser remembers as sent, and will not send again, was mailed *)
(* to that address, for a win with that match_id: answers come late, to a  *)
(* page that shows another win or another address by then.                 *)
RememberedMeansMailed ==
  \A m \in Ids : sentTo[m] # Nobody =>
    \E w \in 1 .. Len(wins) : wins[w].id = m /\ mails[<<w, sentTo[m]>>] > 0

(* What the page says: "the picture has been sent to" the address it names *)
(* is true of the win it shows.  The code does not keep it.                *)
ShownIsSent ==
  shownWin # 0 /\ status = "sent" =>
    shownTo # Nobody /\ mails[<<shownWin, shownTo>>] > 0
=============================================================================
