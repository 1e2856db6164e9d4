-------------------------- MODULE TokenRefreshProofs --------------------------
(***************************************************************************)
(* Proofs about TokenRefresh: with any number of requests, sessions and    *)
(* expiries, the queue of the interceptor has a leader, and the stored     *)
(* access token is the signed-in user's unless a refresh was overtaken by  *)
(* a login or a logout.                                                    *)
(***************************************************************************)
EXTENDS TokenRefresh, FiniteSetTheorems, TLAPS

CallRecords == [of : Maybe, answer : {"none", "ok", "refused"}]

Types ==
  /\ user \in Maybe /\ access \in Tokens /\ refresh \in Maybe
  /\ request \in [Requests -> RequestRecords]
  /\ refreshing \in BOOLEAN /\ leaving \in BOOLEAN /\ crossed \in BOOLEAN
  /\ call \in [Callers -> CallRecords]
  /\ issued \in 0..MaxSessions
  /\ revoked \subseteq Sessions /\ barred \subseteq Sessions
  /\ lapses \in 0..MaxLapses

Leads(r) == request[r].at = "leading"

\* The queue: the mark isRefreshing, the call and the leader come and go
\* together.
QueueInv ==
  /\ refreshing <=> call["interceptor"] # NoCall
  /\ \A r \in Requests : Waiting(r) => refreshing
  /\ refreshing => \E r \in Requests : Leads(r)
  /\ \A r, s \in Requests : Leads(r) /\ Leads(s) => r = s

\* A call names a session, and while no session has begun or ended under a
\* call, it is the present one, as are the stored tokens.
SessionInv ==
  /\ refresh \in {None, user}
  /\ \A c \in Callers : call[c].of = None => call[c] = NoCall
  /\ ~crossed => access.of \in {None, user}
  /\ ~crossed => \A c \in Callers : call[c] # NoCall => call[c].of = user

TInv == Types /\ QueueInv /\ SessionInv

-----------------------------------------------------------------------------
LEMMA InitTInv ==
  ASSUME MaxSessions \in Nat, MaxLapses \in Nat
  PROVE  Init => TInv
<1> SUFFICES ASSUME Init PROVE TInv
  OBVIOUS
<1>1. Types
  <2>1. refreshing \in BOOLEAN /\ leaving \in BOOLEAN /\ crossed \in BOOLEAN
    BY Zenon DEF Init
  <2>2. NoToken \in Tokens /\ Fresh \in RequestRecords /\ NoCall \in CallRecords
    BY DEF NoToken, Tokens, Maybe, Fresh, RequestRecords, Places, NoCall, CallRecords
  <2>3. /\ user \in Maybe /\ access \in Tokens /\ refresh \in Maybe
        /\ request \in [Requests -> RequestRecords] /\ call \in [Callers -> CallRecords]
        /\ revoked \subseteq Sessions /\ barred \subseteq Sessions
    BY <2>2 DEF Init, Maybe
  <2>4. issued \in 0..MaxSessions /\ lapses \in 0..MaxLapses
    BY DEF Init
  <2> QED
    BY <2>1, <2>3, <2>4 DEF Types
<1>2. QueueInv /\ SessionInv
  BY DEF Init, QueueInv, SessionInv, Leads, Waiting, Fresh, NoCall, NoToken, Callers
<1> QED
  BY <1>1, <1>2 DEF TInv






-----------------------------------------------------------------------------
(* The actions.                                                            *)

\* Requests that come to places where nothing waits leave the queue's
\* invariant alone, as long as the call does not change.
LEMMA QueueKept ==
  ASSUME QueueInv, refreshing' = refreshing, call' = call,
         \A r \in Requests : \/ request'[r].at = request[r].at
                             \/ ~Waiting(r) /\ request'[r].at \notin {"queued", "leading"}
  PROVE  QueueInv'
<1>1. \A r \in Requests : (Waiting(r)' <=> Waiting(r)) /\ (Leads(r)' <=> Leads(r))
  BY DEF Waiting, Leads
<1> QED
  BY <1>1 DEF QueueInv, NoCall

\* A change of one request.
LEMMA OneRequest ==
  ASSUME TInv, NEW r \in Requests, NEW q \in RequestRecords,
         request' = [request EXCEPT ![r] = q]
  PROVE  /\ request' \in [Requests -> RequestRecords]
         /\ request'[r] = q
         /\ \A s \in Requests : s # r => request'[s] = request[s]
BY DEF TInv, Types

LEMMA StepBreak == ASSUME TInv, MaxSessions \in Nat, MaxLapses \in Nat, NEW r \in Requests, Break(r) PROVE TInv'
<1> DEFINE q == [request[r] EXCEPT !.at = "failed"]
<1>1. q \in RequestRecords /\ q.at = "failed"
  BY DEF TInv, Types, RequestRecords, Places
<1>2. /\ request' \in [Requests -> RequestRecords] /\ request'[r] = q
      /\ \A s \in Requests : s # r => request'[s] = request[s]
  BY <1>1, OneRequest DEF Break
<1>3. Types'
  BY <1>2 DEF TInv, Types, Break, tokens, server
<1>4. QueueInv'
  <2>1. refreshing' = refreshing /\ call' = call /\ ~Waiting(r)
    BY DEF Break, tokens, server, Waiting
  <2>2. \A t \in Requests : \/ request'[t].at = request[t].at
                            \/ ~Waiting(t) /\ request'[t].at \notin {"queued", "leading"}
    BY <1>1, <1>2, <2>1
  <2> HIDE DEF q
  <2> QED
    BY <2>1, <2>2, QueueKept DEF TInv
<1>5. SessionInv'
  BY DEF TInv, SessionInv, Break, tokens, server, NoCall
<1> QED
  BY <1>3, <1>4, <1>5 DEF TInv

LEMMA StepGiveUp == ASSUME TInv, MaxSessions \in Nat, MaxLapses \in Nat, NEW r \in Requests, GiveUp(r) PROVE TInv'
<1> DEFINE q == [request[r] EXCEPT !.at = "failed"]
<1>1. q \in RequestRecords /\ q.at = "failed"
  BY DEF TInv, Types, RequestRecords, Places
<1>2. /\ request' \in [Requests -> RequestRecords] /\ request'[r] = q
      /\ \A s \in Requests : s # r => request'[s] = request[s]
  BY <1>1, OneRequest DEF GiveUp
<1>3. Types'
  BY <1>2 DEF TInv, Types, GiveUp, tokens, server
<1>4. QueueInv'
  <2>1. refreshing' = refreshing /\ call' = call /\ ~Waiting(r)
    BY DEF GiveUp, tokens, server, Waiting
  <2>2. \A t \in Requests : \/ request'[t].at = request[t].at
                            \/ ~Waiting(t) /\ request'[t].at \notin {"queued", "leading"}
    BY <1>1, <1>2, <2>1
  <2> HIDE DEF q
  <2> QED
    BY <2>1, <2>2, QueueKept DEF TInv
<1>5. SessionInv'
  BY DEF TInv, SessionInv, GiveUp, tokens, server, NoCall
<1> QED
  BY <1>3, <1>4, <1>5 DEF TInv

LEMMA StepSend == ASSUME TInv, MaxSessions \in Nat, MaxLapses \in Nat, NEW r \in Requests, Send(r) PROVE TInv'
<1> DEFINE q == [Fresh EXCEPT !.at = "sent", !.carries = access, !.body = IF r = Bye THEN refresh ELSE None]
<1>1. q \in RequestRecords /\ q.at = "sent"
  BY DEF TInv, Types, RequestRecords, Places, Fresh, Maybe
<1>2. /\ request' \in [Requests -> RequestRecords] /\ request'[r] = q
      /\ \A s \in Requests : s # r => request'[s] = request[s]
  BY <1>1, OneRequest DEF Send
<1>3. Types'
  BY <1>2 DEF TInv, Types, Send, tokens, server
<1>4. QueueInv'
  <2>1. refreshing' = refreshing /\ call' = call /\ ~Waiting(r)
    BY DEF Send, tokens, server, Waiting
  <2>2. \A t \in Requests : \/ request'[t].at = request[t].at
                            \/ ~Waiting(t) /\ request'[t].at \notin {"queued", "leading"}
    BY <1>1, <1>2, <2>1
  <2> HIDE DEF q
  <2> QED
    BY <2>1, <2>2, QueueKept DEF TInv
<1>5. SessionInv'
  BY DEF TInv, SessionInv, Send, tokens, server, NoCall
<1> QED
  BY <1>3, <1>4, <1>5 DEF TInv

LEMMA StepNothingToRefresh == ASSUME TInv, MaxSessions \in Nat, MaxLapses \in Nat, NEW r \in Requests, NothingToRefresh(r) PROVE TInv'
<1> DEFINE q == [request[r] EXCEPT !.at = "failed"]
<1>1. q \in RequestRecords /\ q.at = "failed"
  BY DEF TInv, Types, RequestRecords, Places
<1>2. /\ request' \in [Requests -> RequestRecords] /\ request'[r] = q
      /\ \A s \in Requests : s # r => request'[s] = request[s]
  BY <1>1, OneRequest DEF NothingToRefresh
<1>3. Types'
  BY <1>2 DEF TInv, Types, NothingToRefresh, tokens, server, NoToken, Tokens, Maybe
<1>4. QueueInv'
  <2>1. refreshing' = refreshing /\ call' = call /\ ~Waiting(r)
    BY DEF NothingToRefresh, tokens, server, NoToken, Tokens, Maybe, Waiting
  <2>2. \A t \in Requests : \/ request'[t].at = request[t].at
                            \/ ~Waiting(t) /\ request'[t].at \notin {"queued", "leading"}
    BY <1>1, <1>2, <2>1
  <2> HIDE DEF q
  <2> QED
    BY <2>1, <2>2, QueueKept DEF TInv
<1>5. SessionInv'
  BY DEF TInv, SessionInv, NothingToRefresh, tokens, server, NoToken, Tokens, Maybe, NoCall
<1> QED
  BY <1>3, <1>4, <1>5 DEF TInv

LEMMA StepServe == ASSUME TInv, MaxSessions \in Nat, MaxLapses \in Nat, NEW r \in Requests, Serve(r) PROVE TInv'
<1> DEFINE q == [request[r] EXCEPT !.at = IF Authorised(request[r]) THEN "ok" ELSE "refused"]
<1>1. q \in RequestRecords /\ q.at \in {"ok", "refused"}
  BY DEF TInv, Types, RequestRecords, Places
<1>2. /\ request' \in [Requests -> RequestRecords] /\ request'[r] = q
      /\ \A s \in Requests : s # r => request'[s] = request[s]
  BY <1>1, OneRequest DEF Serve
<1>3. Types'
  <2>1. request[r] \in RequestRecords
    BY DEF TInv, Types
  <2>2. request[r].body # None => request[r].body \in Sessions
    BY <2>1 DEF RequestRecords, Maybe
  <2>3. revoked' \subseteq Sessions
    BY <2>2 DEF TInv, Types, Serve
  <2> QED
    BY <1>2, <2>3 DEF TInv, Types, Serve, tokens
<1>4. QueueInv'
  <2>1. refreshing' = refreshing /\ call' = call /\ ~Waiting(r)
    BY DEF Serve, Waiting
  <2>2. \A t \in Requests : \/ request'[t].at = request[t].at
                            \/ ~Waiting(t) /\ request'[t].at \notin {"queued", "leading"}
    BY <1>1, <1>2, <2>1
  <2> HIDE DEF q
  <2> QED
    BY <2>1, <2>2, QueueKept DEF TInv
<1>5. SessionInv'
  BY DEF TInv, SessionInv, Serve, tokens, NoCall
<1> QED
  BY <1>3, <1>4, <1>5 DEF TInv

LEMMA StepQueue == ASSUME TInv, MaxSessions \in Nat, MaxLapses \in Nat, NEW r \in Requests, Queue(r) PROVE TInv'
<1> DEFINE q == [request[r] EXCEPT !.at = "queued"]
<1>1. q \in RequestRecords /\ q.at = "queued"
  BY DEF TInv, Types, RequestRecords, Places
<1>2. /\ request' \in [Requests -> RequestRecords] /\ request'[r] = q
      /\ \A s \in Requests : s # r => request'[s] = request[s]
  BY <1>1, OneRequest DEF Queue
<1>3. Types'
  BY <1>2 DEF TInv, Types, Queue, tokens, server
<1>4. QueueInv'
  <2>1. refreshing' = refreshing /\ call' = call /\ refreshing /\ ~Leads(r)
    BY DEF Queue, Leads
  <2>2. \A t \in Requests : Leads(t)' <=> Leads(t)
    BY <1>1, <1>2, <2>1 DEF Leads
  <2> HIDE DEF q
  <2> QED
    BY <2>1, <2>2 DEF TInv, QueueInv, NoCall
<1>5. SessionInv'
  BY DEF TInv, SessionInv, Queue, tokens, NoCall
<1> QED
  BY <1>3, <1>4, <1>5 DEF TInv

LEMMA StepLead == ASSUME TInv, MaxSessions \in Nat, MaxLapses \in Nat, NEW r \in Requests, Lead(r) PROVE TInv'
<1> DEFINE q == [request[r] EXCEPT !.at = "leading", !.retry = TRUE]
<1>1. q \in RequestRecords /\ q.at = "leading"
  BY DEF TInv, Types, RequestRecords, Places
<1>2. /\ request' \in [Requests -> RequestRecords] /\ request'[r] = q
      /\ \A s \in Requests : s # r => request'[s] = request[s]
  BY <1>1, OneRequest DEF Lead
<1>3. /\ call["interceptor"] = NoCall /\ call["interceptor"] \in CallRecords
      /\ call["socket"] \in CallRecords
  BY DEF TInv, Types, QueueInv, Lead, Callers
<1>4. /\ call' \in [Callers -> CallRecords] /\ call'["interceptor"].of = refresh
      /\ call'["socket"] = call["socket"]
  BY <1>3 DEF TInv, Types, Lead, CallRecords, Callers
<1>5. refresh # None /\ refreshing' = TRUE /\ ~refreshing
  BY DEF Lead
<1>6. Types'
  <2>1. refreshing' \in BOOLEAN
    BY <1>5, Zenon
  <2> QED
    BY <1>2, <1>4, <2>1 DEF TInv, Types, Lead, tokens, server
<1>7. QueueInv'
  <2>1. \A t \in Requests : ~Leads(t)
    BY <1>5 DEF TInv, QueueInv, Leads, Waiting
  <2>2. \A t \in Requests : Leads(t)' <=> t = r
    BY <1>1, <1>2, <2>1 DEF Leads
  <2>3. call'["interceptor"] # NoCall
    BY <1>4, <1>5 DEF NoCall
  <2> HIDE DEF q
  <2> QED
    BY <1>5, <2>2, <2>3 DEF QueueInv
<1>8. SessionInv'
  <2>1. /\ user' = user /\ access' = access /\ refresh' = refresh /\ crossed' = crossed
    BY DEF Lead, tokens
  <2>2. refresh = user
    BY <1>5 DEF TInv, SessionInv
  <2> HIDE DEF q
  <2> QED
    BY <1>4, <1>5, <2>1, <2>2 DEF TInv, SessionInv, NoCall, Callers
<1> QED
  BY <1>6, <1>7, <1>8 DEF TInv

\* The two callers of POST /auth/refresh.
LEMMA StepRefreshForSocket ==
  ASSUME TInv, RefreshForSocket PROVE TInv'
<1>1. /\ call["socket"] = NoCall /\ refresh # None /\ refresh = user
      /\ call["interceptor"] \in CallRecords /\ call["socket"] \in CallRecords
      /\ refresh \in Maybe
  BY DEF TInv, Types, SessionInv, RefreshForSocket, Callers
<1>2. /\ call' \in [Callers -> CallRecords] /\ call'["socket"].of = refresh
      /\ call'["interceptor"] = call["interceptor"]
  BY <1>1 DEF TInv, Types, RefreshForSocket, CallRecords, Callers
<1>3. /\ user' = user /\ access' = access /\ refresh' = refresh /\ crossed' = crossed
      /\ request' = request /\ refreshing' = refreshing /\ leaving' = leaving
      /\ issued' = issued /\ revoked' = revoked /\ barred' = barred /\ lapses' = lapses
  BY DEF RefreshForSocket, tokens, server
<1>4. Types'
  BY <1>2, <1>3 DEF TInv, Types
<1>5. QueueInv'
  BY <1>2, <1>3 DEF TInv, QueueInv, Waiting, Leads, NoCall
<1>6. SessionInv'
  BY <1>1, <1>2, <1>3 DEF TInv, SessionInv, NoCall, Callers
<1> QED
  BY <1>4, <1>5, <1>6 DEF TInv

LEMMA StepServeRefresh ==
  ASSUME TInv, NEW c \in Callers, NEW ok \in BOOLEAN, ServeRefresh(c, ok) PROVE TInv'
<1> DEFINE a == IF ok THEN "ok" ELSE "refused"
<1>1. /\ call[c] \in CallRecords /\ call[c].of # None
      /\ call' = [call EXCEPT ![c].answer = a]
  BY DEF TInv, Types, ServeRefresh
<1>2. a \in {"none", "ok", "refused"}
  OBVIOUS
<1> HIDE DEF a
<1>3. /\ call' \in [Callers -> CallRecords] /\ call'[c].of = call[c].of
      /\ \A d \in Callers : d # c => call'[d] = call[d]
  BY <1>1, <1>2 DEF TInv, Types, CallRecords
<1>4. \A d \in Callers : (call'[d] = NoCall <=> call[d] = NoCall) /\ call'[d].of = call[d].of
  BY <1>1, <1>3 DEF NoCall
<1>5. /\ user' = user /\ access' = access /\ refresh' = refresh /\ crossed' = crossed
      /\ request' = request /\ refreshing' = refreshing /\ leaving' = leaving
      /\ issued' = issued /\ revoked' = revoked /\ barred' = barred /\ lapses' = lapses
  BY DEF ServeRefresh, tokens, server
<1>6. Types'
  BY <1>3, <1>5 DEF TInv, Types
<1>7. "interceptor" \in Callers
  BY DEF Callers
<1>8. QueueInv'
  BY <1>4, <1>5, <1>7 DEF TInv, QueueInv, Waiting, Leads, NoCall
<1>9. SessionInv'
  BY <1>4, <1>5 DEF TInv, SessionInv, NoCall
<1> QED
  BY <1>6, <1>8, <1>9 DEF TInv

\* The end of the interceptor's refresh: every waiting request goes on, and
\* none leads or is queued any more.
LEMMA QueueEmptied ==
  ASSUME refreshing' = FALSE, call'["interceptor"] = NoCall,
         \A r \in Requests : request'[r].at \notin {"queued", "leading"}
  PROVE  QueueInv'
BY DEF QueueInv, Waiting, Leads, NoCall

LEMMA CallEnds ==
  ASSUME TInv, NEW c \in Callers, call' = [call EXCEPT ![c] = NoCall]
  PROVE  /\ call' \in [Callers -> CallRecords] /\ call'[c] = NoCall
         /\ \A d \in Callers : d # c => call'[d] = call[d]
<1>1. NoCall \in CallRecords
  BY DEF NoCall, CallRecords, Maybe
<1> QED
  BY <1>1 DEF TInv, Types

LEMMA StepRefreshDone == ASSUME TInv, RefreshDone PROVE TInv'
<1>1. "interceptor" \in Callers /\ call["interceptor"] \in CallRecords
  BY DEF TInv, Types, Callers
<1>2. /\ call' \in [Callers -> CallRecords] /\ call'["interceptor"] = NoCall
      /\ \A d \in Callers : d # "interceptor" => call'[d] = call[d]
  BY <1>1, CallEnds DEF RefreshDone
<1>3. call["interceptor"] # NoCall /\ call["interceptor"].of # None
  BY <1>1 DEF RefreshDone, NoCall, TInv, SessionInv
<1>4. access' \in Tokens /\ access'.of = call["interceptor"].of
  BY <1>1 DEF RefreshDone, New, Tokens, CallRecords
<1>5. \A r \in Requests : /\ request'[r] \in RequestRecords
                          /\ request'[r].at \notin {"queued", "leading"}
  <2> SUFFICES ASSUME NEW r \in Requests
               PROVE  /\ request'[r] \in RequestRecords
                      /\ request'[r].at \notin {"queued", "leading"}
    OBVIOUS
  <2>1. request[r] \in RequestRecords
    BY DEF TInv, Types
  <2>2. request'[r] = IF Waiting(r) THEN Resent(request[r]) ELSE request[r]
    BY DEF RefreshDone
  <2>3. Resent(request[r]) \in RequestRecords /\ Resent(request[r]).at = "sent"
    BY <1>4, <2>1 DEF Resent, RequestRecords, Places
  <2> QED
    BY <2>1, <2>2, <2>3 DEF Waiting
<1>6. request' \in [Requests -> RequestRecords]
  BY <1>5 DEF RefreshDone
<1>7. /\ user' = user /\ refresh' = refresh /\ crossed' = crossed
      /\ refreshing' = FALSE /\ leaving' = leaving
      /\ issued' = issued /\ revoked' = revoked /\ barred' = barred /\ lapses' = lapses
  BY DEF RefreshDone, server
<1>8. Types'
  <2>1. refreshing' \in BOOLEAN
    BY <1>7, Zenon
  <2> QED
    BY <1>2, <1>4, <1>6, <1>7, <2>1 DEF TInv, Types
<1>9. QueueInv'
  BY <1>2, <1>5, <1>7, QueueEmptied
<1>10. SessionInv'
  BY <1>1, <1>2, <1>3, <1>4, <1>7 DEF TInv, SessionInv, NoCall
<1> QED
  BY <1>8, <1>9, <1>10 DEF TInv

LEMMA StepRefreshFailed == ASSUME TInv, RefreshFailed PROVE TInv'
<1>1. "interceptor" \in Callers /\ call["interceptor"] \in CallRecords
  BY DEF TInv, Types, Callers
<1>2. /\ call' \in [Callers -> CallRecords] /\ call'["interceptor"] = NoCall
      /\ \A d \in Callers : d # "interceptor" => call'[d] = call[d]
  BY <1>1, CallEnds DEF RefreshFailed
<1>3. access' \in Tokens /\ access'.of = None /\ refresh' = None /\ None \in Maybe
  BY DEF RefreshFailed, NoToken, Tokens, Maybe
<1>4. \A r \in Requests : /\ request'[r] \in RequestRecords
                          /\ request'[r].at \notin {"queued", "leading"}
  <2> SUFFICES ASSUME NEW r \in Requests
               PROVE  /\ request'[r] \in RequestRecords
                      /\ request'[r].at \notin {"queued", "leading"}
    OBVIOUS
  <2> DEFINE q == [request[r] EXCEPT !.at = "failed"]
  <2>1. request[r] \in RequestRecords
    BY DEF TInv, Types
  <2>2. request'[r] = IF Waiting(r) THEN q ELSE request[r]
    BY DEF RefreshFailed
  <2>3. q \in RequestRecords /\ q.at = "failed"
    BY <2>1 DEF RequestRecords, Places
  <2> HIDE DEF q
  <2> QED
    BY <2>1, <2>2, <2>3 DEF Waiting
<1>5. request' \in [Requests -> RequestRecords]
  BY <1>4 DEF RefreshFailed
<1>6. /\ user' = user /\ crossed' = crossed /\ refreshing' = FALSE /\ leaving' = TRUE
      /\ issued' = issued /\ revoked' = revoked /\ barred' = barred /\ lapses' = lapses
  BY DEF RefreshFailed, server
<1>7. Types'
  <2>1. refreshing' \in BOOLEAN /\ leaving' \in BOOLEAN
    BY <1>6, Zenon
  <2> QED
    BY <1>2, <1>3, <1>5, <1>6, <2>1 DEF TInv, Types
<1>8. QueueInv'
  BY <1>2, <1>4, <1>6, QueueEmptied
<1>9. SessionInv'
  BY <1>2, <1>3, <1>6 DEF TInv, SessionInv, NoCall
<1> QED
  BY <1>7, <1>8, <1>9 DEF TInv

LEMMA StepSocketRefreshEnds == ASSUME TInv, SocketRefreshEnds PROVE TInv'
<1>1. "socket" \in Callers /\ call["socket"] \in CallRecords
  BY DEF TInv, Types, Callers
<1>2. /\ call' \in [Callers -> CallRecords] /\ call'["socket"] = NoCall
      /\ \A d \in Callers : d # "socket" => call'[d] = call[d]
  BY <1>1, CallEnds DEF SocketRefreshEnds
<1>3. call["socket"] # NoCall
  BY DEF SocketRefreshEnds, NoCall
<1>4. access' \in Tokens /\ access'.of \in {access.of, call["socket"].of}
  BY <1>1 DEF SocketRefreshEnds, New, Tokens, CallRecords, TInv, Types
<1>5. /\ user' = user /\ refresh' = refresh /\ crossed' = crossed /\ request' = request
      /\ refreshing' = refreshing /\ leaving' = leaving
      /\ issued' = issued /\ revoked' = revoked /\ barred' = barred /\ lapses' = lapses
  BY DEF SocketRefreshEnds, server
<1>6. Types'
  BY <1>2, <1>4, <1>5 DEF TInv, Types
<1>7. call'["interceptor"] = call["interceptor"]
  BY <1>2 DEF Callers
<1>8. QueueInv'
  BY <1>5, <1>7 DEF TInv, QueueInv, Waiting, Leads, NoCall
<1>9. SessionInv'
  BY <1>1, <1>2, <1>3, <1>4, <1>5 DEF TInv, SessionInv, NoCall
<1> QED
  BY <1>6, <1>8, <1>9 DEF TInv

\* Sessions: a login, a logout and a reload of the page.
LEMMA StepLogin == ASSUME TInv, MaxSessions \in Nat, Login PROVE TInv'
<1>1. /\ issued' \in Sessions /\ issued' \in 0..MaxSessions
  BY DEF TInv, Types, Login, Sessions
<1>2. /\ access' = New(issued') /\ refresh' = issued' /\ user' = issued'
      /\ request' = request /\ refreshing' = refreshing /\ call' = call
      /\ leaving' = leaving /\ revoked' = revoked /\ barred' = barred /\ lapses' = lapses
      /\ crossed' = (crossed \/ UnderWay)
  BY DEF Login
<1>3. access' \in Tokens /\ access'.of = issued' /\ issued' \in Maybe
  BY <1>1, <1>2 DEF New, Tokens, Maybe
<1>4. crossed' \in BOOLEAN
  BY <1>2, Zenon DEF TInv, Types
<1>5. Types'
  BY <1>1, <1>2, <1>3, <1>4 DEF TInv, Types
<1>6. QueueInv'
  BY <1>2 DEF TInv, QueueInv, Waiting, Leads, NoCall
<1>7. SessionInv'
  BY <1>2, <1>3 DEF TInv, SessionInv, UnderWay, NoCall
<1> QED
  BY <1>5, <1>6, <1>7 DEF TInv

LEMMA StepLogout == ASSUME TInv, Logout PROVE TInv'
<1>1. /\ access' = NoToken /\ refresh' = None /\ user' = None
      /\ request' = [request EXCEPT ![Bye].at = "gone"]
      /\ refreshing' = refreshing /\ call' = call /\ leaving' = leaving
      /\ issued' = issued /\ revoked' = revoked /\ barred' = barred /\ lapses' = lapses
      /\ crossed' = (crossed \/ UnderWay) /\ request[Bye].at \in {"ok", "failed"}
  BY DEF Logout, server
<1>2. access' \in Tokens /\ access'.of = None /\ None \in Maybe
  BY <1>1 DEF NoToken, Tokens, Maybe
<1>3. crossed' \in BOOLEAN
  BY <1>1, Zenon DEF TInv, Types
<1>4. /\ request' \in [Requests -> RequestRecords]
      /\ \A r \in Requests : \/ request'[r].at = request[r].at
                             \/ ~Waiting(r) /\ request'[r].at \notin {"queued", "leading"}
  BY <1>1 DEF TInv, Types, RequestRecords, Places, Waiting
<1>5. Types'
  BY <1>1, <1>2, <1>3, <1>4 DEF TInv, Types
<1>6. QueueInv'
  BY <1>1, <1>4, QueueKept DEF TInv
<1>7. SessionInv'
  BY <1>1, <1>2 DEF TInv, SessionInv, UnderWay, NoCall
<1> QED
  BY <1>5, <1>6, <1>7 DEF TInv

LEMMA StepReload == ASSUME TInv, NEW kept \in BOOLEAN, Reload(kept) PROVE TInv'
<1>1. /\ access' = (IF kept THEN access ELSE NoToken) /\ refresh' = refresh /\ user' = user
      /\ refreshing' = FALSE /\ leaving' = FALSE
      /\ issued' = issued /\ revoked' = revoked /\ barred' = barred /\ lapses' = lapses
      /\ crossed' = crossed
  BY DEF Reload, server
<1>2. NoToken \in Tokens /\ NoToken.of = None
  BY DEF NoToken, Tokens, Maybe
<1>3. access' \in Tokens /\ access'.of \in {access.of, None}
  BY <1>1, <1>2 DEF TInv, Types
<1>4. call' \in [Callers -> CallRecords] /\ \A c \in Callers : call'[c] = NoCall
  BY DEF Reload, NoCall, CallRecords, Maybe
<1>5. \A r \in Requests : /\ request'[r] \in RequestRecords
                          /\ request'[r].at \notin {"queued", "leading"}
  <2> SUFFICES ASSUME NEW r \in Requests
               PROVE  /\ request'[r] \in RequestRecords
                      /\ request'[r].at \notin {"queued", "leading"}
    OBVIOUS
  <2> DEFINE q == [Fresh EXCEPT !.at = "gone"]
  <2>1. q \in RequestRecords /\ q.at = "gone" /\ request[r] \in RequestRecords
    BY DEF Fresh, RequestRecords, Places, NoToken, Tokens, Maybe, TInv, Types
  <2>2. request'[r] = IF request[r].at = "idle" THEN request[r] ELSE q
    BY DEF Reload
  <2> HIDE DEF q
  <2> QED
    BY <2>1, <2>2
<1>6. request' \in [Requests -> RequestRecords]
  BY <1>5 DEF Reload
<1>7. Types'
  <2>1. refreshing' \in BOOLEAN /\ leaving' \in BOOLEAN
    BY <1>1, Zenon
  <2> QED
    BY <1>1, <1>3, <1>4, <1>6, <2>1 DEF TInv, Types
<1>8. QueueInv'
  BY <1>1, <1>4, <1>5, QueueEmptied DEF Callers
<1>9. SessionInv'
  BY <1>1, <1>3, <1>4 DEF TInv, SessionInv, NoCall
<1> QED
  BY <1>7, <1>8, <1>9 DEF TInv

\* Time and the admin.
LEMMA StepTokensAge ==
  ASSUME TInv, MaxLapses \in Nat, Lapse \/ \E s \in Sessions : Bar(s) PROVE TInv'
<1>1. /\ user' = user /\ refresh' = refresh /\ request' = request /\ call' = call
      /\ refreshing' = refreshing /\ leaving' = leaving /\ issued' = issued
      /\ revoked' = revoked /\ crossed' = crossed
  BY DEF Lapse, Bar, tokens
<1>2. access' \in Tokens /\ access'.of = access.of
  <2>1. access \in Tokens
    BY DEF TInv, Types
  <2>2. CASE access' = access
    BY <2>1, <2>2
  <2>3. CASE access' = [access EXCEPT !.stale = TRUE]
    BY <2>1, <2>3 DEF Tokens
  <2> QED
    BY <2>2, <2>3 DEF Lapse, Bar, tokens
<1>3. barred' \subseteq Sessions /\ lapses' \in 0..MaxLapses
  BY DEF TInv, Types, Lapse, Bar
<1>4. Types'
  BY <1>1, <1>2, <1>3 DEF TInv, Types
<1>5. QueueInv'
  BY <1>1 DEF TInv, QueueInv, Waiting, Leads, NoCall
<1>6. SessionInv'
  BY <1>1, <1>2 DEF TInv, SessionInv, NoCall
<1> QED
  BY <1>4, <1>5, <1>6 DEF TInv

-----------------------------------------------------------------------------
(* The theorems.                                                           *)

LEMMA NextTInv ==
  ASSUME MaxSessions \in Nat, MaxLapses \in Nat
  PROVE  TInv /\ [Next]_vars => TInv'
<1> SUFFICES ASSUME TInv, [Next]_vars PROVE TInv'
  OBVIOUS
<1>1. CASE Login \/ Logout \/ Lapse
  BY <1>1, StepLogin, StepLogout, StepTokensAge
<1>2. ASSUME NEW r \in Requests,
             \/ Send(r) \/ Serve(r) \/ Break(r)
             \/ GiveUp(r) \/ NothingToRefresh(r) \/ Queue(r) \/ Lead(r)
      PROVE  TInv'
  BY <1>2, StepSend, StepServe, StepBreak, StepGiveUp, StepNothingToRefresh,
     StepQueue, StepLead
<1>3. CASE RefreshForSocket \/ RefreshDone \/ RefreshFailed \/ SocketRefreshEnds
  BY <1>3, StepRefreshForSocket, StepRefreshDone, StepRefreshFailed,
     StepSocketRefreshEnds
<1>4. CASE \E c \in Callers, ok \in BOOLEAN : ServeRefresh(c, ok)
  BY <1>4, StepServeRefresh
<1>5. CASE (\E kept \in BOOLEAN : Reload(kept)) \/ (\E s \in Sessions : Bar(s))
  BY <1>5, StepReload, StepTokensAge
<1>6. CASE UNCHANGED vars
  BY <1>6 DEF vars, TInv, Types, QueueInv, SessionInv, Waiting, Leads, NoCall
<1> QED
  BY <1>1, <1>2, <1>3, <1>4, <1>5, <1>6 DEF Next

THEOREM TokenInvariant ==
  ASSUME MaxSessions \in Nat, MaxLapses \in Nat
  PROVE  Spec => []TInv
BY InitTInv, NextTInv, PTL DEF Spec

\* The variables keep their types.
THEOREM TokenTypes ==
  ASSUME MaxSessions \in Nat, MaxLapses \in Nat
  PROVE  Spec => []TypeOK
<1>1. TInv => TypeOK
  BY Zenon DEF TInv, Types, TypeOK, CallRecords
<1> QED
  BY <1>1, TokenInvariant, PTL

\* The access token in sessionStorage is of the user in the auth store, and
\* there is none without a user, unless a login or a logout overtook a refresh
\* (api-client.ts:79 and 110 store the answer whatever has happened).
THEOREM StoredTokenIsOurs ==
  ASSUME MaxSessions \in Nat, MaxLapses \in Nat
  PROVE  Spec => []AccessIsOfTheUser
<1>1. TInv => AccessIsOfTheUser
  BY DEF TInv, SessionInv, AccessIsOfTheUser
<1> QED
  BY <1>1, TokenInvariant, PTL

\* A request waits in the queue only while a refresh runs, and a refresh that
\* runs has one leader (api-client.ts:61-90): no request waits for nothing.
THEOREM LedQueue ==
  ASSUME MaxSessions \in Nat, MaxLapses \in Nat
  PROVE  Spec => []QueueHasLeader
<1>1. TInv => QueueHasLeader
  <2> SUFFICES ASSUME TInv PROVE QueueHasLeader
    OBVIOUS
  <2> DEFINE Leaders == {r \in Requests : request[r].at = "leading"}
  <2>1. CASE refreshing
    <3>1. PICK r \in Requests : Leads(r)
      BY <2>1 DEF TInv, QueueInv
    <3>2. Leaders = {r}
      BY <3>1 DEF TInv, QueueInv, Leads
    <3>3. Cardinality(Leaders) = 1
      BY <3>2, FS_Singleton
    <3> QED
      BY <2>1, <3>3 DEF TInv, QueueInv, QueueHasLeader
  <2>2. CASE ~refreshing
    <3>1. Leaders = {}
      BY <2>2 DEF TInv, QueueInv, Waiting
    <3>2. Cardinality(Leaders) = 0
      BY <3>1, FS_EmptySet
    <3> QED
      BY <2>2, <3>2 DEF TInv, QueueInv, QueueHasLeader
  <2> QED
    BY <2>1, <2>2
<1> QED
  BY <1>1, TokenInvariant, PTL
=============================================================================
