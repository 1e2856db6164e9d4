---------------------------- MODULE TokenRefresh ----------------------------
(***************************************************************************)
(* The tokens of one tab: the interceptors of api-client with their single *)
(* refresh and its queue, the second refresh that socket-client runs on    *)
(* its own, login and logout, and the server's checks.                     *)
(*                                                                         *)
(* A session is what one login creates; a token is named after its         *)
(* session.  Time is the action Lapse: the access token stored so far has  *)
(* passed its 15 minutes.                                                  *)
(***************************************************************************)
EXTENDS Integers, FiniteSets

CONSTANTS
  Requests,    \* REST requests of the tab
  Bye,         \* the one of them that is POST /auth/logout
  MaxSessions, \* logins (a bound)
  MaxLapses    \* expiries of access tokens (a bound)

Sessions == 1..MaxSessions
None == 0
Callers == {"interceptor", "socket"}

VARIABLES
  user,       \* the session whose user the auth store holds
  access,     \* sessionStorage: the session of the token, and if it expired
  refresh,    \* localStorage
  request,    \* the requests
  refreshing, \* isRefreshing
  call,       \* POST /auth/refresh of the two callers
  leaving,    \* window.location is on its way to /login
  issued,     \* logins so far
  revoked,    \* refresh tokens with revokedAt
  barred,     \* sessions whose account was deactivated or deleted
  lapses,
  crossed     \* history: a session began or ended while a refresh was under way

vars == <<user, access, refresh, request, refreshing, call, leaving, issued,
          revoked, barred, lapses, crossed>>
server == <<issued, revoked, barred, lapses>>
tokens == <<user, access, refresh>>

Maybe == Sessions \cup {None}
Tokens == [of : Maybe, stale : BOOLEAN]
NoToken == [of |-> None, stale |-> FALSE]
New(s) == [of |-> s, stale |-> FALSE]
Places == {"idle", "sent", "refused", "queued", "leading", "ok", "failed", "gone"}
\* `carries`: the Authorization header; `body`: the refresh token Bye names.
RequestRecords == [at : Places, retry : BOOLEAN, carries : Tokens, body : Maybe]
Fresh == [at |-> "idle", retry |-> FALSE, carries |-> NoToken, body |-> None]
NoCall == [of |-> None, answer |-> "none"]

TypeOK ==
  /\ user \in Maybe /\ access \in Tokens /\ refresh \in Maybe
  /\ request \in [Requests -> RequestRecords]
  /\ refreshing \in BOOLEAN /\ leaving \in BOOLEAN /\ crossed \in BOOLEAN
  /\ call \in [Callers -> [of : Maybe, answer : {"none", "ok", "refused"}]]
  /\ issued \in 0..MaxSessions
  /\ revoked \subseteq Sessions /\ barred \subseteq Sessions
  /\ lapses \in 0..MaxLapses

Init ==
  /\ user = None /\ access = NoToken /\ refresh = None
  /\ request = [r \in Requests |-> Fresh]
  /\ refreshing = FALSE /\ call = [c \in Callers |-> NoCall]
  /\ leaving = FALSE
  /\ issued = 0 /\ revoked = {} /\ barred = {} /\ lapses = 0 /\ crossed = FALSE

-----------------------------------------------------------------------------
UnderWay == \E c \in Callers : call[c] # NoCall
Going == {"sent", "refused", "queued", "leading"}

\* handleVerify with what generateTokens and saveRefreshToken made.
Login ==
  /\ refresh = None /\ ~leaving /\ request[Bye].at \notin Going
  /\ issued < MaxSessions /\ issued' = issued + 1
  /\ access' = New(issued') /\ refresh' = issued' /\ user' = issued'
  /\ crossed' = (crossed \/ UnderWay)
  /\ UNCHANGED <<request, refreshing, call, leaving, revoked, barred, lapses>>

\* The request interceptor: the header is the stored token, if there is one.
\* Bye also names the stored refresh token.
Resent(q) == [q EXCEPT !.at = "sent", !.carries = IF access'.of # None THEN access' ELSE @]

Send(r) ==
  /\ user # None /\ request[r].at = "idle"
  /\ request' = [request EXCEPT ![r] =
       [Fresh EXCEPT !.at = "sent", !.carries = access,
                     !.body = IF r = Bye THEN refresh ELSE None]]
  /\ UNCHANGED <<tokens, refreshing, call, leaving, server, crossed>>

\* JwtAuthGuard and JwtStrategy.validate, and logout for Bye.
Authorised(q) == q.carries.of # None /\ ~q.carries.stale /\ q.carries.of \notin barred

Serve(r) ==
  /\ request[r].at = "sent"
  /\ LET ok == Authorised(request[r]) IN
     /\ request' = [request EXCEPT ![r].at = IF ok THEN "ok" ELSE "refused"]
     /\ revoked' = IF ok /\ request[r].body # None THEN revoked \cup {request[r].body}
                                                   ELSE revoked
  /\ UNCHANGED <<tokens, refreshing, call, leaving, issued, barred, lapses, crossed>>

\* The network answers with an error: not a 401, so it is passed on.
Break(r) ==
  /\ request[r].at = "sent"
  /\ request' = [request EXCEPT ![r].at = "failed"]
  /\ UNCHANGED <<tokens, refreshing, call, leaving, server, crossed>>

-----------------------------------------------------------------------------
\* The response interceptor on a 401.
GiveUp(r) ==
  /\ request[r].at = "refused" /\ request[r].retry
  /\ request' = [request EXCEPT ![r].at = "failed"]
  /\ UNCHANGED <<tokens, refreshing, call, leaving, server, crossed>>

NothingToRefresh(r) ==
  /\ request[r].at = "refused" /\ ~request[r].retry /\ refresh = None
  /\ access' = NoToken /\ leaving' = TRUE
  /\ request' = [request EXCEPT ![r].at = "failed"]
  /\ UNCHANGED <<user, refresh, refreshing, call, server, crossed>>

Queue(r) ==
  /\ request[r].at = "refused" /\ ~request[r].retry /\ refresh # None /\ refreshing
  /\ request' = [request EXCEPT ![r].at = "queued"]
  /\ UNCHANGED <<tokens, refreshing, call, leaving, server, crossed>>

\* Mutant: the request that leads the refresh is not marked _retry.
LeadWithoutMark(r) ==
  /\ request[r].at = "refused" /\ ~request[r].retry /\ refresh # None /\ ~refreshing
  /\ request' = [request EXCEPT ![r].at = "leading"]
  /\ refreshing' = TRUE
  /\ call' = [call EXCEPT !["interceptor"].of = refresh]
  /\ UNCHANGED <<tokens, leaving, server, crossed>>

Lead(r) ==
  /\ request[r].at = "refused" /\ ~request[r].retry /\ refresh # None /\ ~refreshing
  /\ request' = [request EXCEPT ![r].at = "leading", ![r].retry = TRUE]
  /\ refreshing' = TRUE
  /\ call' = [call EXCEPT !["interceptor"].of = refresh]
  /\ UNCHANGED <<tokens, leaving, server, crossed>>

\* refreshAccessToken, of a socket the server has closed.
RefreshForSocket ==
  /\ user # None /\ refresh # None /\ call["socket"] = NoCall
  /\ call' = [call EXCEPT !["socket"].of = refresh]
  /\ UNCHANGED <<tokens, request, refreshing, leaving, server, crossed>>

\* refreshTokens: the token is known and not revoked; the account is not looked
\* at.  A lost answer is an error to the caller as well.
ServeRefresh(c, ok) ==
  /\ call[c].of # None /\ call[c].answer = "none"
  /\ ok => call[c].of \notin revoked
  /\ call' = [call EXCEPT ![c].answer = IF ok THEN "ok" ELSE "refused"]
  /\ UNCHANGED <<tokens, request, refreshing, leaving, server, crossed>>

Waiting(r) == request[r].at \in {"queued", "leading"}

\* The refresh succeeded: processQueue resends the queue, then the leader.
RefreshDone ==
  /\ call["interceptor"].answer = "ok"
  /\ access' = New(call["interceptor"].of)
  /\ request' = [r \in Requests |-> IF Waiting(r) THEN Resent(request[r]) ELSE request[r]]
  /\ refreshing' = FALSE
  /\ call' = [call EXCEPT !["interceptor"] = NoCall]
  /\ UNCHANGED <<user, refresh, leaving, server, crossed>>

\* Mutant: the error does not reach the queue.
RefreshFailedAlone ==
  /\ call["interceptor"].answer = "refused"
  /\ access' = NoToken /\ refresh' = None /\ leaving' = TRUE
  /\ request' = [r \in Requests |-> IF request[r].at = "leading"
                                    THEN [request[r] EXCEPT !.at = "failed"] ELSE request[r]]
  /\ refreshing' = FALSE
  /\ call' = [call EXCEPT !["interceptor"] = NoCall]
  /\ UNCHANGED <<user, server, crossed>>

RefreshFailed ==
  /\ call["interceptor"].answer = "refused"
  /\ access' = NoToken /\ refresh' = None /\ leaving' = TRUE
  /\ request' = [r \in Requests |-> IF Waiting(r) THEN [request[r] EXCEPT !.at = "failed"]
                                                  ELSE request[r]]
  /\ refreshing' = FALSE
  /\ call' = [call EXCEPT !["interceptor"] = NoCall]
  /\ UNCHANGED <<user, server, crossed>>

SocketRefreshEnds ==
  /\ call["socket"].answer # "none"
  /\ access' = IF call["socket"].answer = "ok" THEN New(call["socket"].of) ELSE access
  /\ call' = [call EXCEPT !["socket"] = NoCall]
  /\ UNCHANGED <<user, refresh, request, refreshing, leaving, server, crossed>>

-----------------------------------------------------------------------------
\* Mutant: the access token stays in sessionStorage.
LogoutKeepingAccess ==
  /\ request[Bye].at \in {"ok", "failed"}
  /\ request' = [request EXCEPT ![Bye].at = "gone"]
  /\ refresh' = None /\ user' = None /\ UNCHANGED access
  /\ crossed' = (crossed \/ UnderWay)
  /\ UNCHANGED <<refreshing, call, leaving, server>>

\* handleLogout once POST /auth/logout has ended, well or not.
Logout ==
  /\ request[Bye].at \in {"ok", "failed"}
  /\ request' = [request EXCEPT ![Bye].at = "gone"]
  /\ refresh' = None /\ user' = None /\ access' = NoToken
  /\ crossed' = (crossed \/ UnderWay)
  /\ UNCHANGED <<refreshing, call, leaving, server>>

\* The page is loaded again: the redirect to /login, a reload by the user, or a
\* new tab, where sessionStorage is empty (kept = FALSE).
Reload(kept) ==
  /\ (leaving /\ kept) \/ user # None
  /\ leaving' = FALSE /\ refreshing' = FALSE
  /\ call' = [c \in Callers |-> NoCall]
  /\ request' = [r \in Requests |-> IF request[r].at = "idle" THEN request[r]
                                    ELSE [Fresh EXCEPT !.at = "gone"]]
  /\ access' = IF kept THEN access ELSE NoToken
  /\ UNCHANGED <<user, refresh, server, crossed>>

Lapse ==
  /\ access.of # None /\ ~access.stale /\ lapses < MaxLapses
  /\ lapses' = lapses + 1
  /\ access' = [access EXCEPT !.stale = TRUE]
  /\ UNCHANGED <<user, refresh, request, refreshing, call, leaving, issued, revoked,
                 barred, crossed>>

\* An admin deactivates or deletes the account.
Bar(s) ==
  /\ s \in 1..issued /\ s \notin barred
  /\ barred' = barred \cup {s}
  /\ UNCHANGED <<tokens, request, refreshing, call, leaving, issued, revoked, lapses,
                 crossed>>

Next ==
  \/ Login \/ Logout \/ Lapse
  \/ \E r \in Requests :
       \/ Send(r) \/ Serve(r) \/ Break(r)
       \/ GiveUp(r) \/ NothingToRefresh(r) \/ Queue(r) \/ Lead(r)
  \/ RefreshForSocket \/ RefreshDone \/ RefreshFailed \/ SocketRefreshEnds
  \/ \E c \in Callers, ok \in BOOLEAN : ServeRefresh(c, ok)
  \/ \E kept \in BOOLEAN : Reload(kept)
  \/ \E s \in Sessions : Bar(s)

\* The server and the network answer, or fail; the interceptor then runs.
Fairness ==
  /\ \A r \in Requests :
       /\ WF_vars(Serve(r))
       /\ WF_vars(GiveUp(r) \/ NothingToRefresh(r) \/ Queue(r) \/ Lead(r))
  /\ WF_vars(\E ok \in BOOLEAN : ServeRefresh("interceptor", ok))
  /\ WF_vars(RefreshDone \/ RefreshFailed)

Spec == Init /\ [][Next]_vars
FairSpec == Spec /\ Fairness

-----------------------------------------------------------------------------
\* The requests of the interceptor end, all of them: a refresh that fails rejects the
\* whole queue, and a request that is refused again after its refresh, because
\* the account was barred, is not refreshed for ever (api-client.ts:42-94).
RequestsSettle ==
  (\E r \in Requests : request[r].at \in Going) ~>
  (\A r \in Requests : request[r].at \notin Going)

\* A request waits for a refresh only while one runs, and that refresh has one
\* leader (api-client.ts:61-71, 88-90).
QueueHasLeader ==
  /\ refreshing <=> (call["interceptor"] # NoCall)
  /\ (\E r \in Requests : Waiting(r)) => refreshing
  /\ Cardinality({r \in Requests : request[r].at = "leading"}) = IF refreshing THEN 1 ELSE 0

\* The stored access token is of the signed-in session, and none is stored
\* without one, unless a refresh was under way when a session began or ended:
\* its answer is stored whatever has happened meanwhile (api-client.ts:79, 110).
AccessIsOfTheUser == crossed \/ access.of \in {None, user}
=============================================================================
