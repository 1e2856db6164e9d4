-------------------------------- MODULE Push --------------------------------
(***************************************************************************)
(* Web push to one device that two trainees share: ensurePushSubscription  *)
(* and removePushSubscription of push-client, PushService with its rows,   *)
(* the browser's push service, and the handlers of sw.js.                  *)
(*                                                                         *)
(* The browser makes a new endpoint with every new subscription; a row     *)
(* belongs to an endpoint, and its id changes when the row is made again.  *)
(***************************************************************************)
EXTENDS Integers, FiniteSets

CONSTANTS
  Accounts,      \* accounts that use the device
  MaxEndpoints,  \* subscriptions of the browser (a bound)
  MaxRows,       \* rows made (a bound)
  Pushes         \* notifications sent (a bound)

Nobody == "nobody"
Endpoints == 1..MaxEndpoints
None == 0

VARIABLES
  signedIn,     \* whose tokens the device holds
  permission,   \* Notification.permission
  endpoint,     \* the browser's subscription
  made,         \* endpoints and
  rows,         \* rows made so far
  row,          \* pushSubscription: owner and id by endpoint
  ensuring,     \* ensurePushSubscription: place, owner of the page, endpoint
  leaving,      \* handleLogout: place
  push,         \* the notifications: place, recipient, rows read
  focused,      \* a window of the app is visible and has the focus
  shown,        \* notifications the device showed: recipient, and who was there
  kept          \* history: endpoints whose owner left without a logout, or whose
                \* removal failed in the browser, until the next owner has them

vars == <<signedIn, permission, endpoint, made, rows, row, ensuring, leaving, push,
          focused, shown, kept>>
browser == <<permission, endpoint, made, focused>>

Persons == Accounts \cup {Nobody}
NoRow == [of |-> Nobody, id |-> None]
NotEnsuring == [at |-> "idle", as |-> Nobody, e |-> None]
Unsent == [at |-> "unused", to |-> Nobody, found |-> {}]
Targets == [e : Endpoints, id : 1..MaxRows, early : BOOLEAN]

TypeOK ==
  /\ signedIn \in Persons /\ permission \in {"default", "granted", "denied"}
  /\ endpoint \in Endpoints \cup {None} /\ made \in 0..MaxEndpoints
  /\ rows \in 0..MaxRows
  /\ row \in [Endpoints -> [of : Persons, id : 0..MaxRows]]
  /\ ensuring \in [at : {"idle", "asking", "subscribing", "posting"}, as : Persons,
                   e : Endpoints \cup {None}]
  /\ leaving \in {"no", "deleting", "unsubscribing", "clearing"}
  /\ \A p \in Pushes :
       /\ push[p].at \in {"unused", "finding", "sending", "pruning", "done"}
       /\ push[p].to \in Persons /\ push[p].found \subseteq Targets
  /\ focused \in BOOLEAN
  /\ shown \subseteq [to : Persons, early : BOOLEAN, e : Endpoints, user : Persons]
  /\ kept \subseteq Endpoints

Init ==
  /\ signedIn = Nobody /\ permission = "default" /\ endpoint = None
  /\ made = 0 /\ rows = 0 /\ row = [e \in Endpoints |-> NoRow]
  /\ ensuring = NotEnsuring /\ leaving = "no"
  /\ push = [p \in Pushes |-> Unsent]
  /\ focused = TRUE /\ shown = {} /\ kept = {}

-----------------------------------------------------------------------------
\* A subscription that the last owner's page began may still be under way.
Login(u) ==
  /\ signedIn = Nobody /\ leaving = "no"
  /\ signedIn' = u
  /\ UNCHANGED <<browser, rows, row, ensuring, leaving, push, shown, kept>>

\* ensurePushSubscription: on mount, or with a tap that may ask for permission.
\* (One at a time is a bound.)
Ensure(asks) ==
  /\ signedIn # Nobody /\ ensuring.at = "idle"
  /\ asks \/ permission = "granted"
  /\ permission # "denied"
  /\ ensuring' = [at |-> "asking", as |-> signedIn, e |-> None]
  /\ UNCHANGED <<signedIn, browser, rows, row, leaving, push, shown, kept>>

Answer(granted) ==
  /\ ensuring.at = "asking"
  /\ permission' = IF permission # "default" THEN permission
                   ELSE IF granted THEN "granted" ELSE "denied"
  /\ ensuring' = IF permission' = "granted" THEN [ensuring EXCEPT !.at = "subscribing"]
                 ELSE NotEnsuring
  /\ UNCHANGED <<signedIn, endpoint, made, focused, rows, row, leaving, push, shown, kept>>

\* getSubscription, or the public key and subscribe.
Subscribe ==
  /\ ensuring.at = "subscribing"
  /\ IF endpoint # None THEN UNCHANGED <<endpoint, made>>
     ELSE made < MaxEndpoints /\ made' = made + 1 /\ endpoint' = made'
  /\ ensuring' = [ensuring EXCEPT !.at = "posting", !.e = endpoint']
  /\ UNCHANGED <<signedIn, permission, focused, rows, row, leaving, push, shown, kept>>

\* Mutant: an endpoint that is known keeps its owner.
PostSubscriptionOnce(ok) ==
  /\ ensuring.at = "posting" /\ ensuring' = NotEnsuring
  /\ LET e == ensuring.e IN
     IF ok /\ signedIn # Nobody /\ row[e] = NoRow
     THEN /\ rows < MaxRows /\ rows' = rows + 1
          /\ row' = [row EXCEPT ![e] = [of |-> signedIn, id |-> rows']]
     ELSE UNCHANGED <<rows, row>>
  /\ kept' = IF ok /\ signedIn # Nobody THEN kept \ {ensuring.e} ELSE kept
  /\ UNCHANGED <<signedIn, browser, leaving, push, shown>>

\* POST /push/subscribe with the token of now: an upsert by endpoint.  Any
\* error is swallowed.
PostSubscription(ok) ==
  /\ ensuring.at = "posting" /\ ensuring' = NotEnsuring
  /\ LET e == ensuring.e IN
     IF ~ok \/ signedIn = Nobody THEN UNCHANGED <<rows, row, kept>>
     ELSE IF row[e] = NoRow
     THEN /\ rows < MaxRows /\ rows' = rows + 1
          /\ row' = [row EXCEPT ![e] = [of |-> signedIn, id |-> rows']]
          /\ kept' = kept \ {e}
     ELSE /\ row' = [row EXCEPT ![e].of = signedIn]
          /\ kept' = kept \ {e} /\ UNCHANGED rows
  /\ UNCHANGED <<signedIn, browser, leaving, push, shown>>

-----------------------------------------------------------------------------
\* handleLogout: removePushSubscription first, then the rest.
Logout ==
  /\ signedIn # Nobody /\ leaving = "no"
  /\ leaving' = IF endpoint = None THEN "clearing" ELSE "deleting"
  /\ UNCHANGED <<signedIn, browser, rows, row, ensuring, push, shown, kept>>

\* DELETE /push/subscribe of the own row; its errors do not count.
DeleteSubscription(ok) ==
  /\ leaving = "deleting" /\ leaving' = "unsubscribing"
  /\ row' = IF ok /\ row[endpoint].of = signedIn THEN [row EXCEPT ![endpoint] = NoRow]
                                                ELSE row
  /\ UNCHANGED <<signedIn, browser, rows, ensuring, push, shown, kept>>

Unsubscribe(ok) ==
  /\ leaving = "unsubscribing" /\ leaving' = "clearing"
  /\ endpoint' = IF ok THEN None ELSE endpoint
  /\ kept' = IF ok THEN kept ELSE kept \cup {endpoint}
  /\ UNCHANGED <<signedIn, permission, made, focused, rows, row, ensuring, push, shown>>

ClearTokens ==
  /\ leaving = "clearing" /\ leaving' = "no"
  /\ signedIn' = Nobody
  /\ kept' = IF endpoint = None THEN kept ELSE kept \cup {endpoint}
  /\ UNCHANGED <<browser, rows, row, ensuring, push, shown>>

\* A refresh that is refused: the tokens go, the subscription stays.
SessionEnds ==
  /\ signedIn # Nobody /\ leaving = "no"
  /\ signedIn' = Nobody /\ ensuring' = NotEnsuring
  /\ kept' = IF endpoint = None THEN kept ELSE kept \cup {endpoint}
  /\ UNCHANGED <<browser, rows, row, leaving, push, shown>>

-----------------------------------------------------------------------------
\* sendToUser and sendToAllUsers.
Notify(p, u) ==
  /\ push[p].at = "unused"
  /\ push' = [push EXCEPT ![p] = [Unsent EXCEPT !.at = "finding", !.to = u]]
  /\ UNCHANGED <<signedIn, browser, rows, row, ensuring, leaving, shown, kept>>

Find(p) ==
  /\ push[p].at = "finding"
  /\ push' = [push EXCEPT ![p].at = "sending", ![p].found =
       {[e |-> e, id |-> row[e].id, early |-> signedIn = push[p].to \/ e \in kept] :
          e \in {x \in Endpoints : row[x].of = push[p].to}}]
  /\ UNCHANGED <<signedIn, browser, rows, row, ensuring, leaving, shown, kept>>

\* sendWebPush to each; the endpoint of the device shows it unless a window of
\* the app has the focus.  404 and 410 are endpoints that are gone.
Send(p) ==
  /\ push[p].at = "sending"
  /\ LET live == {t \in push[p].found : t.e = endpoint} IN
     /\ shown' = IF focused THEN shown ELSE shown \cup
          {[to |-> push[p].to, early |-> t.early, e |-> t.e, user |-> signedIn] : t \in live}
     /\ push' = [push EXCEPT ![p].at = "pruning", ![p].found = @ \ live]
  /\ UNCHANGED <<signedIn, browser, rows, row, ensuring, leaving, kept>>

\* The rows of dead endpoints go by their id.
Prune(p) ==
  /\ push[p].at = "pruning"
  /\ row' = [e \in Endpoints |->
       IF \E t \in push[p].found : t.id = row[e].id THEN NoRow ELSE row[e]]
  /\ push' = [push EXCEPT ![p] = [Unsent EXCEPT !.at = "done"]]
  /\ UNCHANGED <<signedIn, browser, rows, ensuring, leaving, shown, kept>>

Focus ==
  /\ focused' = ~focused
  /\ UNCHANGED <<signedIn, permission, endpoint, made, rows, row, ensuring, leaving,
                 push, shown, kept>>

Next ==
  \/ \E u \in Accounts : Login(u)
  \/ \E ok \in BOOLEAN :
       \/ Ensure(ok) \/ Answer(ok) \/ PostSubscription(ok)
       \/ DeleteSubscription(ok) \/ Unsubscribe(ok)
  \/ Subscribe \/ Logout \/ ClearTokens \/ SessionEnds \/ Focus
  \/ \E p \in Pushes : Find(p) \/ Send(p) \/ Prune(p) \/ \E u \in Accounts : Notify(p, u)

Spec == Init /\ [][Next]_vars

-----------------------------------------------------------------------------
\* What the device shows is for the account that is signed in on it.  Not
\* covered by the code, and named: a push whose rows were read before the
\* owner left, and an endpoint that outlived its owner's session, because the
\* session ended without a logout or the removal failed or came too early
\* (push-client.ts:43-86, push.service.ts:52-65).
ShownToItsOwner == \A s \in shown : s.to = s.user \/ s.early \/ s.e \in kept
=============================================================================
