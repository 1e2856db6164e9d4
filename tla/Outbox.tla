-------------------------------- MODULE Outbox --------------------------------
(***************************************************************************)
(* The web client's outbox (apps/web/src/lib/outbox.ts): how one tab sends *)
(* its messages, recovers from a socket that looks connected but delivers  *)
(* nothing, waits while the browser is offline, and retries.               *)
(*                                                                         *)
(* JavaScript runs one callback at a time, so an action is everything that *)
(* happens between two awaits, including the microtasks that follow: a     *)
(* cycle that obtains a connection emits in the same step, and the step    *)
(* that ends a rebuild resumes every cycle that awaited it.                *)
(*                                                                         *)
(* msg[m] holds what the module-level maps, the chat store and the running *)
(* send cycle know of message m.  The socket is seen through the functions *)
(* the outbox calls: the live socket, its generation, and one shared       *)
(* rebuild at a time (SocketClient.tla models them in detail).  A rebuild  *)
(* retires the live socket before the fresh one is connected, and a cycle  *)
(* that starts meanwhile calls connect() on the retired socket and revives *)
(* it: once the rebuild succeeds that socket lives on as an orphan that    *)
(* can still deliver acks.                                                 *)
(***************************************************************************)
EXTENDS Naturals

CONSTANTS
  Messages,    \* client message ids
  Media,       \* those that carry a file
  Users,       \* who can log in on this device
  NoUser,      \* nobody is logged in
  MaxGen       \* bound on socket generations

ASSUME OutboxAssumption ==
  /\ Media \subseteq Messages
  /\ NoUser \notin Users
  /\ MaxGen \in Nat \ {0}

VARIABLES
  msg,         \* msg[m]: what the client and the server know of message m
  user,        \* the user of the session
  online,      \* navigator.onLine
  live,        \* the socket getSocket() returns
  gen,         \* its generation
  orphan,      \* a replaced socket is still connected
  rebuild      \* a rebuild is running

vars == <<msg, user, online, live, gen, orphan, rebuild>>
env == <<user, online, live, gen, orphan, rebuild>>

Links == {"live", "orphan"}
Sockets == {"none", "down", "up", "stalled"}

\* "none": not sent yet.  The rest is DeliveryState of message-merge.ts.
Busy == {"uploading", "sending", "rebuilding-connection", "retrying"}
Shown == {"none", "awaiting-connection", "sent", "seen", "failed"} \cup Busy

\* Where the cycle of a message awaits: an upload, a connect event (of the live
\* socket, of none since its listeners were stripped, of a replaced socket), a
\* rebuild (doomed: its session is over), or an ack (early: of an emit made
\* while a rebuild runs).
Awaiting == {"idle", "upload", "wait", "stripped", "replaced", "rebuild", "doomed",
             "ack", "early"}

Unsent ==
  [at |-> "idle", delivery |-> "none",
   kept |-> FALSE,          \* the outbox still holds its input
   waiting |-> FALSE,       \* it is in offlineWaiting
   bad |-> 0,               \* generation of a failure that calls for a rebuild
   uploaded |-> FALSE,
   force |-> FALSE,         \* the cycle starts with a rebuild
   author |-> NoUser, by |-> NoUser,   \* who wrote it, who started the cycle
   gen |-> 0, emits |-> 0, rebuilds |-> 0,
   cur |-> "none",          \* where the ack of the current emit can arrive
   late |-> {},             \* where the ack of an abandoned emit can arrive
   pipe |-> {},             \* where a CHAT_SEND is on its way
   stored |-> FALSE]        \* the server has its row

Set(m, s) == msg' = [msg EXCEPT ![m] = s]

Connected == live \in {"up", "stalled"}
SessionStillValid(s) == user # NoUser /\ user = s.by

----------------------------------------------------------------------------
\* How a cycle ends.

OfflineForgotten(s) == [s EXCEPT !.at = "idle", !.delivery = "awaiting-connection"]

Offline(s) ==
  [s EXCEPT !.at = "idle", !.waiting = TRUE, !.delivery = "awaiting-connection"]

FailedDroppingTheInput(s, bad) ==
  [s EXCEPT !.at = "idle", !.delivery = "failed", !.bad = bad, !.kept = FALSE]

\* bad is the current generation when the reason calls for a rebuild, or 0.
Failed(s, bad) ==
  IF s.delivery = "sent" THEN [s EXCEPT !.at = "idle"]
  ELSE [s EXCEPT !.at = "idle", !.delivery = "failed", !.bad = bad]

\* An acknowledged message: the cycle that awaits the ack is over.
Confirmed(s) ==
  [s EXCEPT !.delivery = "sent", !.kept = FALSE, !.bad = 0]

----------------------------------------------------------------------------
\* Emitting.

\* Emit on the live socket, whose generation is g.
Emit(s, g) ==
  [s EXCEPT !.at = IF rebuild THEN "early" ELSE "ack",
            !.emits = @ + 1,
            !.gen = g,
            !.delivery = IF s.emits = 0 THEN "sending" ELSE "retrying",
            !.cur = "live",
            !.pipe = @ \cup {"live"}]

\* The checks between obtaining a socket and the emit.
EmitIfValid(s, g) ==
  IF SessionStillValid(s) THEN Emit(s, g) ELSE Failed(s, 0)

\* What a cycle does once there is nothing to upload and no rebuild is forced.
Ready(s) ==
  IF Connected THEN Emit(s, gen) ELSE [s EXCEPT !.at = "wait", !.gen = gen]

NeedsUpload(m, s) == m \in Media /\ ~s.uploaded

\* The start of a cycle in an online browser.
Start(m, s) ==
  IF ~SessionStillValid(s) THEN Failed(s, 0)
  ELSE IF NeedsUpload(m, s) THEN [s EXCEPT !.at = "upload", !.delivery = "uploading"]
  ELSE Ready(s)

Fresh(s, force) ==
  [s EXCEPT !.by = user, !.emits = 0, !.rebuilds = 0, !.force = force]

----------------------------------------------------------------------------
\* The rebuild.

\* The live socket closes: nothing travels over it any more.
Cut(s) ==
  [s EXCEPT !.cur = IF @ = "live" THEN "dead" ELSE @,
            !.late = @ \ {"live"},
            !.pipe = @ \ {"live"}]

\* Its listeners are stripped first, also those of waitForConnection.
Retire(s) == [Cut(s) EXCEPT !.at = IF @ = "wait" THEN "stripped" ELSE @]

\* hardRebuildSocket: join the running rebuild or start one, which retires the
\* live socket under every other cycle.
Rebuild(m, s) ==
  LET r == [s EXCEPT !.at = "rebuild", !.rebuilds = @ + 1,
                     !.delivery = "rebuilding-connection"]
  IN \/ rebuild /\ Set(m, r) /\ UNCHANGED env
     \/ /\ ~rebuild
        /\ rebuild' = TRUE
        /\ live' = "down"
        /\ msg' = [n \in Messages |-> Retire(IF n = m THEN r ELSE msg[n])]
        /\ UNCHANGED <<user, online, gen, orphan>>

EnsureFreshSocketTrustingConnected(m, s) ==
  \/ Connected /\ Set(m, Emit(s, gen)) /\ UNCHANGED env
  \/ ~Connected /\ Rebuild(m, s)

EnsureFreshSocketWithoutBudget(m, s) ==
  LET Newer == gen > s.gen /\ Connected
  IN \/ Newer /\ Set(m, Emit(s, gen)) /\ UNCHANGED env
     \/ ~Newer /\ Rebuild(m, s)

\* ensureFreshSocket: a connected socket newer than the one that failed, for
\* free if there is one, else with the one rebuild the cycle may spend.
EnsureFreshSocket(m, s) ==
  LET Newer == gen > s.gen /\ Connected
  IN \/ Newer /\ Set(m, Emit(s, gen)) /\ UNCHANGED env
     \/ ~Newer /\ s.rebuilds = 0 /\ Rebuild(m, s)
     \/ /\ ~Newer /\ s.rebuilds > 0
        /\ Set(m, Failed([s EXCEPT !.delivery = "rebuilding-connection"], gen))
        /\ UNCHANGED env

\* The rebuild is over.  It takes 5s at most and an ack may take 8s, so the ack
\* timers that started while it ran can only fire from now on.
Settle(s) == [s EXCEPT !.at = IF @ = "early" THEN "ack" ELSE @]

\* The fresh socket connects in time.  It replaces the live one, which is an
\* orphan now if a cycle had revived it; every cycle that awaited the rebuild
\* emits at once.
RebuildSucceeds ==
  LET revived == Connected
      Old(ls) == {"orphan" : l \in {l \in ls : l = "orphan" \/ revived}}
      Replace(s) ==
        [s EXCEPT
           !.cur = IF @ # "live" THEN @ ELSE IF revived THEN "orphan" ELSE "dead",
           !.late = Old(@),
           !.pipe = Old(@),
           !.at = IF @ = "wait" THEN "replaced" ELSE @]
  IN /\ rebuild /\ online /\ gen < MaxGen
     /\ rebuild' = FALSE
     /\ gen' = gen + 1
     /\ live' = "up"
     /\ orphan' = (orphan \/ revived)
     /\ msg' = [m \in Messages |->
                  Settle(IF msg[m].at = "rebuild"
                         THEN EmitIfValid(Replace(msg[m]), gen + 1)
                         ELSE Replace(msg[m]))]
     /\ UNCHANGED <<user, online>>

\* It does not: the retired socket stays the live one.
RebuildTimesOut ==
  /\ rebuild
  /\ rebuild' = FALSE
  /\ msg' = [m \in Messages |->
               IF msg[m].at = "rebuild" THEN Failed(msg[m], gen) ELSE Settle(msg[m])]
  /\ UNCHANGED <<user, online, live, gen, orphan>>

\* A rebuild whose session ended rejects with session-changed.  Its waiters
\* end together; a cycle that ends so touches nothing shared.
DoomedRebuildEnds(m) ==
  /\ msg[m].at = "doomed"
  /\ Set(m, Failed(msg[m], 0))
  /\ UNCHANGED env

----------------------------------------------------------------------------
\* The user's actions.

\* sendText and sendMedia.
Send(m) ==
  LET s == Fresh([Unsent EXCEPT !.author = user, !.kept = TRUE, !.delivery = "sending"], FALSE)
  IN /\ user # NoUser
     /\ msg[m].author = NoUser
     /\ Set(m, IF online THEN Start(m, s) ELSE Offline(s))
     /\ UNCHANGED env

\* retryMessage: the bubble offers it to the author of a failed message.
Retry(m) ==
  LET s == Fresh([msg[m] EXCEPT !.delivery = IF m \in Media THEN "uploading" ELSE "sending"],
                 msg[m].bad > 0 /\ msg[m].bad >= gen)
  IN /\ msg[m].kept
     /\ msg[m].at = "idle"
     /\ msg[m].delivery = "failed"
     /\ user # NoUser /\ user = msg[m].author
     /\ \/ ~online /\ Set(m, Offline(s)) /\ UNCHANGED env
        \/ online /\ s.force /\ ~NeedsUpload(m, s) /\ Rebuild(m, [s EXCEPT !.gen = gen])
        \/ /\ online /\ ~(s.force /\ ~NeedsUpload(m, s))
           /\ Set(m, Start(m, s))
           /\ UNCHANGED env

\* handleVerify and reconnectSocket.
Login(u) ==
  /\ user = NoUser /\ online /\ gen < MaxGen
  /\ user' = u
  /\ live' = "down"
  /\ gen' = gen + 1
  /\ msg' = [m \in Messages |-> Retire(msg[m])]
  /\ UNCHANGED <<online, orphan, rebuild>>

LogoutForgettingRebuilds ==
  /\ user # NoUser
  /\ user' = NoUser
  /\ live' = "none"
  /\ rebuild' = FALSE
  /\ msg' = [m \in Messages |-> Settle(Retire(msg[m]))]
  /\ UNCHANGED <<online, gen, orphan>>

\* clearUser and disconnectSocket: running rebuilds can only be rejected now.
Logout ==
  /\ user # NoUser
  /\ user' = NoUser
  /\ live' = "none"
  /\ rebuild' = FALSE
  /\ msg' = [m \in Messages |->
               [Settle(Retire(msg[m])) EXCEPT !.at = IF @ = "rebuild" THEN "doomed" ELSE @]]
  /\ UNCHANGED <<online, gen, orphan>>

----------------------------------------------------------------------------
\* The cycle goes on.

UploadSucceeds(m) ==
  LET s == [msg[m] EXCEPT !.uploaded = TRUE]
  IN /\ msg[m].at = "upload"
     /\ \/ ~online /\ Set(m, Offline(s)) /\ UNCHANGED env
        \/ online /\ SessionStillValid(s) /\ s.force /\ Rebuild(m, [s EXCEPT !.gen = gen])
        \/ /\ online /\ ~(SessionStillValid(s) /\ s.force)
           /\ Set(m, Start(m, s))
           /\ UNCHANGED env

UploadFails(m) ==
  /\ msg[m].at = "upload"
  /\ Set(m, Failed(msg[m], 0))
  /\ UNCHANGED env

RecoverWithoutSessionCheck(m, s) ==
  \/ ~online /\ Set(m, Offline(s)) /\ UNCHANGED env
  \/ online /\ EnsureFreshSocket(m, s)

\* What follows a timeout, in the order the code checks it.
Recover(m, s) ==
  \/ ~online /\ Set(m, Offline(s)) /\ UNCHANGED env
  \/ online /\ ~SessionStillValid(s) /\ Set(m, Failed(s, 0)) /\ UNCHANGED env
  \/ online /\ SessionStillValid(s) /\ EnsureFreshSocket(m, s)

\* The grace period of waitForConnection is over.
WaitTimesOut(m) ==
  /\ msg[m].at \in {"wait", "stripped", "replaced"}
  /\ Recover(m, msg[m])

AckTimesOutForgettingLinks(m) ==
  LET s == [msg[m] EXCEPT !.late = @ \cup {msg[m].cur},
                          !.cur = "none"]
  IN /\ msg[m].at = "ack"
     /\ \/ s.emits >= 2 /\ Set(m, Failed(s, gen)) /\ UNCHANGED env
        \/ s.emits < 2 /\ Recover(m, s)

\* No ack in time: the emit is abandoned, but its callback stays registered.
AckTimesOut(m) ==
  LET s == [msg[m] EXCEPT !.late = @ \cup ({msg[m].cur} \cap Links),
                          !.cur = "none"]
  IN /\ msg[m].at = "ack"
     /\ \/ s.emits >= 2 /\ Set(m, Failed(s, gen)) /\ UNCHANGED env
        \/ s.emits < 2 /\ Recover(m, s)

----------------------------------------------------------------------------
\* The server and the network.

Usable(l) == online /\ (IF l = "live" THEN live = "up" ELSE orphan)

\* A CHAT_SEND arrives and its row is stored, once.
ServerStores(m, l) ==
  /\ l \in msg[m].pipe /\ Usable(l)
  /\ Set(m, [msg[m] EXCEPT !.stored = TRUE, !.pipe = @ \ {l}])
  /\ UNCHANGED env

\* The success ack of the current emit.
AckArrives(m) ==
  /\ msg[m].at \in {"ack", "early"}
  /\ msg[m].stored
  /\ msg[m].cur \in Links \ msg[m].pipe /\ Usable(msg[m].cur)
  /\ Set(m, [Confirmed(msg[m]) EXCEPT !.at = "idle", !.cur = "none"])
  /\ UNCHANGED env

\* The success ack of an abandoned emit.
LateAckArrives(m, l) ==
  /\ l \in msg[m].late /\ Usable(l)
  /\ msg[m].stored
  /\ Set(m, [Confirmed(msg[m]) EXCEPT !.late = @ \ {l}])
  /\ UNCHANGED env

\* A failure ack of the current emit.  A late one is ignored.
Rejected(m) ==
  /\ msg[m].at \in {"ack", "early"}
  /\ msg[m].cur \in Links /\ Usable(msg[m].cur) /\ msg[m].cur \in msg[m].pipe
  /\ Set(m, Failed([msg[m] EXCEPT !.pipe = @ \ {msg[m].cur}, !.cur = "none"], 0))
  /\ UNCHANGED env

\* The stored message reaches the chat store by another way: a fetched page or
\* the broadcast to the room.
Reconciled(m) ==
  /\ msg[m].stored /\ user # NoUser /\ online
  /\ \E d \in {"sent", "seen"} : Set(m, [msg[m] EXCEPT !.delivery = d])
  /\ UNCHANGED env

\* The live socket connects: the cycles that wait for it go on.
Connects ==
  /\ live = "down" /\ online
  /\ live' = "up"
  /\ msg' = [m \in Messages |->
               IF msg[m].at = "wait" THEN EmitIfValid(msg[m], gen) ELSE msg[m]]
  /\ UNCHANGED <<user, online, gen, orphan, rebuild>>

\* A replaced socket that a cycle still waits for connects: the cycle goes on
\* with the socket that replaced it, which getSocket() creates if a logout left
\* none (at most one more than MaxGen bounds, since Login is bounded).
ReplacedConnects(m) ==
  /\ msg[m].at = "replaced" /\ online
  /\ orphan' = TRUE
  /\ \/ live # "none" /\ UNCHANGED <<live, gen>>
     \/ live = "none" /\ live' = "down" /\ gen' = gen + 1
  /\ Set(m, EmitIfValid(msg[m], gen))
  /\ UNCHANGED <<user, online, rebuild>>

\* A connected socket silently stops delivering, or delivers again.
Stalls ==
  /\ live \in {"up", "stalled"}
  /\ live' = IF live = "up" THEN "stalled" ELSE "up"
  /\ UNCHANGED <<msg, user, online, gen, orphan, rebuild>>

Drops ==
  /\ Connected
  /\ live' = "down"
  /\ msg' = [m \in Messages |-> Cut(msg[m])]
  /\ UNCHANGED <<user, online, gen, orphan, rebuild>>

OrphanDrops ==
  /\ orphan
  /\ orphan' = FALSE
  /\ msg' = [m \in Messages |->
               [msg[m] EXCEPT !.cur = IF @ = "orphan" THEN "dead" ELSE @,
                              !.late = @ \ {"orphan"}, !.pipe = @ \ {"orphan"}]]
  /\ UNCHANGED <<user, online, live, gen, rebuild>>

GoesOffline ==
  /\ online
  /\ online' = FALSE
  /\ UNCHANGED <<msg, user, live, gen, orphan, rebuild>>

\* The online hook resumes what waits for it, if the outbox still holds it and
\* no cycle runs.
GoesOnline ==
  /\ ~online
  /\ online' = TRUE
  /\ msg' = [m \in Messages |->
               LET s == [msg[m] EXCEPT !.waiting = FALSE]
               IN IF msg[m].waiting /\ msg[m].kept /\ msg[m].at = "idle"
                  THEN Start(m, Fresh(s, FALSE)) ELSE s]
  /\ UNCHANGED <<user, live, gen, orphan, rebuild>>

----------------------------------------------------------------------------
Init ==
  /\ msg = [m \in Messages |-> Unsent]
  /\ user = NoUser
  /\ online = TRUE
  /\ live = "none"
  /\ gen = 0
  /\ orphan = FALSE
  /\ rebuild = FALSE

\* The timers of a cycle, which fire at the latest when nothing else happens.
Timers(m) ==
  UploadFails(m) \/ WaitTimesOut(m) \/ AckTimesOut(m) \/ DoomedRebuildEnds(m)

Next ==
  \/ \E m \in Messages :
       \/ Send(m) \/ Retry(m) \/ UploadSucceeds(m) \/ Timers(m)
       \/ AckArrives(m) \/ Rejected(m) \/ Reconciled(m) \/ ReplacedConnects(m)
       \/ \E l \in Links : ServerStores(m, l) \/ LateAckArrives(m, l)
  \/ \E u \in Users : Login(u)
  \/ Logout \/ RebuildSucceeds \/ RebuildTimesOut
  \/ Connects \/ Stalls \/ Drops \/ OrphanDrops \/ GoesOffline \/ GoesOnline

Spec == Init /\ [][Next]_vars

\* Timers fire.
FairSpec ==
  Spec /\ WF_vars(RebuildTimesOut) /\ \A m \in Messages : WF_vars(Timers(m))
----------------------------------------------------------------------------
\* Properties.

\* Types of the variables.
TypeOK ==
  /\ msg \in [Messages ->
       [at: Awaiting, delivery: Shown, kept: BOOLEAN, waiting: BOOLEAN, bad: Nat,
        uploaded: BOOLEAN, force: BOOLEAN, author: Users \cup {NoUser},
        by: Users \cup {NoUser}, gen: Nat, emits: Nat, rebuilds: Nat,
        cur: Links \cup {"none", "dead"}, late: SUBSET Links, pipe: SUBSET Links,
        stored: BOOLEAN]]
  /\ user \in Users \cup {NoUser}
  /\ online \in BOOLEAN
  /\ live \in Sockets
  /\ gen \in Nat
  /\ orphan \in BOOLEAN
  /\ rebuild \in BOOLEAN

\* The outbox lets go of a message only when the server has its row: until
\* then a retry can send it again.
RetainedUntilStored ==
  \A m \in Messages : msg[m].author # NoUser => msg[m].kept \/ msg[m].stored

\* "At most 1 hard socket rebuild, at most 2 CHAT_SEND emits total", whatever
\* rebuilds of other messages a cycle joins or reuses.
CycleBudget ==
  \A m \in Messages : msg[m].emits <= 2 /\ msg[m].rebuilds <= 1

\* A bubble that shows progress has a cycle that will end it, and one that
\* waits for the network is resumed when it is back.
ProgressIsReal ==
  \A m \in Messages :
    /\ msg[m].delivery \in Busy => msg[m].at # "idle"
    /\ msg[m].delivery = "awaiting-connection" /\ msg[m].kept
         => msg[m].waiting \/ msg[m].at # "idle"

\* A step in which a cycle of m emits CHAT_SEND.
Emits(m) ==
  /\ msg'[m].at \in {"ack", "early"}
  /\ msg[m].at \in {"ack", "early"} => msg'[m].emits > msg[m].emits

\* The second emit of a cycle goes out on a newer socket than the first.
SecondEmitOnNewerSocket ==
  [][\A m \in Messages :
       Emits(m) /\ msg'[m].emits = 2 => msg'[m].gen > msg[m].gen]_vars

\* A cycle emits only in the session of the user it was started for, though
\* sessions may end and begin while it waits.
EmittedInItsSession ==
  [][\A m \in Messages : Emits(m) => user = msg'[m].by]_vars

\* Every cycle ends: it does not depend on the network or the server.
CyclesEnd == \A m \in Messages : msg[m].at # "idle" ~> msg[m].at = "idle"

\* "The cycle's own terminal-failure tail must never regress a delivered
\* message back to failed": a message is let go of when its success ack is
\* handled, so a failed one is still held and its retry button works.
FailedIsRetryable ==
  \A m \in Messages : msg[m].delivery = "failed" => msg[m].kept

\* "A message that timed out on generation N must never retry on generation
\* N": a cycle that ended offline after an emit ended with an ack timeout.
NeverReusesTimedOutSocket ==
  [][\A m \in Messages :
       msg[m].waiting /\ msg[m].emits > 0 /\ Emits(m) => msg'[m].gen > msg[m].gen]_vars

=============================================================================
