----------------------------- MODULE SocketClient -----------------------------
(***************************************************************************)
(* The facade a browser tab uses for its Socket.IO connection              *)
(* (apps/web/src/lib/socket-client.ts): one live socket, created on        *)
(* demand, torn down at logout, revived after a server disconnect, and     *)
(* replaced by a hard rebuild.                                             *)
(*                                                                         *)
(* A client object is never reused, so it names itself, and the rebuild    *)
(* that made it: rebuilds overlap when a logout forgets one that is still  *)
(* running.  removeAllListeners strips the central handlers and those of   *)
(* the subscribers at once; "wired" says a socket has its handlers.  An    *)
(* action is what one callback does, with the microtasks that follow: the  *)
(* finally of a rebuild runs in the step that settles it.                  *)
(***************************************************************************)
EXTENDS Naturals

CONSTANTS
  Sockets,      \* client objects io() may make; a bound
  None,
  MaxEpoch,     \* bound on teardowns
  MaxRefreshes  \* bound on the token refreshes that run for one socket

ASSUME SocketAssumption ==
  /\ None \notin Sockets
  /\ MaxEpoch \in Nat
  /\ MaxRefreshes \in Nat

VARIABLES
  sock,            \* sock[s]: the state of a client object
  socket,          \* the live socket
  generation,      \* socketGeneration
  health,          \* socketHealth
  rebuildPromise,  \* the rebuild callers may join, named by its fresh socket
  epoch,           \* disposeEpoch
  visible          \* the page became visible: a token refresh runs for that

vars == <<sock, socket, generation, health, rebuildPromise, epoch, visible>>
facade == <<socket, generation, health, rebuildPromise, epoch>>

Unmade ==
  [conn |-> "unmade",    \* "off", "trying" to connect, or "up"
   auto |-> FALSE,       \* its Manager reconnects after a drop
   wired |-> FALSE,
   refreshes |-> 0,      \* refreshes whose end will connect or drop it
   gen |-> 0,            \* the generation it was published as
   epoch |-> 0,          \* disposeEpoch when it was made
   rebuild |-> "no",     \* "running", "failed", "done": the rebuild that made it
   oldGen |-> 0]         \* the generation that rebuild replaces

Live == socket # None
Running(s) == sock[s].rebuild = "running"
Set(s, r) == sock' = [sock EXCEPT ![s] = r]

----------------------------------------------------------------------------
\* What the code does to one client object.

\* createSocket
Made(g) ==
  [Unmade EXCEPT !.conn = "trying", !.auto = TRUE, !.wired = TRUE, !.gen = g, !.epoch = epoch]

\* reconnection(false), removeAllListeners, disconnect
Retired(r) == [r EXCEPT !.conn = "off", !.auto = FALSE, !.wired = FALSE]

\* connect(): a no-op while connected or connecting
Connecting(r) == [r EXCEPT !.conn = IF @ = "off" THEN "trying" ELSE @]

\* A fresh socket that is given up keeps its Manager's setting.
Discarded(r) == [r EXCEPT !.conn = "off", !.wired = FALSE, !.rebuild = "failed"]

----------------------------------------------------------------------------
\* The operations of the facade.

GetSocket(s) ==
  /\ ~Live /\ sock[s].conn = "unmade"
  /\ Set(s, Made(generation + 1))
  /\ socket' = s
  /\ generation' = generation + 1
  /\ health' = "healthy"
  /\ UNCHANGED <<rebuildPromise, epoch, visible>>

DisconnectSocketKeepingPromise ==
  /\ epoch < MaxEpoch
  /\ epoch' = epoch + 1
  /\ sock' = [s \in Sockets |-> IF s = socket THEN Retired(sock[s]) ELSE sock[s]]
  /\ socket' = None
  /\ health' = "healthy"
  /\ UNCHANGED <<generation, rebuildPromise, visible>>

DisconnectSocketKeepingHealth ==
  /\ epoch < MaxEpoch
  /\ epoch' = epoch + 1
  /\ sock' = [s \in Sockets |-> IF s = socket THEN Retired(sock[s]) ELSE sock[s]]
  /\ socket' = None
  /\ rebuildPromise' = None
  /\ UNCHANGED <<generation, health, visible>>

\* Logout.
DisconnectSocket ==
  /\ epoch < MaxEpoch
  /\ epoch' = epoch + 1
  /\ sock' = [s \in Sockets |-> IF s = socket THEN Retired(sock[s]) ELSE sock[s]]
  /\ socket' = None
  /\ health' = "healthy"
  /\ rebuildPromise' = None
  /\ UNCHANGED <<generation, visible>>

\* Login: a teardown and a new socket in one step.
ReconnectSocket(n) ==
  /\ epoch < MaxEpoch /\ sock[n].conn = "unmade"
  /\ epoch' = epoch + 1
  /\ sock' = [s \in Sockets |->
                CASE s = n -> [Made(generation + 1) EXCEPT !.epoch = epoch + 1]
                  [] s = socket -> Retired(sock[s])
                  [] OTHER -> sock[s]]
  /\ socket' = n
  /\ generation' = generation + 1
  /\ health' = "healthy"
  /\ rebuildPromise' = None
  /\ UNCHANGED visible

\* hardRebuildSocket.  A caller that finds a promise joins it and changes
\* nothing; another one retires the live socket (there is one: callers ask for it
\* first), which stays the live one until the fresh socket f is connected.
HardRebuildSocket(f) ==
  /\ rebuildPromise = None /\ Live /\ sock[f].conn = "unmade"
  /\ sock' = [s \in Sockets |->
                CASE s = f -> [Made(0) EXCEPT !.rebuild = "running", !.oldGen = generation]
                  [] s = socket -> Retired(sock[s])
                  [] OTHER -> sock[s]]
  /\ health' = "rebuilding"
  /\ rebuildPromise' = f
  /\ UNCHANGED <<socket, generation, epoch, visible>>

FreshConnectsInAnyEpoch(f) ==
  /\ Running(f)
  /\ rebuildPromise' = None
  /\ Set(f, [sock[f] EXCEPT !.conn = "up", !.rebuild = "done", !.gen = sock[f].oldGen + 1])
  /\ socket' = f
  /\ generation' = sock[f].oldGen + 1
  /\ health' = "healthy"
  /\ UNCHANGED <<epoch, visible>>

\* The fresh socket is connected: publish it, unless its session is over.
FreshConnects(f) ==
  /\ Running(f)
  /\ rebuildPromise' = None
  /\ \/ /\ sock[f].epoch = epoch
        /\ Set(f, [sock[f] EXCEPT !.conn = "up", !.rebuild = "done", !.gen = sock[f].oldGen + 1])
        /\ socket' = f
        /\ generation' = sock[f].oldGen + 1
        /\ health' = "healthy"
     \/ /\ sock[f].epoch # epoch
        /\ Set(f, Discarded(sock[f]))
        /\ UNCHANGED <<socket, generation, health>>
  /\ UNCHANGED <<epoch, visible>>

RebuildTimesOutLeavingFresh(f) ==
  /\ Running(f)
  /\ rebuildPromise' = None
  /\ Set(f, [sock[f] EXCEPT !.rebuild = "failed"])
  /\ health' = IF sock[f].epoch = epoch THEN "unhealthy" ELSE health
  /\ UNCHANGED <<socket, generation, epoch, visible>>

\* It is not connected within timeoutMs: give it up.  The retired socket stays
\* the live one.
RebuildTimesOut(f) ==
  /\ Running(f)
  /\ rebuildPromise' = None
  /\ Set(f, Discarded(sock[f]))
  /\ health' = IF sock[f].epoch = epoch THEN "unhealthy" ELSE health
  /\ UNCHANGED <<socket, generation, epoch, visible>>

\* markSocketUnhealthy, by a send cycle that was given s.  A socket has an id
\* only while it is connected, so that check lets a disconnected one pass.
MarkSocketUnhealthy(s) ==
  /\ sock[s].gen > 0 /\ sock[s].gen = generation
  /\ ~(Live /\ sock[s].conn = "up" /\ s # socket)
  /\ health = "healthy"
  /\ health' = "unhealthy"
  /\ UNCHANGED <<sock, socket, generation, rebuildPromise, epoch, visible>>

\* waitForConnection of a send cycle.
ConnectLive ==
  /\ Live /\ sock[socket].conn = "off"
  /\ Set(socket, Connecting(sock[socket]))
  /\ UNCHANGED <<facade, visible>>

----------------------------------------------------------------------------
\* The token refreshes.

\* The server disconnects a socket, as it does when its token expired.
ServerDisconnects(s) ==
  /\ sock[s].conn = "up"
  /\ \/ ~sock[s].wired /\ Set(s, [sock[s] EXCEPT !.conn = "off"])
     \/ /\ sock[s].wired /\ sock[s].refreshes < MaxRefreshes
        /\ Set(s, [sock[s] EXCEPT !.conn = "off", !.refreshes = @ + 1])
  /\ UNCHANGED <<facade, visible>>

RefreshSucceeds(s) ==
  /\ sock[s].refreshes > 0
  /\ Set(s, Connecting([sock[s] EXCEPT !.refreshes = @ - 1]))
  /\ UNCHANGED <<facade, visible>>

RefreshFailsTwice(s) ==
  /\ sock[s].conn # "unmade"
  /\ Set(s, [sock[s] EXCEPT !.refreshes = @ - 1, !.wired = FALSE])
  /\ socket' = IF socket = s THEN None ELSE socket
  /\ UNCHANGED <<generation, health, rebuildPromise, epoch, visible>>

\* The refresh returns null, also when the network lost its request.
RefreshFails(s) ==
  /\ sock[s].refreshes > 0
  /\ Set(s, [sock[s] EXCEPT !.refreshes = @ - 1, !.wired = FALSE])
  /\ socket' = IF socket = s THEN None ELSE socket
  /\ UNCHANGED <<generation, health, rebuildPromise, epoch, visible>>

PageVisible ==
  /\ Live /\ sock[socket].conn # "up"
  /\ ~visible
  /\ visible' = TRUE
  /\ UNCHANGED <<sock, facade>>

\* That refresh ended, well or not: connect whichever socket is live by now.
PageVisibleRefreshed ==
  /\ visible
  /\ visible' = FALSE
  /\ sock' = [s \in Sockets |-> IF s = socket THEN Connecting(sock[s]) ELSE sock[s]]
  /\ UNCHANGED facade

----------------------------------------------------------------------------
\* The network.

Connects(s) ==
  /\ sock[s].conn = "trying" /\ ~Running(s)
  /\ Set(s, [sock[s] EXCEPT !.conn = "up"])
  /\ UNCHANGED <<facade, visible>>

\* Without its Manager's reconnection one failed attempt is the last.
AttemptFails(s) ==
  /\ sock[s].conn = "trying" /\ ~sock[s].auto
  /\ Set(s, [sock[s] EXCEPT !.conn = "off"])
  /\ UNCHANGED <<facade, visible>>

Drops(s) ==
  /\ sock[s].conn = "up"
  /\ Set(s, [sock[s] EXCEPT !.conn = IF sock[s].auto THEN "trying" ELSE "off"])
  /\ UNCHANGED <<facade, visible>>

----------------------------------------------------------------------------
Init ==
  /\ sock = [s \in Sockets |-> Unmade]
  /\ socket = None
  /\ generation = 0
  /\ health = "healthy"
  /\ rebuildPromise = None
  /\ epoch = 0
  /\ visible = FALSE

Next ==
  \/ \E s \in Sockets :
       \/ GetSocket(s) \/ ReconnectSocket(s) \/ MarkSocketUnhealthy(s)
       \/ HardRebuildSocket(s) \/ FreshConnects(s) \/ RebuildTimesOut(s)
       \/ ServerDisconnects(s) \/ RefreshSucceeds(s) \/ RefreshFails(s)
       \/ Connects(s) \/ AttemptFails(s) \/ Drops(s)
  \/ DisconnectSocket \/ ConnectLive \/ PageVisible \/ PageVisibleRefreshed

Spec == Init /\ [][Next]_vars

----------------------------------------------------------------------------
\* Properties.

\* Types of the variables.
TypeOK ==
  /\ sock \in [Sockets ->
       [conn: {"unmade", "off", "trying", "up"}, auto: BOOLEAN, wired: BOOLEAN,
        refreshes: Nat, gen: Nat, epoch: Nat,
        rebuild: {"no", "running", "failed", "done"}, oldGen: Nat]]
  /\ socket \in Sockets \cup {None}
  /\ generation \in Nat
  /\ health \in {"healthy", "unhealthy", "rebuilding"}
  /\ rebuildPromise \in Sockets \cup {None}
  /\ epoch \in Nat
  /\ visible \in BOOLEAN

\* "A rebuild that started before a bump must never resurrect and hand out a
\* socket after it": the live socket was made after the last teardown, whatever
\* rebuilds and refreshes outlive it.
LiveSocketOfThisEpoch == Live => sock[socket].epoch = epoch

\* A caller that joins a rebuild joins one that is still running, for the
\* session of the caller: never a settled one, never one that can only reject.
JoinedRebuildIsCurrent ==
  rebuildPromise # None => Running(rebuildPromise) /\ sock[rebuildPromise].epoch = epoch

\* The health reads "rebuilding" only while a rebuild of this session runs:
\* else no socket could ever be marked unhealthy again.
RebuildingIsReal ==
  health = "rebuilding" => \E s \in Sockets : Running(s) /\ sock[s].epoch = epoch

\* A fresh socket that was given up stays disconnected and silent, whatever
\* timers and refreshes end after it.
DiscardedStaysOff ==
  \A s \in Sockets : sock[s].rebuild = "failed" => sock[s].conn = "off" /\ ~sock[s].wired

\* Consumers "must keep [their listeners] attached to whichever Socket.IO client
\* is actually live", never left with a "listener-stripped socket": once no
\* rebuild is about to replace it, a connected live socket has its listeners.
LiveSocketListens ==
  Live /\ rebuildPromise = None /\ sock[socket].conn = "up" => sock[socket].wired

=============================================================================
