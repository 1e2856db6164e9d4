-------------------------- MODULE SocketClientProofs --------------------------
(***************************************************************************)
(* Proofs about SocketClient: the properties of its facade that hold with  *)
(* any number of client objects, overlapping rebuilds, pending refreshes   *)
(* and teardowns.                                                          *)
(***************************************************************************)
EXTENDS SocketClient, TLAPS

\* What is known of a client object.
SockType ==
  [conn: {"unmade", "off", "trying", "up"}, auto: BOOLEAN, wired: BOOLEAN,
   refreshes: Nat, gen: Nat, epoch: Nat,
   rebuild: {"no", "running", "failed", "done"}, oldGen: Nat]

\* What the operations on a client object leave of it.
LEMMA Records ==
  ASSUME NEW r \in SockType
  PROVE  /\ Retired(r) \in SockType
         /\ Retired(r).conn = "off" /\ Retired(r).wired = FALSE
         /\ Retired(r).refreshes = r.refreshes /\ Retired(r).epoch = r.epoch
         /\ Retired(r).rebuild = r.rebuild
         /\ Discarded(r) \in SockType
         /\ Discarded(r).conn = "off" /\ Discarded(r).wired = FALSE
         /\ Discarded(r).refreshes = r.refreshes /\ Discarded(r).epoch = r.epoch
         /\ Discarded(r).rebuild = "failed"
         /\ Connecting(r) \in SockType
         /\ Connecting(r).conn = (IF r.conn = "off" THEN "trying" ELSE r.conn)
         /\ Connecting(r).wired = r.wired /\ Connecting(r).auto = r.auto
         /\ Connecting(r).refreshes = r.refreshes /\ Connecting(r).epoch = r.epoch
         /\ Connecting(r).rebuild = r.rebuild
BY DEF SockType, Retired, Discarded, Connecting

\* A new client object.
LEMMA NewRecord ==
  ASSUME NEW g \in Nat, epoch \in Nat
  PROVE  /\ Made(g) \in SockType
         /\ Made(g).conn = "trying" /\ Made(g).refreshes = 0
         /\ Made(g).epoch = epoch /\ Made(g).rebuild = "no"
BY DEF SockType, Made, Unmade

\* The invariant.  SockInv is what the properties rest on: a client object that
\* was never handed out (not made yet, being rebuilt, or given up) is not the
\* live one, and no refresh will connect it.
SockInv(s) ==
  /\ sock[s].rebuild = "running" => sock[s].conn = "trying" /\ sock[s].auto
  /\ sock[s].rebuild = "failed" => sock[s].conn = "off" /\ ~sock[s].wired
  /\ sock[s].conn = "unmade" \/ sock[s].rebuild \in {"running", "failed"}
       => s # socket /\ sock[s].refreshes = 0
  /\ sock[s].conn = "unmade" => sock[s].rebuild = "no"

FacadeInv ==
  /\ sock \in [Sockets -> SockType]
  /\ socket \in Sockets \cup {None}
  /\ generation \in Nat
  /\ health \in {"healthy", "unhealthy", "rebuilding"}
  /\ rebuildPromise \in Sockets \cup {None}
  /\ epoch \in Nat
  /\ visible \in BOOLEAN
  /\ socket # None => sock[socket].epoch = epoch
  /\ rebuildPromise # None =>
       sock[rebuildPromise].rebuild = "running" /\ sock[rebuildPromise].epoch = epoch
  /\ health = "rebuilding" =>
       \E s \in Sockets : sock[s].rebuild = "running" /\ sock[s].epoch = epoch

SInv == FacadeInv /\ \A s \in Sockets : SockInv(s)

LEMMA Consequences ==
  SInv => /\ TypeOK /\ LiveSocketOfThisEpoch /\ JoinedRebuildIsCurrent
          /\ RebuildingIsReal /\ DiscardedStaysOff
BY DEF SInv, FacadeInv, SockInv, TypeOK, SockType, LiveSocketOfThisEpoch,
   JoinedRebuildIsCurrent, RebuildingIsReal, DiscardedStaysOff, Live, Running

\* The invariant holds initially.
LEMMA InitSInv == Init => SInv
<1> SUFFICES ASSUME Init PROVE SInv
  OBVIOUS
<1>1. Unmade \in SockType /\ Unmade.rebuild = "no" /\ Unmade.refreshes = 0
  BY DEF Unmade, SockType
<1>2. \A s \in Sockets : sock[s] = Unmade
  BY DEF Init
<1>3. FacadeInv
  BY <1>1, <1>2 DEF Init, FacadeInv
<1>4. ASSUME NEW s \in Sockets PROVE SockInv(s)
  BY <1>1, <1>2, SocketAssumption DEF Init, SockInv
<1>5. QED
  BY <1>3, <1>4 DEF SInv

\* A step that changes one client object leaves the others alone.
LEMMA OneChanges ==
  ASSUME sock \in [Sockets -> SockType], NEW s \in Sockets, NEW r \in SockType, Set(s, r)
  PROVE  /\ sock' \in [Sockets -> SockType]
         /\ sock'[s] = r
         /\ \A t \in Sockets \ {s} : sock'[t] = sock[t]
BY DEF Set

\* A step of one client object that keeps its epoch and its rebuild, does not
\* touch the facade, and connects or wires nothing that was given up.
LEMMA OneSocketStep ==
  ASSUME SInv, NEW s \in Sockets, NEW r \in SockType, Set(s, r), UNCHANGED facade,
         visible' \in BOOLEAN,
         r.epoch = sock[s].epoch, r.rebuild = sock[s].rebuild,
         sock[s].conn # "unmade", r.conn # "unmade",
         r.rebuild = "running" => r.conn = "trying" /\ r.auto,
         r.rebuild = "failed" => r.conn = "off" /\ ~r.wired,
         r.rebuild \in {"running", "failed"} => r.refreshes = 0
  PROVE  SInv'
<1>1. FacadeInv /\ \A t \in Sockets : SockInv(t)
  BY DEF SInv
<1>2. /\ sock' \in [Sockets -> SockType]
      /\ sock'[s] = r
      /\ \A t \in Sockets \ {s} : sock'[t] = sock[t]
  BY <1>1, OneChanges DEF FacadeInv
<1>3. \A t \in Sockets : sock'[t].epoch = sock[t].epoch /\ sock'[t].rebuild = sock[t].rebuild
  BY <1>2
<1>4. FacadeInv'
  BY <1>1, <1>2, <1>3 DEF FacadeInv, facade
<1>5. ASSUME NEW t \in Sockets PROVE SockInv(t)'
  BY <1>1, <1>2 DEF SockInv, facade
<1>6. QED
  BY <1>4, <1>5 DEF SInv

\* The steps of one client object.
LEMMA ObjectSteps ==
  ASSUME SInv, NEW s \in Sockets,
         \/ ServerDisconnects(s) \/ RefreshSucceeds(s)
         \/ Connects(s) \/ AttemptFails(s) \/ Drops(s)
         \/ s = socket /\ ConnectLive
  PROVE  SInv'
<1>1. sock \in [Sockets -> SockType] /\ SockInv(s) /\ visible \in BOOLEAN
  BY DEF SInv, FacadeInv
<1>2. sock[s] \in SockType
  BY <1>1
<1>3. CASE ServerDisconnects(s)
  <2>1. PICK n \in {sock[s].refreshes, sock[s].refreshes + 1} :
          Set(s, [sock[s] EXCEPT !.conn = "off", !.refreshes = n])
    <3>1. [sock[s] EXCEPT !.conn = "off"]
            = [sock[s] EXCEPT !.conn = "off", !.refreshes = sock[s].refreshes]
      BY <1>2 DEF SockType
    <3>2. QED
      BY <1>3, <3>1 DEF ServerDisconnects
  <2>2. sock[s].conn = "up" /\ sock[s].rebuild \notin {"running", "failed"}
    BY <1>1, <1>3 DEF ServerDisconnects, SockInv
  <2> DEFINE r == [sock[s] EXCEPT !.conn = "off", !.refreshes = n]
  <2>3. /\ r \in SockType /\ r.conn = "off" /\ r.epoch = sock[s].epoch
        /\ r.rebuild = sock[s].rebuild
    <3>1. n \in Nat
      BY <1>2 DEF SockType
    <3>2. QED
      BY <1>2, <3>1 DEF SockType
  <2>4. QED
    BY <1>1, <1>3, <2>1, <2>2, <2>3, OneSocketStep DEF ServerDisconnects
<1>4. CASE RefreshSucceeds(s)
  <2> DEFINE q == [sock[s] EXCEPT !.refreshes = sock[s].refreshes - 1]
             r == Connecting(q)
  <2>1. sock[s].refreshes > 0 /\ Set(s, r)
    BY <1>4 DEF RefreshSucceeds
  <2>2. sock[s].conn # "unmade" /\ sock[s].rebuild \notin {"running", "failed"}
    BY <1>1, <1>2, <2>1 DEF SockInv, SockType
  <2>3. q \in SockType /\ q.conn = sock[s].conn /\ q.epoch = sock[s].epoch
          /\ q.rebuild = sock[s].rebuild
    BY <1>2, <2>1 DEF SockType
  <2>4. /\ r \in SockType /\ r.epoch = sock[s].epoch /\ r.rebuild = sock[s].rebuild
        /\ r.conn # "unmade"
    <3> SUFFICES ASSUME NEW p \in SockType, p = q
                 PROVE  /\ Connecting(p) \in SockType
                        /\ Connecting(p).epoch = p.epoch
                        /\ Connecting(p).rebuild = p.rebuild
                        /\ p.conn # "unmade" => Connecting(p).conn # "unmade"
      BY <2>2, <2>3
    <3>1. QED
      BY Records
  <2>5. QED
    BY <1>1, <1>4, <2>1, <2>2, <2>4, OneSocketStep DEF RefreshSucceeds
<1>5. CASE Connects(s) \/ AttemptFails(s) \/ Drops(s)
  <2>1. PICK c \in {"off", "trying", "up"} : Set(s, [sock[s] EXCEPT !.conn = c])
    BY <1>5 DEF Connects, AttemptFails, Drops
  <2>2. sock[s].conn # "unmade" /\ sock[s].rebuild \notin {"running", "failed"}
    BY <1>1, <1>5 DEF Connects, AttemptFails, Drops, SockInv, Running
  <2> DEFINE r == [sock[s] EXCEPT !.conn = c]
  <2>3. /\ r \in SockType /\ r.conn = c /\ r.epoch = sock[s].epoch
        /\ r.rebuild = sock[s].rebuild
    BY <1>2 DEF SockType
  <2>4. QED
    BY <1>1, <1>5, <2>1, <2>2, <2>3, OneSocketStep DEF Connects, AttemptFails, Drops
<1>6. CASE s = socket /\ ConnectLive
  <2>1. Set(s, Connecting(sock[s]))
    BY <1>6 DEF ConnectLive
  <2>2. sock[s].conn # "unmade" /\ sock[s].rebuild \notin {"running", "failed"}
    BY <1>1, <1>6 DEF SockInv
  <2> DEFINE r == Connecting(sock[s])
  <2>3. /\ r \in SockType /\ r.epoch = sock[s].epoch /\ r.rebuild = sock[s].rebuild
        /\ r.conn # "unmade"
    BY <1>2, <2>2, Records
  <2>4. QED
    BY <1>1, <1>6, <2>1, <2>2, <2>3, OneSocketStep DEF ConnectLive
<1>7. QED
  BY <1>3, <1>4, <1>5, <1>6

\* A rebuild starts.
LEMMA RebuildStarts ==
  ASSUME SInv, NEW f \in Sockets, HardRebuildSocket(f)
  PROVE  SInv'
<1>1. FacadeInv /\ (\A t \in Sockets : SockInv(t)) /\ socket # None /\ socket \in Sockets
  BY DEF SInv, FacadeInv, HardRebuildSocket, Live
<1>2. f # socket /\ sock[f].rebuild = "no"
  BY <1>1 DEF HardRebuildSocket, SockInv
<1> DEFINE r == [Made(0) EXCEPT !.rebuild = "running", !.oldGen = generation]
           q == Retired(sock[socket])
<1>3. /\ r \in SockType /\ r.conn = "trying" /\ r.auto /\ r.refreshes = 0
      /\ r.epoch = epoch /\ r.rebuild = "running"
  BY <1>1 DEF FacadeInv, SockType, Made, Unmade
<1>4. /\ q \in SockType /\ q.conn = "off" /\ ~q.wired /\ q.rebuild = sock[socket].rebuild
      /\ q.epoch = sock[socket].epoch
  BY <1>1, Records DEF FacadeInv
<1>5. /\ sock' \in [Sockets -> SockType]
      /\ sock'[f] = r /\ sock'[socket] = q
      /\ \A t \in Sockets \ {f, socket} : sock'[t] = sock[t]
  <2>1. sock' = [s \in Sockets |-> IF s = f THEN r ELSE IF s = socket THEN q ELSE sock[s]]
    BY <1>2 DEF HardRebuildSocket
  <2> HIDE DEF r, q
  <2>2. QED
    BY <1>1, <1>2, <1>3, <1>4, <2>1 DEF FacadeInv
<1>6. health' = "rebuilding" /\ rebuildPromise' = f
        /\ UNCHANGED <<socket, generation, epoch, visible>>
  BY DEF HardRebuildSocket
<1> HIDE DEF r, q
<1>7. FacadeInv'
  <2>1. sock'[socket].epoch = epoch
    BY <1>1, <1>4, <1>5 DEF FacadeInv
  <2>2. sock'[f].rebuild = "running" /\ sock'[f].epoch = epoch
    BY <1>3, <1>5
  <2>3. QED
    BY <1>1, <1>5, <1>6, <2>1, <2>2 DEF FacadeInv
<1>8. ASSUME NEW t \in Sockets PROVE SockInv(t)'
  <2>1. CASE t = f
    BY <1>2, <1>3, <1>5, <1>6, <2>1 DEF SockInv
  <2>2. CASE t = socket
    BY <1>1, <1>4, <1>5, <1>6, <2>2 DEF SockInv
  <2>3. CASE t \in Sockets \ {f, socket}
    BY <1>1, <1>5, <1>6, <2>3 DEF SockInv
  <2>4. QED
    BY <2>1, <2>2, <2>3
<1>9. QED
  BY <1>7, <1>8 DEF SInv

\* A rebuild ends, well or not: no other client object changes, and the fresh
\* one leaves no rebuild behind that the health or the promise could refer to.
LEMMA RebuildEnds ==
  ASSUME SInv, NEW f \in Sockets, FreshConnects(f) \/ RebuildTimesOut(f)
  PROVE  SInv'
<1>1. FacadeInv /\ (\A t \in Sockets : SockInv(t))
  BY DEF SInv
<1>2. /\ sock[f] \in SockType /\ sock[f].rebuild = "running"
      /\ f # socket /\ sock[f].refreshes = 0
  BY <1>1 DEF FacadeInv, SockInv, FreshConnects, RebuildTimesOut, Running
<1>3. rebuildPromise' = None /\ UNCHANGED <<epoch, visible>>
  BY DEF FreshConnects, RebuildTimesOut
<1>4. CASE sock[f].epoch = epoch /\ FreshConnects(f)
  <2> DEFINE r == [sock[f] EXCEPT !.conn = "up", !.rebuild = "done", !.gen = sock[f].oldGen + 1]
  <2>1. /\ r \in SockType /\ r.conn = "up" /\ r.rebuild = "done" /\ r.epoch = epoch
    <3>1. sock[f].oldGen + 1 \in Nat
      BY <1>2 DEF SockType
    <3>2. QED
      BY <1>2, <1>4, <3>1 DEF SockType
  <2>2. /\ Set(f, r) /\ socket' = f /\ health' = "healthy"
        /\ generation' = sock[f].oldGen + 1 /\ sock[f].oldGen \in Nat
    BY <1>2, <1>4 DEF FreshConnects, SockType
  <2>3. /\ sock' \in [Sockets -> SockType] /\ sock'[f] = r
        /\ \A t \in Sockets \ {f} : sock'[t] = sock[t]
    BY <1>1, <2>1, <2>2, OneChanges DEF FacadeInv
  <2> HIDE DEF r
  <2>4. FacadeInv'
    BY <1>1, <1>3, <2>1, <2>2, <2>3 DEF FacadeInv
  <2>5. ASSUME NEW t \in Sockets PROVE SockInv(t)'
    BY <1>1, <2>1, <2>2, <2>3 DEF SockInv
  <2>6. QED
    BY <2>4, <2>5 DEF SInv
<1>5. CASE ~(sock[f].epoch = epoch /\ FreshConnects(f))
  <2> DEFINE r == Discarded(sock[f])
  <2>1. /\ r \in SockType /\ r.conn = "off" /\ ~r.wired /\ r.rebuild = "failed"
        /\ r.refreshes = 0
    BY <1>2, Records
  <2>2. /\ Set(f, r) /\ UNCHANGED <<socket, generation>>
        /\ health' \in {health, "unhealthy"}
        /\ sock[f].epoch = epoch => health' # "rebuilding"
    BY <1>5 DEF FreshConnects, RebuildTimesOut
  <2>3. /\ sock' \in [Sockets -> SockType] /\ sock'[f] = r
        /\ \A t \in Sockets \ {f} : sock'[t] = sock[t]
    BY <1>1, <2>1, <2>2, OneChanges DEF FacadeInv
  <2> HIDE DEF r
  <2>4. health' = "rebuilding" => \E s \in Sockets \ {f} :
                                    sock[s].rebuild = "running" /\ sock[s].epoch = epoch
    BY <1>1, <2>2 DEF FacadeInv
  <2>5. FacadeInv'
    BY <1>1, <1>2, <1>3, <2>2, <2>3, <2>4 DEF FacadeInv
  <2>6. ASSUME NEW t \in Sockets PROVE SockInv(t)'
    BY <1>1, <1>2, <2>1, <2>2, <2>3 DEF SockInv
  <2>7. QED
    BY <2>5, <2>6 DEF SInv
<1>6. QED
  BY <1>4, <1>5

\* A teardown leaves no live socket, no promise and a healthy state.
LEMMA Teardown ==
  ASSUME SInv, DisconnectSocket
  PROVE  SInv'
<1>1. FacadeInv /\ (\A t \in Sockets : SockInv(t))
  BY DEF SInv
<1>2. /\ socket' = None /\ health' = "healthy" /\ rebuildPromise' = None
      /\ epoch' = epoch + 1 /\ UNCHANGED <<generation, visible>>
  BY DEF DisconnectSocket
<1>3. /\ sock' \in [Sockets -> SockType]
      /\ \A t \in Sockets : sock'[t] = IF t = socket THEN Retired(sock[t]) ELSE sock[t]
  BY <1>1, Records DEF FacadeInv, DisconnectSocket
<1>4. FacadeInv'
  BY <1>1, <1>2, <1>3 DEF FacadeInv
<1>5. ASSUME NEW t \in Sockets PROVE SockInv(t)'
  <2>1. CASE t = socket
    <3>1. /\ sock'[t].conn = "off" /\ ~sock'[t].wired
          /\ sock'[t].rebuild = sock[t].rebuild
      <4> DEFINE q == Retired(sock[t])
      <4>1. q.conn = "off" /\ ~q.wired /\ q.rebuild = sock[t].rebuild
        BY <1>1, Records DEF FacadeInv
      <4>2. QED
        BY <1>3, <2>1, <4>1
    <3>2. QED
      BY <1>1, <2>1, <3>1 DEF SockInv
  <2>2. CASE t # socket
    BY <1>1, <1>2, <1>3, <2>2, SocketAssumption DEF SockInv
  <2>3. QED
    BY <2>1, <2>2
<1>6. QED
  BY <1>4, <1>5 DEF SInv

\* Login: the old live socket is torn down, the new one is of the new epoch.
LEMMA LoginStep ==
  ASSUME SInv, NEW n \in Sockets, ReconnectSocket(n)
  PROVE  SInv'
<1>1. FacadeInv /\ (\A t \in Sockets : SockInv(t))
  BY DEF SInv
<1> DEFINE r == [Made(generation + 1) EXCEPT !.epoch = epoch + 1]
<1>2. /\ r \in SockType /\ r.conn = "trying" /\ r.rebuild = "no" /\ r.epoch = epoch + 1
      /\ r.refreshes = 0
  <2>1. generation + 1 \in Nat /\ epoch + 1 \in Nat /\ epoch \in Nat
    BY <1>1 DEF FacadeInv
  <2>2. QED
    BY <2>1 DEF SockType, Made, Unmade
<1>3. /\ socket' = n /\ health' = "healthy" /\ rebuildPromise' = None
      /\ epoch' = epoch + 1 /\ generation' = generation + 1 /\ UNCHANGED visible
      /\ sock' = [s \in Sockets |-> IF s = n THEN r
                                    ELSE IF s = socket THEN Retired(sock[s]) ELSE sock[s]]
  <2>1. n # socket
    BY <1>1 DEF ReconnectSocket, SockInv
  <2>2. QED
    BY <2>1 DEF ReconnectSocket
<1> HIDE DEF r
<1>4. /\ sock' \in [Sockets -> SockType]
      /\ sock'[n] = r
      /\ \A t \in Sockets \ {n} : sock'[t] = IF t = socket THEN Retired(sock[t]) ELSE sock[t]
  BY <1>1, <1>2, <1>3, Records DEF FacadeInv
<1>5. FacadeInv'
  BY <1>1, <1>2, <1>3, <1>4 DEF FacadeInv
<1>6. ASSUME NEW t \in Sockets PROVE SockInv(t)'
  <2>1. CASE t = n
    BY <1>2, <1>4, <2>1 DEF SockInv
  <2>2. CASE t # n /\ t = socket
    <3> DEFINE q == Retired(sock[t])
    <3>1. q.conn = "off" /\ ~q.wired /\ q.rebuild = sock[t].rebuild
      BY <1>1, Records DEF FacadeInv
    <3>2. sock'[t] = q
      BY <1>4, <2>2
    <3>3. QED
      BY <1>1, <2>2, <3>1, <3>2 DEF SockInv
  <2>3. CASE t # n /\ t # socket
    BY <1>1, <1>3, <1>4, <2>3 DEF SockInv
  <2>4. QED
    BY <2>1, <2>2, <2>3
<1>7. QED
  BY <1>5, <1>6 DEF SInv

\* The steps that create or drop the live socket.
LEMMA LiveSteps ==
  ASSUME SInv, NEW s \in Sockets, GetSocket(s) \/ RefreshFails(s)
  PROVE  SInv'
<1>1. FacadeInv /\ (\A t \in Sockets : SockInv(t)) /\ sock[s] \in SockType
  BY DEF SInv, FacadeInv
<1>2. CASE GetSocket(s)
  <2> DEFINE r == Made(generation + 1)
  <2>1. /\ r \in SockType /\ r.conn = "trying" /\ r.rebuild = "no" /\ r.epoch = epoch
        /\ generation + 1 \in Nat
    BY <1>1, NewRecord DEF FacadeInv
  <2>2. /\ Set(s, r) /\ socket' = s /\ generation' = generation + 1 /\ health' = "healthy"
        /\ sock[s].rebuild = "no"
        /\ UNCHANGED <<rebuildPromise, epoch, visible>>
    BY <1>1, <1>2 DEF GetSocket, SockInv
  <2> HIDE DEF r
  <2>3. /\ sock' \in [Sockets -> SockType] /\ sock'[s] = r
        /\ \A t \in Sockets \ {s} : sock'[t] = sock[t]
    BY <1>1, <2>1, <2>2, OneChanges DEF FacadeInv
  <2>4. FacadeInv'
    BY <1>1, <2>1, <2>2, <2>3 DEF FacadeInv
  <2>5. ASSUME NEW t \in Sockets PROVE SockInv(t)'
    BY <1>1, <2>1, <2>2, <2>3 DEF SockInv
  <2>6. QED
    BY <2>4, <2>5 DEF SInv
<1>3. CASE RefreshFails(s)
  <2> DEFINE r == [sock[s] EXCEPT !.refreshes = sock[s].refreshes - 1, !.wired = FALSE]
  <2>1. /\ sock[s].refreshes > 0 /\ Set(s, r)
        /\ socket' = IF socket = s THEN None ELSE socket
        /\ UNCHANGED <<generation, health, rebuildPromise, epoch, visible>>
    BY <1>3 DEF RefreshFails
  <2>2. sock[s].conn # "unmade" /\ sock[s].rebuild \notin {"running", "failed"}
    BY <1>1, <2>1 DEF SockInv, SockType
  <2>3. /\ r \in SockType /\ r.conn = sock[s].conn /\ r.epoch = sock[s].epoch
        /\ r.rebuild = sock[s].rebuild
    <3>1. sock[s].refreshes - 1 \in Nat
      BY <1>1, <2>1 DEF SockType
    <3>2. QED
      BY <1>1, <3>1 DEF SockType
  <2> HIDE DEF r
  <2>4. /\ sock' \in [Sockets -> SockType] /\ sock'[s] = r
        /\ \A t \in Sockets \ {s} : sock'[t] = sock[t]
    BY <1>1, <2>1, <2>3, OneChanges DEF FacadeInv
  <2>5. \A t \in Sockets : sock'[t].epoch = sock[t].epoch /\ sock'[t].rebuild = sock[t].rebuild
    BY <2>3, <2>4
  <2>6. FacadeInv'
    BY <1>1, <2>1, <2>4, <2>5 DEF FacadeInv
  <2>7. ASSUME NEW t \in Sockets PROVE SockInv(t)'
    BY <1>1, <2>1, <2>2, <2>3, <2>4, SocketAssumption DEF SockInv
  <2>8. QED
    BY <2>6, <2>7 DEF SInv
<1>4. QED
  BY <1>2, <1>3

\* The page becomes visible, and its refresh ends.
LEMMA VisibleSteps ==
  ASSUME SInv, PageVisible \/ PageVisibleRefreshed
  PROVE  SInv'
<1>1. FacadeInv /\ (\A t \in Sockets : SockInv(t))
  BY DEF SInv
<1>2. UNCHANGED facade /\ visible' \in BOOLEAN
  BY DEF PageVisible, PageVisibleRefreshed
<1>3. CASE PageVisible
  <2>1. UNCHANGED sock
    BY <1>3 DEF PageVisible
  <2>2. FacadeInv' /\ \A t \in Sockets : SockInv(t)'
    BY <1>1, <1>2, <2>1 DEF FacadeInv, SockInv, facade
  <2>3. QED
    BY <2>2 DEF SInv
<1>4. CASE PageVisibleRefreshed
  <2>1. /\ sock' \in [Sockets -> SockType]
        /\ \A t \in Sockets : sock'[t] = IF t = socket THEN Connecting(sock[t]) ELSE sock[t]
    BY <1>1, <1>4, Records DEF FacadeInv, PageVisibleRefreshed
  <2>2. ASSUME NEW t \in Sockets, t = socket
        PROVE  /\ sock'[t].rebuild = sock[t].rebuild /\ sock'[t].epoch = sock[t].epoch
               /\ sock[t].conn # "unmade" => sock'[t].conn # "unmade"
    <3> DEFINE q == Connecting(sock[t])
    <3>1. /\ q.conn = (IF sock[t].conn = "off" THEN "trying" ELSE sock[t].conn)
          /\ q.rebuild = sock[t].rebuild /\ q.epoch = sock[t].epoch
      <4>1. sock[t] \in SockType
        BY <1>1 DEF FacadeInv
      <4>2. QED
        BY <4>1, Records
    <3>2. QED
      BY <2>1, <2>2, <3>1
  <2>3. \A t \in Sockets : sock'[t].epoch = sock[t].epoch /\ sock'[t].rebuild = sock[t].rebuild
    BY <2>1, <2>2
  <2>4. FacadeInv'
    BY <1>1, <1>2, <2>1, <2>3 DEF FacadeInv, facade
  <2>5. ASSUME NEW t \in Sockets PROVE SockInv(t)'
    BY <1>1, <1>2, <2>1, <2>2 DEF SockInv, facade
  <2>6. QED
    BY <2>4, <2>5 DEF SInv
<1>5. QED
  BY <1>3, <1>4

\* Every step keeps the invariant.
LEMMA NextSInv == SInv /\ [Next]_vars => SInv'
<1> SUFFICES ASSUME SInv, [Next]_vars PROVE SInv'
  OBVIOUS
<1>1. CASE UNCHANGED vars
  BY <1>1 DEF vars, SInv, FacadeInv, SockInv
<1>2. ASSUME NEW s \in Sockets, MarkSocketUnhealthy(s) PROVE SInv'
  BY <1>2 DEF MarkSocketUnhealthy, SInv, FacadeInv, SockInv
<1>3. ASSUME NEW s \in Sockets, \/ ServerDisconnects(s) \/ RefreshSucceeds(s)
                                \/ Connects(s) \/ AttemptFails(s) \/ Drops(s)
      PROVE SInv'
  BY <1>3, ObjectSteps
<1>4. CASE ConnectLive
  <2>1. socket \in Sockets
    BY <1>4 DEF ConnectLive, Live, SInv, FacadeInv
  <2>2. QED
    BY <1>4, <2>1, ObjectSteps
<1>5. QED
  BY <1>1, <1>2, <1>3, <1>4, RebuildStarts, RebuildEnds, Teardown, LoginStep, LiveSteps,
     VisibleSteps DEF Next

\* The facade's invariant holds in every reachable state.
THEOREM FacadeInvariant == Spec => []SInv
BY InitSInv, NextSInv, PTL DEF Spec

\* The types of the variables (TypeOK).
THEOREM FacadeTypes == Spec => []TypeOK
BY FacadeInvariant, Consequences, PTL

\* Whatever rebuilds and refreshes outlive a logout, none of them hands out a
\* socket of the ended session (hardRebuildSocket's epoch check).
THEOREM NoResurrection == Spec => []LiveSocketOfThisEpoch
BY FacadeInvariant, Consequences, PTL

\* Callers of hardRebuildSocket join only rebuilds that run for their session,
\* although the finally of a forgotten rebuild clears the promise of a newer one.
THEOREM JoinCurrent == Spec => []JoinedRebuildIsCurrent
BY FacadeInvariant, Consequences, PTL

\* The health is never stuck at "rebuilding".
THEOREM HealthIsReal == Spec => []RebuildingIsReal
BY FacadeInvariant, Consequences, PTL

\* A fresh socket that a failed rebuild gave up is never revived.
THEOREM GivenUpForGood == Spec => []DiscardedStaysOff
BY FacadeInvariant, Consequences, PTL

=============================================================================
