----------------------------- MODULE OutboxProofs -----------------------------
(***************************************************************************)
(* Proofs about Outbox: what the runs check with two or three messages and *)
(* users holds for any number of them and any number of generations.       *)
(*                                                                         *)
(* Every action changes messages one by one, so the argument is about one  *)
(* record: what each helper makes of it (the lemmas of the first part),    *)
(* and what that means for the step (Step).                                *)
(***************************************************************************)
EXTENDS Outbox, TLAPS

MsgType ==
  [at: Awaiting, delivery: Shown, kept: BOOLEAN, waiting: BOOLEAN, bad: Nat,
   uploaded: BOOLEAN, force: BOOLEAN, author: Users \cup {NoUser},
   by: Users \cup {NoUser}, gen: Nat, emits: Nat, rebuilds: Nat,
   cur: Links \cup {"none", "dead"}, late: SUBSET Links, pipe: SUBSET Links,
   stored: BOOLEAN]

Retained(r) == r.author # NoUser => r.kept \/ r.stored

\* A cycle that uploads, or waits for its first connection, has spent nothing.
Budget(r) ==
  /\ r.emits <= 2 /\ r.rebuilds <= 1
  /\ r.at = "upload" => r.emits = 0 /\ r.rebuilds = 0
  /\ r.at \in {"wait", "stripped", "replaced"} => r.emits = 0 /\ r.rebuilds = 0
  /\ r.at = "rebuild" => r.emits <= 1

Progress(r) ==
  /\ r.delivery \in Busy => r.at # "idle"
  /\ r.delivery = "awaiting-connection" /\ r.kept => r.waiting \/ r.at # "idle"

Good(r) == r \in MsgType /\ Retained(r) /\ Budget(r) /\ Progress(r)

\* What may become of a message in one step: EmitsFrom is Emits of Outbox.
EmitsFrom(r, s) ==
  /\ s.at \in {"ack", "early"}
  /\ r.at \in {"ack", "early"} => s.emits > r.emits
StepOf(r, s) ==
  EmitsFrom(r, s) => user = s.by /\ (s.emits = 2 => s.gen > r.gen)

EnvType ==
  /\ user \in Users \cup {NoUser} /\ online \in BOOLEAN /\ live \in Sockets
  /\ gen \in Nat /\ orphan \in BOOLEAN /\ rebuild \in BOOLEAN

\* The invariant.
OInv ==
  /\ EnvType
  /\ msg \in [Messages -> MsgType]
  /\ \A m \in Messages : Good(msg[m]) /\ msg[m].gen <= gen

Step == OInv' /\ \A m \in Messages : StepOf(msg[m], msg'[m])

-----------------------------------------------------------------------------
(* What the helpers make of a record.                                      *)

\* An emit, within the budget.
LEMMA EmitRecord ==
  ASSUME NEW s \in MsgType, Retained(s), s.emits <= 1, s.rebuilds <= 1,
         NEW g \in Nat, rebuild \in BOOLEAN
  PROVE  /\ Good(Emit(s, g))
         /\ Emit(s, g).gen = g /\ Emit(s, g).by = s.by
         /\ Emit(s, g).emits = s.emits + 1
<1> DEFINE e == Emit(s, g)
<1>0. /\ s.pipe \cup {"live"} \in SUBSET Links /\ s.emits + 1 \in Nat
      /\ (IF rebuild THEN "early" ELSE "ack") \in Awaiting
      /\ (IF s.emits = 0 THEN "sending" ELSE "retrying") \in Shown
      /\ "live" \in Links \cup {"none", "dead"}
  BY DEF MsgType, Awaiting, Shown, Busy, Links
<1>1. e \in MsgType
  BY <1>0 DEF Emit, MsgType
<1>2. /\ e.at \in {"ack", "early"} /\ e.emits = s.emits + 1 /\ e.gen = g
      /\ e.by = s.by /\ e.rebuilds = s.rebuilds /\ e.author = s.author
      /\ e.kept = s.kept /\ e.stored = s.stored
  BY DEF Emit, MsgType
<1>3. Retained(e)
  BY <1>2 DEF Retained
<1>4. Budget(e)
  BY <1>2 DEF Budget, MsgType
<1>5. Progress(e)
  BY <1>2 DEF Progress
<1> QED
  BY <1>1, <1>2, <1>3, <1>4, <1>5 DEF Good

\* A cycle that fails.
LEMMA FailedRecord ==
  ASSUME NEW s \in MsgType, Retained(s), s.emits <= 2, s.rebuilds <= 1, NEW b \in Nat
  PROVE  /\ Good(Failed(s, b)) /\ Failed(s, b).at = "idle"
         /\ Failed(s, b).gen = s.gen
<1> DEFINE f == Failed(s, b)
<1>1. f \in MsgType
  BY DEF Failed, MsgType, Awaiting, Shown
<1>2. /\ f.at = "idle" /\ f.delivery \in {"sent", "failed"} /\ f.gen = s.gen
      /\ f.emits = s.emits /\ f.rebuilds = s.rebuilds /\ f.author = s.author
      /\ f.kept = s.kept /\ f.stored = s.stored
  BY DEF Failed, MsgType
<1> QED
  BY <1>1, <1>2 DEF Good, Retained, Budget, Progress, Busy

\* A cycle that ends because the browser is offline.
LEMMA OfflineRecord ==
  ASSUME NEW s \in MsgType, Retained(s), s.emits <= 2, s.rebuilds <= 1
  PROVE  Good(Offline(s)) /\ Offline(s).at = "idle" /\ Offline(s).gen = s.gen
<1> DEFINE f == Offline(s)
<1>1. f \in MsgType
  BY DEF Offline, MsgType, Awaiting, Shown
<1>2. /\ f.at = "idle" /\ f.delivery = "awaiting-connection" /\ f.waiting
      /\ f.gen = s.gen /\ f.emits = s.emits /\ f.rebuilds = s.rebuilds
      /\ f.author = s.author /\ f.kept = s.kept /\ f.stored = s.stored
  BY DEF Offline, MsgType
<1> QED
  BY <1>1, <1>2 DEF Good, Retained, Budget, Progress, Busy

\* A cycle that starts, with nothing spent.
LEMMA StartRecord ==
  ASSUME NEW m \in Messages, NEW s \in MsgType, Retained(s), EnvType,
         s.emits = 0, s.rebuilds = 0, s.gen <= gen
  PROVE  /\ Good(Start(m, s)) /\ Start(m, s).gen <= gen
         /\ Start(m, s).at \in {"ack", "early"} =>
              user = Start(m, s).by /\ Start(m, s).emits = 1
<1>1. CASE ~SessionStillValid(s)
  <2>1. Start(m, s) = Failed(s, 0)
    BY <1>1 DEF Start
  <2> QED
    BY <2>1, FailedRecord
<1>2. CASE SessionStillValid(s) /\ NeedsUpload(m, s)
  <2> DEFINE u == [s EXCEPT !.at = "upload", !.delivery = "uploading"]
  <2>1. Start(m, s) = u
    BY <1>2 DEF Start
  <2>2. u \in MsgType
    BY DEF MsgType, Awaiting, Shown, Busy
  <2>3. /\ u.at = "upload" /\ u.emits = 0 /\ u.rebuilds = 0 /\ u.gen = s.gen
        /\ u.author = s.author /\ u.kept = s.kept /\ u.stored = s.stored
    BY DEF MsgType
  <2>4. Good(u) /\ u.gen <= gen /\ u.at \notin {"ack", "early"}
    BY <2>2, <2>3 DEF Good, Retained, Budget, Progress
  <2> QED
    BY <2>1, <2>4
<1>3. CASE SessionStillValid(s) /\ ~NeedsUpload(m, s) /\ Connected
  <2>1. Start(m, s) = Emit(s, gen)
    BY <1>3 DEF Start, Ready
  <2>2. Good(Emit(s, gen)) /\ Emit(s, gen).gen = gen /\ Emit(s, gen).by = s.by
        /\ Emit(s, gen).emits = 1
    BY EmitRecord DEF EnvType
  <2> QED
    BY <1>3, <2>1, <2>2 DEF SessionStillValid, EnvType
<1>4. CASE SessionStillValid(s) /\ ~NeedsUpload(m, s) /\ ~Connected
  <2> DEFINE u == [s EXCEPT !.at = "wait", !.gen = gen]
  <2>1. Start(m, s) = u
    BY <1>4 DEF Start, Ready
  <2>2. u \in MsgType
    BY DEF MsgType, Awaiting, EnvType
  <2>3. /\ u.at = "wait" /\ u.emits = 0 /\ u.rebuilds = 0 /\ u.gen = gen
        /\ u.author = s.author /\ u.kept = s.kept /\ u.stored = s.stored
    BY DEF MsgType
  <2>4. Good(u) /\ u.gen <= gen /\ u.at \notin {"ack", "early"}
    BY <2>2, <2>3 DEF Good, Retained, Budget, Progress, EnvType
  <2> QED
    BY <2>1, <2>4
<1> QED
  BY <1>1, <1>2, <1>3, <1>4

\* A cycle that begins to await a rebuild.
LEMMA RebuildRecord ==
  ASSUME NEW s \in MsgType, Retained(s), s.emits <= 1, s.rebuilds = 0
  PROVE  LET r == [s EXCEPT !.at = "rebuild", !.rebuilds = @ + 1,
                            !.delivery = "rebuilding-connection"]
         IN Good(r) /\ r.at = "rebuild" /\ r.gen = s.gen
<1> DEFINE r == [s EXCEPT !.at = "rebuild", !.rebuilds = @ + 1,
                          !.delivery = "rebuilding-connection"]
<1>0. /\ s.rebuilds + 1 \in Nat /\ "rebuild" \in Awaiting
      /\ "rebuilding-connection" \in Shown
  BY DEF MsgType, Awaiting, Shown, Busy
<1>1. r \in MsgType
  BY <1>0 DEF MsgType
<1>2. /\ r.at = "rebuild" /\ r.emits = s.emits /\ r.rebuilds = 1 /\ r.gen = s.gen
      /\ r.author = s.author /\ r.kept = s.kept /\ r.stored = s.stored
      /\ r.delivery = "rebuilding-connection"
  BY DEF MsgType
<1>3. Good(r)
  BY <1>1, <1>2 DEF Good, Retained, Budget, Progress, MsgType
<1> QED
  BY <1>2, <1>3

\* What happens to a message that is not the step's own: the links change, and
\* with them what its cycle awaits.
Moved(r, s) ==
  /\ s \in MsgType
  /\ s.author = r.author /\ s.kept = r.kept /\ s.stored = r.stored
  /\ s.waiting = r.waiting /\ s.delivery = r.delivery
  /\ s.emits = r.emits /\ s.rebuilds = r.rebuilds /\ s.gen = r.gen /\ s.by = r.by
  /\ \/ s.at = r.at
     \/ r.at = "wait" /\ s.at \in {"stripped", "replaced"}
     \/ r.at = "early" /\ s.at = "ack"
     \/ r.at = "rebuild" /\ s.at = "doomed"

LEMMA MovedRecord ==
  ASSUME NEW r \in MsgType, NEW s, Good(r), Moved(r, s)
  PROVE  Good(s) /\ StepOf(r, s) /\ s.gen = r.gen
<1>1. Good(s)
  BY DEF Good, Moved, Retained, Budget, Progress
<1>2. ~EmitsFrom(r, s)
  BY DEF Moved, EmitsFrom, MsgType
<1> QED
  BY <1>1, <1>2 DEF StepOf, Moved

LEMMA CutMoves ==
  ASSUME NEW r \in MsgType
  PROVE  Moved(r, Cut(r)) /\ Cut(r).at = r.at
<1>1. /\ r.late \ {"live"} \in SUBSET Links /\ r.pipe \ {"live"} \in SUBSET Links
      /\ (IF r.cur = "live" THEN "dead" ELSE r.cur) \in Links \cup {"none", "dead"}
  <2>1. r.late \in SUBSET Links /\ r.pipe \in SUBSET Links
        /\ r.cur \in Links \cup {"none", "dead"}
    BY DEF MsgType
  <2> QED
    BY <2>1
<1>2. Cut(r) \in MsgType
  BY <1>1 DEF Cut, MsgType
<1> QED
  BY <1>2 DEF Cut, Moved, MsgType

LEMMA RetireMoves ==
  ASSUME NEW r \in MsgType
  PROVE  /\ Moved(r, Retire(r)) /\ Retire(r).at \in {r.at, "stripped"}
         /\ r.at # "wait" => Retire(r).at = r.at
<1>1. Cut(r) \in MsgType /\ Moved(r, Cut(r)) /\ Cut(r).at = r.at
  BY CutMoves DEF Moved
<1>2. Retire(r) \in MsgType
  BY <1>1 DEF Retire, MsgType, Awaiting
<1> QED
  BY <1>1, <1>2 DEF Retire, Moved, MsgType

LEMMA SettleMoves ==
  ASSUME NEW r \in MsgType
  PROVE  Moved(r, Settle(r))
<1>1. Settle(r) \in MsgType
  BY DEF Settle, MsgType, Awaiting
<1> QED
  BY <1>1 DEF Settle, Moved, MsgType

-----------------------------------------------------------------------------
(* What the actions make of the messages.                                  *)

\* A step of one message that changes nothing else.
LEMMA SetStep ==
  ASSUME OInv, NEW m \in Messages, NEW s, Good(s), s.gen <= gen,
         StepOf(msg[m], s), Set(m, s), UNCHANGED env
  PROVE  Step
<1>1. \A n \in Messages : msg'[n] = IF n = m THEN s ELSE msg[n]
  BY DEF Set, OInv
<1>2. s \in MsgType /\ \A n \in Messages : msg[n] \in MsgType
  BY DEF Good, OInv
<1>3. msg' \in [Messages -> MsgType]
  BY <1>2 DEF Set, OInv
<1>4. \A n \in Messages : Good(msg'[n]) /\ msg'[n].gen <= gen
  BY <1>1 DEF OInv
<1>5. \A n \in Messages : StepOf(msg[n], msg'[n])
  <2>1. \A n \in Messages : ~EmitsFrom(msg[n], msg[n])
    BY <1>2 DEF EmitsFrom, MsgType
  <2> QED
    BY <1>1, <2>1 DEF StepOf
<1>6. gen' = gen /\ EnvType'
  BY DEF env, EnvType, OInv
<1>7. OInv'
  BY <1>3, <1>4, <1>6 DEF OInv, Good, Retained, Budget, Progress, MsgType
<1> QED
  BY <1>5, <1>7 DEF Step

\* A step of the links: every message is moved.
LEMMA MoveStep ==
  ASSUME OInv, EnvType', gen <= gen', msg' \in [Messages -> MsgType],
         \A n \in Messages : Moved(msg[n], msg'[n])
  PROVE  Step
<1>1. \A n \in Messages : Good(msg'[n]) /\ StepOf(msg[n], msg'[n])
                          /\ msg'[n].gen = msg[n].gen
  BY MovedRecord DEF OInv, Good
<1>2. \A n \in Messages : msg'[n].gen <= gen'
  BY <1>1 DEF OInv, EnvType, MsgType
<1> QED
  BY <1>1, <1>2 DEF Step, OInv, Good, Retained, Budget, Progress, MsgType

\* A step that gives every message a good record.
LEMMA AllStep ==
  ASSUME EnvType', msg' \in [Messages -> MsgType],
         \A n \in Messages : /\ Good(msg'[n]) /\ msg'[n].gen <= gen'
                             /\ StepOf(msg[n], msg'[n])
  PROVE  Step
BY DEF Step, OInv, Good, Retained, Budget, Progress, MsgType

LEMMA RebuildStep ==
  ASSUME OInv, NEW m \in Messages, NEW s \in MsgType, Retained(s), s.emits <= 1,
         s.rebuilds = 0, s.gen <= gen, Rebuild(m, s)
  PROVE  Step
<1> DEFINE r == [s EXCEPT !.at = "rebuild", !.rebuilds = @ + 1,
                          !.delivery = "rebuilding-connection"]
<1>1. Good(r) /\ r.at = "rebuild" /\ r.gen = s.gen
  BY RebuildRecord
<1> HIDE DEF r
<1>2. CASE rebuild /\ Set(m, r) /\ UNCHANGED env
  <2>1. StepOf(msg[m], r)
    BY <1>1 DEF StepOf, EmitsFrom
  <2> QED
    BY <1>1, <1>2, <2>1, SetStep
<1>3. CASE /\ ~rebuild /\ rebuild' = TRUE /\ live' = "down"
           /\ msg' = [n \in Messages |-> Retire(IF n = m THEN r ELSE msg[n])]
           /\ UNCHANGED <<user, online, gen, orphan>>
  <2>1. EnvType' /\ gen' = gen
    BY <1>3 DEF OInv, EnvType, Sockets
  <2>2. ASSUME NEW n \in Messages
        PROVE  /\ msg'[n] \in MsgType /\ Good(msg'[n]) /\ msg'[n].gen <= gen'
               /\ StepOf(msg[n], msg'[n])
    <3>1. msg[n] \in MsgType /\ Good(msg[n]) /\ msg[n].gen <= gen
      BY DEF OInv
    <3>2. CASE n = m
      <4>1. msg'[n] = Retire(r)
        BY <1>3, <3>2
      <4>2. r \in MsgType
        BY <1>1 DEF Good
      <4>3. Moved(r, Retire(r)) /\ Retire(r).at = "rebuild"
        BY <1>1, <4>2, RetireMoves
      <4>4. Good(Retire(r)) /\ Retire(r).gen = r.gen
        BY <1>1, <4>2, <4>3, MovedRecord
      <4>5. StepOf(msg[n], Retire(r))
        BY <4>3 DEF StepOf, EmitsFrom
      <4> QED
        BY <1>1, <2>1, <4>1, <4>4, <4>5 DEF Good
    <3>3. CASE n # m
      <4>1. msg'[n] = Retire(msg[n])
        BY <1>3, <3>3
      <4>2. Moved(msg[n], Retire(msg[n]))
        BY <3>1, RetireMoves
      <4> QED
        BY <2>1, <3>1, <4>1, <4>2, MovedRecord DEF Good
    <3> QED
      BY <3>2, <3>3
  <2>3. msg' \in [Messages -> MsgType]
    BY <1>3, <2>2
  <2> QED
    BY <2>1, <2>2, <2>3, AllStep
<1> QED
  BY <1>2, <1>3 DEF Rebuild, r

\* ensureFreshSocket, for a cycle whose session is valid.
LEMMA EnsureStep ==
  ASSUME OInv, NEW m \in Messages, NEW s \in MsgType, Retained(s), s.emits <= 1,
         s.rebuilds <= 1, s.gen = msg[m].gen, s.gen <= gen, s.by = user,
         EnsureFreshSocket(m, s)
  PROVE  Step
<1>1. CASE gen > s.gen /\ Set(m, Emit(s, gen)) /\ UNCHANGED env
  <2>1. /\ Good(Emit(s, gen)) /\ Emit(s, gen).gen = gen /\ Emit(s, gen).by = s.by
        /\ Emit(s, gen).emits = s.emits + 1
    BY EmitRecord DEF OInv, EnvType
  <2>2. StepOf(msg[m], Emit(s, gen))
    BY <1>1, <2>1 DEF StepOf, OInv, EnvType
  <2> QED
    BY <1>1, <2>1, <2>2, SetStep DEF OInv, EnvType
<1>2. CASE s.rebuilds = 0 /\ Rebuild(m, s)
  BY <1>2, RebuildStep
<1>3. CASE /\ Set(m, Failed([s EXCEPT !.delivery = "rebuilding-connection"], gen))
           /\ UNCHANGED env
  <2> DEFINE f == [s EXCEPT !.delivery = "rebuilding-connection"]
  <2>1. /\ f \in MsgType /\ Retained(f) /\ f.emits = s.emits
        /\ f.rebuilds = s.rebuilds /\ f.gen = s.gen
    BY DEF MsgType, Shown, Busy, Retained
  <2> HIDE DEF f
  <2>2. Good(Failed(f, gen)) /\ Failed(f, gen).at = "idle" /\ Failed(f, gen).gen = s.gen
    BY <2>1, FailedRecord DEF OInv, EnvType, MsgType
  <2>3. StepOf(msg[m], Failed(f, gen))
    BY <2>2 DEF StepOf, EmitsFrom
  <2>4. Set(m, Failed(f, gen))
    BY <1>3 DEF f
  <2> QED
    BY <1>3, <2>2, <2>3, <2>4, SetStep
<1> QED
  BY <1>1, <1>2, <1>3 DEF EnsureFreshSocket

\* The start of a cycle, from a message that was not emitting.
LEMMA StartStep ==
  ASSUME OInv, NEW m \in Messages, NEW s \in MsgType, Retained(s), s.emits = 0,
         s.rebuilds = 0, s.gen <= gen, Set(m, Start(m, s)), UNCHANGED env
  PROVE  Step
<1>1. /\ Good(Start(m, s)) /\ Start(m, s).gen <= gen
      /\ Start(m, s).at \in {"ack", "early"} =>
           user = Start(m, s).by /\ Start(m, s).emits = 1
  BY StartRecord DEF OInv
<1>2. StepOf(msg[m], Start(m, s))
  BY <1>1 DEF StepOf, EmitsFrom
<1> QED
  BY <1>1, <1>2, SetStep

LEMMA OfflineStep ==
  ASSUME OInv, NEW m \in Messages, NEW s \in MsgType, Retained(s), s.emits <= 2,
         s.rebuilds <= 1, s.gen <= gen, Set(m, Offline(s)), UNCHANGED env
  PROVE  Step
<1>1. Good(Offline(s)) /\ Offline(s).at = "idle" /\ Offline(s).gen = s.gen
  BY OfflineRecord
<1> QED
  BY <1>1, SetStep DEF StepOf, EmitsFrom

LEMMA FailedStep ==
  ASSUME OInv, NEW m \in Messages, NEW s \in MsgType, Retained(s), s.emits <= 2,
         s.rebuilds <= 1, s.gen <= gen, NEW b \in Nat, Set(m, Failed(s, b)),
         UNCHANGED env
  PROVE  Step
<1>1. Good(Failed(s, b)) /\ Failed(s, b).at = "idle" /\ Failed(s, b).gen = s.gen
  BY FailedRecord
<1> QED
  BY <1>1, SetStep DEF StepOf, EmitsFrom

\* What follows a timeout.
LEMMA RecoverStep ==
  ASSUME OInv, NEW m \in Messages, NEW s \in MsgType, Retained(s), s.emits <= 1,
         s.rebuilds <= 1, s.gen = msg[m].gen, s.gen <= gen, Recover(m, s)
  PROVE  Step
<1>1. CASE Set(m, Offline(s)) /\ UNCHANGED env
  <2>1. s.emits <= 2
    BY DEF MsgType
  <2> QED
    BY <1>1, <2>1, OfflineStep
<1>2. CASE Set(m, Failed(s, 0)) /\ UNCHANGED env
  <2>1. s.emits <= 2
    BY DEF MsgType
  <2> QED
    BY <1>2, <2>1, FailedStep
<1>3. CASE SessionStillValid(s) /\ EnsureFreshSocket(m, s)
  BY <1>3, EnsureStep DEF SessionStillValid
<1> QED
  BY <1>1, <1>2, <1>3 DEF Recover

\* A change of fields that the invariant lets change, at the same place.
LEMMA TouchStep ==
  ASSUME OInv, NEW m \in Messages, NEW s \in MsgType, s.at = msg[m].at,
         s.emits = msg[m].emits, s.rebuilds = msg[m].rebuilds, s.gen = msg[m].gen,
         Retained(s), Progress(s), Set(m, s), UNCHANGED env
  PROVE  Step
<1>1. Good(msg[m]) /\ msg[m] \in MsgType /\ msg[m].gen <= gen
  BY DEF OInv
<1>2. Good(s)
  BY <1>1 DEF Good, Budget
<1>3. StepOf(msg[m], s)
  BY <1>1 DEF StepOf, EmitsFrom, MsgType
<1> QED
  BY <1>1, <1>2, <1>3, SetStep

-----------------------------------------------------------------------------
(* The actions.                                                            *)

LEMMA StepSend == ASSUME OInv, NEW m \in Messages, Send(m) PROVE Step
<1> DEFINE s == Fresh([Unsent EXCEPT !.author = user, !.kept = TRUE,
                                     !.delivery = "sending"], FALSE)
<1>1. s \in MsgType
  BY DEF OInv, EnvType, MsgType, Fresh, Unsent, Awaiting, Shown, Busy, Links
<1>2. /\ s.emits = 0 /\ s.rebuilds = 0 /\ s.gen = 0 /\ s.kept
  BY DEF Fresh, Unsent
<1>3. Set(m, IF online THEN Start(m, s) ELSE Offline(s)) /\ UNCHANGED env
  BY DEF Send
<1> HIDE DEF s
<1>4. Retained(s) /\ s.gen <= gen /\ s.emits <= 2 /\ s.rebuilds <= 1
  BY <1>2 DEF Retained, OInv, EnvType
<1>5. CASE online
  BY <1>1, <1>2, <1>3, <1>4, <1>5, StartStep
<1>6. CASE ~online
  BY <1>1, <1>2, <1>3, <1>4, <1>6, OfflineStep
<1> QED
  BY <1>5, <1>6

LEMMA StepRetry == ASSUME OInv, NEW m \in Messages, Retry(m) PROVE Step
<1> DEFINE f == msg[m].bad > 0 /\ msg[m].bad >= gen
           s == Fresh([msg[m] EXCEPT !.delivery = IF m \in Media THEN "uploading" ELSE "sending"], f)
           r == [s EXCEPT !.gen = gen]
<1>1. msg[m] \in MsgType /\ Good(msg[m]) /\ msg[m].gen <= gen
  BY DEF OInv
<1>2. s \in MsgType
  <2>1. f \in BOOLEAN /\ user \in Users \cup {NoUser}
        /\ (IF m \in Media THEN "uploading" ELSE "sending") \in Shown
    BY DEF OInv, EnvType, Shown, Busy
  <2> HIDE DEF f
  <2> QED
    BY <1>1, <2>1 DEF MsgType, Fresh
<1>3. /\ s.emits = 0 /\ s.rebuilds = 0 /\ s.gen = msg[m].gen /\ s.kept = msg[m].kept
      /\ s.author = msg[m].author /\ s.stored = msg[m].stored
  BY <1>1 DEF Fresh, MsgType
<1>4. Retained(s)
  BY <1>1, <1>3 DEF Retained, Good
<1>5. /\ r \in MsgType /\ r.emits = 0 /\ r.rebuilds = 0 /\ r.gen = gen /\ Retained(r)
  BY <1>2, <1>3, <1>4 DEF MsgType, Retained, OInv, EnvType
<1>6. \/ Set(m, Offline(s)) /\ UNCHANGED env
      \/ Rebuild(m, r)
      \/ Set(m, Start(m, s)) /\ UNCHANGED env
  BY DEF Retry
<1>7. gen \in Nat
  BY DEF OInv, EnvType
<1> HIDE DEF s, r
<1>8. CASE Set(m, Offline(s)) /\ UNCHANGED env
  BY <1>1, <1>2, <1>3, <1>4, <1>8, OfflineStep
<1>9. CASE Rebuild(m, r)
  BY <1>5, <1>7, <1>9, RebuildStep
<1>10. CASE Set(m, Start(m, s)) /\ UNCHANGED env
  BY <1>1, <1>2, <1>3, <1>4, <1>10, StartStep
<1> QED
  BY <1>6, <1>8, <1>9, <1>10

LEMMA StepUploadSucceeds ==
  ASSUME OInv, NEW m \in Messages, UploadSucceeds(m) PROVE Step
<1> DEFINE s == [msg[m] EXCEPT !.uploaded = TRUE]
           r == [s EXCEPT !.gen = gen]
<1>1. msg[m] \in MsgType /\ Good(msg[m]) /\ msg[m].gen <= gen /\ gen \in Nat
  BY DEF OInv, EnvType
<1>2. msg[m].emits = 0 /\ msg[m].rebuilds = 0
  BY <1>1 DEF UploadSucceeds, Good, Budget
<1>3. /\ s \in MsgType /\ s.emits = 0 /\ s.rebuilds = 0 /\ s.gen = msg[m].gen /\ Retained(s)
  BY <1>1, <1>2 DEF MsgType, Good, Retained
<1>4. /\ r \in MsgType /\ r.emits = 0 /\ r.rebuilds = 0 /\ r.gen = gen /\ Retained(r)
  BY <1>1, <1>3 DEF MsgType, Retained
<1>5. \/ Set(m, Offline(s)) /\ UNCHANGED env
      \/ Rebuild(m, r)
      \/ Set(m, Start(m, s)) /\ UNCHANGED env
  BY DEF UploadSucceeds
<1> HIDE DEF s, r
<1>6. CASE Set(m, Offline(s)) /\ UNCHANGED env
  BY <1>1, <1>3, <1>6, OfflineStep
<1>7. CASE Rebuild(m, r)
  BY <1>1, <1>4, <1>7, RebuildStep
<1>8. CASE Set(m, Start(m, s)) /\ UNCHANGED env
  BY <1>1, <1>3, <1>8, StartStep
<1> QED
  BY <1>5, <1>6, <1>7, <1>8

LEMMA StepTimers == ASSUME OInv, NEW m \in Messages, Timers(m) PROVE Step
<1>1. msg[m] \in MsgType /\ Good(msg[m]) /\ msg[m].gen <= gen /\ gen \in Nat
  BY DEF OInv, EnvType
<1>2. Retained(msg[m]) /\ msg[m].emits <= 2 /\ msg[m].rebuilds <= 1
  BY <1>1 DEF Good, Budget
<1>3. CASE UploadFails(m) \/ DoomedRebuildEnds(m)
  <2>1. Set(m, Failed(msg[m], 0)) /\ UNCHANGED env
    BY <1>3 DEF UploadFails, DoomedRebuildEnds
  <2> QED
    BY <1>1, <1>2, <2>1, FailedStep
<1>4. CASE WaitTimesOut(m)
  <2>1. msg[m].emits <= 1 /\ Recover(m, msg[m])
    BY <1>1, <1>4 DEF WaitTimesOut, Good, Budget
  <2> QED
    BY <1>1, <1>2, <2>1, RecoverStep
<1>5. CASE AckTimesOut(m)
  <2> DEFINE s == [msg[m] EXCEPT !.late = @ \cup ({msg[m].cur} \cap Links), !.cur = "none"]
  <2>1. msg[m].late \cup ({msg[m].cur} \cap Links) \in SUBSET Links
    BY <1>1 DEF MsgType
  <2>2. /\ s \in MsgType /\ s.emits = msg[m].emits /\ s.rebuilds = msg[m].rebuilds
        /\ s.gen = msg[m].gen /\ Retained(s)
    BY <1>1, <1>2, <2>1 DEF MsgType, Retained
  <2>3. \/ Set(m, Failed(s, gen)) /\ UNCHANGED env
        \/ s.emits < 2 /\ Recover(m, s)
    BY <1>5 DEF AckTimesOut
  <2> HIDE DEF s
  <2>4. CASE Set(m, Failed(s, gen)) /\ UNCHANGED env
    BY <1>1, <1>2, <2>2, <2>4, FailedStep
  <2>5. CASE s.emits < 2 /\ Recover(m, s)
    <3>1. s.emits <= 1
      BY <2>2, <2>5 DEF MsgType
    <3> QED
      BY <1>1, <1>2, <2>2, <2>5, <3>1, RecoverStep
  <2> QED
    BY <2>3, <2>4, <2>5
<1> QED
  BY <1>3, <1>4, <1>5 DEF Timers

\* The answers: a message is let go of with the ack of its row.
LEMMA StepAnswers ==
  ASSUME OInv, NEW m \in Messages,
         \/ AckArrives(m) \/ Rejected(m) \/ Reconciled(m)
         \/ \E l \in Links : ServerStores(m, l) \/ LateAckArrives(m, l)
  PROVE  Step
<1>1. msg[m] \in MsgType /\ Good(msg[m]) /\ msg[m].gen <= gen /\ gen \in Nat
  BY DEF OInv, EnvType
<1>2. Retained(msg[m]) /\ msg[m].emits <= 2 /\ msg[m].rebuilds <= 1 /\ Progress(msg[m])
  BY <1>1 DEF Good, Budget
<1>3. CASE AckArrives(m)
  <2> DEFINE s == [Confirmed(msg[m]) EXCEPT !.at = "idle", !.cur = "none"]
  <2>1. s \in MsgType
    BY <1>1 DEF MsgType, Confirmed, Awaiting, Shown
  <2>2. /\ s.at = "idle" /\ s.delivery = "sent" /\ s.stored = msg[m].stored
        /\ s.emits = msg[m].emits /\ s.rebuilds = msg[m].rebuilds /\ s.gen = msg[m].gen
    BY <1>1 DEF MsgType, Confirmed
  <2>3. msg[m].stored /\ Set(m, s) /\ UNCHANGED env
    BY <1>3 DEF AckArrives
  <2> HIDE DEF s
  <2>4. Good(s)
    BY <1>2, <2>1, <2>2, <2>3 DEF Good, Retained, Budget, Progress, Busy
  <2>5. StepOf(msg[m], s)
    BY <2>2 DEF StepOf, EmitsFrom
  <2> QED
    BY <1>1, <2>2, <2>3, <2>4, <2>5, SetStep
<1>4. CASE Rejected(m)
  <2> DEFINE s == [msg[m] EXCEPT !.pipe = @ \ {msg[m].cur}, !.cur = "none"]
  <2>1. msg[m].pipe \ {msg[m].cur} \in SUBSET Links
    <3>1. msg[m].pipe \in SUBSET Links
      BY <1>1 DEF MsgType
    <3> QED
      BY <3>1
  <2>2. /\ s \in MsgType /\ s.emits = msg[m].emits /\ s.rebuilds = msg[m].rebuilds
        /\ s.gen = msg[m].gen /\ Retained(s)
    BY <1>1, <1>2, <2>1 DEF MsgType, Retained
  <2>3. Set(m, Failed(s, 0)) /\ UNCHANGED env
    BY <1>4 DEF Rejected
  <2> HIDE DEF s
  <2> QED
    BY <1>1, <1>2, <2>2, <2>3, FailedStep
<1>5. CASE Reconciled(m)
  <2>1. PICK d \in {"sent", "seen"} : Set(m, [msg[m] EXCEPT !.delivery = d]) /\ UNCHANGED env
    BY <1>5 DEF Reconciled
  <2> DEFINE s == [msg[m] EXCEPT !.delivery = d]
  <2>2. /\ s \in MsgType /\ s.at = msg[m].at /\ s.emits = msg[m].emits
        /\ s.rebuilds = msg[m].rebuilds /\ s.gen = msg[m].gen /\ s.delivery = d
        /\ Retained(s)
    BY <1>1, <1>2 DEF MsgType, Retained, Shown
  <2>3. Progress(s)
    BY <2>2 DEF Progress, Busy
  <2> HIDE DEF s
  <2> QED
    BY <2>1, <2>2, <2>3, TouchStep DEF s
<1>6. ASSUME NEW l \in Links, ServerStores(m, l)
      PROVE  Step
  <2> DEFINE s == [msg[m] EXCEPT !.stored = TRUE, !.pipe = @ \ {l}]
  <2>1. msg[m].pipe \ {l} \in SUBSET Links
    <3>1. msg[m].pipe \in SUBSET Links
      BY <1>1 DEF MsgType
    <3> QED
      BY <3>1
  <2>2. /\ s \in MsgType /\ s.at = msg[m].at /\ s.emits = msg[m].emits
        /\ s.rebuilds = msg[m].rebuilds /\ s.gen = msg[m].gen
        /\ s.delivery = msg[m].delivery /\ s.kept = msg[m].kept
        /\ s.waiting = msg[m].waiting /\ s.stored
    BY <1>1, <2>1 DEF MsgType
  <2>3. Retained(s) /\ Progress(s)
    BY <1>2, <2>2 DEF Retained, Progress
  <2>4. Set(m, s) /\ UNCHANGED env
    BY <1>6 DEF ServerStores
  <2> HIDE DEF s
  <2> QED
    BY <2>2, <2>3, <2>4, TouchStep
<1>7. ASSUME NEW l \in Links, LateAckArrives(m, l)
      PROVE  Step
  <2> DEFINE s == [Confirmed(msg[m]) EXCEPT !.late = @ \ {l}]
  <2>1. msg[m].late \ {l} \in SUBSET Links
    <3>1. msg[m].late \in SUBSET Links
      BY <1>1 DEF MsgType
    <3> QED
      BY <3>1
  <2>2. /\ s \in MsgType /\ s.at = msg[m].at /\ s.emits = msg[m].emits
        /\ s.rebuilds = msg[m].rebuilds /\ s.gen = msg[m].gen
        /\ s.delivery = "sent" /\ s.stored = msg[m].stored
    BY <1>1, <2>1 DEF MsgType, Confirmed, Shown
  <2>3. msg[m].stored /\ Set(m, s) /\ UNCHANGED env
    BY <1>7 DEF LateAckArrives
  <2> HIDE DEF s
  <2>4. Retained(s) /\ Progress(s)
    BY <2>2, <2>3 DEF Retained, Progress, Busy
  <2> QED
    BY <2>2, <2>3, <2>4, TouchStep
<1> QED
  BY <1>3, <1>4, <1>5, <1>6, <1>7

-----------------------------------------------------------------------------
(* The session and the links.                                              *)

\* A login, a drop or a stall, or the loss of the network.
LEMMA StepLinks ==
  ASSUME OInv,
         \/ \E u \in Users : Login(u)
         \/ Drops \/ Stalls \/ GoesOffline
  PROVE  Step
<1>1. \A m \in Messages : msg[m] \in MsgType
  BY DEF OInv
<1>2. EnvType' /\ gen <= gen'
  <2>1. CASE \E u \in Users : Login(u)
    BY <2>1 DEF OInv, EnvType, Login, Sockets
  <2>2. CASE Drops
    BY <2>2 DEF OInv, EnvType, Drops, Sockets
  <2>3. CASE Stalls
    <3>1. /\ live' \in {"up", "stalled"} /\ user' = user /\ online' = online
          /\ gen' = gen /\ orphan' = orphan /\ rebuild' = rebuild
      BY <2>3 DEF Stalls
    <3> QED
      BY <3>1 DEF OInv, EnvType, Sockets
  <2>4. CASE GoesOffline
    <3>1. /\ live' = live /\ user' = user /\ online' = FALSE
          /\ gen' = gen /\ orphan' = orphan /\ rebuild' = rebuild
      BY <2>4 DEF GoesOffline
    <3>2. FALSE \in BOOLEAN /\ gen \in Nat
      BY DEF OInv, EnvType
    <3>3. gen <= gen'
      BY <3>1, <3>2
    <3>4. EnvType'
      BY <3>1, Zenon DEF OInv, EnvType
    <3> QED
      BY <3>3, <3>4
  <2> QED
    BY <2>1, <2>2, <2>3, <2>4
<1>3. CASE \E u \in Users : Login(u)
  <2>1. msg' = [m \in Messages |-> Retire(msg[m])]
    BY <1>3 DEF Login
  <2>2. \A m \in Messages : Moved(msg[m], msg'[m])
    BY <1>1, <2>1, RetireMoves
  <2>3. msg' \in [Messages -> MsgType]
    BY <2>1, <2>2 DEF Moved
  <2> QED
    BY <1>2, <2>2, <2>3, MoveStep
<1>4. CASE Drops
  <2>1. msg' = [m \in Messages |-> Cut(msg[m])]
    BY <1>4 DEF Drops
  <2>2. \A m \in Messages : Moved(msg[m], msg'[m])
    BY <1>1, <2>1, CutMoves
  <2>3. msg' \in [Messages -> MsgType]
    BY <2>1, <2>2 DEF Moved
  <2> QED
    BY <1>2, <2>2, <2>3, MoveStep
<1>5. CASE Stalls \/ GoesOffline
  <2>1. msg' = msg
    BY <1>5 DEF Stalls, GoesOffline
  <2>2. \A m \in Messages : Moved(msg[m], msg'[m])
    BY <1>1, <2>1 DEF Moved
  <2>3. msg' \in [Messages -> MsgType]
    BY <2>1 DEF OInv
  <2> QED
    BY <1>2, <2>2, <2>3, MoveStep
<1> QED
  BY <1>3, <1>4, <1>5

LEMMA StepLogout == ASSUME OInv, Logout PROVE Step
<1> DEFINE Doomed(r) == [r EXCEPT !.at = IF @ = "rebuild" THEN "doomed" ELSE @]
<1>1. EnvType' /\ gen' = gen
  BY DEF OInv, EnvType, Logout, Sockets
<1>2. ASSUME NEW m \in Messages
      PROVE  Moved(msg[m], msg'[m]) /\ msg'[m] \in MsgType
  <2> DEFINE a == Retire(msg[m])
             b == Settle(a)
  <2>1. msg[m] \in MsgType
    BY DEF OInv
  <2>2. Moved(msg[m], a) /\ a \in MsgType
    BY <2>1, RetireMoves DEF Moved
  <2> HIDE DEF a
  <2>3. Moved(a, b) /\ b \in MsgType
    BY <2>2, SettleMoves DEF Moved
  <2> HIDE DEF b
  <2>4. Doomed(b) \in MsgType
    BY <2>3 DEF MsgType, Awaiting
  <2>5. Moved(b, Doomed(b)) /\ (b.at # "rebuild" => Doomed(b).at = b.at)
    BY <2>3, <2>4 DEF Moved, MsgType
  <2>6. Moved(msg[m], Doomed(b))
    BY <2>1, <2>2, <2>3, <2>4, <2>5 DEF Moved
  <2>7. msg'[m] = Doomed(b)
    BY DEF Logout, a, b
  <2> QED
    BY <2>4, <2>6, <2>7
<1>3. msg' \in [Messages -> MsgType]
  BY <1>2 DEF Logout
<1> QED
  BY <1>1, <1>2, <1>3, MoveStep DEF OInv, EnvType

LEMMA StepOrphanDrops == ASSUME OInv, OrphanDrops PROVE Step
<1> DEFINE Dropped(r) == [r EXCEPT !.cur = IF @ = "orphan" THEN "dead" ELSE @,
                                   !.late = @ \ {"orphan"}, !.pipe = @ \ {"orphan"}]
<1>1. EnvType' /\ gen' = gen
  BY DEF OInv, EnvType, OrphanDrops
<1>2. ASSUME NEW r \in MsgType
      PROVE  Moved(r, Dropped(r)) /\ Dropped(r) \in MsgType
  <2>1. /\ r.late \in SUBSET Links /\ r.pipe \in SUBSET Links
        /\ r.cur \in Links \cup {"none", "dead"}
    BY DEF MsgType
  <2>2. /\ r.late \ {"orphan"} \in SUBSET Links /\ r.pipe \ {"orphan"} \in SUBSET Links
        /\ (IF r.cur = "orphan" THEN "dead" ELSE r.cur) \in Links \cup {"none", "dead"}
    BY <2>1
  <2>3. Dropped(r) \in MsgType
    BY <2>2 DEF MsgType
  <2> QED
    BY <2>3 DEF Moved, MsgType
<1>3. msg' = [m \in Messages |-> Dropped(msg[m])]
  BY DEF OrphanDrops
<1> HIDE DEF Dropped
<1>4. \A m \in Messages : Moved(msg[m], msg'[m]) /\ msg'[m] \in MsgType
  BY <1>2, <1>3 DEF OInv
<1>5. msg' \in [Messages -> MsgType]
  BY <1>3, <1>4
<1> QED
  BY <1>1, <1>4, <1>5, MoveStep DEF OInv, EnvType

\* A cycle that waited for a connection or a rebuild emits, if its session
\* still runs: s is its record after the links have changed.
LEMMA EmitIfValidRecord ==
  ASSUME OInv, NEW r \in MsgType, Good(r), r.gen <= gen, NEW s \in MsgType, Moved(r, s),
         r.at \in {"wait", "stripped", "replaced", "rebuild"}, NEW g \in Nat, g >= gen,
         r.at = "rebuild" => g > gen
  PROVE  /\ Good(EmitIfValid(s, g)) /\ EmitIfValid(s, g).gen <= g
         /\ StepOf(r, EmitIfValid(s, g))
<1>1. /\ s.emits = r.emits /\ s.emits <= 1 /\ s.emits <= 2 /\ s.rebuilds <= 1
      /\ s.gen = r.gen /\ Retained(s) /\ (r.at # "rebuild" => r.emits = 0)
  BY DEF Good, Budget, Retained, Moved, MsgType
<1>2. CASE SessionStillValid(s)
  <2>1. EmitIfValid(s, g) = Emit(s, g)
    BY <1>2 DEF EmitIfValid
  <2>2. /\ Good(Emit(s, g)) /\ Emit(s, g).gen = g /\ Emit(s, g).by = s.by
        /\ Emit(s, g).emits = s.emits + 1
    BY <1>1, EmitRecord DEF OInv, EnvType
  <2>3. StepOf(r, Emit(s, g))
    BY <1>1, <1>2, <2>2 DEF StepOf, SessionStillValid, OInv, EnvType, MsgType
  <2> QED
    BY <2>1, <2>2, <2>3
<1>3. CASE ~SessionStillValid(s)
  <2>1. EmitIfValid(s, g) = Failed(s, 0)
    BY <1>3 DEF EmitIfValid
  <2>2. Good(Failed(s, 0)) /\ Failed(s, 0).at = "idle" /\ Failed(s, 0).gen = s.gen
    BY <1>1, FailedRecord
  <2> QED
    BY <1>1, <2>1, <2>2 DEF StepOf, EmitsFrom, OInv, EnvType, MsgType
<1> QED
  BY <1>2, <1>3

LEMMA StepConnects == ASSUME OInv, Connects PROVE Step
<1>1. EnvType' /\ gen' = gen /\ gen \in Nat
  BY DEF OInv, EnvType, Connects, Sockets
<1>2. ASSUME NEW m \in Messages
      PROVE  /\ msg'[m] \in MsgType /\ Good(msg'[m]) /\ msg'[m].gen <= gen'
             /\ StepOf(msg[m], msg'[m])
  <2>1. /\ msg[m] \in MsgType /\ Good(msg[m]) /\ msg[m].gen <= gen
        /\ Moved(msg[m], msg[m])
    BY DEF OInv, Moved
  <2>2. CASE msg[m].at = "wait"
    <3>1. msg'[m] = EmitIfValid(msg[m], gen)
      BY <2>2 DEF Connects
    <3> QED
      BY <1>1, <2>1, <2>2, <3>1, EmitIfValidRecord DEF Good
  <2>3. CASE msg[m].at # "wait"
    <3>1. msg'[m] = msg[m]
      BY <2>3 DEF Connects
    <3> QED
      BY <1>1, <2>1, <3>1, MovedRecord
  <2> QED
    BY <2>2, <2>3
<1>3. msg' \in [Messages -> MsgType]
  BY <1>2 DEF Connects
<1> QED
  BY <1>1, <1>2, <1>3, AllStep

LEMMA StepReplacedConnects ==
  ASSUME OInv, NEW m \in Messages, ReplacedConnects(m) PROVE Step
<1>1. EnvType' /\ gen <= gen' /\ gen \in Nat /\ gen' \in Nat
  BY DEF OInv, EnvType, ReplacedConnects, Sockets
<1>2. \A n \in Messages :
        msg'[n] = IF n = m THEN EmitIfValid(msg[m], gen) ELSE msg[n]
  BY DEF ReplacedConnects, Set, OInv
<1>3. ASSUME NEW n \in Messages
      PROVE  /\ msg'[n] \in MsgType /\ Good(msg'[n]) /\ msg'[n].gen <= gen'
             /\ StepOf(msg[n], msg'[n])
  <2>1. /\ msg[n] \in MsgType /\ Good(msg[n]) /\ msg[n].gen <= gen
        /\ Moved(msg[n], msg[n])
    BY DEF OInv, Moved
  <2>2. CASE n = m
    <3>1. msg[n].at = "replaced" /\ msg'[n] = EmitIfValid(msg[n], gen)
      BY <1>2, <2>2 DEF ReplacedConnects
    <3>2. /\ Good(EmitIfValid(msg[n], gen)) /\ EmitIfValid(msg[n], gen).gen <= gen
          /\ StepOf(msg[n], EmitIfValid(msg[n], gen))
      BY <1>1, <2>1, <3>1, EmitIfValidRecord
    <3> QED
      BY <1>1, <3>1, <3>2 DEF Good, MsgType
  <2>3. CASE n # m
    <3>1. msg'[n] = msg[n]
      BY <1>2, <2>3
    <3>2. StepOf(msg[n], msg[n])
      BY <2>1, MovedRecord
    <3> QED
      BY <1>1, <2>1, <3>1, <3>2 DEF MsgType
  <2> QED
    BY <2>2, <2>3
<1>4. msg' \in [Messages -> MsgType]
  BY <1>3 DEF ReplacedConnects, Set, OInv
<1> QED
  BY <1>1, <1>3, <1>4, AllStep

LEMMA StepGoesOnline == ASSUME OInv, GoesOnline PROVE Step
<1>1. EnvType' /\ gen' = gen /\ gen \in Nat
  <2>1. /\ online' = TRUE /\ live' = live /\ user' = user /\ gen' = gen
        /\ orphan' = orphan /\ rebuild' = rebuild
    BY DEF GoesOnline
  <2>2. EnvType'
    BY <2>1, Zenon DEF OInv, EnvType
  <2> QED
    BY <2>1, <2>2 DEF OInv, EnvType
<1>2. ASSUME NEW m \in Messages
      PROVE  /\ msg'[m] \in MsgType /\ Good(msg'[m]) /\ msg'[m].gen <= gen'
             /\ StepOf(msg[m], msg'[m])
  <2> DEFINE s == [msg[m] EXCEPT !.waiting = FALSE]
             f == Fresh(s, FALSE)
  <2>1. msg[m] \in MsgType /\ Good(msg[m]) /\ msg[m].gen <= gen
    BY DEF OInv
  <2>2. /\ s \in MsgType /\ s.at = msg[m].at /\ s.emits = msg[m].emits
        /\ s.rebuilds = msg[m].rebuilds /\ s.gen = msg[m].gen /\ s.kept = msg[m].kept
        /\ s.stored = msg[m].stored /\ s.author = msg[m].author /\ s.waiting = FALSE
        /\ s.delivery = msg[m].delivery
    BY <2>1 DEF MsgType
  <2>3. msg'[m] = IF msg[m].waiting /\ msg[m].kept /\ msg[m].at = "idle"
                  THEN Start(m, f) ELSE s
    BY DEF GoesOnline
  <2> HIDE DEF s
  <2>4. CASE msg[m].waiting /\ msg[m].kept /\ msg[m].at = "idle"
    <3>1. f \in MsgType
      <4>1. user \in Users \cup {NoUser}
        BY DEF OInv, EnvType
      <4> QED
        BY <2>2, <4>1 DEF MsgType, Fresh
    <3>2. /\ f.emits = 0 /\ f.rebuilds = 0 /\ f.gen = s.gen /\ f.kept = s.kept
          /\ f.stored = s.stored /\ f.author = s.author
      BY <2>2 DEF MsgType, Fresh
    <3>3. Retained(f)
      BY <2>1, <2>2, <3>2 DEF Good, Retained
    <3>4. msg'[m] = Start(m, f)
      BY <2>3, <2>4
    <3> HIDE DEF f
    <3>5. /\ Good(Start(m, f)) /\ Start(m, f).gen <= gen
          /\ Start(m, f).at \in {"ack", "early"} =>
               user = Start(m, f).by /\ Start(m, f).emits = 1
      BY <2>1, <2>2, <3>1, <3>2, <3>3, StartRecord DEF OInv
    <3> QED
      BY <1>1, <3>4, <3>5 DEF Good, StepOf, EmitsFrom
  <2>5. CASE ~(msg[m].waiting /\ msg[m].kept /\ msg[m].at = "idle")
    <3>1. msg'[m] = s
      BY <2>3, <2>5
    <3>2. Progress(s)
      BY <2>1, <2>2, <2>5 DEF Good, Progress
    <3>3. Good(s)
      BY <2>1, <2>2, <3>2 DEF Good, Retained, Budget
    <3>4. StepOf(msg[m], s)
      BY <2>1, <2>2 DEF StepOf, EmitsFrom, MsgType
    <3> QED
      BY <1>1, <2>1, <2>2, <3>1, <3>3, <3>4
  <2> QED
    BY <2>4, <2>5
<1>3. msg' \in [Messages -> MsgType]
  BY <1>2 DEF GoesOnline
<1> QED
  BY <1>1, <1>2, <1>3, AllStep

\* Moving a record that a step has just made changes nothing of the step.
LEMMA MovedAfter ==
  ASSUME NEW r, NEW e \in MsgType, NEW f, StepOf(r, e), Moved(e, f)
  PROVE  StepOf(r, f)
BY DEF StepOf, EmitsFrom, Moved

LEMMA StepRebuildTimesOut == ASSUME OInv, RebuildTimesOut PROVE Step
<1>1. EnvType' /\ gen' = gen /\ gen \in Nat
  <2>1. /\ online' = online /\ live' = live /\ user' = user /\ gen' = gen
        /\ orphan' = orphan /\ rebuild' = FALSE
    BY DEF RebuildTimesOut
  <2>2. EnvType'
    BY <2>1, Zenon DEF OInv, EnvType
  <2> QED
    BY <2>1, <2>2 DEF OInv, EnvType
<1>2. ASSUME NEW m \in Messages
      PROVE  /\ msg'[m] \in MsgType /\ Good(msg'[m]) /\ msg'[m].gen <= gen'
             /\ StepOf(msg[m], msg'[m])
  <2>1. msg[m] \in MsgType /\ Good(msg[m]) /\ msg[m].gen <= gen
    BY DEF OInv
  <2>2. msg'[m] = IF msg[m].at = "rebuild" THEN Failed(msg[m], gen) ELSE Settle(msg[m])
    BY DEF RebuildTimesOut
  <2>3. CASE msg[m].at = "rebuild"
    <3>1. msg'[m] = Failed(msg[m], gen)
      BY <2>2, <2>3
    <3>2. Retained(msg[m]) /\ msg[m].emits <= 2 /\ msg[m].rebuilds <= 1
      BY <2>1 DEF Good, Budget
    <3>3. /\ Good(Failed(msg[m], gen)) /\ Failed(msg[m], gen).at = "idle"
          /\ Failed(msg[m], gen).gen = msg[m].gen
      BY <1>1, <2>1, <3>2, FailedRecord
    <3> QED
      BY <1>1, <2>1, <3>1, <3>3 DEF Good, StepOf, EmitsFrom
  <2>4. CASE msg[m].at # "rebuild"
    <3>1. msg'[m] = Settle(msg[m])
      BY <2>2, <2>4
    <3>2. Moved(msg[m], Settle(msg[m]))
      BY <2>1, SettleMoves
    <3> QED
      BY <1>1, <2>1, <3>1, <3>2, MovedRecord DEF Good
  <2> QED
    BY <2>3, <2>4
<1>3. msg' \in [Messages -> MsgType]
  BY <1>2 DEF RebuildTimesOut
<1> QED
  BY <1>1, <1>2, <1>3, AllStep

LEMMA StepRebuildSucceeds == ASSUME OInv, RebuildSucceeds PROVE Step
<1> DEFINE revived == Connected
           Old(ls) == {"orphan" : l \in {l \in ls : l = "orphan" \/ revived}}
           Replace(s) ==
             [s EXCEPT
                !.cur = IF @ # "live" THEN @ ELSE IF revived THEN "orphan" ELSE "dead",
                !.late = Old(@),
                !.pipe = Old(@),
                !.at = IF @ = "wait" THEN "replaced" ELSE @]
<1>1. EnvType' /\ gen' = gen + 1 /\ gen \in Nat /\ gen <= gen'
  <2>1. /\ online' = online /\ live' = "up" /\ user' = user /\ gen' = gen + 1
        /\ orphan' = (orphan \/ revived) /\ rebuild' = FALSE
    BY DEF RebuildSucceeds
  <2>2. gen \in Nat /\ gen + 1 \in Nat /\ gen <= gen + 1
    BY DEF OInv, EnvType
  <2>3. orphan' \in BOOLEAN /\ rebuild' \in BOOLEAN /\ online' \in BOOLEAN
    BY <2>1, Zenon DEF OInv, EnvType
  <2>4. live' \in Sockets /\ user' \in Users \cup {NoUser}
    BY <2>1 DEF OInv, EnvType, Sockets
  <2> QED
    BY <2>1, <2>2, <2>3, <2>4 DEF EnvType
<1>2. ASSUME NEW r \in MsgType
      PROVE  Moved(r, Replace(r)) /\ Replace(r) \in MsgType
  <2>1. Old(r.late) \in SUBSET Links /\ Old(r.pipe) \in SUBSET Links
    BY DEF Links
  <2>2. (IF r.cur # "live" THEN r.cur ELSE IF revived THEN "orphan" ELSE "dead")
          \in Links \cup {"none", "dead"}
    <3>1. r.cur \in Links \cup {"none", "dead"}
      BY DEF MsgType
    <3> QED
      BY <3>1 DEF Links
  <2>3. (IF r.at = "wait" THEN "replaced" ELSE r.at) \in Awaiting
    BY DEF MsgType, Awaiting
  <2> HIDE DEF Old, revived
  <2>4. Replace(r) \in MsgType
    BY <2>1, <2>2, <2>3 DEF MsgType
  <2> QED
    BY <2>4 DEF Moved, MsgType
<1>3. msg' = [m \in Messages |->
                Settle(IF msg[m].at = "rebuild"
                       THEN EmitIfValid(Replace(msg[m]), gen + 1)
                       ELSE Replace(msg[m]))]
  BY DEF RebuildSucceeds
<1> HIDE DEF Replace
<1>4. ASSUME NEW m \in Messages
      PROVE  /\ msg'[m] \in MsgType /\ Good(msg'[m]) /\ msg'[m].gen <= gen'
             /\ StepOf(msg[m], msg'[m])
  <2> DEFINE s == Replace(msg[m])
             e == IF msg[m].at = "rebuild" THEN EmitIfValid(s, gen + 1) ELSE s
  <2>1. msg[m] \in MsgType /\ Good(msg[m]) /\ msg[m].gen <= gen
    BY DEF OInv
  <2>2. Moved(msg[m], s) /\ s \in MsgType
    BY <1>2, <2>1
  <2> HIDE DEF s
  <2>3. Good(e) /\ e.gen <= gen' /\ StepOf(msg[m], e)
    <3>1. CASE msg[m].at = "rebuild"
      <4>1. gen + 1 \in Nat /\ gen + 1 >= gen /\ gen + 1 > gen
        BY <1>1
      <4> QED
        BY <1>1, <2>1, <2>2, <3>1, <4>1, EmitIfValidRecord
    <3>2. CASE msg[m].at # "rebuild"
      <4>1. Good(s) /\ StepOf(msg[m], s) /\ s.gen = msg[m].gen
        BY <2>1, <2>2, MovedRecord
      <4> QED
        BY <1>1, <2>1, <3>2, <4>1 DEF MsgType
    <3> QED
      BY <3>1, <3>2
  <2>4. msg'[m] = Settle(e)
    BY <1>3 DEF s
  <2> HIDE DEF e
  <2>5. e \in MsgType /\ Moved(e, Settle(e))
    BY <2>3, SettleMoves DEF Good
  <2>6. Good(Settle(e)) /\ Settle(e).gen = e.gen
    BY <2>3, <2>5, MovedRecord
  <2>7. StepOf(msg[m], Settle(e))
    BY <2>3, <2>5, MovedAfter
  <2> QED
    BY <2>3, <2>4, <2>6, <2>7 DEF Good
<1>5. msg' \in [Messages -> MsgType]
  BY <1>3, <1>4
<1> QED
  BY <1>1, <1>4, <1>5, AllStep

-----------------------------------------------------------------------------
(* The theorems.                                                           *)

LEMMA InitOInv == Init => OInv
<1> SUFFICES ASSUME Init PROVE OInv
  OBVIOUS
<1>1. Unsent \in MsgType
  BY DEF Unsent, MsgType, Awaiting, Shown, Busy, Links
<1>2. /\ Unsent.author = NoUser /\ Unsent.at = "idle" /\ Unsent.delivery = "none"
      /\ Unsent.emits = 0 /\ Unsent.rebuilds = 0 /\ Unsent.gen = 0
  BY DEF Unsent
<1>3. Good(Unsent)
  BY <1>1, <1>2 DEF Good, Retained, Budget, Progress, Busy
<1>4. EnvType /\ gen = 0
  <2>1. user = NoUser /\ online = TRUE /\ live = "none" /\ gen = 0 /\ orphan = FALSE
        /\ rebuild = FALSE
    BY DEF Init
  <2>2. user \in Users \cup {NoUser} /\ live \in Sockets /\ gen \in Nat
    BY <2>1 DEF Sockets
  <2>3. online \in BOOLEAN /\ orphan \in BOOLEAN /\ rebuild \in BOOLEAN
    BY <2>1, Zenon
  <2> QED
    BY <2>1, <2>2, <2>3 DEF EnvType
<1>5. msg \in [Messages -> MsgType] /\ \A m \in Messages : msg[m] = Unsent
  BY <1>1 DEF Init
<1> QED
  BY <1>2, <1>3, <1>4, <1>5 DEF OInv

LEMMA NextStep == OInv /\ [Next]_vars => OInv' /\ (Next => Step)
<1> SUFFICES ASSUME OInv, [Next]_vars PROVE OInv' /\ (Next => Step)
  OBVIOUS
<1>1. CASE Next
  <2>1. Step
    BY <1>1, StepSend, StepRetry, StepUploadSucceeds, StepTimers, StepAnswers,
       StepReplacedConnects, StepLinks, StepLogout, StepRebuildSucceeds,
       StepRebuildTimesOut, StepConnects, StepOrphanDrops, StepGoesOnline DEF Next
  <2> QED
    BY <2>1 DEF Step
<1>2. CASE UNCHANGED vars
  <2>1. /\ msg' = msg /\ user' = user /\ online' = online /\ live' = live
        /\ gen' = gen /\ orphan' = orphan /\ rebuild' = rebuild
    BY <1>2 DEF vars
  <2>2. OInv'
    BY <2>1 DEF OInv, EnvType, Good, Retained, Budget, Progress, MsgType
  <2>3. Next => Step
    BY StepSend, StepRetry, StepUploadSucceeds, StepTimers, StepAnswers,
       StepReplacedConnects, StepLinks, StepLogout, StepRebuildSucceeds,
       StepRebuildTimesOut, StepConnects, StepOrphanDrops, StepGoesOnline DEF Next
  <2> QED
    BY <2>2, <2>3
<1> QED
  BY <1>1, <1>2

THEOREM OutboxInvariant == Spec => []OInv
BY InitOInv, NextStep, PTL DEF Spec

\* The variables keep their types.
THEOREM OutboxTypeCorrect == Spec => []TypeOK
<1>1. OInv => TypeOK
  BY Zenon DEF OInv, EnvType, TypeOK, MsgType
<1> QED
  BY <1>1, OutboxInvariant, PTL

\* The outbox forgets the input of a message, which alone makes a retry
\* possible, only when the server has its row (outbox.ts: the ack handlers
\* delete it, and nothing else does).
THEOREM InputKeptUntilStored == Spec => []RetainedUntilStored
<1>1. OInv => RetainedUntilStored
  BY DEF OInv, Good, Retained, RetainedUntilStored
<1> QED
  BY <1>1, OutboxInvariant, PTL

\* A send cycle emits twice and rebuilds once at most, however many sockets,
\* sessions and other messages' rebuilds pass meanwhile.
THEOREM CycleWithinBudget == Spec => []CycleBudget
<1>1. OInv => CycleBudget
  BY DEF OInv, Good, Budget, CycleBudget
<1> QED
  BY <1>1, OutboxInvariant, PTL

\* A bubble that shows progress has a cycle behind it, and one that waits for
\* the network is in the set that the online event resumes.
THEOREM ProgressHasACycle == Spec => []ProgressIsReal
<1>1. OInv => ProgressIsReal
  BY DEF OInv, Good, Progress, ProgressIsReal
<1> QED
  BY <1>1, OutboxInvariant, PTL

LEMMA StepIsStepOf ==
  ASSUME OInv, [Next]_vars, NEW m \in Messages, Emits(m)
  PROVE  StepOf(msg[m], msg'[m]) /\ EmitsFrom(msg[m], msg'[m])
<1>1. EmitsFrom(msg[m], msg'[m])
  BY DEF Emits, EmitsFrom
<1>2. CASE Next
  BY <1>1, <1>2, NextStep DEF Step
<1>3. CASE UNCHANGED vars
  <2>1. msg[m] \in MsgType /\ msg' = msg
    BY <1>3 DEF OInv, vars
  <2>2. FALSE
    BY <1>1, <2>1 DEF EmitsFrom, MsgType
  <2> QED
    BY <2>2
<1> QED
  BY <1>1, <1>2, <1>3

\* The second emit of a cycle goes out on a newer socket than the first, so a
\* socket on which an ack timed out is not trusted again by that cycle.
THEOREM NewerSocketForSecondEmit == Spec => SecondEmitOnNewerSocket
<1>1. OInv /\ [Next]_vars =>
        [\A m \in Messages :
           Emits(m) /\ msg'[m].emits = 2 => msg'[m].gen > msg[m].gen]_vars
  <2> SUFFICES ASSUME OInv, [Next]_vars, NEW m \in Messages, Emits(m), msg'[m].emits = 2
               PROVE  msg'[m].gen > msg[m].gen
    OBVIOUS
  <2> QED
    BY StepIsStepOf DEF StepOf
<1> QED
  BY <1>1, OutboxInvariant, PTL DEF Spec, SecondEmitOnNewerSocket

\* A cycle emits only while the user it was started for is logged in.
THEOREM EmitsInItsSession == Spec => EmittedInItsSession
<1>1. OInv /\ [Next]_vars => [\A m \in Messages : Emits(m) => user = msg'[m].by]_vars
  <2> SUFFICES ASSUME OInv, [Next]_vars, NEW m \in Messages, Emits(m)
               PROVE  user = msg'[m].by
    OBVIOUS
  <2> QED
    BY StepIsStepOf DEF StepOf
<1> QED
  BY <1>1, OutboxInvariant, PTL DEF Spec, EmittedInItsSession
=============================================================================
