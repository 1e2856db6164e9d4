--------------------------- MODULE ChatServerProofs ---------------------------
(***************************************************************************)
(* Proofs about ChatServer for every set of trainees, admins, message ids  *)
(* and calls, and any number of crashes.                                   *)
(*                                                                         *)
(* Control says where a handler can be when its request, answer and row    *)
(* have the values they have.  It is inductive together with TypeOK, and   *)
(* the other invariants are inductive relative to the two.                 *)
(***************************************************************************)
EXTENDS ChatServer, FiniteSetTheorems, TLAPS

Control ==
  \A c \in Calls :
    /\ pc[c] = "idle" <=> req[c] = None
    /\ pc[c] \in {"lookup", "create", "commit", "winner", "broadcast", "notify"}
         => Allowed(req[c])
    /\ row[c] # "none" =>
         /\ Allowed(req[c])
         /\ pc[c] \in {"commit", "broadcast", "notify", "done", "lost"}
    /\ row[c] = "pending" <=> pc[c] = "commit"
    /\ pc[c] \in {"broadcast", "notify"} => row[c] \in Durable
    /\ ack[c] # "none" <=> pc[c] = "done"
    /\ ack[c] \in {"none"} \cup FailureCodes => acked[c] = None

\* How far stage 2 of a call has come.
Stage2 ==
  \A c \in Calls :
    /\ broadcasts[c] \in {0, 1}
    /\ broadcasts[c] = 1 => row[c] \in Durable
    /\ pc[c] = "broadcast" => broadcasts[c] = 0
    /\ pc[c] = "notify" => broadcasts[c] = 1
    /\ c \in notified => broadcasts[c] = 1

\* What the history variable counts is durable.
UnseenDurable ==
  \A s \in Sides, t \in Trainees : \A c \in unseen[s][t] : row[c] \in Durable

----------------------------------------------------------------------------
\* Types and control.

Inv1 == TypeOK /\ Control

\* The stamp of a new row is a natural number because there are finitely many
\* calls.
LEMMA NextStampType == NextStamp \in Nat
  <1>1. IsFiniteSet({w \in Calls : createdAt[w] > 0})
    BY FS_Subset, ChatServerAssumption, {w \in Calls : createdAt[w] > 0} \subseteq Calls
  <1>2. QED
    BY <1>1, FS_CardinalityType DEF NextStamp

\* Inv1 holds initially.
LEMMA InitInv1 == Init => Inv1
  <1> SUFFICES ASSUME Init PROVE Inv1
    OBVIOUS
  <1>1. TypeOK
    BY DEF Init, TypeOK, Durable
  <1>2. Control
    BY DEF Init, Control, Durable
  <1>3. QED
    BY <1>1, <1>2 DEF Inv1

\* Every step preserves Inv1.
LEMMA NextInv1 == Inv1 /\ [Next]_vars => Inv1'
  <1> SUFFICES ASSUME Inv1, [Next]_vars PROVE Inv1'
    OBVIOUS
  <1> USE DEF Inv1, TypeOK, Control, Durable, FailureCodes, Goto, Answer, Fail,
              rowVars, effectVars
  <1>1. ASSUME NEW c \in Calls, Receive(c) PROVE Inv1'
    BY <1>1, ChatServerAssumption DEF Receive, Arrives
  <1>2. ASSUME NEW c \in Calls, RejectMalformed(c) PROVE Inv1'
    BY <1>2, ChatServerAssumption DEF RejectMalformed, Arrives
  <1>3. ASSUME NEW c \in Calls, LookupConversation(c) PROVE Inv1'
    <2>1. CASE Allowed(req[c]) /\ Goto(c, "lookup") /\ UNCHANGED <<ack, acked>>
      BY <1>3, <2>1 DEF LookupConversation
    <2>2. ASSUME NEW code \in FailureCodes, Fail(c, code) PROVE Inv1'
      BY <1>3, <2>2 DEF LookupConversation
    <2>3. CASE Fail(c, "NOT_FOUND")
      BY <2>2, <2>3
    <2>4. CASE Fail(c, "FORBIDDEN")
      BY <2>2, <2>4
    <2>5. QED
      BY <1>3, <2>1, <2>3, <2>4 DEF LookupConversation
  <1>4. ASSUME NEW c \in Calls, FastPath(c) PROVE Inv1'
    <2>1. ASSUME NEW w \in RowsOf(Key(c)), Answer(c, "deduped", w) PROVE Inv1'
      BY <1>4, <2>1 DEF FastPath, RowsOf
    <2>2. CASE Goto(c, "create") /\ UNCHANGED <<ack, acked>>
      BY <1>4, <2>2 DEF FastPath
    <2>3. QED
      BY <1>4, <2>1, <2>2 DEF FastPath
  <1>5. ASSUME NEW c \in Calls, TxCreate(c) PROVE Inv1'
    <2>1. CASE InsertRow(c)
      BY <1>5, <2>1, NextStampType DEF TxCreate, InsertRow
    <2>2. CASE Goto(c, "winner") /\ UNCHANGED <<row, createdAt>>
      BY <1>5, <2>2 DEF TxCreate
    <2>3. QED
      BY <1>5, <2>1, <2>2 DEF TxCreate
  <1>6. ASSUME NEW c \in Calls, CommitRow(c),
               \/ Goto(c, "broadcast") /\ UNCHANGED <<ack, acked>>
               \/ Answer(c, "ok", c)
               \/ Fail(c, "INTERNAL")
        PROVE Inv1'
    <2>1. TypeOK'
      <3> DEFINE t == req[c].conv
                 s == ReaderSide(c)
      <3>1. s \in Sides
        BY DEF ReaderSide, Sides
      <3>2. t \in Trainees
        BY <1>6 DEF CommitRow, Allowed
      <3> HIDE DEF t, s
      <3>3. /\ row' = [row EXCEPT ![c] = "stored"]
            /\ summary' = [summary EXCEPT ![t] = c]
            /\ unread' = [unread EXCEPT ![s][t] = @ + 1]
            /\ unseen' = [unseen EXCEPT ![s][t] = @ \cup {c}]
            /\ UNCHANGED <<req, createdAt, broadcasts, notified, crashes>>
        BY <1>6 DEF CommitRow, t, s
      <3>4. unread' \in [Sides -> [Trainees -> Nat]]
        BY <3>1, <3>2, <3>3
      <3>5. unseen' \in [Sides -> [Trainees -> SUBSET Calls]]
        BY <3>1, <3>2, <3>3
      <3>6. /\ pc' \in [Calls -> {"idle", "conversation", "lookup", "create", "commit",
                       "winner", "broadcast", "notify", "done", "lost"}]
            /\ ack' \in [Calls -> {"none", "ok", "deduped"} \cup FailureCodes]
            /\ acked' \in [Calls -> Calls \cup {None}]
        BY <1>6
      <3>7. QED
        BY <3>2, <3>3, <3>4, <3>5, <3>6
    <2>2. Control'
      BY <1>6 DEF CommitRow
    <2>3. QED
      BY <2>1, <2>2
  <1>7. ASSUME NEW c \in Calls, TxCommit(c) PROVE Inv1'
    BY <1>6, <1>7 DEF TxCommit
  <1>8. ASSUME NEW c \in Calls, LoseCommitReply(c) PROVE Inv1'
    BY <1>6, <1>8 DEF LoseCommitReply
  <1>9. ASSUME NEW c \in Calls, ReturnWinner(c) PROVE Inv1'
    BY <1>9, ChatServerAssumption DEF ReturnWinner, RowsOf
  <1>10. ASSUME NEW c \in Calls, DbError(c) PROVE Inv1'
    BY <1>10 DEF DbError
  <1>11. ASSUME NEW c \in Calls, Broadcast(c) PROVE Inv1'
    BY <1>11 DEF Broadcast
  <1>12. ASSUME NEW c \in Calls, Notify(c) PROVE Inv1'
    BY <1>12, ChatServerAssumption DEF Notify
  <1>13. ASSUME NEW c \in Calls, NEW u \in Senders, Delete(c, u) PROVE Inv1'
    BY <1>13 DEF Delete
  <1>14. ASSUME NEW s \in Sides, NEW t \in Trainees, MarkRead(s, t) PROVE Inv1'
    BY <1>14 DEF MarkRead
  <1>15. ASSUME Crash PROVE Inv1'
    BY <1>15, ChatServerAssumption DEF Crash
  <1>16. CASE UNCHANGED vars
    BY <1>16 DEF vars
  <1>17. QED
    BY <1>1, <1>2, <1>3, <1>4, <1>5, <1>7, <1>8, <1>9, <1>10, <1>11, <1>12, <1>13,
       <1>14, <1>15, <1>16 DEF Next, Handle

THEOREM SpecInv1 == Spec => []Inv1
  BY InitInv1, NextInv1, PTL DEF Spec

\* The variables keep their types.
THEOREM TypeCorrect == Spec => []TypeOK
  BY SpecInv1, PTL DEF Inv1

----------------------------------------------------------------------------
\* One row per message.

\* The unique index check of TxCreate is the only step that can break
\* OneRowPerMessage, and it looks at pending and durable rows alike.
LEMMA NextOneRow == Inv1 /\ OneRowPerMessage /\ [Next]_vars => OneRowPerMessage'
  <1> SUFFICES ASSUME Inv1, OneRowPerMessage, [Next]_vars PROVE OneRowPerMessage'
    OBVIOUS
  <1> USE DEF Inv1, TypeOK, Control, OneRowPerMessage, Key, Durable, rowVars, effectVars
  <1>1. ASSUME NEW c \in Calls, Receive(c) \/ RejectMalformed(c) PROVE OneRowPerMessage'
    BY <1>1 DEF Receive, RejectMalformed, Arrives
  <1>2. ASSUME NEW c \in Calls, TxCreate(c) PROVE OneRowPerMessage'
    <2>1. CASE InsertRow(c) /\ RowsOf(Key(c)) = {}
      <3>1. \A w \in Calls : row[w] # "none" => Key(w) # Key(c)
        BY <1>2, <2>1 DEF TxCreate, RowsOf
      <3>2. QED
        BY <1>2, <2>1, <3>1 DEF TxCreate, InsertRow
    <2>2. CASE UNCHANGED row
      BY <1>2, <2>2 DEF TxCreate
    <2>3. QED
      BY <1>2, <2>1, <2>2 DEF TxCreate
  <1>3. ASSUME NEW c \in Calls, CommitRow(c) PROVE OneRowPerMessage'
    BY <1>3 DEF CommitRow
  <1>4. ASSUME NEW c \in Calls, DbError(c) PROVE OneRowPerMessage'
    BY <1>4 DEF DbError
  <1>5. ASSUME NEW c \in Calls, NEW u \in Senders, Delete(c, u) PROVE OneRowPerMessage'
    BY <1>5 DEF Delete
  <1>6. ASSUME Crash PROVE OneRowPerMessage'
    BY <1>6 DEF Crash
  <1>7. CASE UNCHANGED <<req, row>>
    BY <1>7
  <1>8. QED
    BY <1>1, <1>2, <1>3, <1>4, <1>5, <1>6, <1>7
    DEF Next, Handle, LookupConversation, FastPath, TxCommit, LoseCommitReply,
        ReturnWinner, Broadcast, Notify, MarkRead, vars

\* A message has at most one row.
THEOREM OneRow == Spec => []OneRowPerMessage
  <1>1. Init => OneRowPerMessage
    BY DEF Init, OneRowPerMessage
  <1>2. QED
    BY <1>1, SpecInv1, NextOneRow, PTL DEF Spec

----------------------------------------------------------------------------
\* Answers.

\* Durable rows stay durable and keep their message.
LEMMA DurableIsStable ==
  Inv1 /\ [Next]_vars =>
    \A w \in Calls : row[w] \in Durable => row'[w] \in Durable /\ Key(w)' = Key(w)
  <1> SUFFICES ASSUME Inv1, [Next]_vars, NEW w \in Calls, row[w] \in Durable
               PROVE row'[w] \in Durable /\ Key(w)' = Key(w)
    OBVIOUS
  <1> USE DEF Inv1, TypeOK, Control, Key, Durable, rowVars, effectVars
  <1>1. ASSUME NEW c \in Calls, Receive(c) \/ RejectMalformed(c)
        PROVE row'[w] \in Durable /\ Key(w)' = Key(w)
    BY <1>1 DEF Receive, RejectMalformed, Arrives
  <1>2. ASSUME NEW c \in Calls, TxCreate(c) PROVE row'[w] \in Durable /\ Key(w)' = Key(w)
    BY <1>2 DEF TxCreate, InsertRow
  <1>3. ASSUME NEW c \in Calls, CommitRow(c) PROVE row'[w] \in Durable /\ Key(w)' = Key(w)
    BY <1>3 DEF CommitRow
  <1>4. ASSUME NEW c \in Calls, DbError(c) PROVE row'[w] \in Durable /\ Key(w)' = Key(w)
    BY <1>4 DEF DbError
  <1>5. ASSUME NEW c \in Calls, NEW u \in Senders, Delete(c, u)
        PROVE row'[w] \in Durable /\ Key(w)' = Key(w)
    BY <1>5 DEF Delete
  <1>6. ASSUME Crash PROVE row'[w] \in Durable /\ Key(w)' = Key(w)
    BY <1>6 DEF Crash
  <1>7. CASE UNCHANGED <<req, row>>
    BY <1>7
  <1>8. QED
    BY <1>1, <1>2, <1>3, <1>4, <1>5, <1>6, <1>7
    DEF Next, Handle, LookupConversation, FastPath, TxCommit, LoseCommitReply,
        ReturnWinner, Broadcast, Notify, MarkRead, vars

\* A call that is being answered with success gets a durable row of its
\* message.
LEMMA NextAck == Inv1 /\ AckNamesTheRow /\ [Next]_vars => AckNamesTheRow'
  <1> SUFFICES ASSUME Inv1, AckNamesTheRow, [Next]_vars,
                      NEW x \in Calls, ack'[x] \in {"ok", "deduped"}
               PROVE /\ acked'[x] \in Calls
                     /\ row'[acked'[x]] \in Durable
                     /\ Key(acked[x])' = Key(x)'
    BY DEF AckNamesTheRow
  <1> USE DEF Inv1, TypeOK, Control, Answer, Fail, Goto, FailureCodes
  <1>1. ASSUME ack'[x] = ack[x], acked'[x] = acked[x],
               req[x] # None => req'[x] = req[x]
        PROVE /\ acked'[x] \in Calls
              /\ row'[acked'[x]] \in Durable
              /\ Key(acked[x])' = Key(x)'
    <2>1. /\ acked[x] \in Calls
          /\ row[acked[x]] \in Durable
          /\ Key(acked[x]) = Key(x)
      BY <1>1 DEF AckNamesTheRow
    <2>2. req'[x] = req[x]
      BY <1>1
    <2>3. QED
      BY <1>1, <2>1, <2>2, DurableIsStable DEF Key
  <1>2. ASSUME NEW w \in Calls, ack' = [ack EXCEPT ![x] = "ok"] \/ ack' = [ack EXCEPT ![x] = "deduped"],
               acked' = [acked EXCEPT ![x] = w], row'[w] \in Durable,
               Key(w) = Key(x), req' = req
        PROVE /\ acked'[x] \in Calls
              /\ row'[acked'[x]] \in Durable
              /\ Key(acked[x])' = Key(x)'
    BY <1>2 DEF Key
  <1> DEFINE Goal == /\ acked'[x] \in Calls
                     /\ row'[acked'[x]] \in Durable
                     /\ Key(acked[x])' = Key(x)'
  <1>3. ASSUME NEW c \in Calls, Receive(c) \/ RejectMalformed(c) PROVE Goal
    BY <1>3, <1>1 DEF Receive, RejectMalformed, Arrives
  <1>4. ASSUME NEW c \in Calls, LookupConversation(c) PROVE Goal
    BY <1>4, <1>1 DEF LookupConversation
  <1>5. ASSUME NEW c \in Calls, FastPath(c) \/ ReturnWinner(c) PROVE Goal
    <2>1. CASE UNCHANGED <<ack, acked, req>>
      BY <2>1, <1>1
    <2>2. ASSUME NEW w \in RowsOf(Key(c)), Answer(c, "deduped", w),
                 UNCHANGED <<req, row>>
          PROVE Goal
      <3>1. w \in Calls /\ row'[w] \in Durable /\ Key(w) = Key(c)
        BY <2>2 DEF RowsOf
      <3>2. CASE c = x
        BY <2>2, <3>1, <3>2, <1>2
      <3>3. CASE c # x
        BY <2>2, <3>3, <1>1
      <3>4. QED
        BY <3>2, <3>3
    <2>3. QED
      BY <1>5, <2>1, <2>2 DEF FastPath, ReturnWinner, rowVars
  <1>6. ASSUME NEW c \in Calls, CommitRow(c) \/ Notify(c), Answer(c, "ok", c) PROVE Goal
    <2>1. row'[c] \in Durable /\ req' = req
      BY <1>6 DEF CommitRow, Notify, rowVars, Durable
    <2>2. CASE c = x
      BY <1>6, <2>1, <2>2, <1>2
    <2>3. CASE c # x
      BY <1>6, <2>1, <2>3, <1>1
    <2>4. QED
      BY <2>2, <2>3
  <1>7. ASSUME NEW c \in Calls, TxCommit(c) \/ LoseCommitReply(c) PROVE Goal
    <2>1. CASE Answer(c, "ok", c)
      BY <1>7, <2>1, <1>6 DEF TxCommit, LoseCommitReply
    <2>2. CASE Fail(c, "INTERNAL") \/ UNCHANGED <<ack, acked>>
      BY <1>7, <2>2, <1>1 DEF TxCommit, LoseCommitReply, CommitRow
    <2>3. QED
      BY <1>7, <2>1, <2>2 DEF TxCommit, LoseCommitReply
  <1>8. ASSUME NEW c \in Calls, DbError(c) PROVE Goal
    BY <1>8, <1>1 DEF DbError
  <1>9. ASSUME NEW c \in Calls, Notify(c) PROVE Goal
    BY <1>9, <1>6 DEF Notify
  <1>10. CASE UNCHANGED <<req, ack, acked>>
    BY <1>10, <1>1
  <1>11. QED
    BY <1>3, <1>4, <1>5, <1>7, <1>8, <1>9, <1>10
    DEF Next, Handle, TxCreate, Broadcast, Delete, MarkRead, Crash, vars

\* A success answer carries the durable row of the message that was sent.
THEOREM AckNames == Spec => []AckNamesTheRow
  <1>1. Init => AckNamesTheRow
    BY DEF Init, AckNamesTheRow
  <1>2. QED
    BY <1>1, SpecInv1, NextAck, PTL DEF Spec

----------------------------------------------------------------------------
\* Stage 2.

\* Every step preserves Stage2: only Broadcast counts an emission, and the
\* handler passes it once, after its row became durable.
LEMMA NextStage2 == Inv1 /\ Stage2 /\ [Next]_vars => Stage2'
  <1> SUFFICES ASSUME Inv1, Stage2, [Next]_vars PROVE Stage2'
    OBVIOUS
  <1>0. \A w \in Calls : row[w] \in Durable => row'[w] \in Durable
    BY DurableIsStable
  <1> USE DEF Inv1, TypeOK, Control, Stage2, Answer, Fail, Goto, rowVars, effectVars
  <1>1. ASSUME NEW c \in Calls, NEW place \in {"conversation", "lookup", "create", "commit",
                 "winner", "done"},
               \A d \in Calls : d # c => pc'[d] = pc[d],
               pc'[c] = place, UNCHANGED <<broadcasts, notified>>
        PROVE Stage2'
    BY <1>0, <1>1
  <1>2. ASSUME NEW c \in Calls, CommitRow(c), Goto(c, "broadcast") PROVE Stage2'
    BY <1>0, <1>2 DEF CommitRow, Durable
  <1>3. ASSUME NEW c \in Calls, Broadcast(c) PROVE Stage2'
    BY <1>0, <1>3 DEF Broadcast
  <1>4. ASSUME NEW c \in Calls, Notify(c) PROVE Stage2'
    BY <1>0, <1>4 DEF Notify
  <1>5. ASSUME Crash PROVE Stage2'
    BY <1>0, <1>5 DEF Crash
  <1>6. ASSUME NEW c \in Calls,
               \/ Receive(c) \/ RejectMalformed(c) \/ LookupConversation(c) \/ FastPath(c)
               \/ TxCreate(c) \/ ReturnWinner(c) \/ DbError(c)
        PROVE Stage2'
    BY <1>1, <1>6 DEF Receive, RejectMalformed, Arrives, LookupConversation, FastPath,
      TxCreate, InsertRow, ReturnWinner, DbError
  <1>7. ASSUME NEW c \in Calls, TxCommit(c) \/ LoseCommitReply(c) PROVE Stage2'
    BY <1>1, <1>2, <1>7 DEF TxCommit, LoseCommitReply, CommitRow
  <1>8. CASE UNCHANGED <<pc, broadcasts, notified>>
    BY <1>0, <1>8
  <1>9. QED
    BY <1>3, <1>4, <1>5, <1>6, <1>7, <1>8 DEF Next, Handle, Delete, MarkRead, vars

\* The inductive invariant of stage 2 holds in every state.
THEOREM SpecStage2 == Spec => []Stage2
  <1>1. Init => Stage2
    BY DEF Init, Stage2
  <1>2. QED
    BY <1>1, SpecInv1, NextStage2, PTL DEF Spec

\* A row is announced at most once, and only when it is durable.
THEOREM Announced == Spec => []AnnouncedOnce
  <1>1. Stage2 => AnnouncedOnce
    BY DEF Stage2, AnnouncedOnce
  <1>2. QED
    BY <1>1, SpecStage2, PTL

----------------------------------------------------------------------------
\* The conversation row.

\* The summary and the counters change only in the commit of a row and in
\* MarkRead.
LEMMA NextSummary == Inv1 /\ SummaryIsOfARow /\ [Next]_vars => SummaryIsOfARow'
  <1> DEFINE of(t) == {c \in Calls : row[c] \in Durable /\ req[c].conv = t}
  <1> SUFFICES ASSUME Inv1, SummaryIsOfARow, [Next]_vars, NEW t \in Trainees
               PROVE IF of(t)' = {} THEN summary'[t] = None ELSE summary'[t] \in of(t)'
    BY DEF SummaryIsOfARow
  <1> DEFINE Goal == IF of(t)' = {} THEN summary'[t] = None ELSE summary'[t] \in of(t)'
  <1>0. IF of(t) = {} THEN summary[t] = None ELSE summary[t] \in of(t)
    BY DEF SummaryIsOfARow
  <1>1. ASSUME of(t)' = of(t), summary' = summary PROVE Goal
    BY <1>0, <1>1
  <1> USE DEF Inv1, TypeOK, Control, Durable, rowVars, effectVars
  <1>2. ASSUME NEW c \in Calls, CommitRow(c) PROVE Goal
    <2>1. CASE t = req[c].conv
      <3>1. summary'[t] = c /\ c \in of(t)'
        BY <1>2, <2>1 DEF CommitRow
      <3>2. QED
        BY <3>1
    <2>2. CASE t # req[c].conv
      <3>1. of(t)' = of(t) /\ summary'[t] = summary[t]
        BY <1>2, <2>2 DEF CommitRow
      <3>2. QED
        BY <3>1, <1>0
    <2>3. QED
      BY <2>1, <2>2
  <1>3. ASSUME NEW c \in Calls, Receive(c) \/ RejectMalformed(c) PROVE Goal
    <2>1. of(t)' = of(t) /\ summary' = summary
      BY <1>3 DEF Receive, RejectMalformed, Arrives
    <2>2. QED
      BY <1>1, <2>1
  <1>4. ASSUME NEW c \in Calls, TxCreate(c) \/ DbError(c) PROVE Goal
    <2>1. of(t)' = of(t) /\ summary' = summary
      BY <1>4 DEF TxCreate, InsertRow, DbError
    <2>2. QED
      BY <1>1, <2>1
  <1>5. ASSUME NEW c \in Calls, NEW u \in Senders, Delete(c, u) PROVE Goal
    <2>1. of(t)' = of(t) /\ summary' = summary
      BY <1>5 DEF Delete
    <2>2. QED
      BY <1>1, <2>1
  <1>6. ASSUME Crash PROVE Goal
    <2>1. of(t)' = of(t) /\ summary' = summary
      BY <1>6 DEF Crash
    <2>2. QED
      BY <1>1, <2>1
  <1>7. ASSUME UNCHANGED <<req, row, summary>> PROVE Goal
    BY <1>1, <1>7
  <1> HIDE DEF Goal, of
  <1>8. Goal
    BY <1>2, <1>3, <1>4, <1>5, <1>6, <1>7
    DEF Next, Handle, LookupConversation, FastPath, TxCommit, LoseCommitReply,
        ReturnWinner, Broadcast, Notify, MarkRead, vars
  <1>9. QED
    BY <1>8 DEF Goal

\* A conversation shows a last message exactly when it has a durable one.
THEOREM Summary == Spec => []SummaryIsOfARow
  <1>1. Init => SummaryIsOfARow
    BY DEF Init, SummaryIsOfARow, Durable
  <1>2. QED
    BY <1>1, SpecInv1, NextSummary, PTL DEF Spec

Counting == UnreadCountsUnseen /\ UnseenDurable

\* A commit adds to the counter a row that was not counted before, since the
\* counted rows are durable and the row of a running transaction is not.
LEMMA NextCounting == Inv1 /\ Counting /\ [Next]_vars => Counting'
  <1> SUFFICES ASSUME Inv1, Counting, [Next]_vars PROVE Counting'
    OBVIOUS
  <1>0. \A w \in Calls : row[w] \in Durable => row'[w] \in Durable
    BY DurableIsStable
  <1>1. CASE UNCHANGED <<unread, unseen>>
    BY <1>0, <1>1 DEF Counting, UnreadCountsUnseen, UnseenDurable, Inv1, TypeOK
  <1>2. ASSUME NEW c \in Calls, CommitRow(c) PROVE Counting'
    <2> DEFINE t == req[c].conv
               s == ReaderSide(c)
    <2>1. s \in Sides /\ t \in Trainees
      BY <1>2 DEF ReaderSide, Sides, CommitRow, Inv1, Control, Allowed
    <2>2. IsFiniteSet(unseen[s][t]) /\ c \notin unseen[s][t]
      <3>1. unseen[s][t] \subseteq Calls
        BY <2>1 DEF Inv1, TypeOK
      <3>2. row[c] \notin Durable
        BY <1>2 DEF Inv1, Control, CommitRow, Durable
      <3>3. QED
        BY <2>1, <3>1, <3>2, FS_Subset, ChatServerAssumption DEF Counting, UnseenDurable
    <2>3. Cardinality(unseen[s][t] \cup {c}) = unread[s][t] + 1
      BY <2>1, <2>2, FS_AddElement DEF Counting, UnreadCountsUnseen
    <2> HIDE DEF s, t
    <2>4. /\ row' = [row EXCEPT ![c] = "stored"]
          /\ unread' = [unread EXCEPT ![s][t] = unread[s][t] + 1]
          /\ unseen' = [unseen EXCEPT ![s][t] = unseen[s][t] \cup {c}]
      BY <1>2 DEF CommitRow, s, t
    <2>5. UnreadCountsUnseen'
      BY <2>1, <2>3, <2>4 DEF Counting, UnreadCountsUnseen, Inv1, TypeOK
    <2>6. UnseenDurable'
      BY <1>0, <2>1, <2>4 DEF Counting, UnseenDurable, Inv1, TypeOK, Durable
    <2>7. QED
      BY <2>5, <2>6 DEF Counting
  <1>3. ASSUME NEW s \in Sides, NEW t \in Trainees, MarkRead(s, t) PROVE Counting'
    BY <1>0, <1>3, FS_EmptySet
    DEF MarkRead, Counting, UnreadCountsUnseen, UnseenDurable, Inv1, TypeOK
  <1>4. QED
    BY <1>1, <1>2, <1>3
    DEF Next, Handle, Receive, RejectMalformed, LookupConversation, FastPath, TxCreate,
        TxCommit, LoseCommitReply, ReturnWinner, DbError, Broadcast, Notify, Delete,
        Crash, vars, rowVars

\* The unread counters count exactly the unseen rows.
THEOREM Unread == Spec => []UnreadCountsUnseen
  <1>1. Init => Counting
    BY FS_EmptySet DEF Init, Counting, UnreadCountsUnseen, UnseenDurable
  <1>2. Counting => UnreadCountsUnseen
    BY DEF Counting
  <1>3. QED
    BY <1>1, <1>2, SpecInv1, NextCounting, PTL DEF Spec

-----------------------------------------------------------------------------
(* The refinement of SendPromise, and what the handlers promise besides    *)
(* when the database and the process behave.                               *)

\* Stage 1 and 2 without lost COMMIT replies and without crashes.

\* A step that answers a call with a failure leaves it without a row, unless
\* the COMMIT it was waiting for lost its reply.
LEMMA NextFailed ==
  Inv1 /\ FailedCallStoredNothing /\ ~LostCommitReplies /\ [Next]_vars
    => FailedCallStoredNothing'
  <1> SUFFICES ASSUME Inv1, FailedCallStoredNothing, ~LostCommitReplies, [Next]_vars
               PROVE FailedCallStoredNothing'
    OBVIOUS
  <1> USE DEF Inv1, TypeOK, Control, FailedCallStoredNothing, Answer, Fail, Goto,
              rowVars, effectVars, Durable, FailureCodes
  <1>1. ASSUME NEW c \in Calls,
               Receive(c) \/ RejectMalformed(c) \/ LookupConversation(c) \/ FastPath(c)
        PROVE FailedCallStoredNothing'
    BY <1>1 DEF Receive, RejectMalformed, Arrives, LookupConversation, FastPath
  <1>2. ASSUME NEW c \in Calls, TxCreate(c) \/ ReturnWinner(c)
        PROVE FailedCallStoredNothing'
    BY <1>2 DEF TxCreate, InsertRow, ReturnWinner
  <1>3. ASSUME NEW c \in Calls, TxCommit(c) PROVE FailedCallStoredNothing'
    BY <1>3 DEF TxCommit, CommitRow
  <1>4. ASSUME NEW c \in Calls, DbError(c) PROVE FailedCallStoredNothing'
    BY <1>4 DEF DbError
  <1>5. ASSUME NEW c \in Calls, Broadcast(c) \/ Notify(c) PROVE FailedCallStoredNothing'
    BY <1>5 DEF Broadcast, Notify
  <1>6. ASSUME NEW c \in Calls, NEW u \in Senders, Delete(c, u)
        PROVE FailedCallStoredNothing'
    BY <1>6 DEF Delete
  <1>7. ASSUME Crash PROVE FailedCallStoredNothing'
    BY <1>7 DEF Crash
  <1>8. CASE UNCHANGED <<ack, row>>
    BY <1>8
  <1>9. QED
    BY <1>1, <1>2, <1>3, <1>4, <1>5, <1>6, <1>7, <1>8
    DEF Next, Handle, LoseCommitReply, MarkRead, vars

\* If no COMMIT loses its reply, a call answered with a failure stored nothing.
THEOREM FailedStoredNothing == ~LostCommitReplies => (Spec => []FailedCallStoredNothing)
  <1>1. Init => FailedCallStoredNothing
    BY DEF Init, FailedCallStoredNothing, FailureCodes
  <1>2. ASSUME ~LostCommitReplies PROVE Spec => []FailedCallStoredNothing
    <2>1. Inv1 /\ FailedCallStoredNothing /\ [Next]_vars => FailedCallStoredNothing'
      BY <1>2, NextFailed
    <2>2. QED
      BY <1>1, <2>1, SpecInv1, PTL DEF Spec
  <1>3. QED
    BY <1>2

\* A durable row was broadcast, or its handler is about to broadcast it.
DurableAnnounced ==
  \A w \in Calls : row[w] \in Durable => broadcasts[w] = 1 \/ pc[w] = "broadcast"

SocketOnly == MaxCrashes = 0 /\ ~LostCommitReplies /\ Channels = {"socket"}

\* Without a crash, and over the socket, the handler that committed a row is
\* the one that broadcasts it.
LEMMA NextDurableAnnounced ==
  Inv1 /\ Stage2 /\ crashes = 0 /\ DurableAnnounced /\ SocketOnly /\ [Next]_vars
    => DurableAnnounced' /\ crashes' = 0
  <1> SUFFICES ASSUME Inv1, Stage2, crashes = 0, DurableAnnounced, SocketOnly, [Next]_vars
               PROVE DurableAnnounced' /\ crashes' = 0
    OBVIOUS
  <1> USE DEF Inv1, TypeOK, Control, Stage2, DurableAnnounced, Durable, Answer, Fail, Goto,
              rowVars, effectVars
  <1>1. ASSUME NEW c \in Calls,
               Receive(c) \/ RejectMalformed(c) \/ LookupConversation(c) \/ FastPath(c)
        PROVE DurableAnnounced' /\ crashes' = 0
    BY <1>1 DEF Receive, RejectMalformed, Arrives, LookupConversation, FastPath
  <1>2. ASSUME NEW c \in Calls, TxCreate(c) \/ ReturnWinner(c) \/ DbError(c)
        PROVE DurableAnnounced' /\ crashes' = 0
    BY <1>2 DEF TxCreate, InsertRow, ReturnWinner, DbError
  <1>3. ASSUME NEW c \in Calls, TxCommit(c) PROVE DurableAnnounced' /\ crashes' = 0
    <2>1. req[c] \in Requests
      BY <1>3 DEF TxCommit, CommitRow
    <2>2. req[c].via = "socket"
      BY <2>1 DEF Requests, SocketOnly
    <2>3. QED
      BY <1>3, <2>2 DEF TxCommit, CommitRow
  <1>4. ASSUME NEW c \in Calls, Broadcast(c) \/ Notify(c)
        PROVE DurableAnnounced' /\ crashes' = 0
    BY <1>4 DEF Broadcast, Notify
  <1>5. ASSUME NEW c \in Calls, NEW u \in Senders, Delete(c, u)
        PROVE DurableAnnounced' /\ crashes' = 0
    BY <1>5 DEF Delete
  <1>6. ~Crash
    BY DEF Crash, SocketOnly
  <1>7. CASE UNCHANGED <<pc, row, broadcasts, crashes>>
    BY <1>7
  <1>8. QED
    BY <1>1, <1>2, <1>3, <1>4, <1>5, <1>6, <1>7
    DEF Next, Handle, LoseCommitReply, MarkRead, vars, SocketOnly

\* In a process that does not crash, a duplicate that is sent over the socket
\* skips the side effects of a message whose broadcast went out or is next.
THEOREM DedupedBroadcast == SocketOnly => (Spec => []DedupedWasBroadcast)
  <1>1. Init => DurableAnnounced /\ crashes = 0
    BY DEF Init, DurableAnnounced, Durable
  <1>2. DurableAnnounced /\ AckNamesTheRow => DedupedWasBroadcast
    BY DEF DurableAnnounced, AckNamesTheRow, DedupedWasBroadcast
  <1>3. ASSUME SocketOnly PROVE Spec => []DedupedWasBroadcast
    <2>1. Inv1 /\ Stage2 /\ (DurableAnnounced /\ crashes = 0) /\ [Next]_vars
            => (DurableAnnounced /\ crashes = 0)'
      BY <1>3, NextDurableAnnounced
    <2>2. QED
      BY <1>1, <1>2, <2>1, SpecInv1, SpecStage2, AckNames, PTL DEF Spec
  <1>4. QED
    BY <1>3

----------------------------------------------------------------------------
\* Refinement.

Keys == Senders \X Cids
asked == [c \in Calls |-> IF req[c] = None THEN None ELSE Key(c)]
rows == {c \in Calls : row[c] \in Durable}
answer == [c \in Calls |-> IF ack[c] \in FailureCodes THEN "failed" ELSE acked[c]]

PromiseInv == Inv1 /\ Stage2 /\ OneRowPerMessage

\* The initial states of the handlers promise nothing yet.
LEMMA InitPromise == Init => Promise!Init
  BY DEF Init, Promise!Init, Durable, FailureCodes

\* A call that has been received asks for a message.
LEMMA AskedOf ==
  ASSUME Inv1, NEW c \in Calls, req[c] # None
  PROVE  /\ req[c] \in Requests
         /\ Key(c) \in Keys
         /\ asked[c] = Key(c)
         /\ asked[c] # None
  BY ChatServerAssumption DEF Inv1, TypeOK, Key, Keys, asked, Requests

\* A running call has asked and has no answer.
LEMMA Running ==
  ASSUME Inv1, NEW c \in Calls, pc[c] \notin {"idle", "done"}
  PROVE  req[c] # None /\ ack[c] = "none" /\ answer[c] = None
  BY DEF Inv1, TypeOK, Control, answer, FailureCodes

\* Every step of the handlers is a step of the promise or changes nothing in
\* it.
LEMMA NextPromise == PromiseInv /\ [Next]_vars => [Promise!Next]_(Promise!vars)
  <1> SUFFICES ASSUME PromiseInv, [Next]_vars PROVE [Promise!Next]_(Promise!vars)
    OBVIOUS
  <1>0. Inv1 /\ Stage2 /\ OneRowPerMessage
    BY DEF PromiseInv
  <1> DEFINE Same == /\ asked' = asked /\ rows' = rows /\ answer' = answer
                     /\ broadcasts' = broadcasts
  <1>1. Same => [Promise!Next]_(Promise!vars)
    BY DEF Promise!vars, asked, rows, answer
  <1>2. ASSUME UNCHANGED req PROVE asked' = asked
    BY <1>2 DEF asked, Key
  <1>3. ASSUME UNCHANGED row PROVE rows' = rows
    BY <1>3 DEF rows
  <1>4. ASSUME UNCHANGED <<ack, acked>> PROVE answer' = answer
    BY <1>4 DEF answer
  <1>5. ASSUME NEW c \in Calls, NEW code \in FailureCodes, Fail(c, code)
        PROVE answer' = [answer EXCEPT ![c] = "failed"]
    BY <1>0, <1>5 DEF Fail, Answer, Goto, answer, Inv1, TypeOK
  <1>6. ASSUME NEW c \in Calls, NEW a \in {"ok", "deduped"}, NEW w \in Calls, Answer(c, a, w)
        PROVE answer' = [answer EXCEPT ![c] = w]
    BY <1>0, <1>6 DEF Answer, Goto, answer, Inv1, TypeOK, FailureCodes
  <1> HIDE DEF Same
  <1>7. ASSUME NEW c \in Calls, Receive(c) \/ RejectMalformed(c)
        PROVE Promise!Ask(c)
    <2>1. PICK r \in Requests : Arrives(c, r)
      BY <1>7 DEF Receive, RejectMalformed
    <2>2. asked[c] = None /\ <<r.sender, r.cid>> \in Keys
      BY <2>1 DEF Arrives, asked, Requests, Keys
    <2>3. asked' = [asked EXCEPT ![c] = <<r.sender, r.cid>>]
      BY <1>0, <2>1, ChatServerAssumption DEF Arrives, asked, Key, Inv1, TypeOK
    <2>4. rows' = rows /\ broadcasts' = broadcasts
      BY <1>3, <1>7 DEF Receive, RejectMalformed, rowVars, effectVars
    <2>5. answer' \in {answer, [answer EXCEPT ![c] = "failed"]}
      <3>1. CASE Receive(c)
        BY <1>4, <3>1 DEF Receive
      <3>2. CASE RejectMalformed(c)
        BY <1>5, <3>2 DEF RejectMalformed, FailureCodes
      <3>3. QED
        BY <1>7, <3>1, <3>2
    <2>6. QED
      BY <2>2, <2>3, <2>4, <2>5 DEF Promise!Ask, asked, rows, answer, Keys
  <1>8. ASSUME NEW c \in Calls, pc[c] \notin {"idle", "done"},
               NEW code \in FailureCodes, Fail(c, code),
               req' = req, rows' = rows, broadcasts' = broadcasts
        PROVE Promise!Refuse(c)
    <2>1. asked[c] # None /\ answer[c] = None
      BY <1>0, <1>8, AskedOf, Running
    <2>2. asked' = asked /\ answer' = [answer EXCEPT ![c] = "failed"]
      BY <1>2, <1>5, <1>8
    <2>3. QED
      BY <1>8, <2>1, <2>2 DEF Promise!Refuse, asked, rows, answer
  <1>9. ASSUME NEW c \in Calls, pc[c] \notin {"idle", "done"},
               NEW a \in {"ok", "deduped"}, NEW w \in RowsOf(Key(c)), Answer(c, a, w),
               UNCHANGED <<req, row, broadcasts>>
        PROVE Promise!Confirm(c)
    <2>1. asked[c] = Key(c) /\ asked[c] # None /\ answer[c] = None
      BY <1>0, <1>9, AskedOf, Running
    <2>2. w \in rows /\ asked[w] = Key(c)
      <3>1. w \in Calls /\ row[w] \in Durable /\ Key(w) = Key(c)
        BY <1>9 DEF RowsOf
      <3>2. req[w] # None
        BY <1>0, <3>1 DEF Inv1, Control, Durable
      <3>3. QED
        BY <1>0, <3>1, <3>2, AskedOf DEF rows
    <2>3. asked' = asked /\ rows' = rows /\ answer' = [answer EXCEPT ![c] = w]
      BY <1>2, <1>3, <1>6, <1>9 DEF RowsOf
    <2>4. QED
      BY <1>9, <2>1, <2>2, <2>3 DEF Promise!Confirm, asked, rows, answer
  <1>10. ASSUME NEW c \in Calls, CommitRow(c),
                answer' \in {answer, [answer EXCEPT ![c] = "failed"], [answer EXCEPT ![c] = c]}
         PROVE Promise!Store(c)
    <2>1. pc[c] = "commit" /\ row[c] = "pending"
      BY <1>0, <1>10 DEF CommitRow, Inv1, Control
    <2>2. req[c] # None /\ asked[c] = Key(c) /\ asked[c] # None /\ answer[c] = None
      BY <1>0, <2>1, AskedOf, Running
    <2>3. \A r \in rows : asked[r] # asked[c]
      <3> SUFFICES ASSUME NEW r \in Calls, row[r] \in Durable PROVE asked[r] # asked[c]
        BY DEF rows
      <3>1. r # c /\ req[r] # None
        BY <1>0, <2>1 DEF Inv1, Control, Durable
      <3>2. Key(r) # Key(c)
        BY <1>0, <2>1, <3>1 DEF OneRowPerMessage, Durable
      <3>3. QED
        BY <1>0, <2>2, <3>1, <3>2, AskedOf
    <2>4. rows' = rows \cup {c}
      BY <1>0, <1>10 DEF CommitRow, rows, Durable, Inv1, TypeOK
    <2>5. asked' = asked /\ broadcasts' = broadcasts
      BY <1>2, <1>10 DEF CommitRow, effectVars
    <2>6. QED
      BY <1>10, <2>2, <2>3, <2>4, <2>5 DEF Promise!Store, asked, rows, answer
  <1>11. ASSUME NEW c \in Calls, Broadcast(c) PROVE Promise!Announce(c)
    <2>1. c \in rows /\ broadcasts[c] = 0
      BY <1>0, <1>11 DEF Broadcast, rows, Inv1, Control, Stage2
    <2>2. broadcasts' = [broadcasts EXCEPT ![c] = 1]
      BY <1>11, <2>1 DEF Broadcast
    <2>3. asked' = asked /\ rows' = rows /\ answer' = answer
      BY <1>2, <1>3, <1>4, <1>11 DEF Broadcast, rowVars
    <2>4. QED
      BY <2>1, <2>2, <2>3 DEF Promise!Announce, asked, rows, answer
  <1>12. ASSUME NEW c \in Calls, LookupConversation(c)
         PROVE Same \/ Promise!Next
    <2>1. pc[c] \notin {"idle", "done"} /\ UNCHANGED <<req, row, broadcasts>>
      BY <1>12 DEF LookupConversation, rowVars, effectVars
    <2>2. CASE UNCHANGED <<ack, acked>>
      BY <1>2, <1>3, <1>4, <2>1, <2>2 DEF Same
    <2>3. CASE Fail(c, "NOT_FOUND") \/ Fail(c, "FORBIDDEN")
      BY <1>3, <1>8, <2>1, <2>3 DEF FailureCodes, Promise!Next
    <2>4. QED
      BY <1>12, <2>2, <2>3 DEF LookupConversation
  <1>13. ASSUME NEW c \in Calls, FastPath(c) \/ ReturnWinner(c)
         PROVE Same \/ Promise!Next
    <2>1. pc[c] \notin {"idle", "done"} /\ UNCHANGED <<req, row, broadcasts>>
      BY <1>13 DEF FastPath, ReturnWinner, rowVars, effectVars
    <2>2. CASE UNCHANGED <<ack, acked>>
      BY <1>2, <1>3, <1>4, <2>1, <2>2 DEF Same
    <2>3. ASSUME NEW w \in RowsOf(Key(c)), Answer(c, "deduped", w) PROVE Promise!Next
      BY <1>9, <2>1, <2>3 DEF Promise!Next
    <2>4. QED
      BY <1>13, <2>2, <2>3 DEF FastPath, ReturnWinner
  <1>14. ASSUME NEW c \in Calls, TxCreate(c) PROVE Same
    <2>1. rows' = rows
      BY <1>0, <1>14 DEF TxCreate, InsertRow, rows, Durable, Inv1, TypeOK, Control
    <2>2. QED
      BY <1>2, <1>4, <1>14, <2>1 DEF TxCreate, effectVars, Same
  <1>15. ASSUME NEW c \in Calls, TxCommit(c) PROVE Promise!Store(c)
    <2>1. CASE Answer(c, "ok", c)
      BY <1>6, <1>10, <1>15, <2>1 DEF TxCommit
    <2>2. CASE UNCHANGED <<ack, acked>>
      BY <1>4, <1>10, <1>15, <2>2 DEF TxCommit
    <2>3. QED
      BY <1>15, <2>1, <2>2 DEF TxCommit
  <1>16. ASSUME NEW c \in Calls, LoseCommitReply(c) PROVE Promise!Store(c)
    BY <1>5, <1>10, <1>16 DEF LoseCommitReply, FailureCodes
  <1>17. ASSUME NEW c \in Calls, DbError(c) PROVE Promise!Refuse(c)
    <2>1. rows' = rows
      BY <1>0, <1>17 DEF DbError, rows, Durable, Inv1, TypeOK
    <2>2. QED
      BY <1>8, <1>17, <2>1 DEF DbError, FailureCodes, effectVars
  <1>18. ASSUME NEW c \in Calls, Notify(c) PROVE Promise!Confirm(c)
    <2>1. c \in RowsOf(Key(c))
      BY <1>0, <1>18 DEF Notify, RowsOf, Inv1, Control
    <2>2. QED
      BY <1>9, <1>18, <2>1 DEF Notify, rowVars
  <1>19. ASSUME NEW c \in Calls, NEW u \in Senders, Delete(c, u) PROVE Same
    <2>1. rows' = rows
      BY <1>0, <1>19 DEF Delete, rows, Durable, Inv1, TypeOK
    <2>2. QED
      BY <1>2, <1>4, <1>19, <2>1 DEF Delete, effectVars, Same
  <1>20. ASSUME NEW s \in Sides, NEW t \in Trainees, MarkRead(s, t) PROVE Same
    BY <1>2, <1>3, <1>4, <1>20 DEF MarkRead, effectVars, Same
  <1>21. ASSUME Crash PROVE Same
    <2>1. rows' = rows
      BY <1>0, <1>21 DEF Crash, rows, Durable, Inv1, TypeOK
    <2>2. QED
      BY <1>2, <1>4, <1>21, <2>1 DEF Crash, Same
  <1>22. ASSUME UNCHANGED vars PROVE Same
    BY <1>2, <1>3, <1>4, <1>22 DEF vars, Same
  <1>23. ASSUME NEW c \in Calls,
                \/ Receive(c) \/ RejectMalformed(c) \/ Broadcast(c) \/ TxCommit(c)
                \/ LoseCommitReply(c) \/ DbError(c) \/ Notify(c)
         PROVE Promise!Next
    <2>1. Promise!Ask(c) \/ Promise!Store(c) \/ Promise!Confirm(c) \/ Promise!Refuse(c)
            \/ Promise!Announce(c)
      BY <1>7, <1>11, <1>15, <1>16, <1>17, <1>18, <1>23
    <2>2. QED
      BY <2>1 DEF Promise!Next
  <1>24. Same \/ Promise!Next
    <2>1. ASSUME NEW c \in Calls, Handle(c) PROVE Same \/ Promise!Next
      BY <1>12, <1>13, <1>14, <1>23, <2>1 DEF Handle
    <2>2. QED
      BY <1>19, <1>20, <1>21, <1>22, <1>23, <2>1 DEF Next
  <1>25. QED
    BY <1>1, <1>24

\* The gateway and the conversations service implement the promise of one
\* announced row per message and of answers that name it.
THEOREM Implements == Spec => ImplementsPromise
  <1>1. Inv1 /\ Stage2 /\ OneRowPerMessage => PromiseInv
    BY DEF PromiseInv
  <1>2. QED
    BY <1>1, InitPromise, NextPromise, SpecInv1, SpecStage2, OneRow, PTL
    DEF Spec, ImplementsPromise, Promise!Spec

=============================================================================
