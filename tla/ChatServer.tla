------------------------------ MODULE ChatServer ------------------------------
(***************************************************************************)
(* The API side of a chat message: ChatGateway.handleSendMessage and the   *)
(* REST route, ConversationsService.sendMessage with its transaction, the  *)
(* delete and mark-as-read handlers that touch the same rows, failures of  *)
(* single database calls, and a crash of the API process.                  *)
(*                                                                         *)
(* One action is one piece of a handler between two awaits.  A handler     *)
(* invocation is an element of Calls; the row it creates is identified by  *)
(* the same element.  A trainee has exactly one conversation               *)
(* (Conversation.userId is unique), so a conversation is named by its      *)
(* trainee.  Message bodies, attachments and reply targets are payload: no *)
(* guard depends on them (an invalid reply target is silently dropped).    *)
(***************************************************************************)
EXTENDS Naturals, FiniteSets

CONSTANTS
  Trainees, Admins,   \* user ids by role
  Cids,               \* clientMessageIds
  ShortCids,          \* those the handlers refuse as malformed
  Channels,           \* how requests arrive: a subset of {"socket", "rest"}
  Calls,              \* handler invocations, which bounds a behaviour
  Missing,            \* a conversation id that is in no table
  None,
  MaxCrashes,         \* bound on crashes of the API process
  DbErrors,           \* TRUE: any database call may fail
  LostCommitReplies   \* TRUE: a COMMIT may succeed and its reply be lost

Senders == Trainees \cup Admins
Requests ==
  [sender: Senders, cid: Cids, conv: Trainees \cup {Missing}, via: Channels]
Sides == {"admin", "user"}
FailureCodes == {"VALIDATION", "NOT_FOUND", "FORBIDDEN", "INTERNAL"}

ASSUME ChatServerAssumption ==
  /\ Trainees \cap Admins = {}
  /\ Missing \notin Trainees
  /\ None \notin Requests \cup Calls \cup (Senders \X Cids)
  /\ ShortCids \subseteq Cids
  /\ Channels \subseteq {"socket", "rest"}
  /\ IsFiniteSet(Calls)
  /\ MaxCrashes \in Nat
  /\ DbErrors \in BOOLEAN /\ LostCommitReplies \in BOOLEAN

VARIABLES
  req,         \* req[c]: the request call c serves, None before it arrives
  pc,          \* pc[c]: the await call c is at
  ack,         \* ack[c]: "none", "ok", "deduped" or a failure code
  acked,       \* acked[c]: the row a success answer carries
  row,         \* row[c]: "none", "pending" (uncommitted), "stored", "deleted"
  createdAt,   \* createdAt[c]: creation order of the row of c, 0 without one
  summary,     \* summary[t]: the row lastMessageText/lastMessageAt came from
  unread,      \* unread["admin"][t], unread["user"][t]: the two counters
  unseen,      \* history: the rows committed since the counter was reset
  broadcasts,  \* broadcasts[c]: CHAT_MESSAGE_NEW emissions of the row of c
  notified,    \* the rows a notification went out for
  crashes

vars == <<req, pc, ack, acked, row, createdAt, summary, unread, unseen,
          broadcasts, notified, crashes>>

Key(c) == <<req[c].sender, req[c].cid>>

\* Unread is counted for the other side: the admins share one counter.
ReaderSide(c) == IF req[c].sender \in Trainees THEN "admin" ELSE "user"

Durable == {"stored", "deleted"}

\* findByClientMessageId: the committed row of a message, soft-deleted or not.
RowsOfIgnoringDeleted(k) == {w \in Calls : row[w] = "stored" /\ Key(w) = k}
RowsOfAnySender(k) == {w \in Calls : row[w] \in Durable /\ Key(w)[2] = k[2]}
RowsOf(k) == {w \in Calls : row[w] \in Durable /\ Key(w) = k}

----------------------------------------------------------------------------
\* Answering a call.

Goto(c, place) == pc' = [pc EXCEPT ![c] = place]

Answer(c, a, w) ==
  /\ Goto(c, "done")
  /\ ack' = [ack EXCEPT ![c] = a]
  /\ acked' = [acked EXCEPT ![c] = w]

Fail(c, code) == Answer(c, code, None)

rowVars == <<row, createdAt, summary, unread, unseen>>
effectVars == <<broadcasts, notified, crashes>>

----------------------------------------------------------------------------
\* Arrival.  A clientMessageId is generated for one message, so requests of
\* one sender that share it repeat the same request.

Arrives(c, r) ==
  /\ req[c] = None
  /\ pc[c] = "idle"
  /\ \A d \in Calls :
       req[d] # None /\ Key(d) = <<r.sender, r.cid>> => req[d].conv = r.conv
  /\ req' = [req EXCEPT ![c] = r]

Receive(c) ==
  /\ \E r \in Requests : Arrives(c, r) /\ r.cid \notin ShortCids
  /\ Goto(c, "conversation")
  /\ UNCHANGED <<ack, acked, rowVars, effectVars>>

RejectMalformed(c) ==
  /\ \E r \in Requests : Arrives(c, r) /\ r.cid \in ShortCids
  /\ Fail(c, "VALIDATION")
  /\ UNCHANGED <<rowVars, effectVars>>

----------------------------------------------------------------------------
\* sendMessage.

Allowed(r) == r.conv \in Trainees /\ (r.sender \in Trainees => r.sender = r.conv)

LookupConversation(c) ==
  /\ pc[c] = "conversation"
  /\ \/ Allowed(req[c]) /\ Goto(c, "lookup") /\ UNCHANGED <<ack, acked>>
     \/ req[c].conv = Missing /\ Fail(c, "NOT_FOUND")
     \/ req[c].conv # Missing /\ ~Allowed(req[c]) /\ Fail(c, "FORBIDDEN")
  /\ UNCHANGED <<req, rowVars, effectVars>>

\* The idempotency fast path: answer with the row that is already there.
FastPath(c) ==
  /\ pc[c] = "lookup"
  /\ \/ \E w \in RowsOf(Key(c)) : Answer(c, "deduped", w)
     \/ RowsOf(Key(c)) = {} /\ Goto(c, "create") /\ UNCHANGED <<ack, acked>>
  /\ UNCHANGED <<req, rowVars, effectVars>>

NextStamp == 1 + Cardinality({w \in Calls : createdAt[w] > 0})

InsertRow(c) ==
  /\ row' = [row EXCEPT ![c] = "pending"]
  /\ createdAt' = [createdAt EXCEPT ![c] = NextStamp]
  /\ Goto(c, "commit")

\* tx.message.create.  The unique index on (senderId, clientMessageId) makes
\* the insert wait for an uncommitted row with the same key and refuses it
\* when a committed one is there.
TxCreateWithoutIndex(c) ==
  /\ pc[c] = "create"
  /\ InsertRow(c)
  /\ UNCHANGED <<req, ack, acked, summary, unread, unseen, effectVars>>

TxCreate(c) ==
  /\ pc[c] = "create"
  /\ \A w \in Calls : ~(row[w] = "pending" /\ Key(w) = Key(c))
  /\ \/ /\ RowsOf(Key(c)) = {}
        /\ InsertRow(c)
     \/ /\ RowsOf(Key(c)) # {}
        /\ Goto(c, "winner")
        /\ UNCHANGED <<row, createdAt>>
  /\ UNCHANGED <<req, ack, acked, summary, unread, unseen, effectVars>>

\* tx.conversation.update and COMMIT: the row lock on the conversation is held
\* from the one to the other, so they take effect together.
CommitRow(c) ==
  LET t == req[c].conv
      s == ReaderSide(c)
  IN /\ pc[c] = "commit"
     /\ row' = [row EXCEPT ![c] = "stored"]
     /\ summary' = [summary EXCEPT ![t] = c]
     /\ unread' = [unread EXCEPT ![s][t] = @ + 1]
     /\ unseen' = [unseen EXCEPT ![s][t] = @ \cup {c}]
     /\ UNCHANGED <<req, createdAt, effectVars>>

TxCommitSkippingStage2(c) == CommitRow(c) /\ Answer(c, "ok", c)

\* Only the gateway goes on to stage 2; the REST route answers at once.
TxCommit(c) ==
  /\ CommitRow(c)
  /\ \/ req[c].via = "rest" /\ Answer(c, "ok", c)
     \/ req[c].via = "socket" /\ Goto(c, "broadcast") /\ UNCHANGED <<ack, acked>>

\* The commit happened but the driver reports a lost connection: the catch
\* block rethrows and the caller is told the message was not stored.
LoseCommitReply(c) ==
  /\ LostCommitReplies
  /\ CommitRow(c)
  /\ Fail(c, "INTERNAL")

\* The unique violation handler looks the winning row up.  Rows are never
\* removed, so the rethrow for a missing winner is unreachable.
ReturnWinner(c) ==
  /\ pc[c] = "winner"
  /\ \E w \in RowsOf(Key(c)) : Answer(c, "deduped", w)
  /\ UNCHANGED <<req, rowVars, effectVars>>

\* A database call fails: an open transaction rolls back and the call is
\* answered with INTERNAL.
DbErrorWithoutRollback(c) ==
  /\ DbErrors
  /\ pc[c] \in {"conversation", "lookup", "create", "commit", "winner"}
  /\ Fail(c, "INTERNAL")
  /\ row' = [row EXCEPT ![c] = IF @ = "pending" THEN "stored" ELSE @]
  /\ UNCHANGED <<req, createdAt, summary, unread, unseen, effectVars>>

DbErrorLeakingTransaction(c) ==
  /\ DbErrors
  /\ pc[c] \in {"conversation", "lookup", "create", "commit", "winner"}
  /\ Fail(c, "INTERNAL")
  /\ UNCHANGED <<req, rowVars, effectVars>>

DbError(c) ==
  /\ DbErrors
  /\ pc[c] \in {"conversation", "lookup", "create", "commit", "winner"}
  /\ Fail(c, "INTERNAL")
  /\ row' = [row EXCEPT ![c] = IF @ = "pending" THEN "none" ELSE @]
  /\ createdAt' = [createdAt EXCEPT ![c] = IF row[c] = "pending" THEN 0 ELSE @]
  /\ UNCHANGED <<req, summary, unread, unseen, effectVars>>

----------------------------------------------------------------------------
\* Stage 2 of the gateway: best effort, the success answer is already locked.

BroadcastInsideTransaction(c) ==
  /\ pc[c] \in {"commit", "broadcast"}
  /\ broadcasts' = [broadcasts EXCEPT ![c] = @ + 1]
  /\ IF pc[c] = "broadcast" THEN Goto(c, "notify") ELSE UNCHANGED pc
  /\ UNCHANGED <<req, ack, acked, rowVars, notified, crashes>>

Broadcast(c) ==
  /\ pc[c] = "broadcast"
  /\ broadcasts' = [broadcasts EXCEPT ![c] = @ + 1]
  /\ Goto(c, "notify")
  /\ UNCHANGED <<req, ack, acked, rowVars, notified, crashes>>

NotifyFailingTheAck(c) ==
  /\ pc[c] = "notify"
  /\ Fail(c, "INTERNAL")
  /\ UNCHANGED <<req, rowVars, effectVars>>

\* findOneById and the notifications; an error there is logged and swallowed.
Notify(c) ==
  /\ pc[c] = "notify"
  /\ Answer(c, "ok", c)
  /\ \/ notified' = notified \cup {c}
     \/ DbErrors /\ UNCHANGED notified
  /\ UNCHANGED <<req, rowVars, broadcasts, crashes>>

----------------------------------------------------------------------------
\* The other handlers that write the same rows.

\* deleteMessage: a soft delete by an admin or by the sender.  Its existence
\* check and its update are two statements, but a second delete that slips in
\* between only repeats the same write.
Delete(m, u) ==
  /\ row[m] = "stored"
  /\ u \in Admins \/ u = req[m].sender
  /\ row' = [row EXCEPT ![m] = "deleted"]
  /\ UNCHANGED <<req, pc, ack, acked, createdAt, summary, unread, unseen, effectVars>>

\* markMessagesAsRead, the last step of getMessages and of handleSeen.
MarkReadDecrementing(s, t) ==
  /\ unread' = [unread EXCEPT ![s][t] = @ - 1]
  /\ unseen' = [unseen EXCEPT ![s][t] = {}]
  /\ UNCHANGED <<req, pc, ack, acked, row, createdAt, summary, effectVars>>

MarkRead(s, t) ==
  /\ unread[s][t] > 0
  /\ unread' = [unread EXCEPT ![s][t] = 0]
  /\ unseen' = [unseen EXCEPT ![s][t] = {}]
  /\ UNCHANGED <<req, pc, ack, acked, row, createdAt, summary, effectVars>>

\* The API process dies: running handlers are gone without an answer and the
\* database rolls their open transactions back.
Crash ==
  /\ crashes < MaxCrashes
  /\ crashes' = crashes + 1
  /\ pc' = [c \in Calls |-> IF pc[c] \in {"idle", "done"} THEN pc[c] ELSE "lost"]
  /\ row' = [c \in Calls |-> IF row[c] = "pending" THEN "none" ELSE row[c]]
  /\ createdAt' = [c \in Calls |-> IF row[c] = "pending" THEN 0 ELSE createdAt[c]]
  /\ UNCHANGED <<req, ack, acked, summary, unread, unseen, broadcasts, notified>>

----------------------------------------------------------------------------
Init ==
  /\ req = [c \in Calls |-> None]
  /\ pc = [c \in Calls |-> "idle"]
  /\ ack = [c \in Calls |-> "none"]
  /\ acked = [c \in Calls |-> None]
  /\ row = [c \in Calls |-> "none"]
  /\ createdAt = [c \in Calls |-> 0]
  /\ summary = [t \in Trainees |-> None]
  /\ unread = [s \in Sides |-> [t \in Trainees |-> 0]]
  /\ unseen = [s \in Sides |-> [t \in Trainees |-> {}]]
  /\ broadcasts = [c \in Calls |-> 0]
  /\ notified = {}
  /\ crashes = 0

\* One more step of the handler of call c.
Handle(c) ==
  \/ LookupConversation(c) \/ FastPath(c) \/ TxCreate(c) \/ TxCommit(c)
  \/ ReturnWinner(c) \/ Broadcast(c) \/ Notify(c)

Next ==
  \/ \E c \in Calls :
       \/ Receive(c) \/ RejectMalformed(c) \/ Handle(c)
       \/ LoseCommitReply(c) \/ DbError(c)
       \/ \E u \in Senders : Delete(c, u)
  \/ \E s \in Sides, t \in Trainees : MarkRead(s, t)
  \/ Crash

Spec == Init /\ [][Next]_vars

\* The event loop runs every handler whose database call has returned.
FairSpec == Spec /\ \A c \in Calls : WF_vars(Handle(c))
----------------------------------------------------------------------------
\* Properties.

\* Types of the variables.
TypeOK ==
  /\ req \in [Calls -> Requests \cup {None}]
  /\ pc \in [Calls -> {"idle", "conversation", "lookup", "create", "commit", "winner",
                       "broadcast", "notify", "done", "lost"}]
  /\ ack \in [Calls -> {"none", "ok", "deduped"} \cup FailureCodes]
  /\ acked \in [Calls -> Calls \cup {None}]
  /\ row \in [Calls -> {"none", "pending"} \cup Durable]
  /\ createdAt \in [Calls -> Nat]
  /\ summary \in [Trainees -> Calls \cup {None}]
  /\ unread \in [Sides -> [Trainees -> Nat]]
  /\ unseen \in [Sides -> [Trainees -> SUBSET Calls]]
  /\ broadcasts \in [Calls -> Nat]
  /\ notified \subseteq Calls
  /\ crashes \in Nat

\* A message has at most one row however often, and however concurrently, it
\* is sent; deleting it does not make room for another one.
OneRowPerMessage ==
  \A c, d \in Calls :
    row[c] # "none" /\ row[d] # "none" /\ Key(c) = Key(d) => c = d

\* A success answer carries the durable row of the message that was sent, so
\* any two successes for one message carry the same row.
AckNamesTheRow ==
  \A c \in Calls :
    ack[c] \in {"ok", "deduped"} =>
      /\ acked[c] \in Calls
      /\ row[acked[c]] \in Durable
      /\ Key(acked[c]) = Key(c)

\* The two counters count exactly the rows that were committed for that side
\* since it last read the conversation: none twice, none lost to a rollback.
UnreadCountsUnseen ==
  \A s \in Sides, t \in Trainees : unread[s][t] = Cardinality(unseen[s][t])

\* The conversation summary and the messages commit together: a conversation
\* has a last message exactly when it has a durable row, and it is one of them.
SummaryIsOfARow ==
  \A t \in Trainees :
    LET ofT == {c \in Calls : row[c] \in Durable /\ req[c].conv = t}
    IN IF ofT = {} THEN summary[t] = None ELSE summary[t] \in ofT

\* Nobody is told of a row that could still roll back, and nobody twice: an
\* announced row is durable and announced once, and it was announced before
\* a notification named it.
AnnouncedOnce ==
  \A c \in Calls :
    /\ broadcasts[c] <= 1
    /\ broadcasts[c] = 1 => row[c] \in Durable
    /\ c \in notified => broadcasts[c] = 1

\* A call answered with a failure left no row of its own behind (when no
\* COMMIT loses its reply): side effects never turn a stored message into a
\* failed one.
FailedCallStoredNothing ==
  \A c \in Calls : ack[c] \in FailureCodes => row[c] = "none"

\* A duplicate skips the side effects because the first delivery did them or
\* is about to.
DedupedWasBroadcast ==
  \A c \in Calls :
    ack[c] = "deduped" => broadcasts[acked[c]] = 1 \/ pc[acked[c]] = "broadcast"

\* sendMessage promises that the message and the conversation summary "can
\* never diverge": the summary would show the newest durable message.
SummaryIsNewest ==
  \A t \in Trainees, c \in Calls :
    row[c] \in Durable /\ req[c].conv = t => createdAt[c] <= createdAt[summary[t]]

\* Every request that arrived is answered, whatever the other calls that wait
\* for the same index entry do.
CallsAnswered == \A c \in Calls : req[c] # None ~> pc[c] = "done"

\* The handlers implement the promise.
Promise == INSTANCE SendPromise WITH
  Keys <- Senders \X Cids,
  asked <- [c \in Calls |-> IF req[c] = None THEN None ELSE Key(c)],
  rows <- {c \in Calls : row[c] \in Durable},
  answer <- [c \in Calls |-> IF ack[c] \in FailureCodes THEN "failed" ELSE acked[c]],
  announced <- broadcasts

ImplementsPromise == Promise!Spec

=============================================================================
