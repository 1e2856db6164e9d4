------------------------------ MODULE ChatSync ------------------------------
(***************************************************************************)
(* One viewer's message list against the server: the page loads, the room  *)
(* events and the outbox's answers that meet in chat.store.                *)
(*                                                                         *)
(* The server part is what the list can tell apart of ConversationsService *)
(* and ChatGateway: a message is stored, edited or deleted in one step and *)
(* announced to the room in a later one.  The client part is useMessages,  *)
(* the message part of chat.store and message-merge.  Messages are the     *)
(* numbers 1..LastMsg in the order of their createdAt; every message       *)
(* carries its client id, so identityKey is the message.                   *)
(***************************************************************************)
EXTENDS Integers, Sequences, FiniteSets, Filtering

CONSTANTS
  LastMsg,     \* messages that may be sent
  Own,         \* those the viewer sends, through the outbox
  Editable,    \* those somebody may edit (a bound)
  Deletable,   \* those somebody may delete (a bound)
  PageLimit,   \* the page size, 30 in the code
  MaxTurns,    \* openings of the page and drops of the connection (a bound)
  MaxMoves     \* those, and edits and deletions, together (a bound)

Msgs == 1..LastMsg

ASSUME SyncAssumption ==
  /\ LastMsg \in Nat \ {0} /\ PageLimit \in Nat \ {0}
  /\ Own \subseteq Msgs /\ Editable \subseteq Msgs /\ Deletable \subseteq Msgs
  /\ MaxTurns \in Nat /\ MaxMoves \in Nat

VARIABLES
  row,       \* the message's row: none, live or soft-deleted
  ver,       \* the version of its body: 1 once edited
  call,      \* how far the call that sends, edits or deletes it has come
  connected, \* the viewer's socket
  inRoom,    \* the socket is a member of the conversation's room
  asks,      \* CHAT_JOIN and CHAT_LEAVE: in the socket's buffer, or sent and on
             \* their way through the guard
  sends,     \* CHAT_SENDs of own messages that wait for their handler, by whether
             \* the connection they came on is still up
  answering, \* own messages stored by a call that came on the connection that is
             \* up, and which has not answered yet
  chan,      \* events on the socket, in order
  mounted,   \* the chat page is open and its listeners are attached
  load,      \* the message requests in flight
  list,      \* messages[conversationId] of the store
  cursor,    \* nextCursor[conversationId], 0 for null
  turns,     \* how often the page was opened or the connection dropped
  missed     \* history: messages of which an event never reached the list

server == <<row, ver, call>>
link == <<connected, inRoom, asks>>
own == <<sends, answering>>
page == <<mounted, turns>>
vars == <<row, ver, call, connected, inRoom, asks, sends, answering, chan, mounted,
          load, list, cursor, turns, missed>>

Ops == {"send", "edit", "delete"}
Steps == {"idle", "checked", "written", "announced", "refused"}
Kinds == {"new", "updated", "deleted", "ack"}
Events == [kind : Kinds, msg : Msgs, ver : 0..1]
Change(e) == e.kind \in {"updated", "deleted"}
\* An entry of the list: real once it carries the server's id.
Entries == [msg : Msgs, real : BOOLEAN, ver : 0..1]
Copies == [msg : Msgs, ver : 0..1]
Places == {"here", "gone"}
Slots == {"first", "second", "more"}
\* A request in flight: the page it read, and the messages whose change was
\* announced between the read and the answer.
Idle == [at |-> "idle", items |-> <<>>, next |-> 0, from |-> 0, since |-> {}]

TypeOK ==
  /\ row \in [Msgs -> {"none", "live", "deleted"}]
  /\ ver \in [Msgs -> 0..1]
  /\ call \in [Ops \X Msgs -> Steps]
  /\ connected \in BOOLEAN /\ inRoom \in BOOLEAN /\ mounted \in BOOLEAN
  /\ asks \in [{"join", "leave"} -> Nat]
  /\ sends \in [Places -> SUBSET Own] /\ answering \subseteq Own
  /\ chan \in Seq(Events)
  /\ \A s \in Slots :
       /\ load[s].at \in {"idle", "asked", "read"}
       /\ load[s].items \in Seq(Copies)
       /\ load[s].next \in 0..LastMsg /\ load[s].from \in 0..LastMsg
       /\ load[s].since \subseteq Msgs
  /\ list \in Seq(Entries)
  /\ cursor \in 0..LastMsg
  /\ turns \in 0..MaxTurns
  /\ missed \subseteq Msgs

Init ==
  /\ row = [m \in Msgs |-> "none"] /\ ver = [m \in Msgs |-> 0]
  /\ call = [c \in Ops \X Msgs |-> "idle"]
  /\ connected = TRUE /\ inRoom = FALSE
  /\ asks = [a \in {"join", "leave"} |-> 0]
  /\ sends = [p \in Places |-> {}] /\ answering = {}
  /\ chan = <<>> /\ mounted = FALSE
  /\ load = [s \in Slots |-> Idle]
  /\ list = <<>> /\ cursor = 0
  /\ turns = 0
  /\ missed = {}

-----------------------------------------------------------------------------
(* The list: message-merge.ts and the message part of chat.store.ts.       *)

Keys(l) == {l[i].msg : i \in 1..Len(l)}
Real(m) == \E i \in 1..Len(list) : list[i].msg = m /\ list[i].real
Without(l, keys) == {i \in 1..Len(l) : l[i].msg \notin keys}

\* reconcileMessage: replace in place, append what is new.
Reconciled(l, e) ==
  IF e.msg \in Keys(l)
  THEN [i \in 1..Len(l) |-> IF l[i].msg = e.msg THEN e ELSE l[i]]
  ELSE Append(l, e)

Confirmed(items) ==
  [i \in 1..Len(items) |->
     [msg |-> items[i].msg, real |-> TRUE, ver |-> items[i].ver]]

\* Mutants of the next two: a page that replaces the list, a page that leaves
\* what the list holds alone, and a page put in front unchecked.
MergedReplacing(l, items) == Confirmed(items)
MergedKeepingOurs(l, items) ==
  l \o Kept(Confirmed(items), Without(items, Keys(l)))
PrependedUnchecked(l, items) == Confirmed(items) \o l

\* mergeServerMessages: the page first, then every entry it does not hold.
Merged(l, items) ==
  Confirmed(items) \o Kept(l, Without(l, Keys(items)))

\* prependMessages: only what the list does not hold yet.
Prepended(l, items) ==
  Kept(Confirmed(items), Without(items, Keys(l))) \o l

\* updateMessage and removeMessage find an entry by the server's id, which an
\* optimistic entry does not carry.
Updated(l, m, v) ==
  [i \in 1..Len(l) |->
     IF l[i].msg = m /\ l[i].real THEN [l[i] EXCEPT !.ver = v] ELSE l[i]]

Removed(l, m) == Kept(l, {i \in 1..Len(l) : ~(l[i].msg = m /\ l[i].real)})

-----------------------------------------------------------------------------
(* The server.                                                             *)

\* What a room event does to the history when it is sent to nobody or falls
\* on a list that a page read earlier is about to overwrite.
Noted(m) ==
  [s \in Slots |-> IF load[s].at = "read"
                   THEN [load[s] EXCEPT !.since = @ \cup {m}] ELSE load[s]]

\* The outbox: insertOptimistic and the emit, or the same CHAT_SEND again after
\* its answer did not come.  (A message written offline is put into the list
\* with its first emit; one emit of a message at a time is a bound.)
Emit(m) ==
  /\ m \in Own /\ connected /\ m \notin sends["here"] \cup answering
  /\ m \in Keys(list) => ~Real(m)
  /\ m \notin Keys(list) => row[m] = "none"
  /\ \A i \in 1..Len(chan) : ~(chan[i].kind = "ack" /\ chan[i].msg = m)
  /\ sends' = [sends EXCEPT !["here"] = @ \cup {m}]
  /\ list' = IF m \in Keys(list) THEN list
             ELSE Append(list, [msg |-> m, real |-> FALSE, ver |-> 0])
  /\ UNCHANGED <<server, link, answering, chan, page, load, cursor, missed>>

Inserted(m) ==
  /\ row[m] = "none"
  /\ \A n \in 1..(m - 1) : row[n] # "none"
  /\ row' = [row EXCEPT ![m] = "live"]
  /\ call' = [call EXCEPT ![<<"send", m>>] = "written"]

\* sendMessage's transaction, for somebody else and for the viewer.
Store(m) ==
  /\ m \notin Own /\ Inserted(m)
  /\ UNCHANGED <<ver, link, own, chan, page, load, list, cursor, missed>>

StoreOwn(m, p) ==
  /\ m \in sends[p] /\ Inserted(m)
  /\ sends' = [sends EXCEPT ![p] = @ \ {m}]
  /\ answering' = IF p = "here" THEN answering \cup {m} ELSE answering
  /\ UNCHANGED <<ver, link, chan, page, load, list, cursor, missed>>

Changing == {c \in {"edit", "delete"} \X Msgs : call[c] # "idle"}
Bounded == turns + Cardinality(Changing) < MaxMoves

\* editMessage and deleteMessage read the row first ...
Check(op, m) ==
  /\ op = "edit" => m \in Editable
  /\ op = "delete" => m \in Deletable
  /\ row[m] # "none" /\ call[<<op, m>>] = "idle" /\ Bounded
  /\ call' = [call EXCEPT ![<<op, m>>] =
                IF row[m] = "live" THEN "checked" ELSE "refused"]
  /\ UNCHANGED <<row, ver, link, own, chan, page, load, list, cursor, missed>>

\* ... and write it in a second statement that does not look again.
WriteEdit(m) ==
  /\ call[<<"edit", m>>] = "checked"
  /\ ver' = [ver EXCEPT ![m] = 1]
  /\ call' = [call EXCEPT ![<<"edit", m>>] = "written"]
  /\ UNCHANGED <<row, link, own, chan, page, load, list, cursor, missed>>

WriteDelete(m) ==
  /\ call[<<"delete", m>>] = "checked"
  /\ row' = [row EXCEPT ![m] = "deleted"]
  /\ call' = [call EXCEPT ![<<"delete", m>>] = "written"]
  /\ UNCHANGED <<ver, link, own, chan, page, load, list, cursor, missed>>

\* server.to(room).emit(...): the event joins the channel of every member.
ToRoom(e) == IF inRoom THEN <<e>> ELSE <<>>

\* client.to(room).emit(...): not to the connection the message came on, which
\* learns of it from the answer.
AnnounceNew(m) ==
  /\ call[<<"send", m>>] = "written"
  /\ call' = [call EXCEPT ![<<"send", m>>] = "announced"]
  /\ IF m \in answering
     THEN UNCHANGED <<chan, missed>>
     ELSE /\ chan' = chan \o ToRoom([kind |-> "new", msg |-> m, ver |-> 0])
          /\ missed' = IF inRoom THEN missed ELSE missed \cup {m}
  /\ UNCHANGED <<row, ver, link, own, page, load, list, cursor>>

\* The answer comes last, and carries the row as it was stored.
Answer(m) ==
  /\ m \in answering /\ call[<<"send", m>>] = "announced"
  /\ answering' = answering \ {m}
  /\ chan' = Append(chan, [kind |-> "ack", msg |-> m, ver |-> 0])
  /\ UNCHANGED <<server, link, sends, page, load, list, cursor, missed>>

AnnounceChange(op, kind, m) ==
  /\ call[<<op, m>>] = "written"
  /\ call' = [call EXCEPT ![<<op, m>>] = "announced"]
  /\ chan' = chan \o ToRoom([kind |-> kind, msg |-> m, ver |-> ver[m]])
  /\ missed' = IF inRoom THEN missed ELSE missed \cup {m}
  /\ load' = IF inRoom THEN load ELSE Noted(m)
  /\ UNCHANGED <<row, ver, link, own, page, list, cursor>>

\* The repeated send is deduped; the answer carries the row as it now is,
\* deleted or not.
AnswerAgain(m) ==
  /\ m \in sends["here"] /\ row[m] # "none"
  /\ sends' = [sends EXCEPT !["here"] = @ \ {m}]
  /\ chan' = Append(chan, [kind |-> "ack", msg |-> m, ver |-> ver[m]])
  /\ UNCHANGED <<server, link, answering, page, load, list, cursor, missed>>

\* Mutant: a join answered as often as its handler likes.
HandleJoinRepeatedly ==
  /\ connected
  /\ asks' = [asks EXCEPT !["join"] = @ - 1]
  /\ inRoom' = TRUE
  /\ UNCHANGED <<server, connected, own, chan, page, load, list, cursor, missed>>

\* WsJwtGuard reads the user before each handler, so that a join and a leave
\* sent back to back may be handled in either order.
HandleJoin ==
  /\ connected /\ asks["join"] > 0
  /\ asks' = [asks EXCEPT !["join"] = @ - 1]
  /\ inRoom' = TRUE
  /\ UNCHANGED <<server, connected, own, chan, page, load, list, cursor, missed>>

HandleLeave ==
  /\ connected /\ asks["leave"] > 0
  /\ asks' = [asks EXCEPT !["leave"] = @ - 1]
  /\ inRoom' = FALSE
  /\ UNCHANGED <<server, connected, own, chan, page, load, list, cursor, missed>>

Live == {m \in Msgs : row[m] = "live"}

\* The newest `PageLimit` of a set of messages.
Newest(S) == {m \in S : Cardinality({n \in S : n > m}) < PageLimit}

\* getMessages reads the page with `limit + 1`.  With a cursor, `skip: 1` is
\* meant for the cursor's own row; once that row is deleted the filter has
\* already removed it, and the skip takes the next message instead.
Matching(from) ==
  IF from = 0 THEN Live
  ELSE LET older == {m \in Live : m < from}
       IN IF row[from] = "live" THEN older
          ELSE {m \in older : \E n \in older : n > m}

Copied(S) == Kept([m \in Msgs |-> [msg |-> m, ver |-> ver[m]]], S)

ReadPage(s) ==
  /\ load[s].at = "asked"
  /\ LET matching == Matching(load[s].from)
         items == Newest(matching)
     IN load' = [load EXCEPT
          ![s].at = "read", ![s].items = Copied(items),
          ![s].next = IF items = matching THEN 0
                      ELSE CHOOSE m \in items : \A n \in items : m <= n]
  /\ UNCHANGED <<server, link, own, chan, page, list, cursor, missed>>

-----------------------------------------------------------------------------
(* The chat page.                                                          *)

\* Two requests of loadInitial in flight at once are a bound; the first free
\* slot is taken.
FreeSlots == LET free == {s \in {"first", "second"} : load[s].at = "idle"}
             IN IF "first" \in free THEN {"first"} ELSE free

\* loadInitial.
Load(s) ==
  /\ s \in FreeSlots
  /\ load' = [load EXCEPT ![s] = [Idle EXCEPT !.at = "asked"]]

\* The effect of useMessages runs.  What is emitted while disconnected waits in
\* the socket's buffer.
Open(s) ==
  /\ ~mounted /\ turns < MaxTurns /\ Bounded
  /\ mounted' = TRUE /\ turns' = turns + 1
  /\ asks' = [asks EXCEPT !["join"] = @ + 1] /\ Load(s)
  /\ UNCHANGED <<server, connected, inRoom, own, chan, list, cursor, missed>>

\* Its cleanup: leave the room, detach the listeners.  Loads go on.
Close ==
  /\ mounted
  /\ mounted' = FALSE
  /\ asks' = [asks EXCEPT !["leave"] = @ + 1]
  /\ UNCHANGED <<server, connected, inRoom, turns, own, chan, load, list, cursor,
                 missed>>

\* The connection takes with it the events and answers on it, and the answers
\* that were to come on it.  A CHAT_SEND that has arrived may still be handled.
Drop ==
  /\ connected /\ turns < MaxTurns /\ Bounded
  /\ connected' = FALSE /\ inRoom' = FALSE /\ turns' = turns + 1
  /\ asks' = [a \in {"join", "leave"} |-> 0]
  /\ sends' = [here |-> {}, gone |-> sends["gone"] \cup sends["here"]]
  /\ answering' = {}
  /\ missed' = missed \cup {chan[i].msg : i \in 1..Len(chan)} \cup answering
  /\ LET changed == {chan[i].msg : i \in {j \in 1..Len(chan) : Change(chan[j])}}
     IN load' = [s \in Slots |-> IF load[s].at = "read"
                  THEN [load[s] EXCEPT !.since = @ \cup changed] ELSE load[s]]
  /\ chan' = <<>>
  /\ UNCHANGED <<server, mounted, list, cursor>>

\* The socket is back and sends its buffer, which a rebuilt one does not have;
\* onReconnect, if the page is open.
Connect(rebuilt) ==
  /\ ~connected /\ connected' = TRUE
  /\ LET kept == IF rebuilt THEN [a \in {"join", "leave"} |-> 0] ELSE asks
     IN IF mounted
        THEN /\ asks' = [kept EXCEPT !["join"] = @ + 1]
             /\ \E s \in FreeSlots : Load(s)
        ELSE asks' = kept /\ UNCHANGED load
  /\ UNCHANGED <<server, inRoom, own, chan, page, list, cursor, missed>>

\* loadMore: the button and the scroll position, behind isLoadingMore.
LoadMore ==
  /\ mounted /\ cursor # 0 /\ load["more"].at = "idle"
  /\ load' = [load EXCEPT !["more"] =
                [Idle EXCEPT !.at = "asked", !.from = cursor]]
  /\ UNCHANGED <<server, link, own, chan, page, list, cursor, missed>>

\* mergeMessages with the answer of loadInitial.  The page repairs what was
\* missed before it was read, and brings back what was announced since.
MergePage(s) ==
  /\ s # "more" /\ load[s].at = "read"
  /\ list' = Merged(list, load[s].items)
  /\ cursor' = load[s].next
  /\ load' = [load EXCEPT ![s] = Idle]
  /\ LET held == Keys(load[s].items)
     IN missed' = (missed \ held) \cup (held \cap load[s].since)
  /\ UNCHANGED <<server, link, own, chan, page>>

\* prependMessages with the answer of loadMore.
PrependPage ==
  /\ load["more"].at = "read"
  /\ list' = Prepended(list, load["more"].items)
  /\ cursor' = load["more"].next
  /\ load' = [load EXCEPT !["more"] = Idle]
  /\ missed' = LET fresh == Keys(load["more"].items) \ Keys(list)
               IN (missed \ fresh) \cup (fresh \cap load["more"].since)
  /\ UNCHANGED <<server, link, own, chan, page>>

\* Either request may fail; the catch keeps the list as it is.
LoadFails(s) ==
  /\ load[s].at = "asked"
  /\ load' = [load EXCEPT ![s] = Idle]
  /\ UNCHANGED <<server, link, own, chan, page, list, cursor, missed>>

\* The next event on the socket.  The outbox handles its ack wherever the user
\* is; the room events find no listener once the page is closed.  The message
\* itself, with no change of it before, repairs what was missed.
Applied(e) ==
  CASE e.kind \in {"new", "ack"} ->
         Reconciled(list, [msg |-> e.msg, real |-> TRUE, ver |-> e.ver])
    [] e.kind = "updated" -> Updated(list, e.msg, e.ver)
    [] e.kind = "deleted" -> Removed(list, e.msg)

\* A message announced or acknowledged after a change of it that is not behind
\* it in the channel.
Overtaken(e) ==
  /\ e.kind \in {"new", "ack"}
  /\ \E change \in {<<"edit", "updated">>, <<"delete", "deleted">>} :
       /\ call[<<change[1], e.msg>>] = "announced"
       /\ \A i \in 2..Len(chan) :
            ~(chan[i].msg = e.msg /\ chan[i].kind = change[2])

Deliver ==
  /\ chan # <<>>
  /\ chan' = Tail(chan)
  /\ LET e == Head(chan)
         heard == mounted \/ e.kind = "ack"
     IN /\ list' = IF heard THEN Applied(e) ELSE list
        /\ missed' = IF ~heard \/ Overtaken(e) THEN missed \cup {e.msg}
                     ELSE IF Change(e) THEN missed ELSE missed \ {e.msg}
        /\ load' = IF Change(e) THEN Noted(e.msg) ELSE load
  /\ UNCHANGED <<server, link, own, page, cursor>>

-----------------------------------------------------------------------------
Next ==
  \/ \E m \in Msgs :
       \/ Store(m) \/ WriteEdit(m) \/ WriteDelete(m)
       \/ \E op \in {"edit", "delete"} : Check(op, m)
       \/ AnnounceNew(m)
       \/ AnnounceChange("edit", "updated", m)
       \/ AnnounceChange("delete", "deleted", m)
       \/ Emit(m) \/ Answer(m) \/ AnswerAgain(m)
       \/ \E p \in Places : StoreOwn(m, p)
  \/ HandleJoin \/ HandleLeave
  \/ \E s \in {"first", "second"} : Open(s) \/ MergePage(s)
  \/ Close \/ Drop
  \/ \E rebuilt \in BOOLEAN : Connect(rebuilt)
  \/ LoadMore \/ PrependPage
  \/ \E s \in Slots : ReadPage(s) \/ LoadFails(s)
  \/ Deliver

Spec == Init /\ [][Next]_vars

-----------------------------------------------------------------------------
(* Properties.                                                             *)

\* One bubble per message: the optimistic entry, its ack, its broadcast and
\* every page that holds it end in the same entry (message-merge.ts).
NoDuplicates ==
  \A i, j \in 1..Len(list) : list[i].msg = list[j].msg => i = j

\* Nothing is under way and the viewer looks at the page.
Quiet ==
  /\ connected /\ mounted /\ inRoom /\ chan = <<>>
  /\ \A a \in DOMAIN asks : asks[a] = 0
  /\ sends["here"] = {} /\ answering = {}
  /\ \A s \in Slots : load[s].at = "idle"
  /\ \A c \in Ops \X Msgs : call[c] \notin {"checked", "written"}

Shown(m) == \E i \in 1..Len(list) :
              list[i].msg = m /\ list[i].real /\ list[i].ver = ver[m]

\* Once everything has settled, a list differs from the database only in
\* messages of which an event or the answer was lost (sent while the socket was
\* not in the room, or the page closed, or the connection dropped), overtaken by
\* the message's own announcement, or undone by a page that was read before it
\* (useMessages.ts:69).  Of every other message that is stored: it is in the
\* list exactly if it is live, and then confirmed and current.  What has not
\* been stored is shown as not sent.
SettledListIsCurrent ==
  Quiet => \A m \in Msgs \ missed :
    IF row[m] = "none" THEN ~Real(m)
    ELSE /\ m \in Keys(list) => row[m] = "live"
         /\ row[m] = "live" => Shown(m)

\* A message leaves the list only because it was deleted: no page, reconnect
\* or answer makes one disappear (message-merge.ts:109-116).
OnlyDeletionRemoves ==
  [][\A m \in Keys(list) \ Keys(list') : row[m] = "deleted"]_vars

\* What a merge keeps beside the page is newer than the page: the comment at
\* message-merge.ts:106 ("they are the newest, by construction").  It is not:
\* after "load more" the list holds older messages, and the next reconnect
\* puts them below the newest page.
PreservedAreNewest ==
  [][\A s \in {"first", "second"} :
       MergePage(s) => \A m \in Keys(list) \ Keys(load[s].items) :
                         \A n \in Keys(load[s].items) : m > n]_vars
=============================================================================
