------------------------------- MODULE Pins -------------------------------
(***************************************************************************)
(* The pinned messages of one conversation: pinMessage and unpinMessage of *)
(* ConversationsService, and the bars of the two chat pages.               *)
(*                                                                         *)
(* A page pins over REST, changes its own bar, and then emits              *)
(* CHAT_MESSAGE_PINNED so that the gateway tells the room; the gateway     *)
(* runs the whole operation again before it does.  One element of PinCalls *)
(* is one tap: its REST leg and then its socket leg.                       *)
(***************************************************************************)
EXTENDS Integers, Sequences

CONSTANTS
  PinMsgs,   \* the conversation's messages
  Mine,      \* those the trainee wrote
  PinCalls   \* taps on "pin" and "unpin" (a bound)

People == {"trainee", "admin"}
NoOne == "nobody"

VARIABLES
  pinnedBy,  \* the columns pinnedAt and pinnedBy of a row
  gone,      \* soft-deleted rows
  tap,       \* the taps
  bar,       \* pinnedMessages of each page
  room,      \* CHAT_MESSAGE_PINNED on its way to each page
  fetch,     \* GET .../pinned of each page: not asked, its answer, or shown
  overlapped \* history: two pins of the trainee ran at the same time

vars == <<pinnedBy, gone, tap, bar, room, fetch, overlapped>>

Places == {"unused", "asked", "checked", "cleared", "done", "refused"}
Legs == {"rest", "socket"}
Taps == [at : Places, leg : Legs, by : People, op : {"pin", "unpin"}, msg : PinMsgs]
Unused(m) == [at |-> "unused", leg |-> "rest", by |-> "admin", op |-> "pin", msg |-> m]
Notices == [op : {"pin", "unpin"}, msg : PinMsgs]
NotAsked == [at |-> "initial", msgs |-> {}]

TypeOK ==
  /\ pinnedBy \in [PinMsgs -> People \cup {NoOne}]
  /\ gone \subseteq PinMsgs
  /\ tap \in [PinCalls -> Taps]
  /\ bar \in [People -> SUBSET PinMsgs]
  /\ room \in [People -> Seq(Notices)]
  /\ fetch \in [People -> [at : {"initial", "read", "shown"}, msgs : SUBSET PinMsgs]]
  /\ overlapped \in BOOLEAN

Init ==
  /\ pinnedBy = [m \in PinMsgs |-> NoOne]
  /\ gone = {}
  /\ tap = [c \in PinCalls |-> Unused(CHOOSE m \in PinMsgs : TRUE)]
  /\ bar = [u \in People |-> {}]
  /\ room = [u \in People |-> <<>>]
  /\ fetch = [u \in People |-> NotAsked]
  /\ overlapped = FALSE

-----------------------------------------------------------------------------
Running == {"asked", "checked", "cleared"}
TraineePinRuns(c) ==
  tap[c].by = "trainee" /\ tap[c].op = "pin" /\ tap[c].at \in Running

\* What the pages offer: the trainee pins own messages, the admin any; either
\* may unpin whatever its bar shows.
Offered(u, op, m) ==
  IF op = "pin" THEN m \notin gone /\ (u = "trainee" => m \in Mine) ELSE m \in bar[u]

\* handlePin and handleUnpin of the pages: PATCH or DELETE .../pin.
Tap(c, u, op, m) ==
  /\ tap[c].at = "unused" /\ Offered(u, op, m)
  /\ tap' = [tap EXCEPT ![c] =
               [at |-> "asked", leg |-> "rest", by |-> u, op |-> op, msg |-> m]]
  /\ overlapped' = (overlapped \/
       (u = "trainee" /\ op = "pin" /\ \E d \in PinCalls : TraineePinRuns(d)))
  /\ UNCHANGED <<pinnedBy, gone, bar, room, fetch>>

\* The reads and the guards of pinMessage and unpinMessage.  A refusal is a
\* toast on the REST leg and a CHAT_ERROR on the socket.
Allowed(t) ==
  /\ t.msg \notin gone
  /\ t.by = "trainee" =>
       IF t.op = "pin" THEN t.msg \in Mine ELSE pinnedBy[t.msg] = "trainee"

Check(c) ==
  /\ tap[c].at = "asked"
  /\ tap' = [tap EXCEPT ![c].at = IF Allowed(tap[c]) THEN "checked" ELSE "refused"]
  /\ UNCHANGED <<pinnedBy, gone, bar, room, fetch, overlapped>>

\* Mutant: nothing is cleared.
ClearNothing(c) ==
  /\ tap[c].at = "checked" /\ TraineePinRuns(c)
  /\ tap' = [tap EXCEPT ![c].at = "cleared"]
  /\ UNCHANGED <<pinnedBy, gone, bar, room, fetch, overlapped>>

\* A trainee's pin clears every pin of the conversation, the admin's too.
Clear(c) ==
  /\ tap[c].at = "checked" /\ TraineePinRuns(c)
  /\ pinnedBy' = [m \in PinMsgs |-> IF m \in gone THEN pinnedBy[m] ELSE NoOne]
  /\ tap' = [tap EXCEPT ![c].at = "cleared"]
  /\ UNCHANGED <<gone, bar, room, fetch, overlapped>>

\* The UPDATE by id, and what follows it: on the REST leg the page changes its
\* bar and emits, which starts the second leg; on the socket leg the gateway
\* tells both pages.
Write(c) ==
  LET t == tap[c] IN
  /\ t.at = IF TraineePinRuns(c) THEN "cleared" ELSE "checked"
  /\ pinnedBy' = [pinnedBy EXCEPT ![t.msg] = IF t.op = "pin" THEN t.by ELSE NoOne]
  /\ IF t.leg = "rest"
     THEN /\ tap' = [tap EXCEPT ![c].at = "asked", ![c].leg = "socket"]
          /\ bar' = [bar EXCEPT ![t.by] =
                       IF t.op = "pin" THEN @ \cup {t.msg} ELSE @ \ {t.msg}]
          /\ UNCHANGED room
     ELSE /\ tap' = [tap EXCEPT ![c].at = "done"]
          /\ room' = [u \in People |-> Append(room[u], [op |-> t.op, msg |-> t.msg])]
          /\ UNCHANGED bar
  /\ UNCHANGED <<gone, fetch, overlapped>>

\* onPinned of a page.
Deliver(u) ==
  /\ room[u] # <<>>
  /\ LET n == Head(room[u])
     IN bar' = [bar EXCEPT ![u] =
                  IF n.op = "pin" THEN @ \cup {n.msg} ELSE @ \ {n.msg}]
  /\ room' = [room EXCEPT ![u] = Tail(@)]
  /\ UNCHANGED <<pinnedBy, gone, tap, fetch, overlapped>>

\* getPinnedMessages when the page opens, and its answer.
Fetch(u) ==
  /\ fetch[u].at = "initial"
  /\ fetch' = [fetch EXCEPT ![u] =
       [at |-> "read", msgs |-> {m \in PinMsgs \ gone : pinnedBy[m] # NoOne}]]
  /\ UNCHANGED <<pinnedBy, gone, tap, bar, room, overlapped>>

ShowFetched(u) ==
  /\ fetch[u].at = "read"
  /\ bar' = [bar EXCEPT ![u] = fetch[u].msgs]
  /\ fetch' = [fetch EXCEPT ![u].at = "shown"]
  /\ UNCHANGED <<pinnedBy, gone, tap, room, overlapped>>

\* deleteMessage.  The pin columns stay, and no bar hears of it.
Delete(m) ==
  /\ m \notin gone
  /\ gone' = gone \cup {m}
  /\ UNCHANGED <<pinnedBy, tap, bar, room, fetch, overlapped>>

Next ==
  \/ \E c \in PinCalls :
       \/ \E u \in People, op \in {"pin", "unpin"}, m \in PinMsgs : Tap(c, u, op, m)
       \/ Check(c) \/ Clear(c) \/ Write(c)
  \/ \E u \in People : Deliver(u) \/ Fetch(u) \/ ShowFetched(u)
  \/ \E m \in PinMsgs : Delete(m)

Spec == Init /\ [][Next]_vars

-----------------------------------------------------------------------------
TraineePins == {m \in PinMsgs \ gone : pinnedBy[m] = "trainee"}

\* A trainee has at most one pin (conversations.service.ts:308-309), as long
\* as no second tap ran beside a pin of the trainee.  The pages start one
\* themselves: the socket leg of a tap is still running when its REST leg has
\* already shown the pin.
OneTraineePin == overlapped \/ \A m, n \in TraineePins : m = n
=============================================================================
