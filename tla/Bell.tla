-------------------------------- MODULE Bell --------------------------------
(***************************************************************************)
(* The unread badge and the bell of one trainee's tab, for the trainee's   *)
(* conversation: NotificationsProvider with its seed, the notification     *)
(* store, and the handlers of the gateway that emit                        *)
(* CHAT_CONVERSATION_UPDATED and NOTIFICATION_NEW.                         *)
(*                                                                         *)
(* A message of an admin raises unreadByUser, CHAT_SEEN resets it; each    *)
(* handler reads the conversation again before it emits, so that handlers  *)
(* that interleave can emit an older count last.                           *)
(***************************************************************************)
EXTENDS Integers, Sequences, FiniteSets

CONSTANTS
  Letters,  \* messages of admins (a bound)
  Looks     \* CHAT_SEEN handlers (a bound)

Handlers == Letters \cup Looks
Counts == 0..Cardinality(Letters)

VARIABLES
  unread,   \* unreadByUser
  handler,  \* the handlers, and the count each has read
  wire,     \* events on their way to the tab
  online,   \* the socket is connected and in the user's room
  viewing,  \* the path is /chat
  badge,    \* unreadByUser of the conversation in the chat store
  item,     \* the conversation's entry in the bell
  panel,    \* the bell was opened less than 1.2 s ago
  seed,     \* the request of the provider, and what it read
  stale,    \* history: the last emission was older than the count
  missed    \* history: an event that the tab did not get, or too early

vars == <<unread, handler, wire, online, viewing, badge, item, panel, seed, stale, missed>>
screen == <<badge, item, panel>>

Events == [kind : {"updated", "note"}, n : Counts]

TypeOK ==
  /\ unread \in Counts
  /\ handler \in [Handlers -> [at : {"unused", "writing", "reading", "telling", "done"},
                               n : Counts]]
  /\ wire \in Seq(Events)
  /\ online \in BOOLEAN /\ viewing \in BOOLEAN /\ panel \in BOOLEAN
  /\ badge \in Counts /\ item \in {"none", "unread", "read"}
  /\ seed \in [at : {"asking", "read", "shown"}, n : Counts, allowed : BOOLEAN]
  /\ stale \in BOOLEAN /\ missed \in BOOLEAN

NewSeed == [at |-> "asking", n |-> 0, allowed |-> TRUE]

Init ==
  /\ unread = 0 /\ handler = [h \in Handlers |-> [at |-> "unused", n |-> 0]]
  /\ wire = <<>> /\ online = TRUE /\ viewing = FALSE
  /\ badge = 0 /\ item = "none" /\ panel = FALSE
  /\ seed = NewSeed /\ stale = FALSE /\ missed = FALSE

-----------------------------------------------------------------------------
\* Stage 1 of an admin's CHAT_SEND commits with the counter.
Send(m) ==
  /\ handler[m].at = "unused"
  /\ unread' = unread + 1
  /\ handler' = [handler EXCEPT ![m].at = "reading"]
  /\ UNCHANGED <<wire, online, viewing, screen, seed, stale, missed>>

\* The chat page emits CHAT_SEEN whenever its list changes; markMessagesAsRead
\* comes after two awaits of handleSeen.
Look(k) ==
  /\ handler[k].at = "unused" /\ viewing /\ online
  /\ handler' = [handler EXCEPT ![k].at = "writing"]
  /\ UNCHANGED <<unread, wire, online, viewing, screen, seed, stale, missed>>

MarkRead(k) ==
  /\ handler[k].at = "writing"
  /\ unread' = 0
  /\ handler' = [handler EXCEPT ![k].at = "reading"]
  /\ UNCHANGED <<wire, online, viewing, screen, seed, stale, missed>>

\* findOneById.
ReadConversation(h) ==
  /\ handler[h].at = "reading"
  /\ handler' = [handler EXCEPT ![h] = [at |-> "telling", n |-> unread]]
  /\ UNCHANGED <<unread, wire, online, viewing, screen, seed, stale, missed>>

\* The emissions to the user's room: a message also brings its notification.
Tell(h) ==
  /\ handler[h].at = "telling"
  /\ handler' = [handler EXCEPT ![h].at = "done"]
  /\ LET n == handler[h].n
         events == IF h \in Looks THEN <<[kind |-> "updated", n |-> n]>>
                   ELSE <<[kind |-> "updated", n |-> n], [kind |-> "note", n |-> n]>>
     IN /\ wire' = IF online THEN wire \o events ELSE wire
        /\ missed' = (missed \/ (~online /\ (seed.at # "asking" \/ item # "none")))
        /\ stale' = (n # unread \/ (h \in Letters /\ n = 0))
  /\ UNCHANGED <<unread, online, viewing, screen, seed>>

-----------------------------------------------------------------------------
\* The provider's request when the layout mounts, and its answer.
ReadSeed ==
  /\ seed.at = "asking"
  /\ seed' = [seed EXCEPT !.at = "read", !.n = unread]
  /\ UNCHANGED <<unread, handler, wire, online, viewing, screen, stale, missed>>

ShowSeed ==
  /\ seed.at = "read"
  /\ seed' = [seed EXCEPT !.at = "shown"]
  /\ badge' = seed.n
  /\ item' = IF seed.allowed /\ seed.n > 0 THEN "unread" ELSE item
  /\ UNCHANGED <<unread, handler, wire, online, viewing, panel, stale, missed>>

\* Mutant: the bell keeps the entry of a conversation that was read elsewhere.
ReceiveKeepingItem ==
  /\ wire # <<>> /\ wire' = Tail(wire)
  /\ IF Head(wire).kind = "updated"
     THEN badge' = Head(wire).n /\ UNCHANGED item
     ELSE item' = (IF viewing THEN item ELSE "unread") /\ UNCHANGED badge
  /\ missed' = (missed \/ seed.at = "read")
  /\ UNCHANGED <<unread, handler, online, viewing, panel, seed, stale>>

\* handleConversationUpdated clears the entry at zero; handleNotification adds
\* one, in place of the old, unless the chat is open.  A seed that was read
\* before overwrites either.
Receive ==
  /\ wire # <<>> /\ wire' = Tail(wire)
  /\ IF Head(wire).kind = "updated"
     THEN badge' = Head(wire).n /\ item' = IF Head(wire).n = 0 THEN "none" ELSE item
     ELSE item' = (IF viewing THEN item ELSE "unread") /\ UNCHANGED badge
  /\ missed' = (missed \/ seed.at = "read")
  /\ UNCHANGED <<unread, handler, online, viewing, panel, seed, stale>>

\* toggle of NotificationBell, and markAllRead 1.2 s later.
OpenBell ==
  /\ ~panel /\ panel' = TRUE
  /\ UNCHANGED <<unread, handler, wire, online, viewing, badge, item, seed, stale, missed>>

MarkAllRead ==
  /\ panel /\ panel' = FALSE
  /\ item' = IF item = "unread" THEN "read" ELSE item
  /\ UNCHANGED <<unread, handler, wire, online, viewing, badge, seed, stale, missed>>

Go ==
  /\ viewing' = ~viewing
  /\ UNCHANGED <<unread, handler, wire, online, screen, seed, stale, missed>>

\* The events on their way are lost; the next socket joins the room again, and
\* nothing is asked for.
CutOff ==
  /\ online /\ online' = FALSE
  /\ wire' = <<>> /\ missed' = (missed \/ wire # <<>>)
  /\ UNCHANGED <<unread, handler, viewing, screen, seed, stale>>

Reconnect ==
  /\ ~online /\ online' = TRUE
  /\ UNCHANGED <<unread, handler, wire, viewing, screen, seed, stale, missed>>

\* A new page: empty stores and a new seed.
Reload ==
  /\ wire' = <<>> /\ online' = FALSE
  /\ badge' = 0 /\ item' = "none" /\ panel' = FALSE
  /\ seed' = NewSeed /\ stale' = FALSE /\ missed' = FALSE
  /\ UNCHANGED <<unread, handler, viewing>>

\* A logout and a login in the same page: the provider mounts again, and the
\* stores still hold what they held.
Remount ==
  /\ seed.at = "shown"
  /\ wire' = <<>> /\ online' = FALSE /\ viewing' = FALSE /\ panel' = FALSE
  /\ seed' = [NewSeed EXCEPT !.allowed = (item = "none")]
  /\ missed' = (item # "none" /\ (missed \/ stale \/ wire # <<>>))
  /\ stale' = FALSE
  /\ UNCHANGED <<unread, handler, badge, item>>

Next ==
  \/ \E m \in Letters : Send(m)
  \/ \E k \in Looks : Look(k) \/ MarkRead(k)
  \/ \E h \in Handlers : ReadConversation(h) \/ Tell(h)
  \/ ReadSeed \/ ShowSeed \/ Receive \/ OpenBell \/ MarkAllRead
  \/ Go \/ CutOff \/ Reconnect \/ Reload \/ Remount

Spec == Init /\ [][Next]_vars

-----------------------------------------------------------------------------
\* When nothing runs and nothing is on its way, the badge is the stored count
\* and the bell has no entry for a conversation that was read: also when it was
\* read in another tab.  What the code does not cover is named: a last emission
\* that was older than the count, or a notification of a message that was read
\* already; an event emitted while the tab was offline, since nothing is asked
\* for after a reconnect; and one that came before the answer to the seed
\* (NotificationsProvider.tsx:52-114, chat.gateway.ts:331-364, 448-464).
AtRest ==
  /\ wire = <<>> /\ seed.at = "shown" /\ online
  /\ \A h \in Handlers : handler[h].at \in {"unused", "done"}
BellAgreesAtRest ==
  AtRest /\ ~stale /\ ~missed =>
    /\ badge = unread
    /\ unread = 0 => item = "none"
=============================================================================
