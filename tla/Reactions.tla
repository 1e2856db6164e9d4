----------------------------- MODULE Reactions -----------------------------
(***************************************************************************)
(* The reactions to one newsletter post: react and removeReaction of       *)
(* NewsletterService behind the gateway's handlers, the reactions bar with *)
(* its optimistic change, and the pages that show the counts.              *)
(*                                                                         *)
(* The gateway does not queue a client's events: the handlers of two taps  *)
(* of one user interleave, and react has one more await than removeReaction*)
(* before it writes.                                                       *)
(***************************************************************************)
EXTENDS Integers, Sequences, FiniteSets

CONSTANTS
  Fans,     \* users with the newsletter open
  Emojis,
  ReactTaps \* taps on the bar (a bound)

NoEmoji == "none"

VARIABLES
  reaction, \* rows of newsletterReaction
  handler,  \* the handlers of the taps
  inbox,    \* NEWSLETTER_REACTION_UPDATED on its way to each page
  page,     \* the post as each page shows it
  opening,  \* GET /newsletter of each page, and what it read
  joined,   \* pages in the newsletter room
  hasty,    \* history: fans who tapped while a tap of theirs was running
  stale,    \* history: the last broadcast was older than the rows
  missed    \* history: pages that could not show a broadcast

vars == <<reaction, handler, inbox, page, opening, joined, hasty, stale, missed>>

Summaries == [Emojis -> 0..(Cardinality(Fans) + Cardinality(ReactTaps))]
Nothing == [e \in Emojis |-> 0]
Counts(rows) == [e \in Emojis |-> Cardinality({u \in Fans : rows[u] = e})]

Places == {"unused", "finding", "writing", "counting", "telling", "done"}
Handlers == [at : Places, by : Fans, emoji : Emojis \cup {NoEmoji}, counts : Summaries]
Posts == [mine : Emojis \cup {NoEmoji}, counts : Summaries]

TypeOK ==
  /\ reaction \in [Fans -> Emojis \cup {NoEmoji}]
  /\ handler \in [ReactTaps -> Handlers]
  /\ inbox \in [Fans -> Seq(Summaries)]
  /\ page \in [Fans -> Posts]
  /\ opening \in [Fans -> [at : {"asking", "read", "shown"}, post : Posts]]
  /\ joined \subseteq Fans /\ hasty \subseteq Fans /\ missed \subseteq Fans
  /\ stale \in BOOLEAN

Blank == [mine |-> NoEmoji, counts |-> Nothing]

Init ==
  /\ reaction = [u \in Fans |-> NoEmoji]
  /\ handler = [t \in ReactTaps |-> [at |-> "unused", by |-> CHOOSE u \in Fans : TRUE,
                                     emoji |-> NoEmoji, counts |-> Nothing]]
  /\ inbox = [u \in Fans |-> <<>>]
  /\ page = [u \in Fans |-> Blank]
  /\ opening = [u \in Fans |-> [at |-> "asking", post |-> Blank]]
  /\ joined = {} /\ hasty = {} /\ missed = {} /\ stale = FALSE

Running(u) == \E t \in ReactTaps :
  handler[t].at \in {"finding", "writing", "counting", "telling"} /\ handler[t].by = u

-----------------------------------------------------------------------------
\* loadPosts when the page opens, beside NEWSLETTER_JOIN.
Read(u) ==
  /\ opening[u].at = "asking"
  /\ opening' = [opening EXCEPT ![u] =
       [at |-> "read", post |-> [mine |-> reaction[u], counts |-> Counts(reaction)]]]
  /\ UNCHANGED <<reaction, handler, inbox, page, joined, hasty, stale, missed>>

Show(u) ==
  /\ opening[u].at = "read"
  /\ page' = [page EXCEPT ![u] = opening[u].post]
  /\ opening' = [opening EXCEPT ![u].at = "shown"]
  /\ UNCHANGED <<reaction, handler, inbox, joined, hasty, stale, missed>>

Join(u) ==
  /\ u \notin joined /\ joined' = joined \cup {u}
  /\ UNCHANGED <<reaction, handler, inbox, page, opening, hasty, stale, missed>>

\* handleReact and handleRemoveReact of ReactionsBar: the button removes the
\* own reaction or offers the emojis; emit, then change the page as if done.
Optimistic(post, e) ==
  [mine |-> e,
   counts |-> [f \in Emojis |->
     IF f = e THEN post.counts[f] + 1
     ELSE IF f = post.mine /\ post.counts[f] > 0 THEN post.counts[f] - 1
     ELSE post.counts[f]]]

Tap(t, u, e) ==
  /\ handler[t].at = "unused" /\ opening[u].at = "shown"
  /\ (page[u].mine = NoEmoji) # (e = NoEmoji)
  /\ handler' = [handler EXCEPT ![t] =
       [at |-> IF e = NoEmoji THEN "writing" ELSE "finding", by |-> u, emoji |-> e,
        counts |-> Nothing]]
  /\ page' = [page EXCEPT ![u] = Optimistic(@, e)]
  /\ hasty' = IF Running(u) THEN hasty \cup {u} ELSE hasty
  /\ UNCHANGED <<reaction, inbox, opening, joined, stale, missed>>

-----------------------------------------------------------------------------
\* findPostOrFail of react.
Find(t) ==
  /\ handler[t].at = "finding"
  /\ handler' = [handler EXCEPT ![t].at = "writing"]
  /\ UNCHANGED <<reaction, inbox, page, opening, joined, hasty, stale, missed>>

\* The upsert by post and user, or the deleteMany.
Write(t) ==
  /\ handler[t].at = "writing"
  /\ reaction' = [reaction EXCEPT ![handler[t].by] = handler[t].emoji]
  /\ handler' = [handler EXCEPT ![t].at = "counting"]
  /\ UNCHANGED <<inbox, page, opening, joined, hasty, stale, missed>>

\* getReactionSummary.
Count(t) ==
  /\ handler[t].at = "counting"
  /\ handler' = [handler EXCEPT ![t].at = "telling", ![t].counts = Counts(reaction)]
  /\ UNCHANGED <<reaction, inbox, page, opening, joined, hasty, stale, missed>>

\* Mutant: the broadcast leaves out the client that reacted.
TellTheOthers(t) ==
  /\ handler[t].at = "telling"
  /\ handler' = [handler EXCEPT ![t].at = "done"]
  /\ inbox' = [u \in Fans |-> IF u \in joined \ {handler[t].by}
                              THEN Append(inbox[u], handler[t].counts) ELSE inbox[u]]
  /\ stale' = (handler[t].counts # Counts(reaction))
  /\ missed' = missed \cup (Fans \ joined)
  /\ UNCHANGED <<reaction, page, opening, joined, hasty>>

\* The broadcast to the newsletter room, with the one who reacted in it.
Tell(t) ==
  /\ handler[t].at = "telling"
  /\ handler' = [handler EXCEPT ![t].at = "done"]
  /\ inbox' = [u \in Fans |-> IF u \in joined THEN Append(inbox[u], handler[t].counts)
                                              ELSE inbox[u]]
  /\ stale' = (handler[t].counts # Counts(reaction))
  /\ missed' = missed \cup (Fans \ joined)
  /\ UNCHANGED <<reaction, page, opening, joined, hasty>>

\* onReaction of the page: the counts, not the own reaction; lost on a page
\* whose list is still on its way.
Receive(u) ==
  /\ inbox[u] # <<>>
  /\ inbox' = [inbox EXCEPT ![u] = Tail(@)]
  /\ IF opening[u].at = "shown"
     THEN page' = [page EXCEPT ![u].counts = Head(inbox[u])] /\ UNCHANGED missed
     ELSE missed' = missed \cup {u} /\ UNCHANGED page
  /\ UNCHANGED <<reaction, handler, opening, joined, hasty, stale>>

Next ==
  \/ \E u \in Fans : Read(u) \/ Show(u) \/ Join(u) \/ Receive(u)
  \/ \E t \in ReactTaps :
       \/ \E u \in Fans, e \in Emojis \cup {NoEmoji} : Tap(t, u, e)
       \/ Find(t) \/ Write(t) \/ Count(t) \/ Tell(t)

Spec == Init /\ [][Next]_vars

-----------------------------------------------------------------------------
\* When nothing runs and nothing is on its way, a page shows the stored
\* counts and the user's own stored reaction.  What the code does not cover is
\* named: two taps of one user that ran at once (the removal may be written
\* before the reaction), a last broadcast that was counted before the last
\* write, and a broadcast that a page could not show
\* (newsletter.service.ts:186-201, chat.gateway.ts:568-596).
AtRest(u) == inbox[u] = <<>> /\ opening[u].at = "shown" /\ \A v \in Fans : ~Running(v)
PagesAgreeAtRest ==
  \A u \in Fans : AtRest(u) =>
    /\ ~stale /\ u \notin missed => page[u].counts = Counts(reaction)
    /\ u \notin hasty => page[u].mine = reaction[u]
=============================================================================
