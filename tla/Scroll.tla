------------------------------- MODULE Scroll -------------------------------
(***************************************************************************)
(* The place of the reader in a conversation: useChatScroll, which follows *)
(* the newest message, and keeps the place when older messages are put     *)
(* above it.                                                               *)
(*                                                                         *)
(* Messages are numbered from the oldest; the list holds lo..hi, each one  *)
(* screen high, and the screen shows at.  So scrollTop is at - lo and      *)
(* scrollHeight is the length of the list.  A smooth scroll arrives at     *)
(* once, and the browser's own scroll anchoring is not assumed.            *)
(***************************************************************************)
EXTENDS Integers

CONSTANTS
  StoredAtOpen, \* messages there are when the page opens
  Arriving,   \* messages that arrive later (a bound)
  PageSize,   \* messages of a page
  MaxChanges, \* other changes of the list: edits, states, merges (a bound)
  MaxFailures \* older pages that fail to load (a bound)

VARIABLES
  lo, hi,     \* the list, 0 and 0 while it is empty
  at,
  isFirstLoad, autoScroll, prevScrollHeight,  \* the refs
  isLoadingMore,
  anchors,    \* the frame and the timer of the first load: how many are left
  event,      \* a scroll event is pending
  changes, failures,
  crossed     \* history: the height that is kept is not that of the coming page

vars == <<lo, hi, at, isFirstLoad, autoScroll, prevScrollHeight, isLoadingMore, anchors,
          event, changes, failures, crossed>>
list == <<lo, hi>>
refs == <<isFirstLoad, autoScroll, prevScrollHeight>>

Height(l, h) == IF h = 0 THEN 0 ELSE h - l + 1
Messages == 0 .. (StoredAtOpen + Arriving)

TypeOK ==
  /\ lo \in Messages /\ hi \in Messages /\ at \in lo..hi
  /\ isFirstLoad \in BOOLEAN /\ autoScroll \in BOOLEAN /\ prevScrollHeight \in Messages
  /\ isLoadingMore \in BOOLEAN /\ anchors \in 0..2 /\ event \in BOOLEAN
  /\ changes \in 0..MaxChanges /\ failures \in 0..MaxFailures /\ crossed \in BOOLEAN

Init ==
  /\ lo = 0 /\ hi = 0 /\ at = 0
  /\ isFirstLoad = TRUE /\ autoScroll = TRUE /\ prevScrollHeight = 0
  /\ isLoadingMore = FALSE /\ anchors = 0 /\ event = FALSE
  /\ changes = 0 /\ failures = 0 /\ crossed = FALSE

-----------------------------------------------------------------------------
\* Where the layout effect puts the view after the list became l..h.
Placed(l, h) ==
  LET added == Height(l, h) - prevScrollHeight IN
  CASE isFirstLoad -> h
    [] ~isFirstLoad /\ prevScrollHeight > 0 -> IF added < 0 THEN l ELSE l + added
    [] ~isFirstLoad /\ prevScrollHeight = 0 /\ autoScroll -> h
    [] OTHER -> l + (at - lo)

\* Mutant: it stays for the next change of the list.
ForgetNothing == prevScrollHeight' = prevScrollHeight

\* The kept height is used once.
Forget == prevScrollHeight' = IF isFirstLoad THEN prevScrollHeight ELSE 0

Rendered(l, h) ==
  /\ lo' = l /\ hi' = h /\ at' = Placed(l, h) /\ Forget
  /\ isFirstLoad' = FALSE /\ anchors' = IF isFirstLoad THEN 2 ELSE anchors
  /\ event' = (event \/ at' - l # at - lo)
  /\ UNCHANGED autoScroll

\* The newest page, or the own message in an empty conversation.
Opened ==
  /\ hi = 0 /\ StoredAtOpen > 0
  /\ Rendered(IF StoredAtOpen > PageSize THEN StoredAtOpen - PageSize + 1 ELSE 1, StoredAtOpen)
  /\ UNCHANGED <<isLoadingMore, changes, failures, crossed>>

\* A height that is kept for a page is used up by whatever renders first.
Arrives ==
  /\ hi \in 1 .. (StoredAtOpen + Arriving - 1) /\ Rendered(lo, hi + 1)
  /\ crossed' = isLoadingMore
  /\ UNCHANGED <<isLoadingMore, changes, failures>>

Changes ==
  /\ hi # 0 /\ changes < MaxChanges /\ changes' = changes + 1 /\ Rendered(lo, hi)
  /\ crossed' = isLoadingMore
  /\ UNCHANGED <<isLoadingMore, failures>>

\* The frame, and the timer of 150 ms.
Anchor ==
  /\ anchors > 0 /\ anchors' = anchors - 1
  /\ at' = hi /\ event' = (event \/ at # hi)
  /\ crossed' = (crossed \/ (isLoadingMore /\ at # hi))
  /\ UNCHANGED <<list, refs, isLoadingMore, changes, failures>>

-----------------------------------------------------------------------------
LoadMore == prevScrollHeight' = Height(lo, hi) /\ isLoadingMore' = TRUE
CanLoad == lo > 1 /\ ~isLoadingMore

UserScrolls(m) ==
  /\ hi # 0 /\ m # at /\ at' = m /\ event' = TRUE
  /\ crossed' = (crossed \/ isLoadingMore)
  /\ UNCHANGED <<list, refs, isLoadingMore, anchors, changes, failures>>

OnScroll ==
  /\ event /\ event' = FALSE
  /\ autoScroll' = (at = hi)
  /\ IF at = lo /\ CanLoad THEN LoadMore /\ crossed' = FALSE
     ELSE UNCHANGED <<prevScrollHeight, isLoadingMore, crossed>>
  /\ UNCHANGED <<list, at, isFirstLoad, anchors, changes, failures>>

\* handleLoadMoreClick: the button stands above the first message.
HandleLoadMoreClick ==
  /\ hi # 0 /\ at = lo /\ CanLoad /\ LoadMore /\ crossed' = FALSE
  /\ UNCHANGED <<list, at, isFirstLoad, autoScroll, anchors, event, changes, failures>>

Prepended ==
  /\ isLoadingMore /\ isLoadingMore' = FALSE
  /\ Rendered(IF lo > PageSize THEN lo - PageSize ELSE 1, hi)
  /\ crossed' = FALSE
  /\ UNCHANGED <<changes, failures>>

\* The height stays kept.
LoadFails ==
  /\ isLoadingMore /\ isLoadingMore' = FALSE
  /\ failures < MaxFailures /\ failures' = failures + 1
  /\ crossed' = (prevScrollHeight > 0)
  /\ UNCHANGED <<list, at, refs, anchors, event, changes>>

Next ==
  \/ Opened \/ Arrives \/ Changes \/ Anchor \/ OnScroll \/ HandleLoadMoreClick
  \/ Prepended \/ LoadFails
  \/ \E m \in lo..hi : UserScrolls(m)

Spec == Init /\ [][Next]_vars

-----------------------------------------------------------------------------
\* A change of the list leaves the reader at the message that was on the
\* screen, except that who is at the newest message follows the next one; and
\* older messages above it leave everyone in place.  What the hook does not
\* cover is named: a move of the reader that it has not been told of (its
\* autoScroll is stale); a change of the list, or a move, while an older page is on
\* its way; and the next change after such a page failed to load: the view then
\* jumps towards the top (useChatScroll.ts:38-55).
PlaceIsKept ==
  [][/\ ~crossed /\ ~crossed' /\ autoScroll = (at = hi)
     /\ hi # 0 /\ <<lo, hi, changes>>' # <<lo, hi, changes>>
     => at' = at \/ (lo' = lo /\ at = hi /\ at' = hi')]_vars
=============================================================================
