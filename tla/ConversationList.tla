-------------------------- MODULE ConversationList --------------------------
(***************************************************************************)
(* The list of conversations on the admin's page: search with a debounce,  *)
(* the unread filter and its copy in the URL, pages loaded by scrolling,   *)
(* and the two other writers of the same store, a socket that was rebuilt  *)
(* and the notification provider's first request.                          *)
(*                                                                         *)
(* The rows are kept as the pages they came in, each named after the query *)
(* that brought it.  Rows that a live event puts into the list belong to   *)
(* no query and are left out, and so is the separate unread counter.       *)
(***************************************************************************)
EXTENDS Integers, Sequences

CONSTANTS
  Terms,     \* search terms, "empty" among them
  MaxPage,   \* pages the server has for a query (a bound)
  MaxLoads,  \* requests under way (a bound)
  MaxActs    \* things the admin or the network does (a bound)

VARIABLES
  search, unreadOnly, page, hasMore, loading, loadingMore,
  list,      \* conversations of the chat store
  timer,     \* searchTimer: none, or what its closure will load
  loads,     \* requests of loadConversations
  url,       \* the filter in the URL
  navs,      \* router.replace calls that have not taken effect
  skip,      \* skipNextFilterSyncRef
  seed,      \* the provider's request is under way
  acts,
  unsure     \* history: the last rows came out of turn

vars == <<search, unreadOnly, page, hasMore, loading, loadingMore, list, timer,
          loads, url, navs, skip, seed, acts, unsure>>
router == <<url, navs, skip>>

Rows(q, u, p) == [q |-> q, unread |-> u, p |-> p]
SeedRows == Rows("empty", FALSE, 0)   \* the first hundred of all
NoTimer == [on |-> FALSE, q |-> "empty", unread |-> FALSE]
Filters == {"all", "unread"}
Queries == [id : 1..MaxLoads, q : Terms, unread : BOOLEAN, p : 1..MaxPage,
            reset : BOOLEAN, clean : BOOLEAN]

TypeOK ==
  /\ search \in Terms /\ unreadOnly \in BOOLEAN /\ page \in 1..MaxPage
  /\ hasMore \in BOOLEAN /\ loading \in BOOLEAN /\ loadingMore \in BOOLEAN
  /\ list \subseteq [q : Terms, unread : BOOLEAN, p : 0..MaxPage]
  /\ timer \in [on : BOOLEAN, q : Terms, unread : BOOLEAN]
  /\ loads \subseteq Queries
  /\ url \in Filters /\ navs \in Seq(Filters) /\ skip \in BOOLEAN
  /\ seed \in BOOLEAN /\ acts \in 0..MaxActs /\ unsure \in BOOLEAN

-----------------------------------------------------------------------------
\* loadConversations up to its await.  `clean`: no other request was under way
\* at any time beside this one, and it asks for what the page shows.
Free == {i \in 1..MaxLoads : \A l \in loads : l.id # i}
LoadConversations(p, q, u, reset, clean) ==
  /\ Free # {}
  /\ loads' = {[l EXCEPT !.clean = FALSE] : l \in loads} \cup
       {[id |-> CHOOSE i \in Free : \A j \in Free : i <= j, q |-> q, unread |-> u,
         p |-> p, reset |-> reset, clean |-> clean /\ loads = {}]}
  /\ loading' = (loading \/ reset)
  /\ loadingMore' = (loadingMore \/ ~reset)

\* The mount: the filter is that of the URL, and the first page is asked for.
Init ==
  /\ url \in Filters /\ unreadOnly = (url = "unread")
  /\ search = "empty" /\ page = 1 /\ hasMore = TRUE
  /\ list = {} /\ timer = NoTimer
  /\ loads = {[id |-> 1, q |-> search, unread |-> unreadOnly, p |-> 1,
               reset |-> TRUE, clean |-> TRUE]}
  /\ loading = TRUE /\ loadingMore = FALSE
  /\ navs = <<>> /\ skip = FALSE /\ seed = TRUE /\ acts = 0 /\ unsure = FALSE

Act == acts < MaxActs /\ acts' = acts + 1

-----------------------------------------------------------------------------
\* The answer: setConversations or appendConversations.  Any answer ends both
\* kinds of loading.
Answer(l, more) ==
  /\ l \in loads /\ loads' = loads \ {l}
  /\ LET rows == {Rows(l.q, l.unread, l.p)}
     IN list' = IF l.reset THEN rows ELSE list \cup rows
  /\ hasMore' = (more /\ l.p < MaxPage)
  /\ loading' = FALSE /\ loadingMore' = FALSE
  /\ unsure' = (~l.clean \/ (~l.reset /\ unsure))
  /\ UNCHANGED <<search, unreadOnly, page, timer, router, seed, acts>>

\* An error ends the paging; the rows of the query before stay.
AnswerFails(l) ==
  /\ l \in loads /\ loads' = loads \ {l}
  /\ hasMore' = FALSE
  /\ loading' = FALSE /\ loadingMore' = FALSE /\ unsure' = TRUE
  /\ UNCHANGED <<search, unreadOnly, page, list, timer, router, seed, acts>>

\* The IntersectionObserver at the end of the list.
ScrollToEnd ==
  /\ hasMore /\ ~loadingMore /\ ~loading /\ page < MaxPage
  /\ page' = page + 1
  /\ LoadConversations(page', search, unreadOnly, FALSE, TRUE)
  /\ UNCHANGED <<search, unreadOnly, hasMore, list, timer, router, seed, acts, unsure>>

\* handleSearch.  The field is not there while the first page loads.
HandleSearch(q) ==
  /\ Act /\ ~loading /\ q # search
  /\ search' = q /\ page' = 1
  /\ timer' = [on |-> TRUE, q |-> q, unread |-> unreadOnly]
  /\ UNCHANGED <<unreadOnly, hasMore, loading, loadingMore, list, loads, router, seed,
                 unsure>>

\* 300 ms later: with the filter of the moment the key was pressed.
TimerFires ==
  /\ timer.on /\ timer' = NoTimer
  /\ LoadConversations(1, timer.q, timer.unread, TRUE,
                       timer.unread = unreadOnly /\ page = 1)
  /\ UNCHANGED <<search, unreadOnly, page, hasMore, list, router, seed, acts, unsure>>

\* Mutant: the request takes the filter from the closure.
HandleToggleUnreadWithOldFilter(queued) ==
  /\ Act /\ ~loading
  /\ unreadOnly' = ~unreadOnly /\ page' = 1 /\ skip' = TRUE
  /\ LoadConversations(1, search, unreadOnly, TRUE, TRUE)
  /\ LET target == IF unreadOnly' THEN "unread" ELSE "all"
     IN navs' = IF queued THEN Append(navs, target) ELSE <<target>>
  /\ UNCHANGED <<search, hasMore, list, timer, url, seed, unsure>>

\* handleToggleUnread.  The router may drop a replace that a newer one
\* overtakes, or take them one after the other (queued).
HandleToggleUnread(queued) ==
  /\ Act /\ ~loading
  /\ unreadOnly' = ~unreadOnly /\ page' = 1 /\ skip' = TRUE
  /\ LoadConversations(1, search, unreadOnly', TRUE, TRUE)
  /\ LET target == IF unreadOnly' THEN "unread" ELSE "all"
     IN navs' = IF queued THEN Append(navs, target) ELSE <<target>>
  /\ UNCHANGED <<search, hasMore, list, timer, url, seed, unsure>>

\* The effect on searchParams, which runs when the URL has changed.
SyncFilter ==
  /\ navs # <<>> /\ navs' = Tail(navs) /\ url' = Head(navs)
  /\ skip' = (skip /\ url' = url)
  /\ IF url' = "unread" /\ url # "unread" /\ ~skip /\ ~unreadOnly
     THEN unreadOnly' = TRUE /\ page' = 1 /\ LoadConversations(1, search, TRUE, TRUE, TRUE)
     ELSE UNCHANGED <<unreadOnly, page, loads, loading, loadingMore>>
  /\ UNCHANGED <<search, hasMore, list, timer, seed, acts, unsure>>

\* A navigation within the page that the page did not start itself.
Follow(target) ==
  /\ Act /\ navs = <<>> /\ navs' = <<target>>
  /\ UNCHANGED <<search, unreadOnly, page, hasMore, loading, loadingMore, list, timer,
                 loads, url, skip, seed, unsure>>

\* liveSocket changes: the first page again, and the page number stays.
SocketReplaced ==
  /\ Act /\ LoadConversations(1, search, unreadOnly, TRUE, page = 1 /\ ~timer.on)
  /\ UNCHANGED <<search, unreadOnly, page, hasMore, list, timer, router, seed, unsure>>

\* NotificationsProvider fills the same store with all conversations.
SeedAnswers ==
  /\ seed /\ seed' = FALSE
  /\ list' = {SeedRows} /\ unsure' = TRUE
  /\ UNCHANGED <<search, unreadOnly, page, hasMore, loading, loadingMore, timer, loads,
                 router, acts>>

Next ==
  \/ \E l \in loads : AnswerFails(l) \/ \E more \in BOOLEAN : Answer(l, more)
  \/ ScrollToEnd \/ TimerFires \/ SyncFilter \/ SocketReplaced \/ SeedAnswers
  \/ \E q \in Terms : HandleSearch(q)
  \/ \E queued \in BOOLEAN : HandleToggleUnread(queued)
  \/ \E target \in Filters : Follow(target)

Spec == Init /\ [][Next]_vars

-----------------------------------------------------------------------------
\* When nothing is under way, the list holds the pages of the search and the
\* filter that the page shows, without a gap.  What the code does not cover is
\* named by `unsure`: two requests under way at once, whose answers are taken
\* in any order; a failed one; a debounced search that was typed under the
\* other filter; a rebuilt socket, which loads the first page and keeps the
\* page number; and the provider's answer (page.tsx:262-351).
RowsAreOfTheQuery ==
  loads = {} /\ ~timer.on /\ ~unsure =>
    list = {Rows(search, unreadOnly, i) : i \in 1..page}
=============================================================================
