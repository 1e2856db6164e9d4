-------------------------------- MODULE Feed --------------------------------
(***************************************************************************)
(* The list of newsletter posts, loaded page by page into one store: the   *)
(* list and the detail page of an admin (a trainee's pages load the same   *)
(* way and change nothing), findAll of NewsletterService, and the changes  *)
(* that other users make meanwhile.  No change is broadcast: the gateway's *)
(* emitNewNewsletterPost and its two siblings have no caller, so the list  *)
(* follows only its own changes.                                           *)
(*                                                                         *)
(* Posts are numbered in the order of createdAt; a page holds one post     *)
(* more than Limit only to learn whether there is another page.            *)
(***************************************************************************)
EXTENDS Integers, FiniteSets, Sequences, Filtering

CONSTANTS
  MaxPosts,  \* posts created (a bound)
  Limit,     \* the limit of a page
  MaxMoves   \* loads and changes (a bound)

VARIABLES
  created, gone, pinned, edited, seen,  \* the table of posts, and who has read them
  posts, nextCursor,  \* the store
  place,     \* the route: list, or the detail page of a post
  detail,    \* what the detail page holds
  ready,     \* initialLoading of the list is over
  loading,
  loads,     \* GET /newsletter calls under way
  change,    \* POST, PATCH or DELETE of this admin under way
  moves,
  beside,    \* history: the last first page or a later one overlapped another call
  others,    \* history: another user changed the table after the first page was read
  moved      \* history: a post moved across the end of what is loaded

vars == <<created, gone, pinned, edited, seen, posts, nextCursor, place, detail, ready,
          loading, loads, change, moves, beside, others, moved>>
table == <<created, gone, pinned, edited, seen>>
store == <<posts, nextCursor>>
pages == <<place, detail, ready>>
history == <<beside, others, moved>>

Ids == 1..MaxPosts
NoPost == 0
Rows == [id : Ids, pinned : BOOLEAN, edited : BOOLEAN, seen : BOOLEAN]
NoRow == [id |-> NoPost]
Idle == [kind |-> "none", id |-> NoPost, pin |-> FALSE, stored |-> FALSE]

TypeOK ==
  /\ created \in 0..MaxPosts /\ {gone, pinned, edited, seen} \subseteq SUBSET (1..created)
  /\ posts \in Seq(Rows) /\ nextCursor \in {NoPost} \cup Ids
  /\ place \in {NoPost} \cup Ids /\ detail \in Rows \cup {NoRow}
  /\ ready \in BOOLEAN /\ loading \in BOOLEAN
  /\ \A l \in loads : /\ l.cursor \in {NoPost} \cup Ids /\ l.rows \in Seq(Rows)
                      /\ l.next \in {NoPost} \cup Ids /\ l.clean \in BOOLEAN
  /\ change \in [kind : {"none", "create", "edit", "pin", "delete"}, id : {NoPost} \cup Ids,
                 pin : BOOLEAN, stored : BOOLEAN]
  /\ moves \in 0..MaxMoves /\ {beside, others, moved} \subseteq BOOLEAN

-----------------------------------------------------------------------------
Live == (1..created) \ gone
Row(p) == [id |-> p, pinned |-> p \in pinned, edited |-> p \in edited, seen |-> p \in seen]

\* orderBy isPinned desc, createdAt desc.
Above(p, q) == IF (p \in pinned) = (q \in pinned) THEN p > q ELSE p \in pinned

\* The posts of S from the top of the list.
Ordered(S) == CHOOSE s \in [1..Cardinality(S) -> S] :
                \A i, j \in 1..Cardinality(S) : i < j => Above(s[i], s[j])

\* The cursor's row is compared even when it was deleted, and one row is
\* skipped then too.
From(cursor) == {p \in Live : cursor = NoPost \/ p = cursor \/ Above(cursor, p)}
FindAll(cursor) ==
  LET from == Ordered(From(cursor))
      skip == IF cursor = NoPost THEN 0 ELSE 1
      left == Cardinality(From(cursor)) - skip
      more == left > Limit
  IN [rows |-> [i \in 1..(IF more THEN Limit ELSE left) |-> Row(from[i + skip])],
      next |-> IF more THEN from[Limit + skip] ELSE NoPost]

Shown == {posts[i].id : i \in DOMAIN posts}
Loaded == {p \in Live : nextCursor = NoPost \/ p = nextCursor \/ Above(p, nextCursor)}

Load(cursor, clean, n) == [cursor |-> cursor, asked |-> TRUE, rows |-> <<>>, next |-> NoPost,
                           clean |-> clean, here |-> TRUE, n |-> n]

\* The store's updatePost, addPost and removePost.
UpdatePost(p, row) == posts' = [i \in DOMAIN posts |-> IF posts[i].id = p THEN row ELSE posts[i]]
AddPost(row) == posts' = <<row>> \o posts
RemovePost(p) == posts' = Kept(posts, {i \in DOMAIN posts : posts[i].id # p})

Init ==
  /\ created = MaxPosts - 1 /\ gone = {} /\ pinned = {} /\ edited = {} /\ seen = {}
  /\ posts = <<>> /\ nextCursor = NoPost
  /\ place = NoPost /\ detail = NoRow /\ ready = FALSE /\ loading = TRUE
  /\ loads = {Load(NoPost, TRUE, 0)}
  /\ change = Idle /\ moves = 0 /\ beside = FALSE /\ others = FALSE /\ moved = FALSE

Move == moves < MaxMoves /\ moves' = moves + 1
Unsettled == {[l EXCEPT !.clean = FALSE] : l \in loads}

-----------------------------------------------------------------------------
\* loadPosts: when the list is opened, when the live socket is replaced, and
\* from the button, which is disabled while a load runs.
LoadPosts(cursor) ==
  /\ Move
  /\ loads' = Unsettled \cup {Load(cursor, loads = {} /\ change = Idle, moves + 1)}
  /\ loading' = TRUE

SocketReplaced == place = NoPost /\ LoadPosts(NoPost)
                  /\ UNCHANGED <<table, store, pages, change, history>>
LoadMore ==
  /\ place = NoPost /\ ready /\ ~loading /\ nextCursor # NoPost
  /\ LoadPosts(nextCursor)
  /\ UNCHANGED <<table, store, pages, change, history>>

\* The server reads the page.
Read(l) ==
  /\ l.asked
  /\ loads' = (loads \ {l}) \cup {[l EXCEPT !.asked = FALSE, !.rows = FindAll(l.cursor).rows,
                                            !.next = FindAll(l.cursor).next]}
  /\ UNCHANGED <<table, store, pages, loading, change, moves, history>>

\* Mutant: a first page that is loaded again is added to the list.
SetPostsAppending(l) == posts' = posts \o l.rows /\ nextCursor' = l.next

\* setPosts and appendPosts of the store.
SetPosts(l) == posts' = l.rows /\ nextCursor' = l.next
AppendPosts(l) == posts' = posts \o l.rows /\ nextCursor' = l.next

Settle(l) == IF l.here THEN loading' = FALSE /\ ready' = TRUE ELSE UNCHANGED <<loading, ready>>

\* A load of a page that was left still writes the store, which is shared;
\* the flags are those of the page that asked.
Answer(l) ==
  /\ ~l.asked /\ loads' = loads \ {l}
  /\ IF l.cursor = NoPost
     THEN /\ SetPosts(l)
          /\ beside' = ~l.clean /\ moved' = FALSE
          /\ others' = (l.rows # FindAll(NoPost).rows \/ l.next # FindAll(NoPost).next)
     ELSE /\ AppendPosts(l)
          /\ beside' = (beside \/ ~l.clean) /\ UNCHANGED <<others, moved>>
  /\ Settle(l)
  /\ UNCHANGED <<table, place, detail, change, moves>>

\* Silent: the list keeps what it had.
LoadFails(l) ==
  /\ loads' = loads \ {l} /\ Settle(l)
  /\ beside' = (beside \/ l.cursor = NoPost)
  /\ UNCHANGED <<table, store, place, detail, change, moves, others, moved>>

\* To the detail page, which loads its post, and back to the list, which
\* loads its first page.  A load under way goes on; for a change of one's own
\* the user is taken to wait.
OpenDetail(p) ==
  /\ place = NoPost /\ ready /\ change = Idle /\ p \in Shown /\ p \in Live /\ Move
  /\ place' = p /\ detail' = Row(p)
  /\ loads' = {[l EXCEPT !.here = FALSE] : l \in loads}
  /\ UNCHANGED <<table, store, ready, loading, change, history>>

BackToList ==
  /\ place # NoPost /\ change = Idle
  /\ place' = NoPost /\ detail' = NoRow /\ ready' = FALSE /\ LoadPosts(NoPost)
  /\ UNCHANGED <<table, store, change, history>>

-----------------------------------------------------------------------------
\* The buttons of the list's menu, of the detail page, and of the composer.
\* A pin is toggled from the row that is rendered.
Rendered(p) == IF place = p THEN detail ELSE posts[CHOOSE i \in DOMAIN posts : posts[i].id = p]
Ask(kind, p) ==
  /\ ready /\ change = Idle /\ Move
  /\ IF kind = "create" THEN place = NoPost /\ p = NoPost
     ELSE place \in {NoPost, p} /\ (place = NoPost => p \in Shown)
  /\ change' = [kind |-> kind, id |-> p, stored |-> FALSE,
                pin |-> kind = "pin" /\ ~Rendered(p).pinned]
  /\ loads' = Unsettled
  /\ UNCHANGED <<table, store, pages, loading, history>>

\* create, update and softDelete; the post may be gone.
Write(kind, p, pin) ==
  /\ IF kind = "create" THEN created < MaxPosts /\ created' = created + 1
     ELSE p \in Live /\ UNCHANGED created
  /\ gone' = IF kind = "delete" THEN gone \cup {p} ELSE gone
  /\ edited' = IF kind = "edit" THEN edited \cup {p} ELSE edited
  /\ pinned' = IF kind # "pin" THEN pinned ELSE IF pin THEN pinned \cup {p} ELSE pinned \ {p}
  /\ UNCHANGED seen

Store ==
  /\ change # Idle /\ ~change.stored
  /\ Write(change.kind, change.id, change.pin)
  /\ change' = [change EXCEPT !.stored = TRUE, !.id = IF change.kind = "create" THEN created + 1
                                                      ELSE change.id]
  /\ UNCHANGED <<store, pages, loading, loads, moves, history>>

\* onSaved, onPin, onDelete and their likes on the detail page, which leaves
\* when its post is deleted.  The menu of the list takes only isPinned.
ChangeAnswered ==
  /\ change.stored /\ change' = Idle
  /\ CASE change.kind = "create" -> AddPost(Row(change.id))
       [] change.kind = "delete" -> RemovePost(change.id)
       [] change.kind = "pin" /\ place = NoPost /\ change.id \in Shown ->
            UpdatePost(change.id, [Rendered(change.id) EXCEPT !.pinned = change.pin])
       [] OTHER -> UpdatePost(change.id, Row(change.id))
  /\ detail' = IF place # NoPost /\ change.kind # "delete" THEN Row(change.id) ELSE NoRow
  /\ moved' = (\/ moved
               \/ change.id = nextCursor /\ change.kind = "delete"
               \/ Loaded # {posts'[i].id : i \in DOMAIN posts'})
  /\ IF change.kind = "delete" /\ place # NoPost
     THEN /\ place' = NoPost /\ ready' = FALSE /\ loading' = TRUE
          /\ loads' = Unsettled \cup {Load(NoPost, loads = {}, moves)}
     ELSE UNCHANGED <<place, ready, loading, loads>>
  /\ UNCHANGED <<table, nextCursor, moves, beside, others>>

\* A toast, or nothing; what was written stays written.
ChangeFails ==
  /\ change # Idle /\ change' = Idle /\ beside' = (beside \/ change.stored)
  /\ UNCHANGED <<table, store, pages, loading, loads, moves, others, moved>>

\* Another admin's change, or a trainee who reads a post (markSeen).
OtherChanges ==
  /\ Move /\ others' = TRUE
  /\ \/ \E kind \in {"create", "edit", "pin", "delete"}, p \in Ids, pin \in BOOLEAN :
          Write(kind, p, pin)
     \/ \E p \in Live : seen' = seen \cup {p} /\ UNCHANGED <<created, gone, pinned, edited>>
  /\ UNCHANGED <<store, pages, loading, loads, change, beside, moved>>

Next ==
  \/ SocketReplaced \/ LoadMore \/ BackToList
  \/ \E l \in loads : Read(l) \/ Answer(l) \/ LoadFails(l)
  \/ \E p \in Ids : OpenDetail(p)
  \/ \E kind \in {"create", "edit", "pin", "delete"}, p \in Ids \cup {NoPost} : Ask(kind, p)
  \/ Store \/ ChangeAnswered \/ ChangeFails \/ OtherChanges

Spec == Init /\ [][Next]_vars

-----------------------------------------------------------------------------
\* A list at rest shows every post down to its cursor, none of them twice, as
\* the table has it.  What the pages do not cover is named: a page that was
\* loaded beside another call (a later page is then added twice, or below a
\* first page that was loaded again), a change by another user, a failed load
\* or answer, and a post that this admin's own change moved across the end of
\* what is loaded: a new post below pinned ones, a pin, or the deletion of the
\* cursor's post, after which the next page skips one
\* (newsletter.service.ts:59-72, newsletter.store.ts:22-40).
FeedAgreesAtRest ==
  place = NoPost /\ ready /\ loads = {} /\ change = Idle /\ ~beside /\ ~others /\ ~moved =>
    /\ \A i, j \in DOMAIN posts : posts[i].id = posts[j].id => i = j
    /\ Shown = Loaded
    /\ \A i \in DOMAIN posts : posts[i] = Row(posts[i].id)
=============================================================================
