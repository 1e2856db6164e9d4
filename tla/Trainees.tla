------------------------------ MODULE Trainees ------------------------------
(***************************************************************************)
(* The admin's page of trainees and the part of UsersService behind it:    *)
(* the list with its counters, the status button of each row, the two      *)
(* dialogs that add and edit a trainee, and the conversation that is made  *)
(* with an account or, if that failed, when somebody opens it.             *)
(*                                                                         *)
(* Search and paging work as in ConversationList; here a load returns all  *)
(* rows.  Each call to the server stops at each of its awaits.             *)
(***************************************************************************)
EXTENDS Integers, FiniteSets

CONSTANTS
  Trainees,    \* national ids
  Registered,  \* those with an account from the start
  Toggles,     \* taps on a status button (a bound)
  MaxLoads,    \* GET /users under way (a bound)
  MaxActs      \* what else the admins do (a bound)

Nobody == "nobody"

VARIABLES
  account,       \* rows of User, or none
  conversation,  \* trainees with a conversation row
  users,         \* isActive of the rows the page shows
  activeCount,
  loading,
  timer,         \* the 350 ms of the search effect
  loads,         \* GET /users under way
  toggle,        \* PATCH /users/:id/status of each tap
  togglingId,
  adding,        \* POST /users of the dialog
  acts,
  unsure         \* history: the page was told late, twice or not at all

vars == <<account, conversation, users, activeCount, loading, timer, loads, toggle,
          togglingId, adding, acts, unsure>>

Status == {"active", "inactive"}
Lists == [Trainees -> Status \cup {"absent"}]
NoAdding == [at |-> "idle", who |-> Nobody]
NoToggle == [at |-> "unused", who |-> Nobody, to |-> "active"]

TypeOK ==
  /\ account \in [Trainees -> Status \cup {"none", "deleted"}]
  /\ conversation \subseteq Trainees
  /\ users \in Lists /\ activeCount \in Int
  /\ loading \in BOOLEAN /\ timer \in BOOLEAN /\ unsure \in BOOLEAN
  /\ loads \subseteq [id : 1..MaxLoads, at : {"asked", "half", "read"}, clean : BOOLEAN,
                      users : Lists, active : Nat]
  /\ toggle \in [Toggles -> [at : {"unused", "asked", "found", "written", "refused", "done"},
                             who : Trainees \cup {Nobody}, to : Status]]
  /\ togglingId \in Trainees \cup {Nobody}
  /\ adding \in [at : {"idle", "checking", "inserting", "conversing", "made", "refused"},
                 who : Trainees \cup {Nobody}]
  /\ acts \in 0..MaxActs

-----------------------------------------------------------------------------
Present == {t \in Trainees : account[t] \in Status}
Listed == [t \in Trainees |-> IF t \in Present THEN account[t] ELSE "absent"]
NumberActive == Cardinality({t \in Trainees : account[t] = "active"})

Running(c) == toggle[c].at \in {"asked", "found", "written", "refused"}
Quiet == loads = {} /\ adding = NoAdding /\ \A c \in Toggles : ~Running(c)

Asked(id, clean) ==
  [id |-> id, at |-> "asked", clean |-> clean,
   users |-> [t \in Trainees |-> "absent"], active |-> 0]

\* loadUsers(1, ...) up to its await.  `clean`: nothing else is under way
\* beside this request at any time.
LoadUsers(others) ==
  \E id \in 1..MaxLoads :
    /\ \A l \in loads : l.id # id
    /\ \A i \in 1..(id - 1) : \E l \in loads : l.id = i
    /\ loads' = {[l EXCEPT !.clean = FALSE] : l \in loads} \cup
                {Asked(id, ~others /\ loads = {})}
    /\ loading' = TRUE

Disturbed == {[l EXCEPT !.clean = FALSE] : l \in loads}

\* Two effects of the mount load the list, one at once and one 350 ms later.
Init ==
  /\ account = [t \in Trainees |-> IF t \in Registered THEN "active" ELSE "none"]
  /\ conversation = Registered
  /\ users = [t \in Trainees |-> "absent"] /\ activeCount = 0
  /\ loading = TRUE /\ timer = TRUE /\ loads = {Asked(1, TRUE)}
  /\ toggle = [c \in Toggles |-> NoToggle] /\ togglingId = Nobody
  /\ adding = NoAdding /\ acts = 0 /\ unsure = FALSE

Act == acts < MaxActs /\ acts' = acts + 1

-----------------------------------------------------------------------------
\* findAll reads the rows and the counts with separate statements.
Read(l) ==
  /\ l \in loads /\ l.at # "read"
  /\ LET read == IF l.at = "asked" THEN [l EXCEPT !.at = "half", !.users = Listed]
                                   ELSE [l EXCEPT !.at = "read", !.active = NumberActive]
     IN loads' = (loads \ {l}) \cup {read}
  /\ UNCHANGED <<account, conversation, users, activeCount, loading, timer, toggle,
                 togglingId, adding, acts, unsure>>

LoadEnds(l, ok) ==
  /\ l \in loads /\ (ok => l.at = "read")
  /\ loads' = loads \ {l} /\ loading' = FALSE
  /\ users' = IF ok THEN l.users ELSE users
  /\ activeCount' = IF ok THEN l.active ELSE activeCount
  /\ unsure' = ~(ok /\ l.clean)
  /\ UNCHANGED <<account, conversation, timer, toggle, togglingId, adding, acts>>

\* A change of the search, and the load when it has been left alone.
Search ==
  /\ Act /\ timer' = TRUE
  /\ UNCHANGED <<account, conversation, users, activeCount, loading, loads, toggle,
                 togglingId, adding, unsure>>

TimerFires ==
  /\ timer /\ timer' = FALSE /\ LoadUsers(~Quiet)
  /\ UNCHANGED <<account, conversation, users, activeCount, toggle, togglingId, adding,
                 acts, unsure>>

-----------------------------------------------------------------------------
\* Mutant: the button of a row stays enabled while its request runs.
HandleToggleStatusAgain(c, t) ==
  /\ toggle[c].at = "unused" /\ ~loading /\ users[t] # "absent"
  /\ toggle' = [toggle EXCEPT ![c] =
       [at |-> "asked", who |-> t, to |-> IF users[t] = "active" THEN "inactive" ELSE "active"]]
  /\ togglingId' = t
  /\ unsure' = (unsure \/ (togglingId # t /\ \E d \in Toggles : Running(d) /\ toggle[d].who = t))
  /\ loads' = Disturbed
  /\ UNCHANGED <<account, conversation, users, activeCount, loading, timer, adding, acts>>

\* handleToggleStatus.  One row's button is disabled, that of the last tap: a
\* tap on another row, or the end of its request, enables it again.
HandleToggleStatus(c, t) ==
  /\ toggle[c].at = "unused" /\ ~loading /\ users[t] # "absent" /\ togglingId # t
  /\ toggle' = [toggle EXCEPT ![c] =
       [at |-> "asked", who |-> t, to |-> IF users[t] = "active" THEN "inactive" ELSE "active"]]
  /\ togglingId' = t
  /\ unsure' = (unsure \/ \E d \in Toggles : Running(d) /\ toggle[d].who = t)
  /\ loads' = Disturbed
  /\ UNCHANGED <<account, conversation, users, activeCount, loading, timer, adding, acts>>

\* setActiveStatus: the lookup, then the UPDATE by id; the audit entry may fail
\* without a consequence.
FindForStatus(c) ==
  /\ toggle[c].at = "asked"
  /\ toggle' = [toggle EXCEPT ![c].at =
       IF account[toggle[c].who] \in Status THEN "found" ELSE "refused"]
  /\ UNCHANGED <<account, conversation, users, activeCount, loading, timer, loads,
                 togglingId, adding, acts, unsure>>

\* A deleted account has no status of its own any more.
SetActiveStatus(c) ==
  /\ toggle[c].at = "found"
  /\ toggle' = [toggle EXCEPT ![c].at = "written"]
  /\ account' = [account EXCEPT ![toggle[c].who] =
                   IF @ = "deleted" THEN @ ELSE toggle[c].to]
  /\ UNCHANGED <<conversation, users, activeCount, loading, timer, loads, togglingId,
                 adding, acts, unsure>>

\* The answer changes the row and both counters, by what the row was when it
\* was tapped.  An error changes nothing, also when the answer was lost.
ToggleEnds(c, ok) ==
  LET t == toggle[c] IN
  /\ Running(c) /\ (ok => t.at = "written")
  /\ toggle' = [toggle EXCEPT ![c].at = "done"]
  /\ togglingId' = Nobody
  /\ IF ok THEN /\ users' = [users EXCEPT ![t.who] = IF @ = "absent" THEN @ ELSE t.to]
                /\ activeCount' = IF t.to = "active" THEN activeCount + 1 ELSE activeCount - 1
                /\ UNCHANGED unsure
           ELSE /\ unsure' = (unsure \/ t.at # "refused")
                /\ UNCHANGED <<users, activeCount>>
  /\ loads' = Disturbed
  /\ UNCHANGED <<account, conversation, loading, timer, adding, acts>>

-----------------------------------------------------------------------------
\* handleSubmit of CreateUserModal, and create: the look for another account,
\* the INSERT, which the unique index refuses also for a deleted account, and
\* the conversation in a statement of its own.
Add(t) ==
  /\ Act /\ adding = NoAdding
  /\ adding' = [at |-> "checking", who |-> t] /\ loads' = Disturbed
  /\ UNCHANGED <<account, conversation, users, activeCount, loading, timer, toggle,
                 togglingId, unsure>>

Check ==
  /\ adding.at = "checking"
  /\ adding' = [adding EXCEPT !.at = IF adding.who \in Present THEN "refused" ELSE "inserting"]
  /\ UNCHANGED <<account, conversation, users, activeCount, loading, timer, loads, toggle,
                 togglingId, acts, unsure>>

Insert ==
  /\ adding.at = "inserting"
  /\ IF account[adding.who] = "none"
     THEN /\ account' = [account EXCEPT ![adding.who] = "active"]
          /\ adding' = [adding EXCEPT !.at = "conversing"]
     ELSE adding' = [adding EXCEPT !.at = "refused"] /\ UNCHANGED account
  /\ UNCHANGED <<conversation, users, activeCount, loading, timer, loads, toggle,
                 togglingId, acts, unsure>>

CreateConversation ==
  /\ adding.at = "conversing"
  /\ conversation' = conversation \cup {adding.who}
  /\ adding' = [adding EXCEPT !.at = "made"]
  /\ UNCHANGED <<account, users, activeCount, loading, timer, loads, toggle, togglingId,
                 acts, unsure>>

\* onCreated loads the list again; after an error the dialog stays, whatever
\* the server has done.
AddEnds(ok) ==
  /\ adding # NoAdding /\ (ok => adding.at = "made")
  /\ adding' = NoAdding
  /\ IF ok THEN LoadUsers(\E c \in Toggles : Running(c)) /\ UNCHANGED unsure
           ELSE /\ loads' = Disturbed /\ UNCHANGED loading
                /\ unsure' = (unsure \/ adding.at \in {"conversing", "made"})
  /\ UNCHANGED <<account, conversation, users, activeCount, timer, toggle, togglingId, acts>>

\* handleSave of EditUserModal, whose answer loads the list again.
SaveEdit ==
  /\ Act /\ LoadUsers(~Quiet)
  /\ UNCHANGED <<account, conversation, users, activeCount, timer, toggle, togglingId,
                 adding, unsure>>

\* The conversation of a trainee is made when the admin or the trainee opens it.
OpenConversation(t) ==
  /\ t \in Present /\ conversation' = conversation \cup {t}
  /\ UNCHANGED <<account, users, activeCount, loading, timer, loads, toggle, togglingId,
                 adding, acts, unsure>>

\* Somebody else changes an account; nothing tells this page.
Elsewhere(t, status) ==
  /\ Act /\ t \in Present /\ account[t] # status
  /\ account' = [account EXCEPT ![t] = status]
  /\ unsure' = TRUE /\ loads' = Disturbed
  /\ UNCHANGED <<conversation, users, activeCount, loading, timer, toggle, togglingId, adding>>

Next ==
  \/ \E l \in loads : Read(l) \/ \E ok \in BOOLEAN : LoadEnds(l, ok)
  \/ Search \/ TimerFires
  \/ \E c \in Toggles :
       \/ \E t \in Trainees : HandleToggleStatus(c, t)
       \/ FindForStatus(c) \/ SetActiveStatus(c)
       \/ \E ok \in BOOLEAN : ToggleEnds(c, ok)
  \/ \E t \in Trainees : Add(t) \/ OpenConversation(t)
  \/ \E t \in Trainees, s \in Status \cup {"deleted"} : Elsewhere(t, s)
  \/ Check \/ Insert \/ CreateConversation \/ SaveEdit
  \/ \E ok \in BOOLEAN : AddEnds(ok)

Spec == Init /\ [][Next]_vars

-----------------------------------------------------------------------------
\* When nothing runs, the page shows every account with its status, and its
\* counter is the number of active ones.  What the code does not cover is named
\* by `unsure`: a load that ran beside a change or another load, a failed one,
\* a change whose answer was lost or that was made elsewhere, and a second tap
\* on a row whose first request still runs, which counts one change twice
\* (admin/users/page.tsx:356-420, users.service.ts:97-131, 279-294).
PageAgreesAtRest ==
  Quiet /\ ~timer /\ ~unsure => users = Listed /\ activeCount = NumberActive
=============================================================================
