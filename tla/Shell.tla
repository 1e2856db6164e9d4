-------------------------------- MODULE Shell --------------------------------
(***************************************************************************)
(* Which page a tab stands on, with several tabs of one browser: the       *)
(* cookies that the middleware reads, the user that the auth store keeps   *)
(* in localStorage and each tab in memory, the refresh token of the        *)
(* browser and the access token of each tab, the guards of the two         *)
(* layouts, the splash page, login, logout, the interceptor's way out, and *)
(* the profile forms, which write the store and so what the browser keeps. *)
(***************************************************************************)
EXTENDS Integers, FiniteSets

CONSTANTS
  Tabs,
  AdminUsers, TraineeUsers,  \* the users of this browser, by role
  MaxMoves,                  \* links, reloads, logins, logouts, requests, saves (a bound)
  NoUser

VARIABLES
  cookie,     \* auth_flag and user_role, set and cleared together: a role or "none"
  persisted,  \* auth-storage in localStorage
  refresh,    \* the refresh token in localStorage: whose it is
  path,       \* the page of each tab; a splash page knows where it leads
  user,       \* the store in the tab's memory
  access,     \* the access token in the tab's sessionStorage
  leaving,    \* handleLogout awaits the server
  saving,     \* a profile form awaits the server: the user of its closure, and
              \* the user whose token the request carries
  moves,
  foreign,    \* history: another tab logged in or out since this one got its token
  crossed     \* history: since the last login or logout, a form's answer has put
              \* another user into the store

vars == <<cookie, persisted, refresh, path, user, access, leaving, saving, moves,
          foreign, crossed>>
history == <<foreign, crossed>>

LoginUsers == AdminUsers \cup TraineeUsers
Owners == LoginUsers \cup {NoUser}
Splashes == {"to login", "to admin", "to trainee"}
Pages == {"login", "admin", "trainee", "profile"}
Paths == Splashes \cup Pages
Inside == {"admin", "trainee", "profile"}
NotSaving == [of |-> NoUser, by |-> NoUser]
Role(u) == IF u \in AdminUsers THEN "ADMIN" ELSE "USER"

TypeOK ==
  /\ cookie \in {"none", "ADMIN", "USER"} /\ persisted \in Owners /\ refresh \in Owners
  /\ path \in [Tabs -> Paths] /\ user \in [Tabs -> Owners]
  /\ access \in [Tabs -> Owners] /\ leaving \in [Tabs -> BOOLEAN]
  /\ saving \in [Tabs -> [of : Owners, by : Owners]]
  /\ moves \in 0..MaxMoves /\ foreign \in [Tabs -> BOOLEAN]
  /\ crossed \in BOOLEAN

Init ==
  /\ cookie = "none" /\ persisted = NoUser /\ refresh = NoUser
  /\ path \in [Tabs -> {"to login", "login"}]
  /\ user = [t \in Tabs |-> NoUser] /\ access = [t \in Tabs |-> NoUser]
  /\ leaving = [t \in Tabs |-> FALSE] /\ saving = [t \in Tabs |-> NotSaving]
  /\ moves = 0
  /\ foreign = [t \in Tabs |-> FALSE] /\ crossed = FALSE

Move == moves < MaxMoves /\ moves' = moves + 1

-----------------------------------------------------------------------------
\* SplashPage reads the cookies when it is mounted.
Mounted == IF cookie = "none" THEN "to login"
           ELSE IF cookie = "ADMIN" THEN "to admin" ELSE "to trainee"

\* Mutant: whoever has the cookie is sent away from the login page.
MiddlewareAndLogin(p) ==
  IF p = "root" THEN Mounted
  ELSE IF cookie = "none" THEN "login"
  ELSE IF p = "admin" /\ cookie # "ADMIN" THEN "trainee"
  ELSE IF p \in {"trainee", "login"} /\ cookie = "ADMIN" THEN "admin"
  ELSE IF p = "login" THEN "trainee" ELSE p

\* middleware: where a request for a page ends.  The profile page is in
\* neither list of roles.
Middleware(p) ==
  IF p = "root" THEN Mounted
  ELSE IF p = "login" \/ cookie = "none" THEN "login"
  ELSE IF p = "admin" /\ cookie # "ADMIN" THEN "trainee"
  ELSE IF p = "trainee" /\ cookie = "ADMIN" THEN "admin"
  ELSE p

\* A route inside the app keeps the tab's memory; a full load takes the store
\* from localStorage, and no answer reaches the page that is gone.
Go(t, p) == path' = [path EXCEPT ![t] = Middleware(p)]
Load(t, p) ==
  /\ Go(t, p)
  /\ user' = [user EXCEPT ![t] = persisted]
  /\ leaving' = [leaving EXCEPT ![t] = FALSE]
  /\ saving' = [saving EXCEPT ![t] = NotSaving]

\* A link, the back button or a push notification's link.
Follow(t, p) ==
  /\ Move /\ Go(t, p)
  /\ UNCHANGED <<cookie, persisted, refresh, user, access, leaving, saving, history>>

\* The address bar, a reload, or the app opened again in this tab (kept) or in
\* a new one.
Visit(t, p, kept) ==
  /\ Move /\ Load(t, p)
  /\ access' = IF kept THEN access ELSE [access EXCEPT ![t] = NoUser]
  /\ foreign' = IF kept THEN foreign ELSE [foreign EXCEPT ![t] = FALSE]
  /\ UNCHANGED <<cookie, persisted, refresh, crossed>>

-----------------------------------------------------------------------------
\* The splash page's timer sends the tab on.
Splash(t) ==
  /\ path[t] \in Splashes
  /\ Go(t, CASE path[t] = "to login" -> "login" [] path[t] = "to admin" -> "admin"
              [] path[t] = "to trainee" -> "trainee")
  /\ UNCHANGED <<cookie, persisted, refresh, user, access, leaving, saving, moves, history>>

\* The effects of UserLayout and AdminLayout: router.replace("/login").
Misplaced(t) ==
  \/ path[t] = "admin" /\ user[t] \notin AdminUsers
  \/ path[t] \in {"trainee", "profile"} /\ user[t] = NoUser
GuardLeaves(t) ==
  /\ Misplaced(t) /\ Go(t, "login")
  /\ UNCHANGED <<cookie, persisted, refresh, user, access, leaving, saving, moves, history>>

\* handleVerify, answered: tokens, store, cookies, and on to the role's page.
HandleVerify(t, u) ==
  /\ path[t] = "login" /\ Move
  /\ access' = [access EXCEPT ![t] = u] /\ refresh' = u
  /\ user' = [user EXCEPT ![t] = u] /\ persisted' = u
  /\ cookie' = Role(u)
  /\ path' = [path EXCEPT ![t] = IF u \in AdminUsers THEN "admin" ELSE "trainee"]
  /\ foreign' = [s \in Tabs |-> s # t] /\ crossed' = FALSE
  /\ UNCHANGED <<leaving, saving>>

\* handleLogout of the layouts: the server is told first; then everything of
\* the browser goes, also what another tab has put there since.
HandleLogout(t) ==
  /\ path[t] \in Inside /\ user[t] # NoUser /\ ~leaving[t]
  /\ Move /\ leaving' = [leaving EXCEPT ![t] = TRUE]
  /\ UNCHANGED <<cookie, persisted, refresh, path, user, access, saving, history>>
LogoutEnds(t) ==
  /\ leaving[t] /\ leaving' = [leaving EXCEPT ![t] = FALSE]
  /\ access' = [access EXCEPT ![t] = NoUser] /\ refresh' = NoUser
  /\ user' = [user EXCEPT ![t] = NoUser] /\ persisted' = NoUser /\ cookie' = "none"
  /\ path' = [path EXCEPT ![t] = "login"]
  /\ foreign' = [s \in Tabs |-> s # t] /\ crossed' = FALSE
  /\ UNCHANGED <<saving, moves>>

\* A page's request is refused, without an access token or with an expired one:
\* the interceptor takes a new one for the browser's refresh token, or clears
\* the tokens and loads the login page.  Store and cookies stay as they are.
Unauthorized(t, renewed) ==
  /\ path[t] \in Inside /\ user[t] # NoUser /\ Move
  /\ IF renewed
     THEN /\ refresh # NoUser /\ access' = [access EXCEPT ![t] = refresh]
          /\ UNCHANGED <<refresh, path, user, leaving, saving, history>>
     ELSE /\ access' = [access EXCEPT ![t] = NoUser] /\ refresh' = NoUser
          /\ Load(t, "login") /\ foreign' = [foreign EXCEPT ![t] = FALSE]
          /\ UNCHANGED crossed
  /\ UNCHANGED <<cookie, persisted>>

\* handleSave and handleImageUpload of the profile pages and of the trainees'
\* modal: PATCH /users/me or POST /users/me/profile-image.  (One at a time in a
\* tab is a bound.)
SaveProfile(t) ==
  /\ path[t] \in Inside /\ user[t] # NoUser /\ access[t] # NoUser
  /\ saving[t] = NotSaving /\ Move
  /\ saving' = [saving EXCEPT ![t] = [of |-> user[t], by |-> access[t]]]
  /\ UNCHANGED <<cookie, persisted, refresh, path, user, access, leaving, history>>

\* setUser of the answer, wherever the tab now stands: the user of the closure
\* with new names (the pages), or the server's row spread over it (the modal);
\* persist writes it to localStorage.
SaveEnds(t, u) ==
  /\ saving[t] # NotSaving /\ u \in {saving[t].of, saving[t].by}
  /\ saving' = [saving EXCEPT ![t] = NotSaving]
  /\ user' = [user EXCEPT ![t] = u] /\ persisted' = u
  /\ crossed' = (crossed \/ u # persisted)
  /\ UNCHANGED <<cookie, refresh, path, access, leaving, moves, foreign>>
SaveFails(t) ==
  /\ saving[t] # NotSaving /\ saving' = [saving EXCEPT ![t] = NotSaving]
  /\ UNCHANGED <<cookie, persisted, refresh, path, user, access, leaving, moves, history>>

Next == \E t \in Tabs :
  \/ Splash(t) \/ GuardLeaves(t) \/ HandleLogout(t) \/ LogoutEnds(t)
  \/ SaveProfile(t) \/ SaveFails(t)
  \/ \E u \in LoginUsers : HandleVerify(t, u) \/ SaveEnds(t, u)
  \/ \E p \in Pages \cup {"root"} : Follow(t, p) \/ \E kept \in BOOLEAN : Visit(t, p, kept)
  \/ \E renewed \in BOOLEAN : Unauthorized(t, renewed)

\* The splash timer fires and an effect runs after its render.
Fairness == \A t \in Tabs : WF_vars(Splash(t)) /\ WF_vars(GuardLeaves(t))
Spec == Init /\ [][Next]_vars /\ Fairness

-----------------------------------------------------------------------------
\* No circle of redirects: the tabs that are on their way, from the splash page
\* or from a page their user may not see, come to rest.  The middleware, which
\* reads cookies, and the layouts, which read the store, may disagree: tokens
\* that are gone leave both, and another tab changes only the cookies.
TabComesToRest ==
  (\E t \in Tabs : path[t] \in Splashes \/ Misplaced(t)) ~>
  (\A t \in Tabs : path[t] \notin Splashes /\ ~Misplaced(t))

\* A tab at rest shows the pages of its user, with that user's token, as long
\* as no other tab has logged in or out since it got that token, and no form's
\* answer has put another user into the store: a reload takes the new user's
\* store and keeps the old user's token (auth.store.ts:28-36,
\* api-client.ts:12), and an answer writes the store whoever has logged in
\* since (ProfileEditModal.tsx:108, admin/profile/page.tsx:51).
PagesFitTheUser ==
  crossed \/ \A t \in Tabs : ~foreign[t] /\ ~Misplaced(t) /\ path[t] \in {"admin", "trainee"} =>
    /\ path[t] = "admin" <=> user[t] \in AdminUsers
    /\ access[t] \in {user[t], NoUser}
=============================================================================
