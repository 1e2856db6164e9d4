------------------------------- MODULE Updates -------------------------------
(***************************************************************************)
(* How a tab comes to show the deployed build: the service worker's cache  *)
(* of pages, the version file that the page asks for when it is opened or  *)
(* comes to the front, and the two ways in which the page reloads itself,  *)
(* for a new build and for a new worker.                                   *)
(*                                                                         *)
(* A page is the build it belongs to.  Static files are named after their  *)
(* content and are left out.  The browser decides when it looks for a new  *)
(* worker.                                                                 *)
(***************************************************************************)
EXTENDS Integers, FiniteSets

CONSTANTS
  Builds,      \* versions in version.json
  Firsts,      \* builds that come with a changed sw.js
  MaxDeploys,  \* deployments, back to an older build among them (a bound)
  MaxChecks,   \* version checks under way at once (a bound)
  MaxCuts,     \* times the network goes away (a bound)
  NoBuild,     \* nothing: no page in the cache, no version remembered
  Offline      \* the page of a browser that found no page

VARIABLES
  deployed, deploys, worker,  \* the server: its build and its sw.js
  online, cuts,
  cached,      \* the page in the worker's cache
  controls,    \* sw.js of the worker that controls the tab, 0 without one
  page,        \* build of the document
  loading,     \* a navigation is under way: no, or what was asked for
  loadedVersion, reloading, swReloaded,  \* of the document's effect
  checks,      \* fetchVersion calls under way
  refresh,     \* hardRefresh: no, update, caches
  guards,      \* the sessionStorage keys
  tried,       \* history: builds this session reloaded for
  fresh        \* history: a check was answered after the last deployment

vars == <<deployed, deploys, worker, online, cuts, cached, controls, page, loading,
          loadedVersion, reloading, swReloaded, checks, refresh, guards, tried, fresh>>
server == <<deployed, deploys, worker>>
effect == <<loadedVersion, reloading, swReloaded, checks, refresh>>

Checks == [id : 1..MaxChecks, v : Builds \cup {NoBuild}]

TypeOK ==
  /\ deployed \in Builds /\ deploys \in 0..MaxDeploys /\ worker \in 1..MaxDeploys + 1
  /\ online \in BOOLEAN /\ cuts \in 0..MaxCuts
  /\ cached \in Builds \cup {NoBuild} /\ controls \in 0..MaxDeploys + 1
  /\ page \in Builds \cup {Offline} /\ loading \in BOOLEAN
  /\ loadedVersion \in Builds \cup {NoBuild}
  /\ reloading \in BOOLEAN /\ swReloaded \in BOOLEAN
  /\ checks \subseteq Checks /\ refresh \in {"no", "update", "caches"}
  /\ guards \subseteq Builds /\ tried \subseteq Builds /\ fresh \in BOOLEAN

\* A visitor's first page, before any worker.
Init ==
  /\ deployed \in Builds /\ deploys = 0 /\ worker = 1
  /\ online = TRUE /\ cuts = 0 /\ cached = NoBuild /\ controls = 0
  /\ page = deployed /\ loading = FALSE
  /\ loadedVersion = NoBuild /\ reloading = FALSE /\ swReloaded = FALSE
  /\ checks = {} /\ refresh = "no" /\ guards = {} /\ tried = {} /\ fresh = FALSE

-----------------------------------------------------------------------------
Deploy(b) ==
  /\ deploys < MaxDeploys /\ deploys' = deploys + 1
  /\ b # deployed /\ deployed' = b
  /\ worker' = IF b \in Firsts THEN worker + 1 ELSE worker
  /\ fresh' = FALSE
  /\ UNCHANGED <<online, cuts, cached, controls, page, loading, effect, guards, tried>>

\* The network goes and comes; the online event starts a check.
Cut ==
  /\ online /\ cuts < MaxCuts /\ cuts' = cuts + 1 /\ online' = FALSE
  /\ UNCHANGED <<server, cached, controls, page, loading, effect, guards, tried, fresh>>

\* checkForUpdate up to its await: at the mount, when the tab comes to the
\* front, and at the online event.
AskVersion == IF Cardinality(checks) < MaxChecks
  THEN checks' = checks \cup
         {[id |-> CHOOSE i \in 1..MaxChecks : \A c \in checks : c.id # i, v |-> NoBuild]}
  ELSE UNCHANGED checks

CheckForUpdate ==
  /\ online /\ ~loading /\ page # Offline /\ Cardinality(checks) < MaxChecks
  /\ AskVersion
  /\ UNCHANGED <<server, online, cuts, cached, controls, page, loading, loadedVersion,
                 reloading, swReloaded, refresh, guards, tried, fresh>>

BackOnline ==
  /\ ~online /\ online' = TRUE
  /\ IF page # Offline /\ ~loading THEN AskVersion ELSE UNCHANGED checks
  /\ UNCHANGED <<server, cuts, cached, controls, page, loading, loadedVersion, reloading,
                 swReloaded, refresh, guards, tried, fresh>>

\* The server reads version.json, which nothing caches.
ServeVersion(c) ==
  /\ c \in checks /\ c.v = NoBuild /\ online
  /\ checks' = (checks \ {c}) \cup {[c EXCEPT !.v = deployed]}
  /\ UNCHANGED <<server, online, cuts, cached, controls, page, loading, loadedVersion,
                 reloading, swReloaded, refresh, guards, tried, fresh>>

\* Mutant: the key of the guard does not name the version.
HardRefreshOnce(v) ==
  /\ reloading' = (reloading \/ v \notin guards)
  /\ IF reloading \/ v \in guards THEN UNCHANGED <<refresh, guards, tried>>
     ELSE refresh' = "update" /\ guards' = Builds /\ tried' = tried \cup {v}

\* hardRefresh up to its await.
HardRefresh(v) ==
  /\ reloading' = (reloading \/ v \notin guards)
  /\ IF reloading \/ v \in guards THEN UNCHANGED <<refresh, guards, tried>>
     ELSE refresh' = "update" /\ guards' = guards \cup {v} /\ tried' = tried \cup {v}

\* The answer: the first version is taken for that of the document.
Answer(c) ==
  /\ c \in checks /\ c.v # NoBuild /\ checks' = checks \ {c}
  /\ fresh' = (fresh \/ c.v = deployed)
  /\ IF loadedVersion = NoBuild
     THEN loadedVersion' = c.v /\ UNCHANGED <<reloading, refresh, guards, tried>>
     ELSE /\ UNCHANGED loadedVersion
          /\ IF c.v # loadedVersion THEN HardRefresh(c.v)
             ELSE UNCHANGED <<reloading, refresh, guards, tried>>
  /\ UNCHANGED <<server, online, cuts, cached, controls, page, loading, swReloaded>>

CheckFails(c) ==
  /\ c \in checks /\ checks' = checks \ {c}
  /\ UNCHANGED <<server, online, cuts, cached, controls, page, loading, loadedVersion,
                 reloading, swReloaded, refresh, guards, tried, fresh>>

\* hardRefresh goes on: the worker's update, whose outcome does not matter,
\* then the caches, then the reload.
Reload == loading' = TRUE
HardRefreshGoesOn ==
  /\ ~loading
  /\ \/ refresh = "update" /\ refresh' = "caches" /\ cached' = NoBuild
        /\ UNCHANGED loading
     \/ refresh = "caches" /\ refresh' = "no" /\ Reload /\ UNCHANGED cached
  /\ UNCHANGED <<server, online, cuts, controls, page, loadedVersion, reloading,
                 swReloaded, checks, guards, tried, fresh>>

\* The browser found another sw.js, which skips waiting, keeps the cache of its
\* name and claims the tab: controllerchange.
WorkerTakesOver ==
  /\ online /\ controls # worker /\ ~loading /\ page # Offline
  /\ controls' = worker
  /\ IF swReloaded THEN UNCHANGED <<swReloaded, loading>> ELSE swReloaded' = TRUE /\ Reload
  /\ UNCHANGED <<server, online, cuts, cached, page, loadedVersion, reloading, checks,
                 refresh, guards, tried, fresh>>

\* The document is loaded: from the network, and kept; else, when a worker
\* controls the tab, from the cache (networkFirst).  Its effect starts anew.
LoadPage ==
  /\ loading /\ loading' = FALSE
  /\ page' = IF online THEN deployed
             ELSE IF controls # 0 /\ cached # NoBuild THEN cached ELSE Offline
  /\ cached' = IF online /\ controls # 0 THEN deployed ELSE cached
  /\ loadedVersion' = NoBuild /\ reloading' = FALSE /\ swReloaded' = FALSE
  /\ refresh' = "no" /\ checks' = {} /\ fresh' = FALSE
  /\ UNCHANGED <<server, online, cuts, controls, guards, tried>>

\* The user reloads, or closes the app and opens it again.
UserLoads(again) ==
  /\ ~loading /\ Reload
  /\ guards' = (IF again THEN {} ELSE guards) /\ tried' = (IF again THEN {} ELSE tried)
  /\ UNCHANGED <<server, online, cuts, cached, controls, page, effect, fresh>>

Next ==
  \/ \E b \in Builds : Deploy(b)
  \/ Cut \/ BackOnline \/ CheckForUpdate \/ HardRefreshGoesOn \/ WorkerTakesOver \/ LoadPage
  \/ \E again \in BOOLEAN : UserLoads(again)
  \/ \E c \in checks : ServeVersion(c) \/ Answer(c) \/ CheckFails(c)

Spec == Init /\ [][Next]_vars

-----------------------------------------------------------------------------
\* At rest, once a check was answered since the last deployment, the tab shows
\* the deployed build.  What the code does not cover: a document that took a
\* newer version for its own (it came from the cache, or a deployment fell
\* between the page and the first check), and a build that this session already
\* reloaded for, which a return to it does not load again
\* (ServiceWorkerRegistrar.tsx:41, 68-76).
ShowsTheDeployed ==
  /\ online /\ ~loading /\ refresh = "no" /\ checks = {} /\ fresh /\ page # Offline
  /\ loadedVersion = page /\ deployed \notin tried
  => page = deployed
=============================================================================
