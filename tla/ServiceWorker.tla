---------------------------- MODULE ServiceWorker ----------------------------
(***************************************************************************)
(* The service worker server/static/sw.js in the browsers that visit a     *)
(* CASRAD server: it is installed beside the worker in charge, fills a     *)
(* cache, takes over, deletes other caches and answers the requests of the *)
(* pages it controls, while the server moves on to later builds.           *)
(*                                                                         *)
(* The browser's part (worker slots, order of events, the Cache API) is    *)
(* modelled as far as sw.js relies on it: fetch events wait for the end of *)
(* activation, a worker is replaced only when none of its events is        *)
(* pending, what it left unawaited may still take effect or be lost.       *)
(*                                                                         *)
(* At the commit modelled no browser gets a worker: no handler renders the *)
(* layout that registers it, the scope asked for is refused, and '/' is    *)
(* answered 404, which fails the install. The constants Registering,       *)
(* ScopeAllowed and Answered say so, or assume that this is repaired.      *)
(***************************************************************************)
EXTENDS Naturals, FiniteSets

CONSTANTS
  Tabs,           \* open tabs of one browser
  Pages,          \* paths of HTML pages
  Root,           \* the page '/'
  Assets,         \* paths under /static/
  Live,           \* /api/, /stream/, /subsonic/, /ampache/ and requests other than GET
  Others,         \* every other GET that is not a page: /robots.txt, /webdav/, other origins
  Answered,       \* paths the server can answer with success
  Registering,    \* pages rendered from base.html
  STATIC_ASSETS,  \* what the install handler caches in advance
  LastBuild,      \* bound: builds 0..LastBuild of the server are deployed
  MaxPuts,        \* bound: opens and puts under way; a further one is lost at once
  Script,         \* Script[b]: the bytes of sw.js in build b
  NoScript,       \* an empty worker slot
  CACHE_VERSION,  \* CACHE_VERSION[s]: the constant of that name in script s
  ScopeAllowed,   \* the scope '/' is granted to a script below /static/
  Evicts          \* caches may be dropped from outside the worker

Builds  == 0 .. LastBuild
Scripts == {Script[b] : b \in Builds}
Names   == {CACHE_VERSION[s] : s \in Scripts}
Paths   == Pages \cup Assets \cup Live \cup Others

ASSUME PathAssumption ==
  /\ Root \in Pages
  /\ Root \in STATIC_ASSETS
  /\ STATIC_ASSETS \subseteq Pages \cup Assets
  /\ Pages \cap (Assets \cup Live \cup Others) = {}
  /\ Assets \cap (Live \cup Others) = {}
  /\ Live \cap Others = {}
  /\ Answered \subseteq Paths /\ Registering \subseteq Pages

ASSUME BuildAssumption ==
  /\ LastBuild \in Nat /\ MaxPuts \in Nat
  /\ NoScript \notin Scripts
  /\ ScopeAllowed \in BOOLEAN /\ Evicts \in BOOLEAN

\* A response, or a cache entry: the path it was made for, response.ok and the
\* build of the server that made it.
Response == [path : Paths, ok : BOOLEAN, build : Builds]

\* What of it a page is shown, and whether a cache had kept it. The status
\* matters to the caches alone.
Content == [path : Paths, build : Builds, kept : BOOLEAN]

VARIABLES
  server,      \* the build deployed
  installing, waiting, active,   \* the scripts in the registration's three slots
  step,        \* the installing worker: "none", "open" (caches.open), "add" (addAll)
  fetched,     \* the responses addAll has so far
  orphaned,    \* the installing worker's cache was deleted after it opened it
  phase,       \* the active worker: "none", "keys", "delete", "activated"
  condemned,   \* the names its activate handler has still to delete
  claiming,    \* its clients.claim() has not taken effect yet
  caches,      \* the names of the caches that exist
  older,       \* pairs of them, the first created before the second
  stored,      \* stored[n]: the entries of cache n
  fills,       \* opens of a cache, unawaited, each for a response a worker will put
  puts,        \* those puts, under way against a cache that is open
  controlled,  \* tabs whose document the active worker controls
  request,     \* request[t][p]: how far t's request for p has come
  body         \* body[t][p]: the content it was answered with

workerVars == <<installing, waiting, active, step, fetched, orphaned, phase, condemned, claiming>>
cacheVars  == <<caches, older, stored>>
fillVars   == <<fills, puts>>
tabVars    == <<request, body>>
vars == <<server, workerVars, cacheVars, fillVars, controlled, tabVars>>

\* Where a request is: at a caches.match, at a fetch of the worker, or past it.
AtWorker == {"match", "fetch", "network", "fallback", "root"}
Settled  == {"idle", "answered", "offline", "dead"}
Stages   == AtWorker \cup Settled \cup {"direct"}

Unset(p) == [path |-> p, build |-> 0, kept |-> FALSE]

Init ==
  /\ server = 0
  /\ installing = NoScript /\ waiting = NoScript /\ active = NoScript
  /\ step = "none" /\ fetched = {} /\ orphaned = FALSE
  /\ phase = "none" /\ condemned = {} /\ claiming = FALSE
  /\ caches = {} /\ older = {} /\ stored = [n \in Names |-> {}]
  /\ fills = {} /\ puts = {}
  /\ controlled = {}
  /\ request = [t \in Tabs |-> [p \in Paths |-> "idle"]]
  /\ body = [t \in Tabs |-> [p \in Paths |-> Unset(p)]]

-----------------------------------------------------------------------------
(* The Cache API. *)

Open(n) ==
  /\ caches' = caches \cup {n}
  /\ older' = older \cup (IF n \in caches THEN {} ELSE caches \X {n})

\* cache.put and the last step of cache.addAll: entries of the same paths go.
Put(entries, new) == {e \in entries : \A r \in new : r.path # e.path} \cup new

Holds(n, p) == \E e \in stored[n] : e.path = p

\* caches.match asks the caches in the order of their creation.
Matched(n, p) ==
  {e \in stored[n] : e.path = p /\ \A m \in caches : <<m, n>> \in older => ~Holds(m, p)}

\* The Cache API does not promise that a cache stays: the user or a script of a
\* page may delete all of them. Puts under way then go to a cache nobody sees.
Evict ==
  /\ Evicts
  /\ caches # {}
  /\ caches' = {} /\ older' = {} /\ stored' = [n \in Names |-> {}]
  /\ puts' = {}
  /\ orphaned' = (orphaned \/ step = "add")
  /\ UNCHANGED <<server, installing, waiting, active, step, fetched, phase, condemned, claiming,
                 fills, controlled, tabVars>>

-----------------------------------------------------------------------------
(* A new build, and how its script gets to the browser. *)

Deploy ==
  /\ server < LastBuild
  /\ server' = server + 1
  /\ UNCHANGED <<workerVars, cacheVars, fillVars, controlled, tabVars>>

\* t shows a document, from whose links and scripts further requests come.
HasPage(t) == \E p \in Pages : request[t][p] = "answered"

Newest == IF waiting # NoScript THEN waiting ELSE active

\* The document shown, be it the fallback, contains the registration.
Registers(t) ==
  \E p \in Pages : request[t][p] = "answered" /\ body[t][p].path \in Registering

\* register() of a page, or the check for another script that follows a visit
\* once there is a registration.
Register ==
  /\ ScopeAllowed
  /\ \E t \in Tabs : Registers(t) \/ (HasPage(t) /\ Newest # NoScript)
  /\ installing = NoScript
  /\ Script[server] # Newest
  /\ installing' = Script[server]
  /\ step' = "open"
  /\ UNCHANGED <<server, waiting, active, fetched, orphaned, phase, condemned, claiming,
                 cacheVars, fillVars, controlled, tabVars>>

-----------------------------------------------------------------------------
(* install: open the cache, fetch every asset, store all of them or none. *)

InstallOpen ==
  /\ step = "open"
  /\ step' = "add"
  /\ Open(CACHE_VERSION[installing])
  /\ UNCHANGED <<server, installing, waiting, active, fetched, orphaned, phase, condemned,
                 claiming, stored, fillVars, controlled, tabVars>>

\* Mutant: an error answer is as good as any other.
InstallFetchAnyStatus(p) ==
  /\ step = "add"
  /\ \A r \in fetched : r.path # p
  /\ \E ok \in BOOLEAN :
       fetched' = fetched \cup {[path |-> p, ok |-> ok, build |-> server]}
  /\ UNCHANGED <<server, installing, waiting, active, step, orphaned, phase, condemned,
                 claiming, cacheVars, fillVars, controlled, tabVars>>

InstallFetch(p) ==
  /\ step = "add"
  /\ p \in Answered
  /\ \A r \in fetched : r.path # p
  /\ fetched' = fetched \cup {[path |-> p, ok |-> TRUE, build |-> server]}
  /\ UNCHANGED <<server, installing, waiting, active, step, orphaned, phase, condemned,
                 claiming, cacheVars, fillVars, controlled, tabVars>>

\* Mutant: the install is over, its step is not.
InstallEndsHalf ==
  /\ installing' = NoScript
  /\ fetched' = {}
  /\ orphaned' = FALSE
  /\ UNCHANGED step

InstallEnds ==
  /\ installing' = NoScript
  /\ step' = "none"
  /\ fetched' = {}
  /\ orphaned' = FALSE

\* An asset without answer, or with an error for an answer, rejects addAll.
InstallFails ==
  /\ step = "add"
  /\ \E p \in STATIC_ASSETS : \A r \in fetched : r.path # p
  /\ InstallEnds
  /\ UNCHANGED <<server, waiting, active, phase, condemned, claiming, cacheVars, fillVars,
                 controlled, tabVars>>

InstallPut ==
  /\ step = "add"
  /\ \A p \in STATIC_ASSETS : \E r \in fetched : r.path = p
  /\ stored' = IF orphaned THEN stored
               ELSE [stored EXCEPT ![CACHE_VERSION[installing]] = Put(@, fetched)]
  /\ waiting' = installing
  /\ InstallEnds
  /\ UNCHANGED <<server, active, phase, condemned, claiming, caches, older, fillVars,
                 controlled, tabVars>>

-----------------------------------------------------------------------------
(* activate: with skipWaiting, as soon as the old worker has nothing to do. *)

\* Mutant: the install handler does not call skipWaiting.
WaitForTabs == FALSE
SkipWaiting == TRUE

Quiet ==
  \/ active = NoScript
  \/ phase = "activated" /\ \A t \in Tabs, p \in Paths : request[t][p] \notin AtWorker

\* The script of the old worker runs no more; what it had asked of the browser
\* may still happen (FillOpen, FillPut).
Activate ==
  /\ waiting # NoScript
  /\ Quiet
  /\ SkipWaiting \/ controlled = {}
  /\ active' = waiting
  /\ waiting' = NoScript
  /\ phase' = "keys"
  /\ claiming' = TRUE
  /\ UNCHANGED <<server, installing, step, fetched, orphaned, condemned, cacheVars, fillVars,
                 controlled, tabVars>>

\* Mutant: the filter by name is missing.
ActivateKeysAll ==
  /\ phase = "keys"
  /\ phase' = "delete"
  /\ condemned' = caches
  /\ UNCHANGED <<server, installing, waiting, active, step, fetched, orphaned, claiming,
                 cacheVars, fillVars, controlled, tabVars>>

\* Mutant: the filter keeps the names that are equal.
ActivateKeysSame ==
  /\ phase = "keys"
  /\ phase' = "delete"
  /\ condemned' = caches \cap {CACHE_VERSION[active]}
  /\ UNCHANGED <<server, installing, waiting, active, step, fetched, orphaned, claiming,
                 cacheVars, fillVars, controlled, tabVars>>

ActivateKeys ==
  /\ phase = "keys"
  /\ phase' = "delete"
  /\ condemned' = caches \ {CACHE_VERSION[active]}
  /\ UNCHANGED <<server, installing, waiting, active, step, fetched, orphaned, claiming,
                 cacheVars, fillVars, controlled, tabVars>>

ActivateDelete(n) ==
  /\ phase = "delete"
  /\ n \in condemned
  /\ condemned' = condemned \ {n}
  /\ caches' = caches \ {n}
  /\ older' = {pair \in older : n \notin {pair[1], pair[2]}}
  /\ stored' = [stored EXCEPT ![n] = {}]
  /\ puts' = {w \in puts : w.cache # n}
  /\ orphaned' = (orphaned \/ (step = "add" /\ CACHE_VERSION[installing] = n))
  /\ UNCHANGED <<server, installing, waiting, active, step, fetched, phase, claiming, fills,
                 controlled, tabVars>>

ActivateDone ==
  /\ phase = "delete"
  /\ condemned = {}
  /\ phase' = "activated"
  /\ UNCHANGED <<server, installing, waiting, active, step, fetched, orphaned, condemned,
                 claiming, cacheVars, fillVars, controlled, tabVars>>

Claim ==
  /\ claiming
  /\ claiming' = FALSE
  /\ controlled' = controlled \cup {t \in Tabs : HasPage(t)}
  /\ UNCHANGED <<server, installing, waiting, active, step, fetched, orphaned, phase,
                 condemned, cacheVars, fillVars, tabVars>>

-----------------------------------------------------------------------------
(* Requests. Each answer, and each way to another stage, is a step. *)

Moves(t, p, from, to) ==
  /\ request[t][p] = from
  /\ request' = [request EXCEPT ![t][p] = to]

Answers(t, p, from, c) ==
  /\ Moves(t, p, from, "answered")
  /\ body' = [body EXCEPT ![t][p] = c]

\* The server's own answer, of the build deployed now, and a copy kept of one.
Served(p) == [path |-> p, build |-> server, kept |-> FALSE]
Copy(e)   == [path |-> e.path, build |-> e.build, kept |-> TRUE]

\* Mutant: API calls are treated like pages.
FetchListenerForgetsLive(p) == IF p \in Assets THEN "match" ELSE "network"

\* The branches of the fetch listener: leave it to the browser, cache first,
\* network first. The last takes what the prefixes do not name, pages or not.
FetchListener(p) ==
  CASE p \in Live   -> "direct"
    [] p \in Assets -> "match"
    [] OTHER        -> "network"

\* The user opens a page in a tab that waits for nothing.
Navigate(t, p) ==
  /\ \A q \in Paths : request[t][q] \in Settled
  /\ request' = [request EXCEPT ![t] =
       [q \in Paths |-> IF q # p THEN "idle"
                        ELSE IF active = NoScript THEN "direct" ELSE FetchListener(p)]]
  /\ body' = [body EXCEPT ![t] = [q \in Paths |-> Unset(q)]]
  /\ controlled' = IF active = NoScript THEN controlled \ {t} ELSE controlled \cup {t}
  /\ UNCHANGED <<server, workerVars, cacheVars, fillVars>>

\* Its document asks for an asset, for data or for anything else, once.
Load(t, p) ==
  /\ HasPage(t)
  /\ Moves(t, p, "idle", IF t \in controlled THEN FetchListener(p) ELSE "direct")
  /\ UNCHANGED <<server, workerVars, cacheVars, fillVars, controlled, body>>

\* Not the worker's business: an uncontrolled document, or a live path.
DirectAnswer(t, p) ==
  /\ Answers(t, p, "direct", Served(p))
  /\ UNCHANGED <<server, workerVars, cacheVars, fillVars, controlled>>

DirectOffline(t, p) ==
  /\ Moves(t, p, "direct", "offline")
  /\ UNCHANGED <<server, workerVars, cacheVars, fillVars, controlled, body>>

\* caches.match(q) for the request p, with or without an entry.
MatchHit(t, p, from, q) ==
  /\ phase = "activated"
  /\ \E n \in caches : \E e \in Matched(n, q) : Answers(t, p, from, Copy(e))
  /\ UNCHANGED <<server, workerVars, cacheVars, fillVars, controlled>>

MatchMiss(t, p, from, q, to) ==
  /\ phase = "activated"
  /\ \A n \in caches : ~Holds(n, q)
  /\ Moves(t, p, from, to)
  /\ UNCHANGED <<server, workerVars, cacheVars, fillVars, controlled, body>>

\* Cache first: what the network returns is passed on and, unawaited, stored,
\* whatever its status.
StaticHit(t, p)  == MatchHit(t, p, "match", p)
StaticMiss(t, p) == MatchMiss(t, p, "match", p, "fetch")

StaticFetched(t, p) ==
  /\ Answers(t, p, "fetch", Served(p))
  /\ \E ok \in BOOLEAN :
       LET f == [worker |-> active, entry |-> [path |-> p, ok |-> ok, build |-> server]]
       IN  /\ ok => p \in Answered
           /\ fills' = fills \cup
                IF Cardinality(fills) + Cardinality(puts) < MaxPuts THEN {f} ELSE {}
  /\ UNCHANGED <<server, workerVars, cacheVars, puts, controlled>>

\* Nobody catches a failed fetch here: respondWith rejects.
StaticRejected(t, p) ==
  /\ Moves(t, p, "fetch", "dead")
  /\ UNCHANGED <<server, workerVars, cacheVars, fillVars, controlled, body>>

\* The cache is opened, which may happen after its worker has been replaced;
\* only a worker still in charge goes on to put the response.
FillOpen(f) ==
  LET n == CACHE_VERSION[f.worker]
  IN  /\ f \in fills
      /\ fills' = fills \ {f}
      /\ Open(n)
      /\ puts' = puts \cup
           IF f.worker = active THEN {[cache |-> n, entry |-> f.entry]} ELSE {}
      /\ UNCHANGED <<server, workerVars, stored, controlled, tabVars>>

FillPut(w) ==
  /\ w \in puts
  /\ puts' = puts \ {w}
  /\ stored' = [stored EXCEPT ![w.cache] = Put(@, {w.entry})]
  /\ UNCHANGED <<server, workerVars, caches, older, fills, controlled, tabVars>>

\* The browser stopped the worker, or the put failed for want of space.
FillLost ==
  /\ \/ \E f \in fills : fills' = fills \ {f} /\ UNCHANGED puts
     \/ \E w \in puts : puts' = puts \ {w} /\ UNCHANGED fills
  /\ UNCHANGED <<server, workerVars, cacheVars, controlled, tabVars>>

\* Network first, then the page's own entry, then the entry of '/'.
PageFetched(t, p) ==
  /\ phase = "activated"
  /\ Answers(t, p, "network", Served(p))
  /\ UNCHANGED <<server, workerVars, cacheVars, fillVars, controlled>>

PageRejected(t, p) ==
  /\ phase = "activated"
  /\ Moves(t, p, "network", "fallback")
  /\ UNCHANGED <<server, workerVars, cacheVars, fillVars, controlled, body>>

FallbackHit(t, p)  == MatchHit(t, p, "fallback", p)
FallbackMiss(t, p) == MatchMiss(t, p, "fallback", p, "root")
RootHit(t, p)      == MatchHit(t, p, "root", Root)
RootMiss(t, p)     == MatchMiss(t, p, "root", Root, "dead")

-----------------------------------------------------------------------------
Browser == Register \/ Deploy \/ Evict

Install ==
  \/ InstallOpen
  \/ \E p \in STATIC_ASSETS : InstallFetch(p)
  \/ InstallFails
  \/ InstallPut

Activation ==
  \/ Activate
  \/ ActivateKeys
  \/ \E n \in condemned : ActivateDelete(n)
  \/ ActivateDone
  \/ Claim

Visit(t) ==
  \/ \E p \in Pages : Navigate(t, p)
  \/ \E p \in Paths \ Pages : Load(t, p)

Static(t, p) ==
  \/ StaticHit(t, p) \/ StaticMiss(t, p) \/ StaticFetched(t, p) \/ StaticRejected(t, p)

Page(t, p) ==
  \/ PageFetched(t, p) \/ PageRejected(t, p)
  \/ FallbackHit(t, p) \/ FallbackMiss(t, p) \/ RootHit(t, p) \/ RootMiss(t, p)

Fills ==
  \/ \E f \in fills : FillOpen(f)
  \/ \E w \in puts : FillPut(w)
  \/ FillLost

Next ==
  \/ Browser \/ Install \/ Activation \/ Fills
  \/ \E t \in Tabs : Visit(t)
  \/ \E t \in Tabs, p \in Paths :
       DirectAnswer(t, p) \/ DirectOffline(t, p) \/ Static(t, p) \/ Page(t, p)

Spec == Init /\ [][Next]_vars

-----------------------------------------------------------------------------
(* Fairness. A worker's steps and answers that are due come; the user goes  *)
(* on visiting pages, which load what they refer to; from some time on the  *)
(* network does not fail. Nobody has to deploy a build.                     *)

NetworkFailure ==
  \/ InstallFails
  \/ \E t \in Tabs, p \in Paths :
       DirectOffline(t, p) \/ StaticRejected(t, p) \/ PageRejected(t, p)

WorkerFairness ==
  /\ SF_vars(Register)
  /\ WF_vars(InstallOpen)
  /\ \A p \in STATIC_ASSETS : WF_vars(InstallFetch(p))
  /\ WF_vars(InstallPut)
  /\ SF_vars(Activate)
  /\ WF_vars(ActivateKeys)
  /\ \A n \in Names : WF_vars(ActivateDelete(n))
  /\ WF_vars(ActivateDone)
  /\ WF_vars(Claim)

TabFairness(t) ==
  /\ SF_vars(\E p \in Pages : Navigate(t, p))
  /\ \A p \in Paths \ Pages : SF_vars(Load(t, p))
  /\ \A p \in Paths :
       WF_vars(DirectAnswer(t, p)) /\ WF_vars(Static(t, p)) /\ WF_vars(Page(t, p))

FairSpec ==
  /\ Spec
  /\ <>[][~NetworkFailure]_vars
  /\ WorkerFairness
  /\ \A t \in Tabs : TabFairness(t)

-----------------------------------------------------------------------------
(* Properties. *)

TypeOK ==
  /\ server \in Builds
  /\ {installing, waiting, active} \subseteq Scripts \cup {NoScript}
  /\ step \in {"none", "open", "add"}
  /\ (step = "none") = (installing = NoScript)
  /\ fetched \in SUBSET Response
  /\ orphaned \in BOOLEAN
  /\ phase \in {"none", "keys", "delete", "activated"}
  /\ (phase = "none") = (active = NoScript)
  /\ condemned \in SUBSET Names
  /\ claiming \in BOOLEAN
  /\ caches \in SUBSET Names
  /\ older \in SUBSET (caches \X caches)
  /\ stored \in [Names -> SUBSET Response]
  /\ fills \in SUBSET [worker : Scripts, entry : Response]
  /\ puts \in SUBSET [cache : caches, entry : Response]
  /\ controlled \in SUBSET Tabs
  /\ request \in [Tabs -> [Paths -> Stages]]
  /\ body \in [Tabs -> [Paths -> Content]]

\* A worker that waits or is in charge has everything sw.js caches in advance,
\* each a good answer: neither an install that failed half-way, nor a worker
\* beside it, nor a later put of what the server answered may spoil it.
OfflineReady ==
  \A s \in {waiting, active} \ {NoScript}, p \in STATIC_ASSETS :
    LET n == CACHE_VERSION[s]
    IN  /\ n \in caches
        /\ Holds(n, p)
        /\ \A e \in stored[n] : e.path = p => e.ok

\* As long as nobody but the worker deletes caches, the entry of '/' is there
\* when a navigation needs it: through failed installs, updates and network
\* failures the last link of `cached || caches.match('/')` (sw.js 62-67) hits.
\* Nothing in sw.js answers when it does not, so with Evicts this is violated:
\* "that link can itself miss and resolve undefined" (AI.md 25393).
NavigationAnswered == \A t \in Tabs, p \in Pages : request[t][p] # "dead"

\* What stands in for what: a style sheet is answered with its own content; the
\* HTML of '/' comes for pages and for what no prefix names (against AI.md 25394,
\* "Only intercept same-origin GET"), and then from a cache; an API call, a stream or
\* a request other than GET is answered by the server itself, never from a cache
\* (sw.js 36-66).
RightAnswer ==
  \A t \in Tabs, p \in Paths : request[t][p] = "answered" =>
    /\ body[t][p].path # p =>
         p \in Pages \cup Others /\ body[t][p].path = Root /\ body[t][p].kept
    /\ p \in Live => ~body[t][p].kept

\* Once it is activated, no cache holds anything older than the first build that
\* used the active worker's cache name, though opens, puts and installs of other
\* workers were under way while the old caches were deleted (sw.js:19 "remove
\* stale caches"). With a name per build nothing older than the worker is left;
\* with the one name of sw.js:2 that first build is the first of all, and the
\* caches may hold anything.
CachesFresh ==
  phase = "activated" =>
    \A n \in Names : \A e \in stored[n] :
      \E b \in Builds : b <= e.build /\ CACHE_VERSION[Script[b]] = CACHE_VERSION[active]

\* With a script and a cache name per build, a build that stays deployed reaches
\* the pages of every tab: each asset is sooner or later shown in that build (AI.md
\* 14383 "A stale browser cache must never survive an update", 14393 "Cache name
\* MUST embed `{project_version}`"). With the one name of sw.js:2 it does not.
UpdateReachesPages ==
  \A t \in Tabs, p \in Assets, b \in Builds :
    server = b ~> (server # b \/ (request[t][p] = "answered" /\ body[t][p].build >= b))
=============================================================================
