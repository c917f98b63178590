------------------------- MODULE ServiceWorkerProofs -------------------------
(***************************************************************************)
(* Theorems about ServiceWorker, for any number of tabs, paths, builds and  *)
(* scripts.                                                                *)
(***************************************************************************)
EXTENDS ServiceWorker, TLAPS

\* Nothing is under way at a worker before there is one.
InCharge ==
  active = NoScript =>
    /\ ~claiming
    /\ controlled = {}
    /\ \A t \in Tabs, p \in Paths : request[t][p] \notin AtWorker

\* A request takes the stages of its kind of path only.
KindOfStage ==
  \A t \in Tabs, p \in Paths :
    /\ request[t][p] \in {"match", "fetch"} => p \in Assets
    /\ request[t][p] \in {"network", "fallback", "root"} => p \in Pages \cup Others

TInv == TypeOK /\ InCharge /\ KindOfStage

LEMMA NamesOfScripts ==
  ASSUME NEW s \in Scripts
  PROVE  CACHE_VERSION[s] \in Names
BY DEF Names

LEMMA ListenerStage ==
  ASSUME NEW p \in Paths
  PROVE  /\ FetchListener(p) \in {"direct", "match", "network"}
         /\ FetchListener(p) = "match" => p \in Assets
         /\ FetchListener(p) = "network" => p \in Pages \cup Others
BY DEF FetchListener, Paths

LEMMA TInvInit == Init => TInv
<1> SUFFICES ASSUME Init PROVE TInv
  OBVIOUS
<1>1. 0 \in Builds
  BY BuildAssumption DEF Builds
<1>2. TypeOK
  BY <1>1 DEF Init, TypeOK, Unset, Content, Stages, AtWorker, Settled
<1>3. InCharge
  BY DEF Init, InCharge, AtWorker
<1>4. KindOfStage
  BY DEF Init, KindOfStage
<1> QED
  BY <1>2, <1>3, <1>4 DEF TInv

LEMMA TInvBrowser == TInv /\ Browser => TInv'
<1> SUFFICES ASSUME TInv, Browser PROVE TInv'
  OBVIOUS
<1>1. CASE Deploy
  <2>1. server' \in Builds
    BY <1>1, BuildAssumption DEF Deploy, TInv, TypeOK, Builds, fillVars
  <2> QED
    BY <1>1, <2>1 DEF Deploy, TInv, TypeOK, InCharge, KindOfStage, workerVars, cacheVars, tabVars,
       fillVars
<1>2. CASE Register
  <2>1. Script[server] \in Scripts
    BY DEF TInv, TypeOK, Scripts
  <2> QED
    BY <1>2, <2>1, BuildAssumption DEF Register, TInv, TypeOK, InCharge, KindOfStage, cacheVars,
       tabVars, fillVars
<1>3. CASE Evict
  BY <1>3, BuildAssumption DEF Evict, TInv, TypeOK, InCharge, KindOfStage, tabVars, fillVars
<1> QED
  BY <1>1, <1>2, <1>3 DEF Browser

\* A put is under way against a cache that exists.
LEMMA OpenTypes ==
  ASSUME TypeOK, NEW n \in Names, Open(n)
  PROVE  /\ caches' \in SUBSET Names /\ older' \in SUBSET (caches' \X caches')
         /\ caches \subseteq caches' /\ n \in caches'
         /\ puts \in SUBSET [cache : caches', entry : Response]
<1>1. caches' \in SUBSET Names /\ older' \in SUBSET (caches' \X caches')
  BY DEF TypeOK, Open
<1>2. caches \subseteq caches' /\ n \in caches'
  BY DEF Open
<1> QED
  BY <1>1, <1>2 DEF TypeOK

LEMMA TInvInstall == TInv /\ Install => TInv'
<1> SUFFICES ASSUME TInv, Install PROVE TInv'
  OBVIOUS
<1>1. CASE InstallOpen
  <2>1. CACHE_VERSION[installing] \in Names
    BY <1>1, NamesOfScripts DEF InstallOpen, TInv, TypeOK, fillVars
  <2>2. /\ caches' \in SUBSET Names /\ older' \in SUBSET (caches' \X caches')
        /\ puts' \in SUBSET [cache : caches', entry : Response]
    BY <1>1, <2>1, OpenTypes DEF InstallOpen, TInv, fillVars
  <2> QED
    BY <1>1, <2>2 DEF InstallOpen, TInv, TypeOK, InCharge, KindOfStage, tabVars, fillVars
<1>2. ASSUME NEW p \in STATIC_ASSETS, InstallFetch(p) PROVE TInv'
  <2>1. [path |-> p, ok |-> TRUE, build |-> server] \in Response
    BY PathAssumption DEF TInv, TypeOK, Response, Paths
  <2> QED
    BY <1>2, <2>1 DEF InstallFetch, TInv, TypeOK, InCharge, KindOfStage, cacheVars, tabVars,
       fillVars
<1>3. CASE InstallFails
  BY <1>3 DEF InstallFails, InstallEnds, TInv, TypeOK, InCharge, KindOfStage, cacheVars, tabVars,
     fillVars
<1>4. CASE InstallPut
  <2>1. CACHE_VERSION[installing] \in Names
    BY <1>4, NamesOfScripts DEF InstallPut, TInv, TypeOK, fillVars
  <2>2. stored' \in [Names -> SUBSET Response]
    BY <1>4, <2>1 DEF InstallPut, Put, TInv, TypeOK, fillVars
  <2> QED
    BY <1>4, <2>2 DEF InstallPut, InstallEnds, TInv, TypeOK, InCharge, KindOfStage, tabVars,
       fillVars
<1> QED
  BY <1>1, <1>2, <1>3, <1>4 DEF Install, fillVars

LEMMA TInvActivation == TInv /\ Activation => TInv'
<1> SUFFICES ASSUME TInv, Activation PROVE TInv'
  OBVIOUS
<1>1. CASE Activate
  BY <1>1, BuildAssumption DEF Activate, TInv, TypeOK, InCharge, KindOfStage, cacheVars, tabVars,
     fillVars
<1>2. CASE ActivateKeys
  BY <1>2 DEF ActivateKeys, TInv, TypeOK, InCharge, KindOfStage, cacheVars, tabVars, fillVars
<1>3. ASSUME NEW n \in condemned, ActivateDelete(n) PROVE TInv'
  <2>1. older' \in SUBSET (caches' \X caches')
    BY <1>3 DEF ActivateDelete, TInv, TypeOK, fillVars
  <2>2. stored' \in [Names -> SUBSET Response]
    BY <1>3 DEF ActivateDelete, TInv, TypeOK, fillVars
  <2>3. orphaned' \in BOOLEAN
    BY <1>3 DEF ActivateDelete, TInv, TypeOK, fillVars
  <2>4. puts' \in SUBSET [cache : caches', entry : Response]
    BY <1>3 DEF ActivateDelete, TInv, TypeOK, fillVars
  <2> QED
    BY <1>3, <2>1, <2>2, <2>3, <2>4 DEF ActivateDelete, TInv, TypeOK, InCharge, KindOfStage,
       tabVars, fillVars
<1>4. CASE ActivateDone
  BY <1>4 DEF ActivateDone, TInv, TypeOK, InCharge, KindOfStage, cacheVars, tabVars, fillVars
<1>5. CASE Claim
  BY <1>5 DEF Claim, TInv, TypeOK, InCharge, KindOfStage, cacheVars, tabVars, fillVars
<1> QED
  BY <1>1, <1>2, <1>3, <1>4, <1>5 DEF Activation, fillVars
\* Of a request that moves, only the stage changes.
LEMMA MovesTyped ==
  ASSUME TInv, NEW t \in Tabs, NEW p \in Paths, NEW from, NEW to \in Stages, Moves(t, p, from, to),
         to \in AtWorker => active # NoScript,
         to \in {"match", "fetch"} => p \in Assets,
         to \in {"network", "fallback", "root"} => p \in Pages \cup Others,
         UNCHANGED <<active, claiming, controlled>>
  PROVE  request' \in [Tabs -> [Paths -> Stages]] /\ InCharge' /\ KindOfStage'
<1>1. request' \in [Tabs -> [Paths -> Stages]]
  BY DEF Moves, TInv, TypeOK
<1>2. \A u \in Tabs, q \in Paths :
        request'[u][q] = IF u = t /\ q = p THEN to ELSE request[u][q]
  BY DEF Moves, TInv, TypeOK
<1>3. InCharge'
  BY <1>2 DEF InCharge, TInv
<1>4. KindOfStage'
  BY <1>2 DEF KindOfStage, TInv
<1> QED
  BY <1>1, <1>3, <1>4

\* An answer is content of the right type if it comes from the server or from
\* an entry of a cache.
LEMMA AnswersTyped ==
  ASSUME TInv, NEW t \in Tabs, NEW p \in Paths, NEW from, NEW r, Answers(t, p, from, r),
         r \in Content,
         UNCHANGED <<active, claiming, controlled>>
  PROVE  /\ request' \in [Tabs -> [Paths -> Stages]] /\ InCharge' /\ KindOfStage'
         /\ body' \in [Tabs -> [Paths -> Content]]
<1>1. Moves(t, p, from, "answered")
  BY DEF Answers
<1>2. request' \in [Tabs -> [Paths -> Stages]] /\ InCharge' /\ KindOfStage'
  BY <1>1, MovesTyped DEF Stages, Settled, AtWorker
<1>3. body' \in [Tabs -> [Paths -> Content]]
  BY DEF Answers, TInv, TypeOK
<1> QED
  BY <1>2, <1>3

LEMMA ServedTyped ==
  ASSUME TInv, NEW p \in Paths
  PROVE  Served(p) \in Content
BY DEF Served, Content, TInv, TypeOK

LEMMA TInvMatchHit ==
  ASSUME TInv, NEW t \in Tabs, NEW p \in Paths, NEW from, NEW q, MatchHit(t, p, from, q)
  PROVE  TInv'
<1>0. PICK n \in caches : \E e \in Matched(n, q) : Answers(t, p, from, Copy(e))
  BY DEF MatchHit, fillVars
<1>1. PICK e \in Matched(n, q) : Answers(t, p, from, Copy(e))
  BY <1>0
<1>2. e \in Response
  BY <1>1 DEF Matched, TInv, TypeOK, fillVars
<1>3. Copy(e) \in Content
  BY <1>2 DEF Response, Copy, Content
<1>4. /\ request' \in [Tabs -> [Paths -> Stages]] /\ InCharge' /\ KindOfStage'
      /\ body' \in [Tabs -> [Paths -> Content]]
  BY <1>1, <1>3, AnswersTyped DEF MatchHit, workerVars, TInv, InCharge, fillVars
<1> QED
  BY <1>4 DEF MatchHit, TInv, TypeOK, workerVars, cacheVars, fillVars

LEMMA TInvMatchMiss ==
  ASSUME TInv, NEW t \in Tabs, NEW p \in Paths, NEW from, NEW q, NEW to \in Stages,
         MatchMiss(t, p, from, q, to),
         to \in {"match", "fetch"} => p \in Assets,
         to \in {"network", "fallback", "root"} => p \in Pages \cup Others
  PROVE  TInv'
<1>1. active # NoScript
  BY DEF MatchMiss, TInv, TypeOK, fillVars
<1>2. request' \in [Tabs -> [Paths -> Stages]] /\ InCharge' /\ KindOfStage'
  BY <1>1, MovesTyped DEF MatchMiss, workerVars, fillVars
<1> QED
  BY <1>2 DEF MatchMiss, TInv, TypeOK, workerVars, cacheVars, fillVars

\* What the cache-first branch adds to the pending opens, if anything.
LEMMA FetchedFill ==
  ASSUME NEW t \in Tabs, NEW p \in Paths, StaticFetched(t, p)
  PROVE  \A f \in fills' : f \in fills \/ \E ok \in BOOLEAN :
           f = [worker |-> active, entry |-> [path |-> p, ok |-> ok, build |-> server]]
<1>1. PICK ok \in BOOLEAN :
        fills' \subseteq fills \cup
          {[worker |-> active, entry |-> [path |-> p, ok |-> ok, build |-> server]]}
  <2> DEFINE new(k) == [worker |-> active, entry |-> [path |-> p, ok |-> k, build |-> server]]
             room   == Cardinality(fills) + Cardinality(puts) < MaxPuts
  <2>1. PICK k \in BOOLEAN : fills' = fills \cup IF room THEN {new(k)} ELSE {}
    BY DEF StaticFetched
  <2> HIDE DEF room, new
  <2>2. fills' \subseteq fills \cup {new(k)}
    BY <2>1
  <2> QED
    BY <2>2 DEF new
<1> QED
  BY <1>1

LEMMA TInvStatic ==
  ASSUME TInv, NEW t \in Tabs, NEW p \in Paths, Static(t, p)
  PROVE  TInv'
<1>1. CASE StaticHit(t, p)
  BY <1>1, TInvMatchHit DEF StaticHit
<1>2. CASE StaticMiss(t, p)
  <2>1. p \in Assets
    BY <1>2 DEF StaticMiss, MatchMiss, Moves, TInv, KindOfStage, fillVars
  <2> QED
    BY <1>2, <2>1, TInvMatchMiss DEF StaticMiss, Stages, AtWorker
<1>3. CASE StaticFetched(t, p)
  <2>1. active # NoScript
    BY <1>3 DEF StaticFetched, Answers, Moves, AtWorker, TInv, InCharge
  <2>2. \A ok \in BOOLEAN : [path |-> p, ok |-> ok, build |-> server] \in Response
    BY DEF Response, TInv, TypeOK
  <2>3. \A f \in fills' : f \in fills \/ \E ok \in BOOLEAN :
          f = [worker |-> active, entry |-> [path |-> p, ok |-> ok, build |-> server]]
    BY <1>3, FetchedFill
  <2>5. fills' \in SUBSET [worker : Scripts, entry : Response]
    BY <2>1, <2>2, <2>3 DEF TInv, TypeOK
  <2>4. /\ request' \in [Tabs -> [Paths -> Stages]] /\ InCharge' /\ KindOfStage'
        /\ body' \in [Tabs -> [Paths -> Content]]
    BY <1>3, <2>1, AnswersTyped, ServedTyped DEF StaticFetched, workerVars, fillVars
  <2> QED
    BY <1>3, <2>4, <2>5 DEF StaticFetched, TInv, TypeOK, workerVars, cacheVars, fillVars
<1>4. CASE StaticRejected(t, p)
  <2>1. request' \in [Tabs -> [Paths -> Stages]] /\ InCharge' /\ KindOfStage'
    BY <1>4, MovesTyped DEF StaticRejected, workerVars, Stages, Settled, AtWorker, TInv, InCharge,
       fillVars
  <2> QED
    BY <1>4, <2>1 DEF StaticRejected, TInv, TypeOK, workerVars, cacheVars, fillVars
<1> QED
  BY <1>1, <1>2, <1>3, <1>4 DEF Static

LEMMA TInvPage ==
  ASSUME TInv, NEW t \in Tabs, NEW p \in Paths, Page(t, p)
  PROVE  TInv'
<1>1. CASE PageFetched(t, p)
  <2>1. /\ request' \in [Tabs -> [Paths -> Stages]] /\ InCharge' /\ KindOfStage'
        /\ body' \in [Tabs -> [Paths -> Content]]
    BY <1>1, AnswersTyped, ServedTyped DEF PageFetched, workerVars, TInv, InCharge, fillVars
  <2> QED
    BY <1>1, <2>1 DEF PageFetched, TInv, TypeOK, workerVars, cacheVars, fillVars
<1>2. CASE PageRejected(t, p)
  <2>1. active # NoScript /\ p \in Pages \cup Others
    BY <1>2 DEF PageRejected, Moves, TInv, TypeOK, KindOfStage
  <2>2. request' \in [Tabs -> [Paths -> Stages]] /\ InCharge' /\ KindOfStage'
    BY <1>2, <2>1, MovesTyped DEF PageRejected, workerVars, Stages, AtWorker, TInv, InCharge,
       fillVars
  <2> QED
    BY <1>2, <2>2 DEF PageRejected, TInv, TypeOK, workerVars, cacheVars, fillVars
<1>3. CASE FallbackHit(t, p)
  BY <1>3, TInvMatchHit DEF FallbackHit
<1>4. CASE FallbackMiss(t, p)
  <2>1. p \in Pages \cup Others
    BY <1>4 DEF FallbackMiss, MatchMiss, Moves, TInv, KindOfStage, fillVars
  <2> QED
    BY <1>4, <2>1, TInvMatchMiss DEF FallbackMiss, Stages, AtWorker
<1>5. CASE RootHit(t, p)
  BY <1>5, TInvMatchHit DEF RootHit
<1>6. CASE RootMiss(t, p)
  BY <1>6, TInvMatchMiss DEF RootMiss, Stages, Settled
<1> QED
  BY <1>1, <1>2, <1>3, <1>4, <1>5, <1>6 DEF Page

LEMMA TInvDirect ==
  ASSUME TInv, NEW t \in Tabs, NEW p \in Paths, DirectAnswer(t, p) \/ DirectOffline(t, p)
  PROVE  TInv'
<1>1. CASE DirectAnswer(t, p)
  <2>1. /\ request' \in [Tabs -> [Paths -> Stages]] /\ InCharge' /\ KindOfStage'
        /\ body' \in [Tabs -> [Paths -> Content]]
    BY <1>1, AnswersTyped, ServedTyped DEF DirectAnswer, workerVars, TInv, InCharge, fillVars
  <2> QED
    BY <1>1, <2>1 DEF DirectAnswer, TInv, TypeOK, workerVars, cacheVars, fillVars
<1>2. CASE DirectOffline(t, p)
  <2>1. request' \in [Tabs -> [Paths -> Stages]] /\ InCharge' /\ KindOfStage'
    BY <1>2, MovesTyped DEF DirectOffline, workerVars, Stages, Settled, AtWorker, TInv, InCharge,
       fillVars
  <2> QED
    BY <1>2, <2>1 DEF DirectOffline, TInv, TypeOK, workerVars, cacheVars, fillVars
<1> QED
  BY <1>1, <1>2

LEMMA TInvVisit ==
  ASSUME TInv, NEW t \in Tabs, Visit(t)
  PROVE  TInv'
<1>1. ASSUME NEW p \in Pages, Navigate(t, p) PROVE TInv'
  <2> DEFINE s == IF active = NoScript THEN "direct" ELSE FetchListener(p)
  <2>1. p \in Paths
    BY DEF Paths
  <2>2. /\ s \in Stages
        /\ s \in AtWorker => active # NoScript
        /\ s = "match" => p \in Assets
        /\ s \notin {"fetch", "fallback", "root"}
    BY <2>1, ListenerStage DEF Stages, AtWorker
  <2>3. \A u \in Tabs, q \in Paths :
          request'[u][q] = IF u = t THEN (IF q = p THEN s ELSE "idle") ELSE request[u][q]
    BY <1>1 DEF Navigate, TInv, TypeOK, fillVars
  <2>4. request' \in [Tabs -> [Paths -> Stages]]
    BY <1>1, <2>2 DEF Navigate, TInv, TypeOK, Stages, Settled, fillVars
  <2>5. \A q \in Paths : Unset(q) \in Content
    BY BuildAssumption DEF Unset, Content, Builds
  <2>6. body' \in [Tabs -> [Paths -> Content]]
    BY <1>1, <2>5 DEF Navigate, TInv, TypeOK, fillVars
  <2>7. controlled' \in SUBSET Tabs /\ (active = NoScript => controlled' = {})
    BY <1>1 DEF Navigate, TInv, TypeOK, InCharge, fillVars
  <2>8. InCharge'
    BY <1>1, <2>2, <2>3, <2>7 DEF Navigate, TInv, InCharge, workerVars, AtWorker, fillVars
  <2>9. KindOfStage'
    BY <2>2, <2>3 DEF TInv, KindOfStage
  <2> QED
    BY <1>1, <2>4, <2>6, <2>7, <2>8, <2>9 DEF Navigate, TInv, TypeOK, workerVars, cacheVars,
       fillVars
<1>2. ASSUME NEW p \in Paths \ Pages, Load(t, p) PROVE TInv'
  <2> DEFINE s == IF t \in controlled THEN FetchListener(p) ELSE "direct"
  <2>1. p \in Paths
    BY DEF Paths
  <2>2. /\ s \in Stages
        /\ s \in AtWorker => active # NoScript
        /\ s \in {"match", "fetch"} => p \in Assets
        /\ s \in {"network", "fallback", "root"} => p \in Pages \cup Others
    BY <2>1, ListenerStage DEF Stages, AtWorker, TInv, InCharge
  <2>3. request' \in [Tabs -> [Paths -> Stages]] /\ InCharge' /\ KindOfStage'
    BY <1>2, <2>1, <2>2, MovesTyped DEF Load, workerVars, TInv, InCharge, fillVars
  <2> QED
    BY <1>2, <2>3 DEF Load, TInv, TypeOK, workerVars, cacheVars, fillVars
<1> QED
  BY <1>1, <1>2 DEF Visit

LEMMA TInvFills == TInv /\ Fills => TInv'
<1> SUFFICES ASSUME TInv, Fills PROVE TInv'
  OBVIOUS
<1>1. ASSUME NEW f \in fills, FillOpen(f) PROVE TInv'
  <2> DEFINE n == CACHE_VERSION[f.worker]
             w == [cache |-> n, entry |-> f.entry]
  <2>1. n \in Names /\ f.entry \in Response
    BY NamesOfScripts DEF TInv, TypeOK
  <2>2. Open(n)
    BY <1>1 DEF FillOpen
  <2>3. /\ caches' \in SUBSET Names /\ older' \in SUBSET (caches' \X caches')
        /\ n \in caches' /\ puts \in SUBSET [cache : caches', entry : Response]
    BY <2>1, <2>2, OpenTypes DEF TInv
  <2>4. \A x \in puts' : x \in puts \/ x = w
    BY <1>1 DEF FillOpen
  <2>5. w \in [cache : caches', entry : Response]
    BY <2>1, <2>3
  <2>6. puts' \in SUBSET [cache : caches', entry : Response]
    BY <2>3, <2>4, <2>5
  <2>7. fills' \in SUBSET [worker : Scripts, entry : Response]
    BY <1>1 DEF FillOpen, TInv, TypeOK
  <2>8. UNCHANGED <<server, workerVars, stored, controlled, tabVars>>
    BY <1>1 DEF FillOpen
  <2> QED
    BY <2>3, <2>6, <2>7, <2>8 DEF TInv, TypeOK, InCharge, KindOfStage, workerVars, tabVars, fillVars
<1>2. ASSUME NEW w \in puts, FillPut(w) PROVE TInv'
  <2>1. w.cache \in Names /\ w.entry \in Response
    BY DEF TInv, TypeOK
  <2>2. stored' \in [Names -> SUBSET Response]
    BY <1>2, <2>1 DEF FillPut, Put, TInv, TypeOK
  <2> QED
    BY <1>2, <2>2 DEF FillPut, TInv, TypeOK, InCharge, KindOfStage, workerVars, tabVars, fillVars
<1>3. CASE FillLost
  BY <1>3 DEF FillLost, TInv, TypeOK, InCharge, KindOfStage, workerVars, cacheVars, tabVars,
     fillVars
<1> QED
  BY <1>1, <1>2, <1>3 DEF Fills

LEMMA TInvNext == TInv /\ [Next]_vars => TInv'
<1> SUFFICES ASSUME TInv, [Next]_vars PROVE TInv'
  OBVIOUS
<1>1. CASE UNCHANGED vars
  BY <1>1 DEF vars, workerVars, cacheVars, tabVars, TInv, TypeOK, InCharge, KindOfStage, fillVars
<1>2. CASE Next
  BY <1>2, TInvBrowser, TInvInstall, TInvActivation, TInvFills, TInvVisit, TInvDirect,
     TInvStatic, TInvPage DEF Next
<1> QED
  BY <1>1, <1>2

\* The state stays well formed whatever the browser, the server and the network
\* do: slots hold scripts of deployed builds, caches hold responses, requests
\* are at a stage of the fetch listener (sw.js 10-69).
THEOREM TypeCorrect == Spec => []TypeOK
<1>1. TInv => TypeOK
  BY DEF TInv
<1> QED
  BY <1>1, TInvInit, TInvNext, PTL DEF Spec
-----------------------------------------------------------------------------
(* What an answer may contain. *)

\* An entry found for the path q was stored for q, and is marked as a copy.
LEMMA RightMatchHit ==
  ASSUME TInv, RightAnswer, NEW t \in Tabs, NEW p \in Paths, NEW from, NEW q,
         MatchHit(t, p, from, q), p \notin Live, q = p \/ (p \in Pages \cup Others /\ q = Root)
  PROVE  RightAnswer'
<1>1. PICK n \in caches : \E e \in Matched(n, q) : Answers(t, p, from, Copy(e))
  BY DEF MatchHit, fillVars
<1>2. PICK e \in Matched(n, q) : Answers(t, p, from, Copy(e))
  BY <1>1
<1>3. e.path = q
  BY DEF Matched, fillVars
<1> QED
  BY <1>2, <1>3 DEF Answers, Copy, Moves, RightAnswer, TInv, TypeOK

LEMMA RightNext == TInv /\ RightAnswer /\ [Next]_vars => RightAnswer'
<1> SUFFICES ASSUME TInv, RightAnswer, [Next]_vars PROVE RightAnswer'
  OBVIOUS
<1>1. CASE UNCHANGED tabVars
  BY <1>1 DEF tabVars, RightAnswer, fillVars
<1>2. ASSUME NEW t \in Tabs, Visit(t) PROVE RightAnswer'
  <2>1. ASSUME NEW p \in Pages, Navigate(t, p) PROVE RightAnswer'
    <3>1. p \in Paths
      BY DEF Paths
    <3>2. FetchListener(p) # "answered"
      BY <3>1, ListenerStage
    <3>3. \A q \in Paths : request'[t][q] # "answered"
      BY <2>1, <3>2 DEF Navigate, TInv, TypeOK, fillVars
    <3> QED
      BY <2>1, <3>3 DEF Navigate, RightAnswer, TInv, TypeOK, fillVars
  <2>2. ASSUME NEW p \in Paths \ Pages, Load(t, p) PROVE RightAnswer'
    <3>1. FetchListener(p) # "answered"
      BY ListenerStage DEF Paths
    <3> QED
      BY <2>2, <3>1 DEF Load, Moves, RightAnswer, TInv, TypeOK, fillVars
  <2> QED
    BY <1>2, <2>1, <2>2 DEF Visit
<1>3. ASSUME NEW t \in Tabs, NEW p \in Paths,
             DirectAnswer(t, p) \/ StaticFetched(t, p) \/ PageFetched(t, p)
      PROVE  RightAnswer'
  <2>1. Moves(t, p, request[t][p], "answered") /\ body' = [body EXCEPT ![t][p] = Served(p)]
    BY <1>3 DEF DirectAnswer, StaticFetched, PageFetched, Answers, Moves
  <2>2. Served(p).path = p /\ Served(p).kept = FALSE
    BY DEF Served
  <2> QED
    BY <2>1, <2>2 DEF Moves, RightAnswer, TInv, TypeOK
<1>4. ASSUME NEW t \in Tabs, NEW p \in Paths,
             DirectOffline(t, p) \/ StaticRejected(t, p) \/ PageRejected(t, p)
             \/ StaticMiss(t, p) \/ FallbackMiss(t, p) \/ RootMiss(t, p)
      PROVE  RightAnswer'
  <2>1. UNCHANGED body
    BY <1>4 DEF DirectOffline, StaticRejected, PageRejected, StaticMiss, FallbackMiss,
       RootMiss, MatchMiss, fillVars
  <2>2. \E from, to : Moves(t, p, from, to) /\ to # "answered"
    BY <1>4 DEF DirectOffline, StaticRejected, PageRejected, StaticMiss, FallbackMiss,
       RootMiss, MatchMiss, fillVars
  <2> QED
    BY <2>1, <2>2 DEF Moves, RightAnswer, TInv, TypeOK
<1>5. ASSUME NEW t \in Tabs, NEW p \in Paths, StaticHit(t, p) \/ FallbackHit(t, p)
      PROVE  RightAnswer'
  <2>1. p \notin Live
    BY <1>5, PathAssumption DEF StaticHit, FallbackHit, MatchHit, Answers, Moves, TInv,
       KindOfStage, fillVars
  <2> QED
    BY <1>5, <2>1, RightMatchHit DEF StaticHit, FallbackHit
<1>6. ASSUME NEW t \in Tabs, NEW p \in Paths, RootHit(t, p) PROVE RightAnswer'
  <2>1. p \in Pages \cup Others /\ p \notin Live
    BY <1>6, PathAssumption DEF RootHit, MatchHit, Answers, Moves, TInv, KindOfStage, fillVars
  <2> QED
    BY <1>6, <2>1, RightMatchHit DEF RootHit
<1>7. CASE Browser \/ Install \/ Activation \/ Fills
  <2>1. UNCHANGED tabVars
    BY <1>7 DEF Browser, Deploy, Register, Evict, Install, InstallOpen, InstallFetch, InstallFails,
       InstallPut, Activation, Activate, ActivateKeys, ActivateDelete, ActivateDone, Claim,
       Fills, FillOpen, FillPut, FillLost, fillVars
  <2> QED
    BY <1>1, <2>1
<1>8. CASE UNCHANGED vars
  BY <1>1, <1>8 DEF vars
<1> QED
  BY <1>2, <1>3, <1>4, <1>5, <1>6, <1>7, <1>8 DEF Next, Static, Page

\* Whatever the caches hold and whenever they change: a style sheet is answered
\* with its own content, only a page or a path no prefix names with the copy of
\* '/', and an API call by the server itself (sw.js 36-67).
THEOREM AnswersAreRight == Spec => []RightAnswer
<1>1. Init => RightAnswer
  BY DEF Init, RightAnswer
<1> QED
  BY <1>1, TInvInit, TInvNext, RightNext, PTL DEF Spec

-----------------------------------------------------------------------------
(* With one cache name, as in sw.js, and no cache dropped from outside: the  *)
(* offline copy, once complete, stays.                                      *)

OneName == \A s, r \in Scripts : CACHE_VERSION[s] = CACHE_VERSION[r]

\* Cache n has a good entry of everything sw.js caches in advance.
ReadyIn(n) ==
  /\ n \in caches
  /\ \A p \in STATIC_ASSETS : Holds(n, p) /\ \A e \in stored[n] : e.path = p => e.ok

\* Why it stays: no cache is ever deleted, an install has good answers only and
\* stores all of them at once, and no later put is for one of these paths, since
\* the cache-first branch never misses them.
Kept ==
  /\ orphaned = FALSE
  /\ condemned = {}
  /\ step = "add" => CACHE_VERSION[installing] \in caches
  /\ \A r \in fetched : r.ok
  /\ \A s \in {waiting, active} \ {NoScript} : ReadyIn(CACHE_VERSION[s])
  /\ \A f \in fills : f.entry.path \notin STATIC_ASSETS
  /\ \A w \in puts : w.entry.path \notin STATIC_ASSETS
  /\ \A t \in Tabs, p \in Paths : request[t][p] = "fetch" => p \notin STATIC_ASSETS
  /\ NavigationAnswered

LEMMA KeptIsReady == Kept => OfflineReady
BY DEF Kept, ReadyIn, OfflineReady

LEMMA KeptInit == Init => Kept
BY DEF Init, Kept, NavigationAnswered, Paths

\* A cache that is ready serves '/' and the assets: a miss of theirs is
\* impossible while a worker answers requests.
LEMMA NeverMissed ==
  ASSUME TInv, Kept, NEW t \in Tabs, NEW p \in Paths, NEW from, NEW q, NEW to,
         MatchMiss(t, p, from, q, to)
  PROVE  q \notin STATIC_ASSETS
<1>1. active # NoScript
  BY DEF MatchMiss, TInv, TypeOK, fillVars
<1>2. ReadyIn(CACHE_VERSION[active])
  BY <1>1 DEF Kept
<1> QED
  BY <1>2 DEF ReadyIn, MatchMiss, fillVars

\* A stage other than "fetch" and "dead" never disturbs the invariant.
LEMMA KeptMoves ==
  ASSUME TInv, Kept, NEW t \in Tabs, NEW p \in Paths, NEW from, NEW to, Moves(t, p, from, to),
         to = "fetch" => p \notin STATIC_ASSETS,
         to = "dead" => p \notin Pages,
         UNCHANGED <<workerVars, cacheVars>>,
         UNCHANGED puts,
         \A f \in fills' : f.entry.path \notin STATIC_ASSETS
  PROVE  Kept'
<1>1. \A u \in Tabs, q \in Paths :
        request'[u][q] = IF u = t /\ q = p THEN to ELSE request[u][q]
  BY DEF Moves, TInv, TypeOK
<1>2. NavigationAnswered'
  BY <1>1 DEF Kept, NavigationAnswered, Paths
<1> QED
  BY <1>1, <1>2 DEF Kept, ReadyIn, Holds, workerVars, cacheVars, fillVars

LEMMA KeptRequests ==
  ASSUME TInv, Kept, NEW t \in Tabs, NEW p \in Paths,
         DirectAnswer(t, p) \/ DirectOffline(t, p) \/ Static(t, p) \/ Page(t, p)
  PROVE  Kept'
<1>1. CASE DirectAnswer(t, p) \/ DirectOffline(t, p) \/ PageFetched(t, p) \/ PageRejected(t, p)
           \/ StaticHit(t, p) \/ FallbackHit(t, p) \/ RootHit(t, p)
  <2>1. /\ UNCHANGED <<workerVars, cacheVars, fillVars>>
        /\ \E from, to : Moves(t, p, from, to) /\ to \in {"answered", "offline", "fallback"}
    BY <1>1 DEF DirectAnswer, DirectOffline, PageFetched, PageRejected, StaticHit, FallbackHit,
       RootHit, MatchHit, Answers, fillVars
  <2> QED
    BY <2>1, KeptMoves DEF Kept, fillVars
<1>2. CASE StaticMiss(t, p)
  BY <1>2, NeverMissed, KeptMoves DEF StaticMiss, MatchMiss, Kept, fillVars
<1>3. CASE StaticFetched(t, p)
  <2>1. p \notin STATIC_ASSETS
    BY <1>3 DEF StaticFetched, Answers, Moves, Kept
  <2>2. \A f \in fills' : f.entry.path \notin STATIC_ASSETS
    BY <1>3, <2>1, FetchedFill DEF Kept
  <2>3. /\ Moves(t, p, "fetch", "answered")
        /\ UNCHANGED <<workerVars, cacheVars, puts>>
    BY <1>3 DEF StaticFetched, Answers
  <2> QED
    BY <2>2, <2>3, KeptMoves
<1>4. CASE StaticRejected(t, p)
  <2>1. p \notin Pages
    BY <1>4, PathAssumption DEF StaticRejected, Moves, TInv, KindOfStage
  <2> QED
    BY <1>4, <2>1, KeptMoves DEF StaticRejected, Kept, fillVars
<1>5. CASE FallbackMiss(t, p)
  BY <1>5, KeptMoves DEF FallbackMiss, MatchMiss, Kept, fillVars
<1>6. CASE RootMiss(t, p)
  BY <1>6, NeverMissed, PathAssumption DEF RootMiss
<1> QED
  BY <1>1, <1>2, <1>3, <1>4, <1>5, <1>6 DEF Static, Page

LEMMA KeptVisit ==
  ASSUME TInv, Kept, NEW t \in Tabs, Visit(t)
  PROVE  Kept'
<1>1. ASSUME NEW p \in Pages, Navigate(t, p) PROVE Kept'
  <2>1. p \in Paths
    BY DEF Paths
  <2>2. FetchListener(p) \notin {"fetch", "dead"}
    BY <2>1, ListenerStage
  <2>3. \A u \in Tabs, q \in Paths :
          request'[u][q] \in {"fetch", "dead"} => request'[u][q] = request[u][q]
    BY <1>1, <2>2 DEF Navigate, TInv, TypeOK, fillVars
  <2>4. NavigationAnswered'
    BY <2>3 DEF Kept, NavigationAnswered, Paths
  <2> QED
    BY <1>1, <2>3, <2>4 DEF Navigate, Kept, ReadyIn, Holds, workerVars, cacheVars, fillVars
<1>2. ASSUME NEW p \in Paths \ Pages, Load(t, p) PROVE Kept'
  <2>1. FetchListener(p) \notin {"fetch", "dead"}
    BY ListenerStage DEF Paths
  <2> QED
    BY <1>2, <2>1, KeptMoves DEF Load, Kept, Paths, fillVars
<1> QED
  BY <1>1, <1>2 DEF Visit

\* Storing an install's answers makes its cache ready.
LEMMA KeptInstallPut ==
  ASSUME OneName, TInv, Kept, InstallPut
  PROVE  Kept'
<1>0. PICK i \in Scripts : i = installing
  BY DEF InstallPut, TInv, TypeOK, fillVars
<1> DEFINE n == CACHE_VERSION[i]
<1>1. n \in Names
  BY NamesOfScripts
<1>2. stored'[n] = Put(stored[n], fetched)
  BY <1>0, <1>1 DEF InstallPut, TInv, TypeOK, Kept, fillVars
<1>3. ReadyIn(n)'
  <2>1. n \in caches'
    BY <1>0 DEF InstallPut, Kept, fillVars
  <2>2. ASSUME NEW p \in STATIC_ASSETS
        PROVE  /\ \E e \in stored'[n] : e.path = p
               /\ \A e \in stored'[n] : e.path = p => e.ok
    BY <1>2, <2>2 DEF InstallPut, Put, Kept, fillVars
  <2> QED
    BY <2>1, <2>2 DEF ReadyIn, Holds, InstallPut, fillVars
<1>4. \A s \in {waiting', active'} \ {NoScript} : s \in Scripts
  BY <1>0 DEF InstallPut, TInv, TypeOK, fillVars
<1>5. \A s \in {waiting', active'} \ {NoScript} : CACHE_VERSION[s] = n
  BY <1>4 DEF OneName
<1>6. \A s \in {waiting', active'} \ {NoScript} : ReadyIn(CACHE_VERSION[s])'
  BY <1>3, <1>5 DEF ReadyIn, Holds
<1> QED
  BY <1>6 DEF InstallPut, InstallEnds, Kept, NavigationAnswered, tabVars, fillVars

LEMMA KeptInstall ==
  ASSUME OneName, TInv, Kept, Install
  PROVE  Kept'
<1>1. CASE InstallOpen
  BY <1>1 DEF InstallOpen, Open, Kept, ReadyIn, Holds, NavigationAnswered, tabVars, fillVars
<1>2. ASSUME NEW p \in STATIC_ASSETS, InstallFetch(p) PROVE Kept'
  BY <1>2 DEF InstallFetch, Kept, ReadyIn, Holds, NavigationAnswered, tabVars, cacheVars, fillVars
<1>3. CASE InstallFails
  BY <1>3 DEF InstallFails, InstallEnds, Kept, ReadyIn, Holds, NavigationAnswered, tabVars,
     cacheVars, fillVars
<1>4. CASE InstallPut
  BY <1>4, KeptInstallPut
<1> QED
  BY <1>1, <1>2, <1>3, <1>4 DEF Install, fillVars

LEMMA KeptActivation ==
  ASSUME OneName, TInv, Kept, Activation
  PROVE  Kept'
<1>1. CASE Activate
  BY <1>1 DEF Activate, Kept, ReadyIn, Holds, NavigationAnswered, tabVars, cacheVars, fillVars
<1>2. CASE ActivateKeys
  <2>1. active \in Scripts
    BY <1>2 DEF ActivateKeys, TInv, TypeOK, fillVars
  <2>2. \A n \in Names : n = CACHE_VERSION[active]
    BY <2>1 DEF OneName, Names
  <2>3. condemned' = {}
    BY <1>2, <2>2 DEF ActivateKeys, TInv, TypeOK, fillVars
  <2> QED
    BY <1>2, <2>3 DEF ActivateKeys, Kept, ReadyIn, Holds, NavigationAnswered, tabVars, cacheVars,
       fillVars
<1>3. ASSUME NEW n \in condemned, ActivateDelete(n) PROVE Kept'
  BY DEF Kept
<1>4. CASE ActivateDone
  BY <1>4 DEF ActivateDone, Kept, ReadyIn, Holds, NavigationAnswered, tabVars, cacheVars, fillVars
<1>5. CASE Claim
  BY <1>5 DEF Claim, Kept, ReadyIn, Holds, NavigationAnswered, tabVars, cacheVars, fillVars
<1> QED
  BY <1>1, <1>2, <1>3, <1>4, <1>5 DEF Activation, fillVars

LEMMA KeptFills ==
  ASSUME TInv, Kept, Fills
  PROVE  Kept'
<1>1. ASSUME NEW f \in fills, FillOpen(f) PROVE Kept'
  <2>1. caches \subseteq caches' /\ stored' = stored
    BY <1>1 DEF FillOpen, Open
  <2>2. \A f2 \in fills' : f2.entry.path \notin STATIC_ASSETS
    BY <1>1 DEF FillOpen, Kept
  <2>3. \A w \in puts' : w.entry.path \notin STATIC_ASSETS
    BY <1>1 DEF FillOpen, Kept
  <2> QED
    BY <1>1, <2>1, <2>2, <2>3 DEF FillOpen, Kept, ReadyIn, Holds, NavigationAnswered, tabVars,
       workerVars, fillVars
<1>2. ASSUME NEW w \in puts, FillPut(w) PROVE Kept'
  <2>1. w.cache \in Names /\ w.entry.path \notin STATIC_ASSETS
    BY DEF TInv, TypeOK, Kept
  <2>2. ASSUME NEW n \in Names, ReadyIn(n) PROVE ReadyIn(n)'
    <3>1. stored'[n] = stored[n] \/ stored'[n] = Put(stored[n], {w.entry})
      BY <1>2 DEF FillPut, TInv, TypeOK
    <3>2. ASSUME NEW p \in STATIC_ASSETS
          PROVE  /\ \E e \in stored'[n] : e.path = p
                 /\ \A e \in stored'[n] : e.path = p => e.ok
      BY <2>1, <2>2, <3>1 DEF ReadyIn, Holds, Put
    <3> QED
      BY <1>2, <2>2, <3>2 DEF FillPut, ReadyIn, Holds
  <2>3. \A s \in {waiting, active} \ {NoScript} : CACHE_VERSION[s] \in Names
    BY NamesOfScripts DEF TInv, TypeOK
  <2>4. \A s \in {waiting, active} \ {NoScript} : ReadyIn(CACHE_VERSION[s])'
    BY <2>2, <2>3 DEF Kept
  <2> QED
    BY <1>2, <2>4 DEF FillPut, Kept, NavigationAnswered, tabVars, workerVars, fillVars
<1>3. CASE FillLost
  BY <1>3 DEF FillLost, Kept, ReadyIn, Holds, NavigationAnswered, tabVars, cacheVars, workerVars,
     fillVars
<1> QED
  BY <1>1, <1>2, <1>3 DEF Fills

LEMMA KeptNext ==
  ASSUME OneName, ~Evicts
  PROVE  TInv /\ Kept /\ [Next]_vars => Kept'
<1> SUFFICES ASSUME TInv, Kept, [Next]_vars PROVE Kept'
  OBVIOUS
<1>1. CASE UNCHANGED vars
  BY <1>1 DEF vars, workerVars, cacheVars, tabVars, Kept, ReadyIn, Holds, NavigationAnswered,
     fillVars
<1>2. CASE Browser
  BY <1>2 DEF Browser, Deploy, Register, Evict, Kept, ReadyIn, Holds, NavigationAnswered, tabVars,
     cacheVars, workerVars, fillVars
<1>3. CASE Next
  BY <1>2, <1>3, KeptInstall, KeptActivation, KeptFills, KeptVisit, KeptRequests DEF Next
<1> QED
  BY <1>1, <1>3

LEMMA KeptAlways ==
  ASSUME OneName, ~Evicts
  PROVE  Spec => []Kept
<1>1. TInv /\ Kept /\ [Next]_vars => Kept'
  BY KeptNext
<1> QED
  BY <1>1, KeptInit, TInvInit, TInvNext, PTL DEF Spec

\* With one cache name, and caches deleted by nobody but the worker, a worker
\* that waits or is in charge has a complete offline copy, through any number of
\* updates (sw.js 2, 10-30).
THEOREM OfflineCopyStays ==
  ASSUME OneName, ~Evicts
  PROVE  Spec => []OfflineReady
<1>1. Spec => []Kept
  BY KeptAlways
<1> QED
  BY <1>1, KeptIsReady, PTL

\* Under the same two conditions no navigation ends without a page: the chain of
\* fallbacks always reaches an entry (sw.js 61-67). The second is needed: sw.js
\* makes no response of its own when the last link misses.
THEOREM NavigationsAnswered ==
  ASSUME OneName, ~Evicts
  PROVE  Spec => []NavigationAnswered
<1>1. Kept => NavigationAnswered
  BY DEF Kept
<1>2. Spec => []Kept
  BY KeptAlways
<1> QED
  BY <1>1, <1>2, PTL
-----------------------------------------------------------------------------
(* No cache name given up is used again: one name for every build, as in     *)
(* sw.js, or a name per build, as AI.md 14393 wants it, or anything between. *)

NameOf(b) == CACHE_VERSION[Script[b]]

NamesInOrder ==
  \A a, b, c \in Builds : a <= b /\ b <= c /\ NameOf(a) = NameOf(c) => NameOf(b) = NameOf(a)

\* Build k is none before the first that used the name n; n came no earlier
\* than m.
AtLeast(k, n)  == \E b \in Builds : b <= k /\ NameOf(b) = n
NotOlder(n, m) == \A k \in Builds : AtLeast(k, n) => AtLeast(k, m)

\* The slots are in the order of the builds.
SlotsOrdered ==
  /\ \A s \in {installing, waiting, active} \ {NoScript} : AtLeast(server, CACHE_VERSION[s])
  /\ waiting # NoScript /\ installing # NoScript =>
       NotOlder(CACHE_VERSION[installing], CACHE_VERSION[waiting])
  /\ active # NoScript /\ installing # NoScript =>
       NotOlder(CACHE_VERSION[installing], CACHE_VERSION[active])
  /\ active # NoScript /\ waiting # NoScript =>
       NotOlder(CACHE_VERSION[waiting], CACHE_VERSION[active])

\* What a worker has fetched is not older than the name of its cache.
FetchedFresh ==
  /\ step = "none" => fetched = {}
  /\ \A r \in fetched : AtLeast(r.build, CACHE_VERSION[installing])
  /\ \A f \in fills : AtLeast(f.entry.build, CACHE_VERSION[f.worker])
  /\ \A w \in puts : AtLeast(w.entry.build, w.cache)

Used(n) == stored[n] # {} \/ \E w \in puts : w.cache = n

\* A cache holds what workers with its name have put. While the active worker
\* clears up, a cache that holds anything, or is about to, is its own or of a
\* newer name, or is condemned, and its deletion takes the puts with it.
CacheOfName(n) ==
  /\ \A e \in stored[n] : AtLeast(e.build, n)
  /\ Used(n) =>
       /\ n \in caches
       /\ phase \in {"delete", "activated"} =>
            \/ NotOlder(n, CACHE_VERSION[active])
            \/ phase = "delete" /\ n \in condemned

OpenedExists == step = "add" /\ ~orphaned => CACHE_VERSION[installing] \in caches

Fresh ==
  /\ SlotsOrdered
  /\ FetchedFresh
  /\ OpenedExists
  /\ \A n \in Names : CacheOfName(n)

LEMMA FreshIsClean == TInv /\ Fresh => CachesFresh
<1> SUFFICES ASSUME TInv, Fresh, phase = "activated", NEW n \in Names, NEW e \in stored[n]
             PROVE  AtLeast(e.build, CACHE_VERSION[active])
  BY DEF CachesFresh, AtLeast, NameOf
<1>1. AtLeast(e.build, n) /\ NotOlder(n, CACHE_VERSION[active])
  BY DEF Fresh, CacheOfName, Used
<1>2. e.build \in Builds
  BY DEF TInv, TypeOK, Response
<1> QED
  BY <1>1, <1>2 DEF NotOlder

\* The name used by the build deployed is not older than one used before.
LEMMA DeployedIsNewest ==
  ASSUME NamesInOrder, TInv, NEW m, AtLeast(server, m)
  PROVE  NotOlder(NameOf(server), m)
<1> SUFFICES ASSUME NEW k \in Builds, AtLeast(k, NameOf(server)) PROVE AtLeast(k, m)
  BY DEF NotOlder
<1>1. server \in Builds
  BY DEF TInv, TypeOK
<1>2. PICK a \in Builds : a <= k /\ NameOf(a) = NameOf(server)
  BY DEF AtLeast
<1>3. PICK b \in Builds : b <= server /\ NameOf(b) = m
  BY DEF AtLeast
<1>4. CASE b <= k
  BY <1>3, <1>4 DEF AtLeast
<1>5. CASE ~(b <= k)
  <2>1. a <= b
    BY <1>2, <1>5, BuildAssumption DEF Builds
  <2>2. NameOf(a) = m
    BY <1>1, <1>2, <1>3, <2>1 DEF NamesInOrder
  <2> QED
    BY <1>2, <2>2 DEF AtLeast
<1> QED
  BY <1>4, <1>5

LEMMA FreshInit == Init => Fresh
<1> SUFFICES ASSUME Init PROVE Fresh
  OBVIOUS
<1>1. SlotsOrdered /\ FetchedFresh /\ OpenedExists
  BY DEF Init, SlotsOrdered, FetchedFresh, OpenedExists
<1>2. ASSUME NEW n \in Names PROVE stored[n] = {} /\ CacheOfName(n)
  BY DEF Init, CacheOfName, Used
<1> QED
  BY <1>1, <1>2 DEF Fresh

LEMMA FreshBrowser ==
  ASSUME NamesInOrder, TInv, Fresh, Browser
  PROVE  Fresh'
<1>1. CASE Deploy
  <2>1. \A n : AtLeast(server, n) => AtLeast(server', n)
    BY <1>1, BuildAssumption DEF Deploy, AtLeast, TInv, TypeOK, Builds, fillVars
  <2>2. SlotsOrdered'
    BY <1>1, <2>1 DEF Deploy, Fresh, SlotsOrdered, workerVars, fillVars
  <2> QED
    BY <1>1, <2>2 DEF Deploy, Fresh, FetchedFresh, OpenedExists, CacheOfName, Used, workerVars,
       cacheVars, fillVars
<1>2. CASE Register
  <2>0. server \in Builds
    BY DEF TInv, TypeOK
  <2>1. AtLeast(server, NameOf(server))
    BY <2>0, BuildAssumption DEF AtLeast, Builds
  <2>2. /\ waiting # NoScript => NotOlder(NameOf(server), CACHE_VERSION[waiting])
        /\ active # NoScript => NotOlder(NameOf(server), CACHE_VERSION[active])
    BY DeployedIsNewest DEF Fresh, SlotsOrdered
  <2>3. installing' = Script[server] /\ UNCHANGED <<server, waiting, active>>
    BY <1>2 DEF Register, fillVars
  <2>4. SlotsOrdered'
    BY <2>1, <2>2, <2>3 DEF Fresh, SlotsOrdered, NameOf
  <2>5. FetchedFresh'
    BY <1>2 DEF Register, Fresh, FetchedFresh, TInv, TypeOK, fillVars
  <2> QED
    BY <1>2, <2>4, <2>5 DEF Register, Fresh, OpenedExists, CacheOfName, Used, cacheVars, fillVars
<1>3. CASE Evict
  <2>1. \A n \in Names : CacheOfName(n)'
    BY <1>3 DEF Evict, CacheOfName, Used
  <2> QED
    BY <1>3, <2>1 DEF Evict, Fresh, SlotsOrdered, FetchedFresh, OpenedExists
<1> QED
  BY <1>1, <1>2, <1>3 DEF Browser

\* Fresh answers put into a cache that may hold some.
LEMMA FreshPut ==
  ASSUME TInv, NEW c \in Names, NEW new,
         \A n \in Names : CacheOfName(n),
         stored' = [stored EXCEPT ![c] = Put(@, new)],
         \A r \in new : AtLeast(r.build, c),
         puts' \subseteq puts,
         Used(c) \/ (c \in caches /\ (active # NoScript => NotOlder(c, CACHE_VERSION[active]))),
         UNCHANGED <<caches, active, phase, condemned>>
  PROVE  \A n \in Names : CacheOfName(n)'
<1> SUFFICES ASSUME NEW n \in Names PROVE CacheOfName(n)'
  OBVIOUS
<1>1. CASE n = c
  <2>1. stored'[n] = Put(stored[n], new)
    BY <1>1 DEF TInv, TypeOK
  <2>2. \A e \in stored'[n] : AtLeast(e.build, n)
    BY <1>1, <2>1 DEF Put, CacheOfName
  <2>3. phase \in {"delete", "activated"} => active # NoScript
    BY DEF TInv, TypeOK
  <2> QED
    BY <1>1, <2>2, <2>3 DEF CacheOfName
<1>2. CASE n # c
  <2>1. stored'[n] = stored[n]
    BY <1>2 DEF TInv, TypeOK
  <2> QED
    BY <2>1 DEF CacheOfName, Used
<1> QED
  BY <1>1, <1>2

LEMMA FreshInstall ==
  ASSUME TInv, Fresh, Install
  PROVE  Fresh'
<1>1. CASE InstallOpen
  BY <1>1 DEF InstallOpen, Open, Fresh, SlotsOrdered, FetchedFresh, OpenedExists, CacheOfName,
     Used, fillVars
<1>2. ASSUME NEW p \in STATIC_ASSETS, InstallFetch(p) PROVE Fresh'
  <2>1. AtLeast(server, CACHE_VERSION[installing])
    BY <1>2 DEF InstallFetch, Fresh, SlotsOrdered, TInv, TypeOK, fillVars
  <2>2. FetchedFresh'
    BY <1>2, <2>1 DEF InstallFetch, Fresh, FetchedFresh, fillVars
  <2> QED
    BY <1>2, <2>2 DEF InstallFetch, Fresh, SlotsOrdered, OpenedExists, CacheOfName, Used,
       cacheVars, fillVars
<1>3. CASE InstallFails
  BY <1>3 DEF InstallFails, InstallEnds, Fresh, SlotsOrdered, FetchedFresh, OpenedExists,
     CacheOfName, Used, cacheVars, fillVars
<1>4. CASE InstallPut
  <2>1. PICK c \in Names : c = CACHE_VERSION[installing]
    BY <1>4, NamesOfScripts DEF InstallPut, TInv, TypeOK, fillVars
  <2>2. SlotsOrdered' /\ FetchedFresh' /\ OpenedExists'
    BY <1>4 DEF InstallPut, InstallEnds, Fresh, SlotsOrdered, FetchedFresh, OpenedExists,
       TInv, TypeOK, fillVars
  <2>3. CASE orphaned
    BY <1>4, <2>2, <2>3 DEF InstallPut, Fresh, CacheOfName, Used, fillVars
  <2>4. CASE ~orphaned
    <3>1. /\ stored' = [stored EXCEPT ![c] = Put(@, fetched)]
          /\ \A r \in fetched : AtLeast(r.build, c)
          /\ c \in caches
          /\ puts' \subseteq puts
          /\ UNCHANGED <<caches, active, phase, condemned>>
      BY <1>4, <2>1, <2>4 DEF InstallPut, Fresh, FetchedFresh, OpenedExists, fillVars
    <3>2. active # NoScript => NotOlder(c, CACHE_VERSION[active])
      BY <1>4, <2>1 DEF InstallPut, Fresh, SlotsOrdered, TInv, TypeOK, fillVars
    <3>3. \A n \in Names : CacheOfName(n)'
      BY <3>1, <3>2, FreshPut DEF Fresh
    <3> QED
      BY <2>2, <3>3 DEF Fresh
  <2> QED
    BY <2>3, <2>4
<1> QED
  BY <1>1, <1>2, <1>3, <1>4 DEF Install, fillVars

LEMMA FreshActivation ==
  ASSUME TInv, Fresh, Activation
  PROVE  Fresh'
<1>1. CASE Activate
  BY <1>1 DEF Activate, Fresh, SlotsOrdered, FetchedFresh, OpenedExists, CacheOfName, Used,
     cacheVars, fillVars
<1>2. CASE ActivateKeys
  <2>1. ASSUME NEW n \in Names PROVE CacheOfName(n)'
    <3>1. UNCHANGED <<stored, puts, caches, active>> /\ phase' = "delete"
      BY <1>2 DEF ActivateKeys, cacheVars, fillVars
    <3>2. n \in caches => n = CACHE_VERSION[active] \/ n \in condemned'
      BY <1>2 DEF ActivateKeys, fillVars
    <3>3. NotOlder(CACHE_VERSION[active], CACHE_VERSION[active])
      BY DEF NotOlder
    <3> QED
      BY <3>1, <3>2, <3>3 DEF Fresh, CacheOfName, Used
  <2> QED
    BY <1>2, <2>1 DEF ActivateKeys, Fresh, SlotsOrdered, FetchedFresh, OpenedExists, cacheVars,
       fillVars
<1>3. ASSUME NEW n \in condemned, ActivateDelete(n) PROVE Fresh'
  <2>1. ASSUME NEW m \in Names PROVE CacheOfName(m)'
    <3>1. CASE m = n
      BY <1>3, <3>1 DEF ActivateDelete, CacheOfName, Used, TInv, TypeOK, fillVars
    <3>2. CASE m # n
      BY <1>3, <3>2 DEF ActivateDelete, Fresh, CacheOfName, Used, TInv, TypeOK, fillVars
    <3> QED
      BY <3>1, <3>2
  <2>2. OpenedExists'
    BY <1>3 DEF ActivateDelete, Fresh, OpenedExists, fillVars
  <2>3. FetchedFresh'
    BY <1>3 DEF ActivateDelete, Fresh, FetchedFresh, fillVars
  <2> QED
    BY <1>3, <2>1, <2>2, <2>3 DEF ActivateDelete, Fresh, SlotsOrdered, fillVars
<1>4. CASE ActivateDone
  BY <1>4 DEF ActivateDone, Fresh, SlotsOrdered, FetchedFresh, OpenedExists, CacheOfName, Used,
     cacheVars, fillVars
<1>5. CASE Claim
  BY <1>5 DEF Claim, Fresh, SlotsOrdered, FetchedFresh, OpenedExists, CacheOfName, Used,
     cacheVars, fillVars
<1> QED
  BY <1>1, <1>2, <1>3, <1>4, <1>5 DEF Activation, fillVars

\* A worker replaced may still open its cache, but a put follows only from the
\* one in charge, into a cache of its own name.
LEMMA FreshFills ==
  ASSUME TInv, Fresh, Fills
  PROVE  Fresh'
<1>1. ASSUME NEW f \in fills, FillOpen(f) PROVE Fresh'
  <2> DEFINE c == CACHE_VERSION[f.worker]
             w == [cache |-> c, entry |-> f.entry]
  <2>1. UNCHANGED <<server, workerVars, stored>> /\ Open(c) /\ fills' \subseteq fills
    BY <1>1 DEF FillOpen
  <2>2. \A x \in puts' : x \in puts \/ (x = w /\ f.worker = active)
    BY <1>1 DEF FillOpen
  <2>3. AtLeast(w.entry.build, w.cache)
    BY DEF Fresh, FetchedFresh
  <2>4. FetchedFresh'
    BY <2>1, <2>2, <2>3 DEF Fresh, FetchedFresh, workerVars, fillVars
  <2>5. ASSUME NEW n \in Names PROVE CacheOfName(n)'
    <3>1. caches \subseteq caches' /\ c \in caches'
      BY <2>1 DEF Open
    <3>2. Used(n)' => Used(n) \/ (n = c /\ f.worker = active)
      BY <2>1, <2>2 DEF Used
    <3>3. n = c /\ f.worker = active => n \in caches' /\ NotOlder(n, CACHE_VERSION[active])
      BY <3>1 DEF NotOlder
    <3> QED
      BY <2>1, <3>1, <3>2, <3>3 DEF Fresh, CacheOfName, workerVars, fillVars
  <2>6. SlotsOrdered' /\ OpenedExists'
    BY <2>1 DEF Open, Fresh, SlotsOrdered, OpenedExists, workerVars, fillVars
  <2> QED
    BY <2>4, <2>5, <2>6 DEF Fresh
<1>2. ASSUME NEW w \in puts, FillPut(w) PROVE Fresh'
  <2>1. w.cache \in Names /\ AtLeast(w.entry.build, w.cache) /\ Used(w.cache)
    BY DEF TInv, TypeOK, Fresh, FetchedFresh, Used
  <2>2. PICK c \in Names : c = w.cache
    BY <2>1
  <2>0. PICK new : new = {w.entry}
    OBVIOUS
  <2>3. /\ stored' = [stored EXCEPT ![c] = Put(@, new)]
        /\ puts' \subseteq puts
        /\ UNCHANGED <<caches, active, phase, condemned>>
    BY <1>2, <2>0, <2>2 DEF FillPut, workerVars, fillVars
  <2>4. Used(c) /\ \A r \in new : AtLeast(r.build, c)
    BY <2>0, <2>1, <2>2
  <2>5. \A n \in Names : CacheOfName(n)
    BY DEF Fresh
  <2>6. \A n \in Names : CacheOfName(n)'
    BY <2>3, <2>4, <2>5, FreshPut
  <2> QED
    BY <1>2, <2>6 DEF FillPut, Fresh, SlotsOrdered, FetchedFresh, OpenedExists, workerVars, fillVars
<1>3. CASE FillLost
  <2>1. /\ UNCHANGED <<server, workerVars, cacheVars>>
        /\ fills' \subseteq fills /\ puts' \subseteq puts
    BY <1>3 DEF FillLost
  <2>2. FetchedFresh'
    BY <2>1 DEF Fresh, FetchedFresh, workerVars, fillVars
  <2>3. \A n \in Names : CacheOfName(n)'
    BY <2>1 DEF Fresh, CacheOfName, Used, workerVars, cacheVars, fillVars
  <2> QED
    BY <2>1, <2>2, <2>3 DEF Fresh, SlotsOrdered, OpenedExists, workerVars, cacheVars, fillVars
<1> QED
  BY <1>1, <1>2, <1>3 DEF Fills

\* Requests change nothing of this but the pending opens, which are of the
\* worker in charge and of the build deployed.
LEMMA FreshRequests ==
  ASSUME TInv, Fresh, UNCHANGED <<server, workerVars, cacheVars, puts>>,
         \A f \in fills' : f \in fills \/
           (f.worker = active /\ f.entry.build = server /\ active # NoScript)
  PROVE  Fresh'
<1>1. active # NoScript => AtLeast(server, CACHE_VERSION[active])
  BY DEF Fresh, SlotsOrdered
<1>2. FetchedFresh'
  BY <1>1 DEF Fresh, FetchedFresh, workerVars, fillVars
<1> QED
  BY <1>2 DEF Fresh, SlotsOrdered, OpenedExists, CacheOfName, Used, workerVars, cacheVars, fillVars

LEMMA FreshNext ==
  ASSUME NamesInOrder
  PROVE  TInv /\ Fresh /\ [Next]_vars => Fresh'
<1> SUFFICES ASSUME TInv, Fresh, [Next]_vars PROVE Fresh'
  OBVIOUS
<1>1. CASE UNCHANGED <<server, workerVars, cacheVars, fillVars>>
  BY <1>1, FreshRequests DEF fillVars
<1>2. ASSUME NEW t \in Tabs, NEW p \in Paths, StaticFetched(t, p) PROVE Fresh'
  <2>1. active # NoScript
    BY <1>2 DEF StaticFetched, Answers, Moves, AtWorker, TInv, InCharge
  <2>2. \A f \in fills' : f \in fills \/
          (f.worker = active /\ f.entry.build = server /\ active # NoScript)
    BY <1>2, <2>1, FetchedFill
  <2>3. UNCHANGED <<server, workerVars, cacheVars, puts>>
    BY <1>2 DEF StaticFetched
  <2> QED
    BY <2>2, <2>3, FreshRequests
<1>3. ASSUME NEW t \in Tabs, NEW p \in Paths,
             DirectAnswer(t, p) \/ DirectOffline(t, p) \/ Static(t, p) \/ Page(t, p)
      PROVE  StaticFetched(t, p) \/ UNCHANGED <<server, workerVars, cacheVars, fillVars>>
  BY <1>3 DEF DirectAnswer, DirectOffline, Static, StaticHit, StaticMiss, StaticRejected, Page,
     PageFetched, PageRejected, FallbackHit, FallbackMiss, RootHit, RootMiss, MatchHit, MatchMiss,
     fillVars
<1>4. ASSUME NEW t \in Tabs, Visit(t)
      PROVE  UNCHANGED <<server, workerVars, cacheVars, fillVars>>
  BY <1>4 DEF Visit, Navigate, Load, fillVars
<1>5. CASE Next
  BY <1>1, <1>2, <1>3, <1>4, <1>5, FreshBrowser, FreshInstall, FreshActivation, FreshFills DEF Next
<1>6. CASE UNCHANGED vars
  BY <1>1, <1>6 DEF vars
<1> QED
  BY <1>5, <1>6

\* If no cache name that was given up is used again, an activated worker finds
\* in no cache anything older than the first build with its cache name, though
\* the puts of its predecessors, still under way, may land until the deletion of
\* their cache (sw.js 19-28, 50-53). sw.js:2, whose name never changes, meets
\* the condition, and then the theorem says nothing about age.
THEOREM CachesAreFresh ==
  ASSUME NamesInOrder
  PROVE  Spec => []CachesFresh
<1>1. TInv /\ Fresh /\ [Next]_vars => Fresh'
  BY FreshNext
<1> QED
  BY <1>1, FreshInit, FreshIsClean, TInvInit, TInvNext, PTL DEF Spec
=============================================================================
