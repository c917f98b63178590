-------------------------- MODULE RateLimiterProofs --------------------------
(***************************************************************************)
(* For every set of clients, every limit, every window and every clock     *)
(* bound: the limiter's map stays well formed, a window never grants more  *)
(* than the limit, two windows of a client never overlap, and no span of   *)
(* the length of a window sees more than two windows' worth of requests.   *)
(*                                                                         *)
(* The argument is RateInv: an entry of the map agrees with the client's   *)
(* history, and a client without an entry had its last window more than    *)
(* twice the window's length ago.  The second part is what the cleanup's   *)
(* comparison with windowSeconds*2 buys.  The bound on spans follows since *)
(* a window that is opened within a span leaves room for only one other,   *)
(* its predecessor, in that span.                                          *)
(***************************************************************************)
EXTENDS RateLimiter, TLAPS

\* The parts of the invariant that speak of one client.
ClientInv(c) == EntryMatchesHistory(c) /\ ForgottenIsOver(c) /\ NotFromFuture(c)

\* All of the invariant that says nothing of spans.
WindowInv == TypeOK /\ (\A c \in Clients : ClientInv(c)) /\ QuotaPerWindow

\* What a step has to keep of the spans.
SpanInv == (\A c \in Clients : SpanMeetsTwoWindows(c)) /\ SlidingBound

LEMMA RateInvParts == RateInv <=> WindowInv /\ SpanInv
  BY DEF RateInv, WindowInv, SpanInv, ClientInv

LEMMA QuotaType == Quota \in Nat \ {0}
  BY LimitAssumption DEF Quota

\* The initial state is well formed: no entry, no history.
LEMMA InitEstablishesRateInv == Init => RateInv
<1> SUFFICES ASSUME Init PROVE RateInv
  OBVIOUS
<1>1. WindowInv
  BY LimitAssumption, TimeAssumption
  DEF Init, WindowInv, TypeOK, QuotaPerWindow, Quota, ClientInv, EntryMatchesHistory,
      ForgottenIsOver, NotFromFuture, NoEntry, Never, Times
<1>2. SpanInv
  BY QuotaType DEF Init, SpanInv, SpanMeetsTwoWindows, SlidingBound, Times
<1> QED
  BY <1>1, <1>2, RateInvParts

-----------------------------------------------------------------------------
(* Spans *)

\* A granted request is counted once in every span it falls into, and only for
\* its own client.
LEMMA GrantedSpans ==
  ASSUME TypeOK, NEW c \in Clients, Granted(c)
  PROVE  /\ spans' \in [Clients -> [Times -> Nat]]
         /\ \A t \in Times :
              spans'[c][t] = IF InSpan(t) THEN spans[c][t] + 1 ELSE spans[c][t]
         /\ \A d \in Clients \ {c} : spans'[d] = spans[d]
<1> DEFINE counted == [t \in Times |-> IF InSpan(t) THEN spans[c][t] + 1 ELSE spans[c][t]]
<1>1. spans[c] \in [Times -> Nat]
  BY DEF TypeOK
<1>2. counted \in [Times -> Nat]
  BY <1>1
<1>3. spans' = [spans EXCEPT ![c] = counted]
  BY DEF Granted
<1>4. spans'[c] = counted
  BY <1>3 DEF TypeOK
<1> QED
  BY <1>2, <1>3, <1>4 DEF TypeOK

\* Spans of a client whose history a step leaves alone stay as they are, also
\* when time passes.
LEMMA SpansKept ==
  ASSUME TypeOK, now' \in Times, now <= now', NEW d \in Clients, SpanMeetsTwoWindows(d),
         spans'[d] = spans[d], opened'[d] = opened[d], served'[d] = served[d]
  PROVE  SpanMeetsTwoWindows(d)'
  BY DEF SpanMeetsTwoWindows, TypeOK, Times, Quota

\* What a span has seen never exceeds two quotas, whichever of its cases it is in.
LEMMA GrantStep ==
  ASSUME RateInv, NEW c \in Clients, Granted(c), UNCHANGED now,
         \A d \in Clients \ {c} : opened'[d] = opened[d] /\ served'[d] = served[d],
         \A t \in Times :
           /\ now < t => spans'[c][t] = 0
           /\ opened'[c] < t => spans'[c][t] <= served'[c]
           /\ t <= opened'[c] /\ opened'[c] < t + Window => spans'[c][t] <= Quota + served'[c],
         opened'[c] \in Int, opened'[c] <= now, served'[c] \in Nat, served'[c] <= Quota
  PROVE  SpanInv'
<1>1. TypeOK /\ now \in Times /\ SpanInv
  BY RateInvParts DEF WindowInv, TypeOK
<1>2. ASSUME NEW d \in Clients PROVE SpanMeetsTwoWindows(d)'
  <2>1. CASE d = c
    BY <2>1 DEF SpanMeetsTwoWindows, Quota
  <2>2. CASE d # c
    BY <1>1, <2>2, GrantedSpans, SpansKept DEF SpanInv, Times
  <2> QED
    BY <2>1, <2>2
<1>3. ASSUME NEW d \in Clients, NEW t \in Times PROVE spans'[d][t] <= 2 * Quota
  <2>1. spans[d][t] <= 2 * Quota /\ spans[d][t] \in Nat /\ Quota \in Nat
    BY <1>1, QuotaType DEF SpanInv, SlidingBound, TypeOK
  <2>2. CASE d # c \/ ~InSpan(t)
    BY <1>1, <2>1, <2>2, GrantedSpans
  <2>3. CASE d = c /\ InSpan(t)
    <3>1. opened'[c] < t + Window
      BY <1>1, <2>3, WindowAssumption DEF InSpan, Times
    <3>2. spans'[c][t] <= Quota + served'[c]
      BY <1>1, <2>1, <2>3, <3>1, GrantedSpans DEF Times
    <3> QED
      BY <1>1, <2>1, <2>3, <3>2, GrantedSpans
  <2> QED
    BY <2>2, <2>3
<1> QED
  BY <1>2, <1>3 DEF SpanInv, SlidingBound, Quota

\* Steps that grant nothing.
LEMMA NoGrantStep ==
  ASSUME RateInv, now' \in Times, now <= now', UNCHANGED <<opened, served, spans>>
  PROVE  SpanInv'
<1>1. TypeOK /\ SpanInv
  BY RateInvParts DEF WindowInv
<1>2. \A d \in Clients : SpanMeetsTwoWindows(d)'
  BY <1>1, SpansKept DEF SpanInv
<1> QED
  BY <1>1, <1>2 DEF SpanInv, SlidingBound, Quota

\* A new window starts at least Window seconds after its predecessor: no span
\* that contains its start contains its predecessor's.
LEMMA OpenWindowGap ==
  ASSUME RateInv, NEW c \in Clients, OpenWindow(c), opened[c] # Never
  PROVE  now - opened[c] >= Window
<1>1. CASE requests[c] = NoEntry
  BY <1>1, WindowAssumption DEF RateInv, TypeOK, ForgottenIsOver, Times, Never
<1>2. CASE requests[c] # NoEntry /\ WindowExpired(c)
  BY <1>2 DEF RateInv, EntryMatchesHistory, WindowExpired, Age
<1> QED
  BY <1>1, <1>2 DEF OpenWindow

LEMMA OpenWindowSpans ==
  ASSUME RateInv, NEW c \in Clients, OpenWindow(c)
  PROVE  SpanInv'
<1>1. /\ TypeOK /\ SpanMeetsTwoWindows(c) /\ Granted(c) /\ now' = now /\ now \in Times
      /\ served[c] <= Quota /\ served[c] \in Nat /\ Quota \in Nat \ {0}
      /\ opened[c] \in Times \cup {Never}
  BY QuotaType DEF RateInv, OpenWindow, QuotaPerWindow, TypeOK
<1>2. /\ opened'[c] = now /\ served'[c] = 1
      /\ \A d \in Clients \ {c} : opened'[d] = opened[d] /\ served'[d] = served[d]
  BY <1>1 DEF OpenWindow, TypeOK
<1>3. ASSUME NEW t \in Times
      PROVE  /\ now < t => spans'[c][t] = 0
             /\ t <= now /\ now < t + Window => spans'[c][t] <= Quota + 1
  <2>1. spans'[c][t] = IF InSpan(t) THEN spans[c][t] + 1 ELSE spans[c][t]
    BY <1>1, GrantedSpans
  <2>2. now < t => spans[c][t] = 0 /\ ~InSpan(t)
    BY <1>1 DEF SpanMeetsTwoWindows, InSpan, Times
  <2>3. ASSUME t <= now, now < t + Window PROVE spans[c][t] <= Quota
    <3>1. opened[c] < t
      BY <1>1, <2>3, OpenWindowGap, WindowAssumption DEF Times, Never
    <3> QED
      BY <1>1, <3>1 DEF SpanMeetsTwoWindows, TypeOK
  <2>4. spans[c][t] \in Nat
    BY <1>1 DEF TypeOK
  <2> QED
    BY <1>1, <2>1, <2>2, <2>3, <2>4
<1> QED
  BY <1>1, <1>2, <1>3, GrantStep DEF Times

LEMMA CountRequestSpans ==
  ASSUME RateInv, NEW c \in Clients, CountRequest(c), served[c] + 1 <= Quota
  PROVE  SpanInv'
<1>1. /\ TypeOK /\ SpanMeetsTwoWindows(c) /\ Granted(c) /\ now' = now /\ now \in Times
      /\ served[c] \in Nat /\ Quota \in Nat /\ opened[c] <= now /\ opened[c] \in Int
  BY QuotaType DEF RateInv, CountRequest, TypeOK, NotFromFuture, Times, Never
<1>2. /\ opened'[c] = opened[c] /\ served'[c] = served[c] + 1
      /\ \A d \in Clients \ {c} : opened'[d] = opened[d] /\ served'[d] = served[d]
  BY <1>1 DEF CountRequest, TypeOK
<1>3. ASSUME NEW t \in Times
      PROVE  /\ now < t => spans'[c][t] = 0
             /\ opened[c] < t => spans'[c][t] <= served[c] + 1
             /\ t <= opened[c] /\ opened[c] < t + Window =>
                  spans'[c][t] <= Quota + (served[c] + 1)
  <2>1. spans'[c][t] = IF InSpan(t) THEN spans[c][t] + 1 ELSE spans[c][t]
    BY <1>1, GrantedSpans
  <2>2. now < t => ~InSpan(t)
    BY <1>1 DEF InSpan, Times
  <2>3. spans[c][t] \in Nat
    BY <1>1 DEF TypeOK
  <2> QED
    BY <1>1, <2>1, <2>2, <2>3 DEF SpanMeetsTwoWindows
<1> QED
  BY <1>1, <1>2, <1>3, GrantStep

-----------------------------------------------------------------------------
(* The steps *)

\* Allow opening a window: the new entry and the new history agree.
LEMMA OpenWindowStep ==
  ASSUME RateInv, NEW c \in Clients, OpenWindow(c)
  PROVE  RateInv'
<1>1. TypeOK'
  <2>1. [count |-> 1, windowStart |-> now] \in Entry
    BY DEF RateInv, TypeOK, Entry
  <2>2. spans' \in [Clients -> [Times -> Nat]]
    BY GrantedSpans DEF RateInv, OpenWindow
  <2> QED
    BY <2>1, <2>2 DEF RateInv, TypeOK, OpenWindow
<1>2. ASSUME NEW d \in Clients PROVE ClientInv(d)'
  <2>1. CASE d = c
    BY <2>1 DEF RateInv, TypeOK, OpenWindow, ClientInv, EntryMatchesHistory,
       ForgottenIsOver, NotFromFuture, NoEntry, Times
  <2>2. CASE d # c
    BY <2>2 DEF RateInv, TypeOK, OpenWindow, ClientInv, EntryMatchesHistory,
       ForgottenIsOver, NotFromFuture
  <2> QED
    BY <2>1, <2>2
<1>3. QuotaPerWindow'
  BY LimitAssumption DEF RateInv, TypeOK, OpenWindow, QuotaPerWindow, Quota
<1>4. SpanInv'
  BY OpenWindowSpans
<1> QED
  BY <1>1, <1>2, <1>3, <1>4 DEF RateInv, ClientInv, SpanInv

\* Allow within a window: the comparison with the limit is what keeps the
\* quota, since the entry's count is the number of grants of the window.
LEMMA CountRequestStep ==
  ASSUME RateInv, NEW c \in Clients, CountRequest(c)
  PROVE  RateInv'
<1> DEFINE e == [requests[c] EXCEPT !.count = @ + 1]
<1>0. requests[c] \in Entry
  BY DEF RateInv, TypeOK, CountRequest
<1>1. e \in Entry /\ e.count = requests[c].count + 1
      /\ e.windowStart = requests[c].windowStart
  BY <1>0 DEF Entry
<1>2. requests' = [requests EXCEPT ![c] = e]
  BY DEF CountRequest
<1> HIDE DEF e
<1>3. TypeOK'
  <2>1. spans' \in [Clients -> [Times -> Nat]]
    BY GrantedSpans DEF RateInv, CountRequest
  <2>2. requests' \in [Clients -> Entry \cup {NoEntry}]
    BY <1>1, <1>2 DEF RateInv, TypeOK
  <2> QED
    BY <2>1, <2>2 DEF RateInv, TypeOK, CountRequest
<1>4. ASSUME NEW d \in Clients PROVE ClientInv(d)'
  <2>1. CASE d = c
    <3>1. opened[c] = requests[c].windowStart /\ served[c] = requests[c].count
      BY DEF RateInv, EntryMatchesHistory, CountRequest
    <3>2. requests'[c] = e /\ requests'[c] # NoEntry
      BY <1>1, <1>2 DEF RateInv, TypeOK, Entry, NoEntry
    <3>3. opened'[c] = opened[c] /\ served'[c] = served[c] + 1 /\ now' = now
      BY DEF RateInv, TypeOK, CountRequest
    <3> QED
      BY <1>1, <2>1, <3>1, <3>2, <3>3
      DEF RateInv, ClientInv, EntryMatchesHistory, ForgottenIsOver, NotFromFuture
  <2>2. CASE d # c
    <3>1. requests'[d] = requests[d] /\ served'[d] = served[d]
      BY <1>2, <2>2 DEF RateInv, TypeOK, CountRequest
    <3> QED
      BY <3>1 DEF RateInv, TypeOK, CountRequest, ClientInv, EntryMatchesHistory,
         ForgottenIsOver, NotFromFuture
  <2> QED
    BY <2>1, <2>2
<1>5. QuotaPerWindow'
  <2>1. served'[c] <= Quota
    <3>1. served[c] = requests[c].count
      BY DEF RateInv, EntryMatchesHistory, CountRequest
    <3>2. requests[c].count < Limit
      BY <1>0, LimitAssumption DEF CountRequest, LimitExceeded, Entry
    <3> QED
      BY <3>1, <3>2, LimitAssumption DEF RateInv, TypeOK, CountRequest, Quota
  <2> QED
    BY <2>1 DEF RateInv, TypeOK, CountRequest, QuotaPerWindow, Quota
<1>6. SpanInv'
  <2>1. served'[c] = served[c] + 1 /\ served'[c] <= Quota
    BY <1>5 DEF RateInv, TypeOK, CountRequest, QuotaPerWindow, Quota
  <2> QED
    BY <2>1, CountRequestSpans
<1> QED
  BY <1>3, <1>4, <1>5, <1>6 DEF RateInv, ClientInv, SpanInv

\* A cleanup pass only forgets windows that ended a whole window ago.
LEMMA CleanupStep ==
  ASSUME RateInv, Cleanup
  PROVE  RateInv'
<1>1. TypeOK'
  BY DEF RateInv, TypeOK, Cleanup
<1>2. ASSUME NEW d \in Clients PROVE ClientInv(d)'
  <2>1. CASE Stale(d)
    BY <2>1 DEF RateInv, TypeOK, Cleanup, Stale, Age, ClientInv,
       EntryMatchesHistory, ForgottenIsOver, NotFromFuture
  <2>2. CASE ~Stale(d)
    BY <2>2 DEF RateInv, TypeOK, Cleanup, ClientInv,
       EntryMatchesHistory, ForgottenIsOver, NotFromFuture
  <2> QED
    BY <2>1, <2>2
<1>3. QuotaPerWindow'
  BY DEF RateInv, Cleanup, QuotaPerWindow, Quota
<1>4. SpanInv'
  BY NoGrantStep DEF Cleanup, RateInv, TypeOK, Times
<1> QED
  BY <1>1, <1>2, <1>3, <1>4 DEF RateInv, ClientInv, SpanInv

\* Time passes, or the cleanup goroutine is stopped: only the clock matters.
LEMMA ClockStep ==
  ASSUME RateInv, Tick \/ Stop \/ CleanerExits
  PROVE  RateInv'
<1>1. TypeOK'
  BY TimeAssumption DEF RateInv, TypeOK, Tick, Stop, CleanerExits, Times
<1>2. ASSUME NEW d \in Clients PROVE ClientInv(d)'
  BY WindowAssumption DEF RateInv, TypeOK, Tick, Stop, CleanerExits, ClientInv,
     Times, Never, EntryMatchesHistory, ForgottenIsOver, NotFromFuture
<1>3. QuotaPerWindow'
  BY DEF RateInv, Tick, Stop, CleanerExits, QuotaPerWindow, Quota
<1>4. SpanInv'
  BY <1>1, NoGrantStep DEF Tick, Stop, CleanerExits, RateInv, TypeOK, Times
<1> QED
  BY <1>1, <1>2, <1>3, <1>4 DEF RateInv, ClientInv, SpanInv

\* RateInv is inductive.
LEMMA RateInvInductive == RateInv /\ [Next]_vars => RateInv'
<1> SUFFICES ASSUME RateInv, [Next]_vars PROVE RateInv'
  OBVIOUS
<1>1. CASE UNCHANGED vars
  BY <1>1 DEF RateInv, TypeOK, QuotaPerWindow, EntryMatchesHistory, ForgottenIsOver,
     NotFromFuture, SpanMeetsTwoWindows, SlidingBound, Quota, vars
<1>2. ASSUME NEW c \in Clients, Allow(c) PROVE RateInv'
  <2>1. CASE OpenWindow(c)
    BY <2>1, OpenWindowStep
  <2>2. CASE CountRequest(c)
    BY <2>2, CountRequestStep
  <2>3. CASE Refuse(c)
    BY <1>1, <2>3 DEF Refuse
  <2> QED
    BY <1>2, <2>1, <2>2, <2>3 DEF Allow
<1>3. CASE Cleanup
  BY <1>3, CleanupStep
<1>4. CASE Tick \/ Stop \/ CleanerExits
  BY <1>4, ClockStep
<1> QED
  BY <1>1, <1>2, <1>3, <1>4 DEF Next

\* The limiter's state, its history included, satisfies RateInv at all times.
THEOREM RateInvHolds == Spec => []RateInv
  BY InitEstablishesRateInv, RateInvInductive, PTL DEF Spec

\* Entries and their history stay well formed, and the clock within its bound.
THEOREM RateTypesHold == Spec => []TypeOK
<1>1. RateInv => TypeOK
  BY DEF RateInv
<1> QED
  BY <1>1, RateInvHolds, PTL

\* Whatever the limit and however the cleanup interleaves with the requests, a
\* window grants no more requests than the limit (ratelimit.go, Allow).
THEOREM QuotaHolds == Spec => []QuotaPerWindow
<1>1. RateInv => QuotaPerWindow
  BY DEF RateInv
<1> QED
  BY <1>1, RateInvHolds, PTL

\* Any span of the length of a window sees at most twice the quota, wherever it
\* begins and however the cleanup interleaves: the price of a fixed window where
\* AI.md asks for a sliding one.
THEOREM SpansAreBounded == Spec => []SlidingBound
<1>1. RateInv => SlidingBound
  BY DEF RateInv
<1> QED
  BY <1>1, RateInvHolds, PTL

\* A client never gets a second window within Window seconds of the first, not
\* even when the cleanup goroutine has deleted its entry in between.
THEOREM WindowsAreDisjoint == Spec => WindowsDisjoint
<1>1. RateInv /\ [Next]_vars =>
        [\A c \in Clients :
           (opened'[c] # opened[c] /\ opened[c] # Never)
             => opened'[c] - opened[c] >= Window]_vars
  <2> SUFFICES ASSUME RateInv, [Next]_vars, NEW c \in Clients,
                      opened'[c] # opened[c], opened[c] # Never
               PROVE  opened'[c] - opened[c] >= Window
    OBVIOUS
  <2>1. OpenWindow(c)
    BY DEF Next, vars, Allow, OpenWindow, CountRequest, Refuse, Cleanup, Stop,
       CleanerExits, Tick, RateInv, TypeOK
  <2>2. opened'[c] = now
    BY <2>1 DEF OpenWindow, RateInv, TypeOK
  <2> QED
    BY <2>1, <2>2, OpenWindowGap
<1> QED
  BY <1>1, RateInvHolds, PTL DEF Spec, WindowsDisjoint
=============================================================================
