----------------------------- MODULE RateLimiter -----------------------------
(***************************************************************************)
(* The per-address request limiter of src/server/middleware/ratelimit.go:  *)
(* one mutex-protected map from client address to (count, windowStart),    *)
(* written by Allow on every request and pruned by a background goroutine. *)
(*                                                                         *)
(* Time is the Unix second the code reads (time.Now().Unix()).  The mutex  *)
(* makes Allow and one pass of the cleanup atomic with respect to each     *)
(* other, so each of them is one action.                                   *)
(***************************************************************************)
EXTENDS Integers

CONSTANTS
  Clients,   \* the client addresses (the keys of the requests map)
  Limit,     \* requestsLimit
  Window,    \* windowSeconds
  MaxTime    \* bound: the clock stops here

\* The constructor takes any limit and any window; it checks neither.
ASSUME LimitAssumption  == Limit \in Nat
ASSUME WindowAssumption == Window \in Nat
ASSUME TimeAssumption   == MaxTime \in Nat

VARIABLES
  now,       \* the wall clock, in seconds
  requests,  \* the requests map: an entry, or NoEntry for an absent key
  cleaner,   \* the cleanup goroutine: "running" until Stop closes stopCh,
             \* "stopping" until its select notices
  opened,    \* history: when the client's latest window was opened
  served,    \* history: requests granted in that window
  spans      \* history: requests granted in the Window seconds from each second on

program == <<now, requests, cleaner>>
history == <<opened, served, spans>>
vars    == <<now, requests, cleaner, opened, served, spans>>

-----------------------------------------------------------------------------

Times   == 0 .. MaxTime
NoEntry == [count |-> 0, windowStart |-> -1]
Never   == -1

\* clientInfo
Entry == [count : Nat \ {0}, windowStart : Times]

TypeOK ==
  /\ now \in Times
  /\ requests \in [Clients -> Entry \cup {NoEntry}]
  /\ cleaner \in {"running", "stopping", "stopped"}
  /\ opened \in [Clients -> Times \cup {Never}]
  /\ served \in [Clients -> Nat]
  /\ spans \in [Clients -> [Times -> Nat]]

\* NewRateLimiter: an empty map, and the cleanup goroutine running.
Init ==
  /\ now = 0
  /\ requests = [c \in Clients |-> NoEntry]
  /\ cleaner = "running"
  /\ opened = [c \in Clients |-> Never]
  /\ served = [c \in Clients |-> 0]
  /\ spans = [c \in Clients |-> [t \in Times |-> 0]]

-----------------------------------------------------------------------------

Age(c) == now - requests[c].windowStart

\* "Check if window has expired": the entry no longer counts.
WindowExpired(c) == Age(c) >= Window

\* Mutant: the limit compared with the wrong operator.
LimitExceededByOne(c) == requests[c].count > Limit

\* "Check if limit exceeded".
LimitExceeded(c) == requests[c].count >= Limit

\* Mutants: the factor 2 on the wrong side; a comparison that is not strict; the
\* subtraction the wrong way round.
StaleTooEarly(c)   == requests[c] # NoEntry /\ 2 * Age(c) >= Window
StaleAtTwoWindows(c) == requests[c] # NoEntry /\ Age(c) >= 2 * Window
StaleBackwards(c)  == requests[c] # NoEntry /\ -Age(c) > 2 * Window

\* The entries one pass of the cleanup goroutine deletes.
Stale(c) == requests[c] # NoEntry /\ Age(c) > 2 * Window

\* The present second lies in the span that begins at t.
InSpan(t) == t <= now /\ now < t + Window

Granted(c) ==
  spans' = [spans EXCEPT ![c] =
    [t \in Times |-> IF InSpan(t) THEN spans[c][t] + 1 ELSE spans[c][t]]]

\* Mutant: a renewed entry keeps the start of the window it replaces.
OpenWindowKeepsStart(c) ==
  /\ requests[c] = NoEntry \/ WindowExpired(c)
  /\ requests' = [requests EXCEPT ![c] =
       [count |-> 1,
        windowStart |-> IF @ = NoEntry THEN now ELSE @.windowStart]]
  /\ opened' = [opened EXCEPT ![c] = now]
  /\ served' = [served EXCEPT ![c] = 1]
  /\ Granted(c)
  /\ UNCHANGED <<now, cleaner>>

\* Allow, no entry or an expired one: the request opens a window of its own.
OpenWindow(c) ==
  /\ requests[c] = NoEntry \/ WindowExpired(c)
  /\ requests' = [requests EXCEPT ![c] = [count |-> 1, windowStart |-> now]]
  /\ opened' = [opened EXCEPT ![c] = now]
  /\ served' = [served EXCEPT ![c] = 1]
  /\ Granted(c)
  /\ UNCHANGED <<now, cleaner>>

\* Allow within a window that has room.
CountRequest(c) ==
  /\ requests[c] # NoEntry
  /\ ~WindowExpired(c)
  /\ ~LimitExceeded(c)
  /\ requests' = [requests EXCEPT ![c].count = @ + 1]
  /\ served' = [served EXCEPT ![c] = @ + 1]
  /\ Granted(c)
  /\ UNCHANGED <<now, cleaner, opened>>

\* Allow within a full window: Limit answers 429 and nothing changes.
Refuse(c) ==
  /\ requests[c] # NoEntry
  /\ ~WindowExpired(c)
  /\ LimitExceeded(c)
  /\ UNCHANGED vars

Allow(c) == OpenWindow(c) \/ CountRequest(c) \/ Refuse(c)

\* One pass of the cleanup goroutine.  A tick that is pending when stopCh is
\* closed may still win the select.
Cleanup ==
  /\ cleaner # "stopped"
  /\ requests' = [c \in Clients |-> IF Stale(c) THEN NoEntry ELSE requests[c]]
  /\ UNCHANGED <<now, cleaner, opened, served, spans>>

\* Stop; a second call panics in its caller on the closed channel and changes
\* nothing here.
Stop ==
  /\ cleaner = "running"
  /\ cleaner' = "stopping"
  /\ UNCHANGED <<now, requests, opened, served, spans>>

CleanerExits ==
  /\ cleaner = "stopping"
  /\ cleaner' = "stopped"
  /\ UNCHANGED <<now, requests, opened, served, spans>>

Tick ==
  /\ now < MaxTime
  /\ now' = now + 1
  /\ UNCHANGED <<requests, cleaner, opened, served, spans>>

Next ==
  \/ \E c \in Clients : Allow(c)
  \/ Cleanup
  \/ Stop
  \/ CleanerExits
  \/ Tick

Spec == Init /\ [][Next]_vars

\* The cleanup goroutine is woken by its ticker every minute until stopped.
FairSpec == Spec /\ WF_vars(Cleanup)

-----------------------------------------------------------------------------
(* Properties *)

\* What one window may let through: the request that opens it is never refused,
\* since Allow compares the count only with an existing entry.
Quota == IF Limit = 0 THEN 1 ELSE Limit

\* The requests let through between the opening of a window and the next
\* one never exceed the limit.  The history counter survives the deletion of the
\* entry, so a cleanup that forgot a window still running would show here.
QuotaPerWindow ==
  \A c \in Clients : served[c] <= Quota

\* A client is given a fresh window only once the previous one has lasted its
\* full length, whether its entry was reset by Allow or deleted by cleanup.
WindowsDisjoint ==
  [][\A c \in Clients :
       (opened'[c] # opened[c] /\ opened[c] # Never)
         => opened'[c] - opened[c] >= Window]_vars

\* What AI.md 4603 and 18531 ask for, "Per IP, sliding window": no span of Window
\* seconds, wherever it begins, sees more than the limit. The fixed windows of
\* Allow do not keep this.
SlidingQuota == \A c \in Clients, t \in Times : spans[c][t] <= Quota

\* What they keep instead (ratelimit.go 85-98): no span of Window seconds sees
\* more than twice the limit, a late burst of one window and an early one of the
\* next, though the entry between them may have been deleted.
SlidingBound == \A c \in Clients, t \in Times : spans[c][t] <= 2 * Quota

\* The map does not keep the address of a client that went away: an entry two
\* windows old is dropped, or renewed by a new request, unless Stop was called.
StaleEntriesGo ==
  \A c \in Clients :
    LET old == requests[c] # NoEntry /\ Age(c) > 2 * Window IN
      old ~> (~old \/ cleaner # "running")

-----------------------------------------------------------------------------
(* The inductive invariant behind QuotaPerWindow, WindowsDisjoint and SlidingBound *)

EntryMatchesHistory(c) ==
  requests[c] # NoEntry =>
    /\ opened[c] = requests[c].windowStart
    /\ served[c] = requests[c].count

ForgottenIsOver(c) ==
  requests[c] = NoEntry /\ opened[c] # Never => now - opened[c] > 2 * Window

NotFromFuture(c) == opened[c] <= now

\* A span meets at most two windows of a client: what it has seen is due to the
\* current one if that was opened before the span, and to the current and its
\* predecessor if it was opened within.
SpanMeetsTwoWindows(c) ==
  \A t \in Times :
    /\ now < t => spans[c][t] = 0
    /\ opened[c] < t => spans[c][t] <= served[c]
    /\ t <= opened[c] /\ opened[c] < t + Window => spans[c][t] <= Quota + served[c]

RateInv ==
  /\ TypeOK
  /\ \A c \in Clients :
       EntryMatchesHistory(c) /\ ForgottenIsOver(c) /\ NotFromFuture(c)
  /\ QuotaPerWindow
  /\ \A c \in Clients : SpanMeetsTwoWindows(c)
  /\ SlidingBound
=============================================================================
