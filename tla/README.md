# Verification of CASRAD

CASRAD is a self-hosted media server written in Go: one process that serves HTTP,
keeps its accounts and sessions in a store and runs maintenance tasks in the
background. It comes with a service worker that is to answer for the server in the
browser when the network does not. This directory holds TLA+ models of the parts of it
that keep state under concurrency, the configurations that check them with TLC, and
theorems about them that TLAPS proves for all values of the constants.

Paths below are relative to the repository; `server/` stands for `src/server/`.

## 1. The system

### 1.1 Components, their state and operations

| Component | State | Operations | Shares state with |
|---|---|---|---|
| Rate limiter, `server/middleware/ratelimit.go` | map address -> (count, windowStart) under one mutex; a stop channel | `Allow` per request, `cleanup` goroutine, `Stop` | every request goroutine |
| Accounts and sessions, `server/service/auth.go`, `server/store/memory.go` | `users`, `admins`, `sessions` maps under one lock; failure counts and locks in the rows | `Authenticate`, `CreateSession`, `ValidateSession`, `InvalidateSession`, `InvalidateAllUserSessions`, `ChangePassword`, `RegisterUser` | user administration, handlers, setup |
| User administration, `server/service/user.go` | the same rows; home directories on disk | `CreateUser`, `CreateAdmin`, `UpdateUser`, `UpdatePassword`, `SetUserActive`, `DeleteUser`, `UpdateStorageUsed`, `CheckStorageQuota` | accounts |
| Ticker scheduler, `src/scheduler/scheduler.go` | tasks map, running flag, stop channel, one goroutine per run | `Register`, `RegisterDisabled`, `Start`, `Stop`, the loop, `runTask` | `main` |
| Scheduler service, `server/service/scheduler.go` | tasks with NextRun, LastRun, RetryCount; context, wait group | `AddTask`, `RegisterHandler`, `EnableTask`, `DisableTask`, `Start`, `Stop`, `RunTask`, the loop | admin panel |
| Service worker, `server/static/sw.js`, registered by `server/template/layout/base.html` | a cache named `CACHE_VERSION` in the browser; the browser keeps the installing, waiting and active worker | the `install`, `activate` and `fetch` listeners | pages and later builds of the server |
| First administrator, `server/server.go` 717-760 | a one-time token in a field of the server | `handleAdminSetup` | accounts |
| CSRF tokens, `server/middleware/security.go` | map of tokens under a lock | generate, validate, invalidate | form handlers |
| Backups, `server/service/backup.go` | backup directory, configuration | create, verify, restore, retention, delete | scheduler service |
| Self-update, `server/service/update.go` | the binary, `.new` and `.old` beside it; update in progress | check, perform | admin panel |
| Tor, `server/service/tor.go` | process, address, vanity search and its context | start, stop, restart, vanity start, cancel | admin panel |
| Notifications, `server/service/notification.go` | toasts and banners per user | add, get, dismiss, clear | handlers |
| Two-factor codes, `server/service/totp.go` | none | generate, verify within a window | login |
| SQLite store, `server/store/sqlite.go` | the same tables as the in-memory store, in a file | one statement per call | accounts |

The rest (HTTP routing and rendering, configuration, paths, TLS, mail, audit, metrics,
GraphQL, Swagger, GeoIP, translations, validation, the client, installation as a system
service) is listed in `PROJECT.json` with the reason why it is not modelled: pure
functions, output, or calls of the operating system without state of its own.

### 1.2 How they interact

`http.Server` runs every request in a goroutine of its own. A request passes the rate
limiter, then the session middleware (`ValidateSession`), then a handler that calls a
service; the services call the store, which takes its lock *once per call* and hands out
copies. Nothing spans two store calls, so every "read the row, change it, write it back"
in a service races with every other one. `main` starts the ticker scheduler and stops it
on exit; the scheduler service is written for the admin panel, whose handlers would call
`RunTask` from request goroutines while its loop runs the same tasks.

The layout `base.html` registers `/static/sw.js` for the scope `/`. Once it is installed
the browser sends the requests of the pages it controls to its `fetch` listener: API and
stream calls pass, `/static/` is answered from the cache first, everything else from the
network first. A deployed build changes the pages and assets the server answers with, and
may change the bytes of `sw.js`: only then does the browser install it anew, beside the
worker in charge.

At this commit no browser gets that far, for three reasons, each enough by itself:

- no handler renders `base.html`, so no page registers the worker;
- browsers refuse the scope `/` to a script below `/static/` unless it is sent with a
  `Service-Worker-Allowed` header, and the file server of `server.go` 146 sends none;
- `/` has no route (`server.go` 123-302) and is answered 404, which makes
  `addAll(STATIC_ASSETS)` of the install listener (`sw.js` 13) reject every time.

The constants `Registering`, `ScopeAllowed` and `Answered` of `ServiceWorker` stand for
the three. The runs give them the values they would have once this is repaired, and what
they show is about `sw.js` in that case.

At this commit several services are constructed nowhere outside their own file (the
per-address limiter's `NewRateLimiter`, the scheduler service, the Tor, notification,
backup, update and user services). Those that are modelled are modelled as they are
written, for the callers their doc comments name.

### 1.3 What is hard here

- lost updates between two store calls, with a deliberately slow password hash between
  them (`auth.go` 184-197);
- a session created after the sessions were revoked, a validation that writes a session
  after its logout, an update that writes a row after its deletion;
- failure counts and locks computed from stale copies;
- limiter entries deleted by a background goroutine while they may still count;
- ticks that are dropped or delivered late, handlers that outlast the ticker, restarts of
  a scheduler whose previous loop has not ended;
- retries, NextRun and the Enabled flag written by several goroutines, partly without
  the lock;
- a worker that takes over under open pages, deletes the caches of the previous one while
  puts and an install of the next are under way, and must leave a complete, current
  offline copy although fetches fail and nobody awaits the puts;
- further: duplicate registration, home directories deleted under a new owner, a swap of
  the binary by two renames, restores that fail half-way.

`PROJECT.json` lists each with its line under `hazards`, with the property that covers
it, or why none does.

### 1.4 What makes the components correct

- *Rate limiter*: no window grants more than the limit; two windows of one address do
  not overlap, even if cleanup forgets an entry; entries of silent addresses go.
- *Accounts and sessions*: a lock exists exactly when the count has reached the
  threshold and never lasts longer than its period; every session comes from a right
  password; session ids are issued once and a revoked session stays revoked; deleted
  accounts stay deleted; completed changes of password and flag stay in force.
- *Ticker scheduler*: an interval task runs neither early nor late, a cron task exactly
  once per matching minute; Stop ends everything; a started scheduler ticks.
- *Scheduler service*: as above, and retries are bounded while no two executions of a
  task overlap, a pass runs a task at most once after it was disabled or replaced, and
  Stop returns with nothing left running.
- *Service worker*: a worker in charge has a complete offline copy of good answers; a
  navigation ends in a page as long as nobody but the worker deletes its caches; HTML
  stands in only for pages and for what no prefix names; live calls are never answered
  from a cache; after an update that renames the cache nothing older survives in one, and
  the update reaches every page.

## 2. Modules

| Module | Contents |
|---|---|
| `RateLimiter` | the limiter, its properties and its inductive invariant |
| `RateLimiterProofs` | theorems about it |
| `SessionLifecycle` | abstract specification of the session store: issue once, live, revoke for good |
| `AuthService` | accounts, sessions and the store under concurrent requests |
| `AccountStore` | abstract specification of the account tables: every operation at one moment, on the row as it is then |
| `AuthHistory` | `AuthService` with an observer of what clients were told, and its behaviours in which no two requests about one account overlap |
| `AuthServiceProofs` | theorems about `AuthService`, among them that it implements `SessionLifecycle` |
| `AuthHistoryProofs` | theorems about `AuthHistory`, among them that its rows implement `AccountStore` |
| `TickScheduler` | the scheduler `main` starts |
| `SchedulerService` | the scheduler of the admin panel |
| `TickSchedulerProofs`, `SchedulerServiceProofs` | theorems about the two schedulers |
| `ServiceWorker` | the service worker, the browser around it and later builds of the server |
| `ServiceWorkerProofs` | theorems about it |
| `MC...` | small populations and schedules for TLC |

Definitions called "Mutant" in a comment are variants of the definition that follows
them, with a plausible mistake in it. They are used to see that the properties notice it
and are no part of a specification.

### 2.1 RateLimiter

`requests` is the map, `now` the Unix second the code reads, `cleaner` the goroutine and
the stop channel. `Allow` is one action per outcome (`OpenWindow`, `CountRequest`,
`Refuse`), `Cleanup` one pass of the goroutine: both run under the mutex. `opened`,
`served` and `spans` are history: they survive the deletion of an entry, so that a
property can speak of windows the map has forgotten, and of the requests granted in the
`Window` seconds from any second on (`spans`). The clock does not step back; the
code does not protect itself against that.

### 2.2 AuthService and AuthHistory

`accounts` merges the two tables of users and admins (their ids are disjoint model
values; a name or e-mail address finds one row), `sessions` is the session map. A request
is a member of `Requests` with a label `pc`, its arguments `call` and what it has read,
`copy`. Each store call is one action:

| Code | Actions |
|---|---|
| `Authenticate` then `CreateSession` | `LoginUnknown`, `LoginLocked`, `LoginDisabled`, `LoginRead`; `LoginRight` or `LoginWrong` (the password check and the write of the whole row); `LoginRejected`; `CreateSession` |
| `ValidateSession` | `ValidateMissing`, `ValidateExpired`, `ValidateRead`, `ValidateTouch` |
| `InvalidateSession`, `InvalidateAllUserSessions` | `Logout`, `InvalidateAllUserSessions` |
| `ChangePassword` | `ChangeRefused`, `ChangeRead`, `UpdateWrite`, `ChangeRevoke` |
| `UpdatePassword`, `SetUserActive`, `UpdateUser`, `VerifyEmail`, `UpdateStorageUsed` | `UpdateRead`, `UpdateWrite` |
| `DeleteUser` | `DeleteRead`, `DeleteWrite` |

A password is the model value it is compared by, a hash the password it verifies. The
answer "invalid credentials" is a label of its own so that a property can look at who
gets it. `stored` is history: every password an account has had. `issued` is the set of
ids `generateSessionID` has returned; that it never returns one twice is assumed (32
random bytes). A login by numeric id reads neither table: the `switch`es of `Authenticate`
(122-127, 162-167) have no case for it, although its comment (line 103) names ids and
`IDEA.md` 231 promises them. It is modelled as it is: `LoginUnknown` refuses it, and
`RightPasswordAdmitted` says both that a right password given with a name or address is
never answered with "invalid credentials" and that a login by id never gets past the
lookup. Not modelled: the SQLite store, registration, and the fields of the
rows that decide nothing.

`AuthHistory` adds, for each user, what the last completed change set (`intent`) and the
wrong guesses since the last right one (`wrong`). It reads the labels before and after a
step and never constrains one.

`SerialSpec` does constrain: in it no two requests about one account overlap
(`OneAtATime`), as if each held a lock on its account from its first store call to its
answer. The code has no such lock. `SerialSpec` says what the code does right when its
races do not happen, and so that the races between two requests about one account are the
only thing that breaks it; `AuthService_lostpassword` is the run without the restriction.
Requests about different accounts, validations and logouts overlap as they like. In these
behaviours the account tables implement `AccountStore` (`RowsChangeAtomically`, with the
rows as the refinement mapping): a login is a `Guess` at the moment of its write, on the
row as it is then and while the account is active and not locked, and an update sets its
one field of that row.

### 2.3 TickScheduler

`task`, `lastRun` are the registry, `running`, `closedAt`, `crashed` the life of the
scheduler, `loops` its loop goroutines with their next tick, `runs` the handlers that
have not returned. Start and Stop let go of the lock between the flag and the goroutine
or the channel, so each is two actions, and `RegisterDisabled` lets go of it between
`Register` and the flag (`Register`, `Disable`). Time is explicit; a tick arrives at most
`MaxDelay` late, a handler takes at most `MaxRun`. `LastRun` is written when the handler
returns, as in `runTask`. `NextRun` is computed for display only and is left out.

What is said of ticks and handlers holds as long as the scheduler has been started once
(`StartedOnce`), as `main` does: a second loop would start tasks beside the first.
`StopEndsEverything` is about any number of Starts and Stops. Whether tasks may be
registered once the scheduler runs is the constant `RegisterWhileRunning`; `main`
registers before Start.

### 2.4 SchedulerService

`Tasks` are the Task objects; `present` are those in the map and `replaced` those that an
`AddTask` of the same name has put others in the place of, which the loop or a caller of
`RunTask` may still hold. `enabled` and `handler` are their flags, `lastRun`, `nextRun`,
`retryCount` the fields the loop decides on, `ctx` numbers the contexts `Start` creates,
`cancelled` is the set of cancelled ones, `watch` is the context a loop's `select` looks
at, `ticked` the one-element channel of its ticker, `batch` the rest of its pass.

`executeTask` takes no lock, so each of its accesses to RetryCount is a step:

| `scheduler.go` | Actions |
|---|---|
| the handler returns; nil, 365 | `HandlerReturnsNil`: the count is reset |
| the check against MaxRetries, 352 | `HandlerFails` |
| `RetryCount++`, 353 | `CountRetry` stores the value in hand plus one |
| the shift `1<<(RetryCount-1)`, 357 | `PlanRetry`, or `ShiftPanics` for a count that somebody has reset to 0 since |
| any of the reads done again | `Reload`: the compiler may read the field anew or use the value it has, and both are behaviours |

A panic in the loop ends the program (`panicked`); one in `RunTask` ends the request, as
the server recovers it. The unit of time is the minute of the ticker, an interval below
it counts as one, and of two times within a minute either may be the earlier (the `late`
choices of `LoopCollect` and `NextRunOf`). Handlers take any time. `Horizon` is the
525,600 minutes a cron search covers. That `RunTask` may use an object that was replaced
since it looked, and that any task due in this very minute may be passed over by a
collection, are more behaviours than the code has, never fewer.

### 2.5 ServiceWorker

| `sw.js` | Actions |
|---|---|
| install listener, 9-17 | `InstallOpen`; `InstallFetch`, one per asset; `InstallFails` or `InstallPut` (`addAll` stores all or nothing) |
| `skipWaiting`, 16, and the browser's activation | `Activate` |
| activate listener, 19-30 | `ActivateKeys`, `ActivateDelete`, one per cache, `ActivateDone`; `Claim` |
| fetch listener, 32-59, cache first | `StaticHit`, `StaticMiss`, `StaticFetched`, `StaticRejected`; `FillOpen`, `FillPut` or `FillLost` for the open and the put nobody awaits |
| fetch listener, 61-68, network first | `PageFetched`, `PageRejected`, `FallbackHit`, `FallbackMiss`, `RootHit`, `RootMiss` |
| fetch listener, 36-43, and pages without a worker | `DirectAnswer`, `DirectOffline` |
| `base.html` 35-40; a new binary | `Register`, on documents that contain it (`Registers`), and the browser's check after a visit; `Deploy` |
| not in `sw.js` | `Evict`: a user or a page's script drops all caches, if the constant `Evicts` allows it |

A response is its path, `response.ok` and the build that made it; a cache entry is a
response, what a page is shown is its path and build and whether a cache had kept it
(`kept`). The paths fall into `Pages`, `Assets` (`/static/`), `Live` (`/api/`, `/stream/`,
..., and other methods) and `Others`: every other GET, such as `/robots.txt`,
`/server/healthz`, `/webdav/` or one to another origin, which the listener treats like a
page. `Script[b]` stands for the bytes of `sw.js` in build b: the browser installs it only
if they differ from the newest worker's. `CACHE_VERSION` is a function of the script, so
that both the name as it is, one for every build, and the name the project's documentation
asks for, one for each, can be checked.

Of the browser the model has what the worker relies on: three slots; a worker in charge
is replaced only when it has answered everything (`Quiet`); fetch events wait for the end
of `activate`; `caches.match` asks the caches in the order of their creation (`older`);
entries of one path replace each other; a cache that is deleted and opened again is
another one (`orphaned`). An open and a put that the worker did not await are steps of
their own. They may be lost when the browser stops it, and they may outlast it: an open
asked for by the old worker may happen while the new one deletes caches, and makes its
cache again; a put under way goes through unless its cache is deleted first. At most
`MaxPuts` of them are under way, a further one is lost at once. A new document waits until
its tab's requests are settled.

## 3. What the runs check

The runs that pass are exhaustive for their bounds.

| Run | Question | Bounds |
|---|---|---|
| `RateLimiter_window` | quota of a window, windows apart, at most twice the limit in any span, removal of stale entries | one address (addresses never interact), limit 2, window 2 s, 8 s: an entry can be renewed, forgotten and recreated |
| `RateLimiter_sliding` | *violation*: a span of the length of a window sees more than the limit | the same |
| `AuthService_serial` | no two requests about one account overlap: lockout, password changes, the active flag and revocation do what they say; a right password is admitted, a login by id is not; the rows implement `AccountStore`; `SerialInv`, which the proofs rest on | one admin, one user, two requests, logins by name and by id, threshold 2, one session id, clock to 1 |
| `AuthService_concurrent` | two overlapping requests of any kind: rows, locks, sessions and deletions stay sound; `SessionLifecycle` is implemented | one user, two requests, one session id, clock to 2 |
| `AuthService_lostpassword` | *violation*: a login that overlaps a change of password restores the old one | two requests |
| `TickScheduler_ticks` | started once: interval and cron tasks run when they should, for every phase of the ticker; started and stopped by two goroutines: Stop ends everything | an interval, a cron and a disabled task, two callers, two loops, period 2, minute 6, three minutes; ticks on time, handlers shorter than the period |
| `TickScheduler_restart` | *violation*: after Stop, a second Start leaves no loop | two loops |
| `SchedulerService_passes` | starts are spaced, between two starts lies a minute of the cron schedule, disabling and replacing a task take effect | an interval task, one that replaces it and a cron task, five minutes, one loop, retries |
| `SchedulerService_control` | Start, Stop, restart and RunTask: nothing is left after Stop, Stop returns, retries are bounded while no two executions overlap | one task, two loops, one administrator running it by hand, one retry, three minutes |
| `ServiceWorker_offline` | offline copy, navigation and right answers before, during and after an update, one cache name as in `sw.js` | one tab, two pages, one asset cached in advance, one API path, one other path, two builds with different scripts; nobody else deletes caches |
| `ServiceWorker_update` | a name per build: nothing old survives in a cache, and the build reaches the pages | one tab, the page `/`, one asset that is not cached in advance, two builds; caches may be dropped at any time |
| `ServiceWorker_evicted` | *violation*: after the caches were dropped, a navigation is answered with nothing | as `ServiceWorker_offline`, without API and other paths |

Deadlock is checked for the service worker, which can always go on. For the others it is
not: the clock stops at `MaxTime`, and the program may legitimately be idle there. The
bounds are `MaxTime`, `MaxStarts`, `MaxPuts` and the sizes of the sets; they appear only
in guards. `RateInv` and `AuthInv` contain the type invariants of their modules,
`SerialInv` is the invariant `AuthHistoryProofs` rests on. One account is enough in the
concurrent runs because no operation relates two accounts; two requests are enough for
every pair of store calls to cross, and one session id is what the refinement and the
touch-after-logout race need.

Two builds give one update with everything that can overlap it: requests of the old
worker, its opens and puts, an install that fails half-way and is tried again, and the
deletion of the old cache. One open or put under way at a time (`MaxPuts = 1`) is enough
for it to outlast its worker. One tab is enough for the properties of single requests;
that they hold for any number of tabs, paths, builds and puts is proved.

### 3.1 What the violations say

- `SlidingQuota` fails: `AI.md` 18531 asks for a sliding window, and `Allow` counts in
  fixed ones, so a client that spends the limit at the end of one window and again at the
  beginning of the next is granted twice the limit within one length of a window.
  `SlidingBound` in `RateLimiter_window` is what does hold: never more than twice.
- `PasswordChangeSticks` fails as soon as two requests overlap: `Authenticate` writes back
  the whole row it read before the password check, hash included. The same write undoes a
  concurrent deactivation and swallows failed attempts; `ActiveFlagSticks` and
  `FailedAttemptsLock` are therefore checked under `SerialSpec` only, and so is
  `SessionMatchesPassword`: the session is created after the check and nothing ties it to
  the password it was opened with.
- The ticker scheduler cannot be restarted, and a second Stop after that panics on the
  closed channel.
- `NavigationAnswered` fails once something else than the worker deletes its caches: `/`
  is cached by the install only, nothing puts it back, and the chain of `sw.js` 61-68 ends
  in `caches.match('/')`, which then resolves to `undefined`. `AI.md` 25390-25393 forbids
  this ending for that reason.

Further limits show when a constant is changed or a property is added; they are
observations, not among the runs.

Accounts and sessions:

- a login by user id is always refused, against `auth.go` 103 and `IDEA.md` 231;
- a login that has checked the old password opens its session after `ChangePassword` has
  revoked the sessions of the account, and that session stays;
- of two wrong guesses that overlap one may not be counted.

Schedulers:

- a task that is registered disabled while the ticker scheduler runs may be started
  once before the flag is set: `RegisterDisabled` lets go of the lock in between;
- with `MaxRun` above the period the ticker scheduler starts a task while it is running;
  with `MaxDelay = 1` a cron task may start twice in a minute, from a tick delivered late
  and the following one. The theorems of section 4 say where the limits are;
- with two controllers `SchedulerService` may hold two loops after a Start during a Stop;
- if `RunTask` overlaps the loop in one task, a success between the increment of
  RetryCount (353) and its second reading (357) makes the shift negative: `ShiftPanics`
  is enabled, and in the loop it ends the program. It takes a build that reads the field
  twice; a compiler that keeps the value is free to, so no run claims it;
- `LoopReschedule` follows every `PlanRetry` of the loop, so no retry the loop plans is
  made at the time it was planned for;
- a cron schedule whose next match is beyond the horizon ("29 February", just after it has
  run) keeps its old NextRun and is started at every tick: with `Horizon = 2` and matches
  six minutes apart `CronStartsSpaced` is violated.

Service worker, if one could be installed (section 1.2):

- with one script and one name for every build, as `sw.js` 2 has, an update of the binary
  neither changes the script nor drops the cache, and the cache-first branch asks the
  server for an asset only if it is not cached: an asset cached in advance stays in its
  old build for good. `ServiceWorker_update` shows that a script and a name per build
  would be enough;
- with a cache name per build `OfflineReady` is violated: the activation of one build
  deletes the cache of a later one that is just being installed, which then takes over
  with an empty cache. With the single name of `sw.js` it cannot happen;
- an asset that is neither cached nor reachable is a rejected promise, not a response
  (`StaticRejected`, against `AI.md` 25389-25393), and an error answer for an asset is
  stored like any other (`StaticFetched`);
- a failed request for anything the prefixes do not name, a file below `/webdav/` or one
  of another origin, is answered with the HTML of `/` (`AI.md` 25394 wants only GETs of
  the same origin intercepted); `RightAnswer` allows it, as the code does;
- two puts for one asset may arrive in the wrong order and leave the entry of the earlier
  build behind, within one worker's time.

### 3.2 Fairness

`AuthService` has none: all that is said of it is safety. `RateLimiter` assumes that the
cleanup goroutine is woken again and again (its ticker). The two schedulers assume that
goroutines that can run do while the process lives, that handlers return, and, in
`SchedulerService`, strong fairness of `LoopExit`: a Go `select` with two ready channels
chooses at random, so a cancelled context is noticed at some time even if every select
also finds a tick. Callers are never obliged to call anything, and the clock is not
obliged to advance.

`ServiceWorker` assumes that the steps of a worker and answers that are due come, that
users go on visiting pages and pages load what they refer to, and that from some time on
the network no longer fails (`<>[][~NetworkFailure]_vars`); nobody has to deploy a build.
`Activate` and `Register` have strong fairness: what they wait for (no pending request,
no other install) comes and goes with the visits.

## 4. What is proved

`RateLimiterProofs`, for every limit, window, set of addresses and end of time:
`RateInvHolds`, `RateTypesHold`, `QuotaHolds`, `WindowsAreDisjoint`, `SpansAreBounded`.
Neither the quota nor the disjointness of windows is inductive: both need that the entry
in the map agrees with the history while it exists (`EntryMatchesHistory`), and that an
address without an entry had its last window more than two windows ago
(`ForgottenIsOver`), which is what the threshold of `cleanup` gives. That a span of the
length of a window sees at most twice the limit is no sum over time but a statement about
the last window (`SpanMeetsTwoWindows`): a span that began after it was opened has seen
no more than the window has served, and one that it was opened in has seen that and at
most a limit before, since only the predecessor reaches into it. `RateInv` is the
conjunction of all of this with the types.

`AuthServiceProofs`, for any number of accounts, requests, passwords and sessions, any
positive threshold and period: `AuthInvHolds`, from which `AuthTypeCorrect`,
`LocksFollowCounts`, `LocksExpire` and `SessionsAreProven` follow, the action property
`DeletedUsersStayDeleted` and `ActivityNeverGoesBack`, and `ImplementsSessionLifecycle`,
the refinement of `SessionLifecycle`. The invariant must speak of the copies in flight: a
row is *sound* (`SoundRow`) if its count and lock fit together, its lock is within reach
and its hash is one its account has had; `AuthInv` says that all rows in the store **and**
all copies of requests are sound. Soundness is stable while time passes and the history
grows (`SoundRowStable`), so writing a stale copy keeps the store sound although it loses
updates. That is exactly what holds of this code and what does not.

`AuthHistoryProofs`, about `SerialSpec`, for any number of accounts and requests:

| Theorem | Further hypothesis |
|---|---|
| `SerialInvHolds`, `FailedAttemptsDoLock`, `PasswordChangesStick`, `ActiveFlagsStick` | none |
| `RowsAreAtomic`: the rows implement `AccountStore` | none |
| `RightPasswordsAdmitted`: right passwords given with a name or address are, logins by id are not | none |
| `SessionsMatchPasswords` | no administrative reset: `UpdatePassword` revokes no session |

The hypothesis is a limit of the code, not of the proof. What carries all of it is
`UpToDate`, the part of `SerialInv` that is about requests in flight: the copy a request
has taken of a row still is the row, a login that has verified its password still presents
the right one and a rejected one the wrong one. It is inductive only together with
`OneAtATime`, and that is the one place where overlap would break the argument. To it come
the counter, which is never behind the guesses (`GuessesCounted`), and, for the
refinement, that what was checked before the row was read holds of the copy (`Admitted`,
which also says that only a login by name gets as far as a copy): a login then counts as a
guess at an unlocked row even if it writes later, as the clock only moves away from the
lock. For the sessions, `RequestsHeld` says that a validation writes back the session it
has read.

`TickSchedulerProofs`, for any number of tasks, Starts, loops and callers. What the
theorems below say holds as long as the scheduler has been started once (`StartedOnce`),
which is a premise of the properties and not of the theorems: they are about behaviours
that go on to be restarted, too. They rest on `PhaseInv`: the loop is between its last
tick and its next one, and its next one is a period after the last start. It is
invariant up to the second Start (`StartedOnce => PhaseInv`), and the number of loops
born never shrinks (`BornGrows`). From it, besides the types (`TickTypesHold`):

| Theorem | Condition |
|---|---|
| `HandlersDoNotOverlap`, `IntervalsAreKept` | `MaxRun + MaxDelay < Period` |
| `CronAtMostOnce` | `Window + MaxDelay <= Period` |
| `CronTasksAreNotMissed` | `Period + MaxDelay <= Window`, registration before Start |
| `IntervalTasksArePunctual` | registration before Start |

A cron task runs *exactly* once a minute only if both bounds meet, that is if the window
equals the period and ticks come on time. The code has ten seconds for both: it has no
room for a late tick. The theorems name the margin that `MaxDelay` and `MaxRun` use up.

`SchedulerServiceProofs`. `TypesHold` is for any number of controllers. The others are
about one controller of Start and Stop (but `RetriesBounded`), any tasks, any schedules
and, except where noted, any goroutines that run tasks by hand:

| Theorem | Says | Further hypothesis |
|---|---|---|
| `StopLeavesNothing` | no loop is left after Stop | none |
| `DisabledTasksStartOnce` | at most one start after DisableTask, or after AddTask has replaced the task | none |
| `RetriesBounded` | as long as no two executions of a task overlap, RetryCount never exceeds its limit and is never shifted by -1 | none; any number of controllers |
| `IntervalStartsSpaced` | starts are an interval or the delay of a retry apart | none |
| `CronStartsApart` | between two starts lies a minute of the schedule | no manual runs; a match in every horizon |

They rest on `OneLoop`: no loop but the latest is alive, since Stop waits and only Start
launches. The retry bound rests on `RetryInv`: an executor between the check and the
increment has in hand the count the task has, which is below the limit, and one between
the increment and the shift has at least 1. Each of its accesses is a step of its own and
could be overtaken; that nothing overtakes it is the premise `[]Alone` of `RetryBound`, a
condition on what callers of `RunTask` do and not a feature of the code. The spacing needs
that what a pass has collected is not planned anew until it has run, and that a NextRun
that is not in the hands of a pass lies far enough after the last start (`Planned`, in
`PlanInv`); a retry by hand may move it, but by `BackoffBounds` never to less than
`RetryDelay` after the failure. The hypotheses on cron tasks are both needed: a failure by
hand plans a retry that no loop overwrites, and a search without a match leaves the
NextRun of the last run in place. The second is met by schedules that match in every
525,600 minutes and by no 29th of February.

`Backoff` is a recursive function, so its value can be reasoned about: `BackoffUnfolds`
and `BackoffBounds` are inductions over the naturals, carried out as arguments about the
least counterexample (`LeastElement`), for the library's induction theorems take an
operator as a parameter. `MinOfNaturals` says the same of `Min`.

`ServiceWorkerProofs`, for any number of tabs, paths, builds, opens and puts.
`TypeCorrect` and `AnswersAreRight` need no hypothesis; they hold with and without
eviction. `OfflineCopyStays` and `NavigationsAnswered` assume that all scripts use one
cache name (`OneName`), as `sw.js` does, and that nothing but the worker deletes caches
(`~Evicts`): then no activation deletes the cache a worker waits with, an `addAll`
replaces an asset only by a good answer and no put touches an asset that is cached in
advance, because it is always found in the cache (`Kept`). The second hypothesis cannot
be dropped, as `ServiceWorker_evicted` shows.

`CachesAreFresh` assumes that a cache name given up is not used again (`NamesInOrder`):
one name for all builds, as in `sw.js`, meets it, and so does a name per build. It says
that no cache holds anything older than the first build that used the active worker's
name; with the one name of `sw.js` that is the first build of all and the theorem
says nothing about age, with a name per build it is the worker's own. A worker's opens
and puts may outlast it. The invariant (`Fresh`) says that the slots are in the order of
the names (`NotOlder`), that what has been fetched, is on its way or is stored is no older
than the name of its cache (`AtLeast`), that a worker's cache exists from its opening on
or is orphaned, and that a cache with an older name than the active worker's is empty and
has no put under way, or is condemned (`CacheOfName`).

All proofs assume only the `ASSUME`s of the modules besides what their theorems state:
sizes are naturals, thresholds and periods positive, sets of ids or paths disjoint.

*Only model-checked*: the liveness properties (`StaleEntriesGo`, `StopReturns`,
`StopEndsEverything`, `UpdateReachesPages`), since fairness and ENABLED are out of the
prover's reach, and what the four violations show. Every other property of a passing run
is a theorem. No module that is proved about declares a RECURSIVE operator.

## 5. Plan and limits

Not modelled yet, in the order of their weight:

1. `UserDirectory`: `CreateUser`, `CreateAdmin`, `RegisterUser`, `DeleteUser` with home
   directories, quotas and the in-memory store's name checks, composed with the rows of
   `AuthService`; one name belongs to one account, a home directory to its owner.
2. `SetupToken` and `CsrfTokens`: one-time tokens, with a common abstract specification of
   a token that is used at most once. The setup form carries no `csrf_token` field.
3. `BackupService`, `UpdateService`: file systems whose operations fail or stop one by
   one; a failed backup never costs an earlier one, a runnable binary always exists.
4. `TorService`, `Notifications`: overlapping start, stop and cancellation; readers of
   shared slices.
5. `CronSchedule`: the parser of cron fields against a reference definition, as the source
   of `CronMinutes`; `Totp`, the SQLite store as a second implementation below
   `AuthService`, certificate renewal.

Not modelled at all:

- of the browser: the HTTP cache below `fetch`, partial responses and `Vary`, quotas
  other than a put that is lost, the loss of a single cache (eviction drops all of them
  and keeps the registration), pages that are left while requests are under way, and
  unregistering the worker;
- of the schedulers: times torn by an unlocked read of a `time.Time`, the order of times
  within a minute beyond the `late` choices, and a name registered twice with the ticker
  scheduler;
- vendored bundles (Swagger UI, GraphiQL): third-party code, served as it is;
- the components `PROJECT.json` lists with their reasons: pure functions, rendering,
  calls of the operating system, libraries.
