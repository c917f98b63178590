---------------------------- MODULE TickScheduler ----------------------------
(***************************************************************************)
(* The scheduler main.go starts, src/scheduler/scheduler.go: a loop that   *)
(* wakes on a ticker, starts a goroutine for every task that is due and    *)
(* never waits for them.                                                   *)
(*                                                                         *)
(* The tasks map and the flag are guarded by one lock; Start and Stop let  *)
(* go of it between setting the flag and acting on it, so each is two      *)
(* actions.  Time is explicit: a tick, like the news that the stop channel *)
(* is closed, reaches the loop at most MaxDelay late, and a handler        *)
(* returns at most MaxRun after it was started.                            *)
(***************************************************************************)
EXTENDS Integers, FiniteSets, Functions

CONSTANTS
  Tasks,
  DisabledTasks,         \* those registered with RegisterDisabled
  Interval,              \* Task.interval; 0 for a task with a cron schedule
  CronMinutes,           \* the minutes that match a task's cron schedule
  Callers,               \* goroutines that call Start and Stop
  Minute,                \* 60 seconds
  Window,                \* "now.Second() < 10"
  Period,                \* the ticker's period, 10 seconds
  MaxDelay, MaxRun,
  RegisterWhileRunning,  \* may tasks be registered once Start was called?
  MaxStarts,             \* bound: calls of Start that start a loop
  MaxTime                \* bound: the clock stops here

ASSUME ScheduleAssumption ==
  /\ DisabledTasks \subseteq Tasks
  /\ Interval \in [Tasks -> Nat]
  /\ CronMinutes \in [Tasks -> SUBSET Nat]
  /\ RegisterWhileRunning \in BOOLEAN
ASSUME TimeAssumption ==
  /\ {Minute, Window, Period} \subseteq Nat \ {0}
  /\ {MaxDelay, MaxRun, MaxStarts, MaxTime} \subseteq Nat
  /\ Minute <= MaxTime + 1

VARIABLES
  now,
  task,       \* the registration of each task: "absent", "enabled", "disabled"
  lastRun,    \* Task.LastRun, which runTask sets when the handler returns
  running,    \* the running flag
  closedAt,   \* when the stop channel was closed
  crashed,    \* a second close panicked and took the process down
  loops,      \* the loop goroutines: when each began, its next nominal tick
  born,       \* how many loops have been started
  runs,       \* the runTask goroutines whose handler has not returned
  pc,         \* what each caller of Start or Stop still has to do
  lastStart   \* history: when each task was last started

registry == <<task, lastRun>>
life     == <<running, closedAt, crashed, born, pc>>
vars     == <<now, task, lastRun, running, closedAt, crashed, loops, born, runs, pc,
              lastStart>>

-----------------------------------------------------------------------------

Never   == -1    \* time.Time{}
Times   == 0 .. MaxTime
LoopIds == 1 .. MaxStarts
Loop    == [born : Times, due : Nat]
Run     == [task : Tasks, loop : LoopIds, at : Times]

TypeOK ==
  /\ now \in Times
  /\ task \in [Tasks -> {"absent", "enabled", "disabled"}]
  /\ lastRun \in [Tasks -> Times \cup {Never}]
  /\ running \in BOOLEAN
  /\ closedAt \in Times \cup {Never}
  /\ crashed \in BOOLEAN
  /\ born \in 0 .. MaxStarts
  /\ DOMAIN loops \subseteq 1 .. born
  /\ loops \in [DOMAIN loops -> Loop]
  /\ runs \subseteq Run
  /\ pc \in [Callers -> {"idle", "launch", "close"}]
  /\ lastStart \in [Tasks -> Times \cup {Never}]

\* New.
Init ==
  /\ now \in 0 .. Minute - 1
  /\ task = [t \in Tasks |-> "absent"]
  /\ lastRun = [t \in Tasks |-> Never]
  /\ running = FALSE
  /\ closedAt = Never
  /\ crashed = FALSE
  /\ loops = <<>>
  /\ born = 0
  /\ runs = {}
  /\ pc = [c \in Callers |-> "idle"]
  /\ lastStart = [t \in Tasks |-> Never]

Closed == closedAt # Never

MinuteStart == now - (now % Minute)

-----------------------------------------------------------------------------
(* Registration *)

\* A client that registers everything before Start, as main does, has also
\* finished every RegisterDisabled by then.
Registered ==
  RegisterWhileRunning \/
    \A t \in Tasks : task[t] = IF t \in DisabledTasks THEN "disabled" ELSE "enabled"

\* Mutant: a registered task counts as run one interval ago.
RegisterBackdated(t) ==
  /\ task[t] = "absent"
  /\ task' = [task EXCEPT ![t] = "enabled"]
  /\ lastRun' = [lastRun EXCEPT ![t] = now - Interval[t]]
  /\ UNCHANGED <<now, life, loops, runs, lastStart>>

\* Register, and the first half of RegisterDisabled.
Register(t) ==
  /\ task[t] = "absent"
  /\ task' = [task EXCEPT ![t] = "enabled"]
  /\ UNCHANGED <<now, lastRun, life, loops, runs, lastStart>>

\* The second half of RegisterDisabled.
Disable(t) ==
  /\ t \in DisabledTasks /\ task[t] = "enabled"
  /\ task' = [task EXCEPT ![t] = "disabled"]
  /\ UNCHANGED <<now, lastRun, life, loops, runs, lastStart>>

-----------------------------------------------------------------------------
(* Start and Stop *)

StartAlreadyRunning(c) ==
  /\ pc[c] = "idle" /\ running
  /\ UNCHANGED vars

StartFlag(c) ==
  /\ pc[c] = "idle" /\ ~running
  /\ Registered /\ born < MaxStarts
  /\ running' = TRUE
  /\ pc' = [pc EXCEPT ![c] = "launch"]
  /\ UNCHANGED <<now, registry, closedAt, crashed, loops, born, runs, lastStart>>

\* "go s.run()": the new loop gets a ticker of its own.
StartLaunch(c) ==
  /\ pc[c] = "launch"
  /\ born < MaxStarts
  /\ loops' = [l \in DOMAIN loops \cup {born + 1} |->
       IF l = born + 1 THEN [born |-> now, due |-> now + Period] ELSE loops[l]]
  /\ born' = born + 1
  /\ pc' = [pc EXCEPT ![c] = "idle"]
  /\ UNCHANGED <<now, registry, running, closedAt, crashed, runs, lastStart>>

StopNotRunning(c) ==
  /\ pc[c] = "idle" /\ ~running
  /\ UNCHANGED vars

StopFlag(c) ==
  /\ pc[c] = "idle" /\ running
  /\ running' = FALSE
  /\ pc' = [pc EXCEPT ![c] = "close"]
  /\ UNCHANGED <<now, registry, closedAt, crashed, loops, born, runs, lastStart>>

\* Mutant: Stop only clears the flag.
StopForgetsClose(c) ==
  /\ pc[c] = "close"
  /\ pc' = [pc EXCEPT ![c] = "idle"]
  /\ UNCHANGED <<now, registry, running, closedAt, crashed, loops, born, runs, lastStart>>

\* "close(s.stop)": the channel is made once, by New, so the second close of the
\* scheduler's life panics.
StopClose(c) ==
  /\ pc[c] = "close"
  /\ IF Closed
     THEN crashed' = TRUE /\ UNCHANGED closedAt
     ELSE closedAt' = now /\ UNCHANGED crashed
  /\ pc' = [pc EXCEPT ![c] = "idle"]
  /\ UNCHANGED <<now, registry, running, loops, born, runs, lastStart>>

-----------------------------------------------------------------------------
(* The loop and the task goroutines *)

\* Mutants: the interval is compared one unit too early; strictly.
IntervalElapsedEarly(t) == lastRun[t] = Never \/ now - lastRun[t] >= Interval[t] - 1
IntervalElapsedLate(t)  == lastRun[t] = Never \/ now - lastRun[t] > Interval[t]

\* "run when interval has elapsed since last run"; a task that has never run is
\* due at once.
IntervalElapsed(t) == lastRun[t] = Never \/ now - lastRun[t] >= Interval[t]

\* Mutants: the window a tick longer; a tick shorter.
InWindowTooLong  == now % Minute < Window + Period
InWindowTooShort == now % Minute < Window - 1

\* "check once per minute on :00 second boundary".
InWindow == now % Minute < Window

\* shouldRunTask: the current minute matches the cron schedule.
ShouldRun(t) == now \div Minute \in CronMinutes[t]

Due(t) ==
  IF Interval[t] > 0 THEN IntervalElapsed(t) ELSE InWindow /\ ShouldRun(t)

\* Mutant: a ticker of one second.
LoopTickTooOften(l) ==
  LET due == {t \in Tasks : task[t] = "enabled" /\ Due(t)} IN
  /\ l \in DOMAIN loops /\ loops[l].due <= now
  /\ runs' = runs \cup {[task |-> t, loop |-> l, at |-> now] : t \in due}
  /\ lastStart' = [t \in Tasks |-> IF t \in due THEN now ELSE lastStart[t]]
  /\ loops' = [loops EXCEPT ![l].due = @ + 1]
  /\ UNCHANGED <<now, registry, life>>

\* tick reads the tasks under the read lock and starts those that are due.  The
\* select may prefer a tick to the closed stop channel.
LoopTick(l) ==
  LET due == {t \in Tasks : task[t] = "enabled" /\ Due(t)} IN
  /\ l \in DOMAIN loops /\ loops[l].due <= now
  /\ runs' = runs \cup {[task |-> t, loop |-> l, at |-> now] : t \in due}
  /\ lastStart' = [t \in Tasks |-> IF t \in due THEN now ELSE lastStart[t]]
  /\ loops' = [loops EXCEPT ![l].due = @ + Period]
  /\ UNCHANGED <<now, registry, life>>

LoopExit(l) ==
  /\ l \in DOMAIN loops /\ Closed
  /\ loops' = Restrict(loops, DOMAIN loops \ {l})
  /\ UNCHANGED <<now, registry, life, runs, lastStart>>

\* The handler returns, with an error or without, and runTask records the time.
\* (NextRun, set here too, is never read by the scheduler.)
RunEnd(run) ==
  /\ run \in runs
  /\ lastRun' = [lastRun EXCEPT ![run.task] = now]
  /\ runs' = runs \ {run}
  /\ UNCHANGED <<now, task, life, loops, lastStart>>

\* Nothing is later than the bounds allow.
Prompt(l) ==
  /\ now < loops[l].due + MaxDelay
  /\ Closed => now < loops[l].born + MaxDelay \/ now < closedAt + MaxDelay

Tick ==
  /\ now < MaxTime
  /\ \A l \in DOMAIN loops : Prompt(l)
  /\ \A run \in runs : now < run.at + MaxRun
  /\ now' = now + 1
  /\ UNCHANGED <<registry, life, loops, runs, lastStart>>

-----------------------------------------------------------------------------

StartStop(c) ==
  \/ StartAlreadyRunning(c) \/ StartFlag(c) \/ StartLaunch(c)
  \/ StopNotRunning(c) \/ StopFlag(c) \/ StopClose(c)

\* A panic ends the process.
Next ==
  /\ ~crashed
  /\ \/ \E t \in Tasks : Register(t) \/ Disable(t)
     \/ \E c \in Callers : StartStop(c)
     \/ \E l \in LoopIds : LoopTick(l) \/ LoopExit(l)
     \/ \E run \in runs : RunEnd(run)
     \/ Tick

Spec == Init /\ [][Next]_vars

\* A goroutine that can go on does: a loop leaves once its select has seen the
\* closed channel, every handler returns, and a call of Start or Stop finishes.
FairSpec ==
  /\ Spec
  /\ \A l \in LoopIds : WF_vars(~crashed /\ LoopExit(l))
  /\ WF_vars(~crashed /\ \E run \in runs : RunEnd(run))
  /\ \A c \in Callers : WF_vars(~crashed /\ (StartLaunch(c) \/ StopClose(c)))

-----------------------------------------------------------------------------
(* Properties *)

\* No Start has followed a Stop, as in main.
StartedOnce == born <= 1

\* Two starts of an interval task are at least its interval apart, although the
\* loop does not know which handlers are still running ("run when interval has
\* elapsed since last run"): it takes handlers that end before the next tick.
StartsSpaced ==
  [][\A run \in runs' \ runs :
       (StartedOnce /\ Interval[run.task] > 0 /\ lastStart[run.task] # Never)
         => run.at - lastStart[run.task] >= Interval[run.task]]_vars

\* A handler never runs twice at the same time.
NoOverlap ==
  StartedOnce => \A run, other \in runs : run.task = other.task => run = other

\* A cron task is started at most once in a minute ("check once per minute"): it
\* takes ticks that are handled on time.
OncePerMinute ==
  [][\A run \in runs' \ runs :
       (StartedOnce /\ Interval[run.task] = 0 /\ lastStart[run.task] # Never)
         => run.at \div Minute # lastStart[run.task] \div Minute]_vars

\* A cron task is not skipped: in a minute that matches its schedule it has been
\* started by the time the window is over, wherever in the minute the ticks fall.
CronNotMissed ==
  \A t \in Tasks, l \in DOMAIN loops :
    (/\ StartedOnce /\ Interval[t] = 0 /\ task[t] = "enabled"
     /\ ShouldRun(t) /\ now % Minute >= Window
     /\ loops[l].born < MinuteStart /\ ~Closed)
      => lastStart[t] >= MinuteStart

\* While the scheduler runs, an idle interval task is started again no later
\* than one tick after its interval is over, and at once if it has never run.
Punctual ==
  \A t \in Tasks, l \in DOMAIN loops :
    (/\ StartedOnce /\ Interval[t] > 0 /\ task[t] = "enabled" /\ ~Closed
     /\ \A run \in runs : run.task # t)
      => IF lastRun[t] = Never THEN now - loops[l].born <= Period + MaxDelay
         ELSE now - lastRun[t] < Interval[t] + Period + MaxDelay

\* "Start starts the scheduler": once a Start has returned and nobody has called
\* Stop since, there is a loop that will tick.
StartedMeansTicking ==
  (running /\ \A c \in Callers : pc[c] = "idle") => (DOMAIN loops # {} /\ ~Closed)

\* Stop ends the scheduler: its loops leave and the handlers still running
\* return.
StopEndsEverything ==
  (~running /\ \A c \in Callers : pc[c] = "idle")
    ~> (running \/ crashed \/ (loops = <<>> /\ runs = {}))
=============================================================================
