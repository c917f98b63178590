--------------------------- MODULE SchedulerService ---------------------------
(***************************************************************************)
(* The scheduler behind the admin panel, src/server/service/scheduler.go:  *)
(* one loop goroutine that wakes on a ticker, collects the due tasks and   *)
(* runs them one after the other, with retries; administrators enable,     *)
(* disable and run tasks meanwhile.                                        *)
(*                                                                         *)
(* The lock is held for one map access or one NextRun computation at a     *)
(* time and never while a handler runs.  executeTask takes no lock at all: *)
(* each of its reads and writes of RetryCount is on its own, and a read    *)
(* that the source repeats may be done again or may use the value in hand. *)
(* The unit of time is the ticker's period, a minute; an interval shorter  *)
(* than that counts as one.  Of two times within a minute either may be    *)
(* the earlier.  Handlers take as long as they like; a tick that finds one *)
(* waiting is dropped.                                                     *)
(***************************************************************************)
EXTENDS Integers, FiniteSets, FiniteSetsExt

CONSTANTS
  Tasks,             \* the Task objects: AddTask makes a new one under a name
  Name,
  BuiltIn,           \* those NewSchedulerService registers; AddTask adds the rest
  Interval,          \* of an "@every" schedule; 0 for a cron schedule
  CronMinutes,       \* the minutes that match a task's cron schedule
  Controllers,       \* goroutines that call Start and Stop
  Manual,            \* goroutines that call RunTask
  MaxRetries,        \* 3
  RetryDelay,        \* 5 minutes
  Horizon,           \* how far a cron schedule looks ahead: 525,600 minutes
  AddWhileRunning,   \* may tasks be added once Start was called?
  MaxStarts,         \* bound: calls of Start that start a loop
  MaxTime            \* bound: the clock stops here

ASSUME TasksAssumption ==
  /\ BuiltIn \subseteq Tasks
  /\ \A t, u \in BuiltIn : Name[t] = Name[u] => t = u
  /\ Interval \in [Tasks -> Nat]
  /\ CronMinutes \in [Tasks -> SUBSET Nat]
ASSUME LimitsAssumption ==
  /\ {RetryDelay, Horizon} \subseteq Nat \ {0}
  /\ {MaxRetries, MaxStarts, MaxTime} \subseteq Nat
  /\ AddWhileRunning \in BOOLEAN

Loops     == 1 .. MaxStarts
Executors == Loops \cup Manual

ASSUME ExecutorsAssumption == Loops \cap Manual = {}

VARIABLES
  now,
  \* the objects in the map, those that AddTask has put others in the place of
  present, replaced,
  \* the fields of each Task the scheduler decides on
  enabled, handler, lastRun, nextRun, retryCount,
  \* the service; did a panic in the loop end the program?
  running, ctx, cancelled, panicked,
  \* the loop goroutines: how many were born, the context each watches, the
  \* ticker channel, the tasks still to run in this pass
  born, watch, ticked, batch,
  \* executeTask in each of its callers: retry is the RetryCount in hand
  at, cur, retry,
  \* the callers of Start and Stop
  pc,
  \* history: a loop's latest start of each task, its starts since DisableTask
  lastStart, whileDisabled

registry == <<present, replaced, enabled, handler>>
plan     == <<lastRun, nextRun, retryCount>>
service  == <<running, ctx, cancelled, born, pc, panicked>>
loop     == <<watch, ticked, batch>>
exec     == <<at, cur, retry>>
history  == <<lastStart, whileDisabled>>
vars     == <<now, present, replaced, enabled, handler, lastRun, nextRun, retryCount,
              running, ctx, cancelled, born, watch, ticked, batch, at, cur, retry, pc,
              panicked, lastStart, whileDisabled>>

-----------------------------------------------------------------------------

Never   == -1     \* time.Time{}
NoRetry == -1
Nobody  == "none"
Times   == 0 .. MaxTime
Gone    == {"unborn", "gone"}

TypeOK ==
  /\ now \in Times
  /\ present \in SUBSET Tasks /\ replaced \in SUBSET (Tasks \ present)
  /\ \A t, u \in present : Name[t] = Name[u] => t = u
  /\ enabled \subseteq present \cup replaced /\ handler \subseteq present \cup replaced
  /\ lastRun \in [Tasks -> Times \cup {Never}]
  /\ nextRun \in [Tasks -> Nat \cup {Never}]
  /\ retryCount \in [Tasks -> Nat]
  /\ running \in BOOLEAN /\ ctx \in 0 .. MaxStarts /\ cancelled \subseteq 1 .. ctx
  /\ born \in 0 .. MaxStarts
  /\ watch \in [Loops -> 0 .. MaxStarts]
  /\ ticked \in [Loops -> Times \cup {Never}]
  /\ batch \in [Loops -> SUBSET Tasks]
  /\ at \in [Executors ->
       Gone \cup {"select", "batch", "idle", "handler", "retry", "backoff", "reschedule"}]
  /\ cur \in [Executors -> Tasks \cup {Nobody}]
  /\ retry \in [Executors -> Nat \cup {NoRetry}]
  /\ pc \in [Controllers -> {"idle", "plan", "launch", "wait"}]
  /\ panicked \in BOOLEAN
  /\ lastStart \in [Tasks -> Times \cup {Never}]
  /\ whileDisabled \in [Tasks -> 0 .. 2]

\* NewSchedulerService: the built-in tasks, still without handlers; some are
\* disabled by default.
Init ==
  /\ now = 0
  /\ present = BuiltIn /\ replaced = {}
  /\ enabled \in SUBSET BuiltIn /\ handler = {}
  /\ lastRun = [t \in Tasks |-> Never]
  /\ nextRun = [t \in Tasks |-> Never]
  /\ retryCount = [t \in Tasks |-> 0]
  /\ running = FALSE /\ ctx = 0 /\ cancelled = {} /\ born = 0
  /\ watch = [l \in Loops |-> 0]
  /\ ticked = [l \in Loops |-> Never]
  /\ batch = [l \in Loops |-> {}]
  /\ at = [e \in Executors |-> IF e \in Loops THEN "unborn" ELSE "idle"]
  /\ cur = [e \in Executors |-> Nobody]
  /\ retry = [e \in Executors |-> NoRetry]
  /\ pc = [c \in Controllers |-> "idle"]
  /\ panicked = FALSE
  /\ lastStart = [t \in Tasks |-> Never]
  /\ whileDisabled = [t \in Tasks |-> 0]

Alive == {l \in Loops : at[l] \notin Gone}     \* what s.wg counts

Listed == present \cap enabled

-----------------------------------------------------------------------------
(* NextRun *)

\* The first time last + k * interval, k > 0, that is not before from.
CatchUp(last, interval, from) ==
  LET late == from - (last + interval) IN
  IF late <= 0 THEN last + interval
  ELSE last + interval + interval * ((late + interval - 1) \div interval)

CronMatches(t, first, last) == {m \in CronMinutes[t] : first <= m /\ m <= last}

\* Mutant: a cron schedule may match the current minute again.
NextRunOfAgain(t, from, late) ==
  IF Interval[t] > 0 THEN
    IF lastRun[t] = Never THEN from + Interval[t]
    ELSE CatchUp(lastRun[t], Interval[t], IF late THEN from + 1 ELSE from)
  ELSE LET later == CronMatches(t, from, from + Horizon) IN
    IF later = {} THEN nextRun[t] ELSE Min(later)

\* calculateNextRun: an interval counts from the last run, up to the present
\* moment, which may be late in its minute or not; a cron schedule starts from the
\* next minute, and NextRun is left as it is if nothing matches within the horizon.
NextRunOf(t, from, late) ==
  IF Interval[t] > 0 THEN
    IF lastRun[t] = Never THEN from + Interval[t]
    ELSE CatchUp(lastRun[t], Interval[t], IF late THEN from + 1 ELSE from)
  ELSE LET later == CronMatches(t, from + 1, from + Horizon) IN
    IF later = {} THEN nextRun[t] ELSE Min(later)

-----------------------------------------------------------------------------
(* RegisterHandler, AddTask, EnableTask, DisableTask *)

\* Mutant: a handler for a name nobody added.
RegisterHandlerUnknown(t) ==
  /\ t \in Tasks \ handler
  /\ handler' = handler \cup {t}
  /\ UNCHANGED <<now, present, replaced, enabled, plan, service, loop, exec, history>>

RegisterHandler(t) ==
  /\ t \in present \ handler
  /\ handler' = handler \cup {t}
  /\ UNCHANGED <<now, present, replaced, enabled, plan, service, loop, exec, history>>

\* AddTask: a new object, with neither a NextRun nor retries, takes the place of
\* the one that has its name.  The loop may hold that one still.
AddTask(t) ==
  LET old == {u \in present : Name[u] = Name[t]} IN
  /\ t \notin present \cup replaced
  /\ AddWhileRunning \/ (~running /\ Alive = {})
  /\ present' = (present \ old) \cup {t}
  /\ replaced' = replaced \cup old
  /\ enabled' = enabled \cup {t}
  /\ handler' = handler \cup {t}
  /\ whileDisabled' = [whileDisabled EXCEPT ![t] = 0]
  /\ UNCHANGED <<now, plan, service, loop, exec, lastStart>>

EnableTask(t) ==
  /\ t \in present \ enabled
  /\ enabled' = enabled \cup {t}
  /\ whileDisabled' = [whileDisabled EXCEPT ![t] = 0]
  /\ UNCHANGED <<now, present, replaced, handler, plan, service, loop, exec, lastStart>>

DisableTask(t) ==
  /\ t \in present \cap enabled
  /\ enabled' = enabled \ {t}
  /\ whileDisabled' = [whileDisabled EXCEPT ![t] = 0]
  /\ UNCHANGED <<now, present, replaced, handler, plan, service, loop, exec, lastStart>>

-----------------------------------------------------------------------------
(* Start and Stop *)

StartAlreadyRunning(c) == pc[c] = "idle" /\ running /\ UNCHANGED vars

StartContext(c) ==
  /\ pc[c] = "idle" /\ ~running /\ ctx < MaxStarts
  /\ running' = TRUE
  /\ ctx' = ctx + 1
  /\ pc' = [pc EXCEPT ![c] = "plan"]
  /\ UNCHANGED <<now, registry, plan, cancelled, born, panicked, loop, exec, history>>

\* updateNextRunTimes.
StartPlan(c) ==
  /\ pc[c] = "plan"
  /\ \E late \in SUBSET present :
       nextRun' = [t \in Tasks |->
         IF t \in present THEN NextRunOf(t, now, t \in late) ELSE nextRun[t]]
  /\ pc' = [pc EXCEPT ![c] = "launch"]
  /\ UNCHANGED <<now, registry, lastRun, retryCount, running, ctx, cancelled, born,
                 panicked, loop, exec, history>>

\* "s.wg.Add(1); go s.run()": the loop goes straight to its select.
StartLaunch(c) ==
  /\ pc[c] = "launch" /\ born < MaxStarts
  /\ born' = born + 1
  /\ at' = [at EXCEPT ![born + 1] = "batch"]
  /\ pc' = [pc EXCEPT ![c] = "idle"]
  /\ UNCHANGED <<now, registry, plan, running, ctx, cancelled, panicked, loop, cur,
                 retry, history>>

StopNotRunning(c) == pc[c] = "idle" /\ ~running /\ UNCHANGED vars

\* Mutants: Stop does not wait for the loop; it does not cancel its context.
StopCancelOnly(c) ==
  /\ pc[c] = "idle" /\ running
  /\ running' = FALSE
  /\ cancelled' = cancelled \cup {ctx}
  /\ UNCHANGED pc
  /\ UNCHANGED <<now, registry, plan, ctx, born, panicked, loop, exec, history>>
StopWithoutCancel(c) ==
  /\ pc[c] = "idle" /\ running
  /\ running' = FALSE
  /\ pc' = [pc EXCEPT ![c] = "wait"]
  /\ UNCHANGED <<now, registry, plan, ctx, cancelled, born, panicked, loop, exec, history>>

StopCancel(c) ==
  /\ pc[c] = "idle" /\ running
  /\ running' = FALSE
  /\ cancelled' = cancelled \cup {ctx}
  /\ pc' = [pc EXCEPT ![c] = "wait"]
  /\ UNCHANGED <<now, registry, plan, ctx, born, panicked, loop, exec, history>>

\* "s.wg.Wait()".
StopWait(c) ==
  /\ pc[c] = "wait" /\ Alive = {}
  /\ pc' = [pc EXCEPT ![c] = "idle"]
  /\ UNCHANGED <<now, registry, plan, running, ctx, cancelled, born, panicked, loop, exec,
                 history>>

-----------------------------------------------------------------------------
(* executeTask, in a loop or in RunTask *)

\* executeTask returns: a loop goes on to updateTaskNextRun, RunTask is done.
Return(e) ==
  /\ IF e \in Loops
     THEN at' = [at EXCEPT ![e] = "reschedule"] /\ UNCHANGED cur
     ELSE at' = [at EXCEPT ![e] = "idle"] /\ cur' = [cur EXCEPT ![e] = Nobody]
  /\ retry' = [retry EXCEPT ![e] = NoRetry]

RetriesOf(t) == IF t \in BuiltIn THEN MaxRetries ELSE 0

HandlerReturnsNil(e) ==
  /\ at[e] = "handler"
  /\ retryCount' = [retryCount EXCEPT ![cur[e]] = 0]
  /\ Return(e)
  /\ UNCHANGED <<now, registry, lastRun, nextRun, service, loop, history>>

\* The check of RetryCount passes.
GoesToRetry(e) ==
  /\ retry' = [retry EXCEPT ![e] = retryCount[cur[e]]]
  /\ at' = [at EXCEPT ![e] = "retry"]
  /\ UNCHANGED cur

\* Mutant: one retry too many.
HandlerFailsOneMore(e) ==
  /\ at[e] = "handler"
  /\ IF retryCount[cur[e]] <= RetriesOf(cur[e]) THEN GoesToRetry(e) ELSE Return(e)
  /\ UNCHANGED <<now, registry, plan, service, loop, history>>

\* "if task.RetryCount < task.MaxRetries": out of retries, the count stays as it
\* is.
HandlerFails(e) ==
  /\ at[e] = "handler"
  /\ IF retryCount[cur[e]] < RetriesOf(cur[e]) THEN GoesToRetry(e) ELSE Return(e)
  /\ UNCHANGED <<now, registry, plan, service, loop, history>>

\* "task.RetryCount" is read again, for the increment or for the shift.
Reload(e) ==
  /\ at[e] \in {"retry", "backoff"}
  /\ retry' = [retry EXCEPT ![e] = retryCount[cur[e]]]
  /\ UNCHANGED <<now, registry, plan, service, loop, at, cur, history>>

\* "task.RetryCount++" stores the value in hand plus one, whatever others have
\* stored since it was read.
CountRetry(e) ==
  /\ at[e] = "retry"
  /\ retryCount' = [retryCount EXCEPT ![cur[e]] = retry[e] + 1]
  /\ retry' = [retry EXCEPT ![e] = retry[e] + 1]
  /\ at' = [at EXCEPT ![e] = "backoff"]
  /\ UNCHANGED <<now, registry, lastRun, nextRun, service, loop, cur, history>>

\* "Exponential backoff: 5m, 10m, 20m, etc.": RetryDelay * 1<<(k - 1).
Backoff[k \in Nat \ {0}] == IF k = 1 THEN RetryDelay ELSE 2 * Backoff[k - 1]

PlanRetry(e) ==
  /\ at[e] = "backoff" /\ retry[e] > 0
  /\ nextRun' = [nextRun EXCEPT ![cur[e]] = now + Backoff[retry[e]]]
  /\ Return(e)
  /\ UNCHANGED <<now, registry, lastRun, retryCount, service, loop, history>>

\* A shift by -1 panics.  In the loop that ends the program; the server recovers
\* the request that RunTask was called in.
ShiftPanics(e) ==
  /\ at[e] = "backoff" /\ retry[e] = 0
  /\ IF e \in Loops THEN panicked' = TRUE /\ UNCHANGED exec
     ELSE Return(e) /\ UNCHANGED panicked
  /\ UNCHANGED <<now, registry, plan, running, ctx, cancelled, born, pc, loop, history>>

\* RunTask: looks at the handler only; the object it found in the map may have been
\* replaced since.
RunTask(m, t) ==
  /\ at[m] = "idle" /\ t \in handler
  /\ lastRun' = [lastRun EXCEPT ![t] = now]
  /\ cur' = [cur EXCEPT ![m] = t]
  /\ at' = [at EXCEPT ![m] = "handler"]
  /\ UNCHANGED <<now, registry, nextRun, retryCount, service, loop, retry, history>>

-----------------------------------------------------------------------------
(* The loop *)

\* The pass is over: evaluate s.ctx.Done() and wait.
LoopSelect(l) ==
  /\ at[l] = "batch" /\ batch[l] = {}
  /\ watch' = [watch EXCEPT ![l] = ctx]
  /\ at' = [at EXCEPT ![l] = "select"]
  /\ UNCHANGED <<now, registry, plan, service, ticked, batch, cur, retry, history>>

LoopExit(l) ==
  /\ at[l] = "select" /\ watch[l] \in cancelled
  /\ at' = [at EXCEPT ![l] = "gone"]
  /\ UNCHANGED <<now, registry, plan, service, loop, cur, retry, history>>

\* Mutants: the pass does not look at the Enabled flag; it takes every task that
\* was planned.
DueDisabledToo(tick) ==
  {t \in present \cap handler : nextRun[t] # Never /\ nextRun[t] <= tick}
DuePlanned(tick) ==
  {t \in Listed \cap handler : nextRun[t] # Never}

\* The tasks that a pass at the time of its tick collects.
DueTasks(tick) ==
  {t \in Listed \cap handler : nextRun[t] # Never /\ nextRun[t] <= tick}

\* A time within the minute of the tick may lie behind it.
LoopCollect(l) ==
  /\ at[l] = "select" /\ ticked[l] # Never
  /\ \E late \in SUBSET {t \in Tasks : nextRun[t] = ticked[l]} :
       batch' = [batch EXCEPT ![l] = DueTasks(ticked[l]) \ late]
  /\ ticked' = [ticked EXCEPT ![l] = Never]
  /\ at' = [at EXCEPT ![l] = "batch"]
  /\ UNCHANGED <<now, registry, plan, service, watch, cur, retry, history>>

\* The next task of the pass, in no particular order; neither its flag nor its
\* NextRun is looked at again.
LoopExecute(l, t) ==
  /\ at[l] = "batch" /\ t \in batch[l]
  /\ batch' = [batch EXCEPT ![l] = @ \ {t}]
  /\ lastRun' = [lastRun EXCEPT ![t] = now]
  /\ cur' = [cur EXCEPT ![l] = t]
  /\ at' = [at EXCEPT ![l] = "handler"]
  /\ lastStart' = [lastStart EXCEPT ![t] = now]
  /\ whileDisabled' =
       [whileDisabled EXCEPT ![t] = IF t \in Listed THEN 0 ELSE Min({@ + 1, 2})]
  /\ UNCHANGED <<now, registry, nextRun, retryCount, service, watch, ticked, retry>>

\* updateTaskNextRun, also after a failure that has just set a NextRun.
LoopReschedule(l) ==
  /\ at[l] = "reschedule"
  /\ \E late \in BOOLEAN :
       nextRun' = [nextRun EXCEPT ![cur[l]] = NextRunOf(cur[l], now, late)]
  /\ at' = [at EXCEPT ![l] = "batch"]
  /\ cur' = [cur EXCEPT ![l] = Nobody]
  /\ UNCHANGED <<now, registry, lastRun, retryCount, service, loop, retry, history>>

\* A minute passes; a ticker whose channel is full drops its tick.
Tick ==
  /\ now < MaxTime
  /\ now' = now + 1
  /\ ticked' = [l \in Loops |->
       IF l \in Alive /\ ticked[l] = Never THEN now + 1 ELSE ticked[l]]
  /\ UNCHANGED <<registry, plan, service, watch, batch, exec, history>>

-----------------------------------------------------------------------------

Control(c) ==
  \/ StartAlreadyRunning(c) \/ StartContext(c) \/ StartPlan(c) \/ StartLaunch(c)
  \/ StopNotRunning(c) \/ StopCancel(c) \/ StopWait(c)

Execute(e) ==
  \/ HandlerReturnsNil(e) \/ HandlerFails(e)
  \/ CountRetry(e) \/ PlanRetry(e) \/ ShiftPanics(e)

RunLoop(l) ==
  \/ LoopSelect(l) \/ LoopExit(l) \/ LoopCollect(l) \/ LoopReschedule(l)
  \/ \E t \in Tasks : LoopExecute(l, t)

Next ==
  /\ ~panicked
  /\ \/ \E t \in Tasks : RegisterHandler(t) \/ AddTask(t) \/ EnableTask(t) \/ DisableTask(t)
     \/ \E c \in Controllers : Control(c)
     \/ \E e \in Executors : Execute(e) \/ Reload(e)
     \/ \E l \in Loops : RunLoop(l)
     \/ \E m \in Manual, t \in Tasks : RunTask(m, t)
     \/ Tick

Spec == Init /\ [][Next]_vars

\* While the program lives, goroutines that can go on do, every handler returns,
\* and a select that finds both its channels ready again and again takes each of
\* them at some time.
FairSpec ==
  /\ Spec
  /\ \A e \in Executors : WF_vars(~panicked /\ Execute(e))
  /\ \A l \in Loops :
       WF_vars(~panicked /\ RunLoop(l)) /\ SF_vars(~panicked /\ LoopExit(l))
  /\ \A c \in Controllers :
       WF_vars(~panicked /\ (StartPlan(c) \/ StartLaunch(c) \/ StopWait(c)))

-----------------------------------------------------------------------------
(* Properties *)

Settled == \A c \in Controllers : pc[c] = "idle"

\* Once Stop has returned, and until the next Start, no loop is left that could
\* start a task or is still inside one.
StopMeansQuiet == (~running /\ Settled) => Alive = {}

\* A call of Stop returns, whatever task the loop is in, if the program lives.
StopReturns ==
  \A c \in Controllers : pc[c] = "wait" ~> (pc[c] = "idle" \/ panicked)

\* Two starts of an interval task by the loop are at least the interval, or the
\* delay of a retry scheduled in between, apart: neither a handler that outlasts
\* several ticks nor a tick that waited in the channel makes it run again early.
StartsSpaced ==
  [][\A t \in Tasks :
       (Interval[t] > 0 /\ lastStart'[t] # lastStart[t] /\ lastStart[t] # Never)
         => lastStart'[t] - lastStart[t] >= Min({Interval[t], RetryDelay})]_vars

\* As long as nobody runs it by hand, a cron task is started once for each
\* matching minute: a minute of its schedule lies between any two starts.
CronStartsSpaced ==
  [][\A t \in Tasks :
       (Interval[t] = 0 /\ lastStart'[t] # lastStart[t] /\ lastStart[t] # Never)
         => \E m \in CronMinutes[t] : lastStart[t] < m /\ m <= lastStart'[t]]_vars

\* Neither DisableTask nor an AddTask that replaces the task can reach a pass that
\* has collected it already, but no later one starts it.
DisabledStartsOnce == \A t \in Tasks \ Listed : whileDisabled[t] <= 1

\* Nobody runs a task by hand while the loop or somebody else is in it.
Alone ==
  \A e, f \in Executors :
    {at[e], at[f]} \subseteq {"handler", "retry", "backoff"} /\ cur[e] = cur[f] => e = f

RetriesInBounds ==
  /\ ~panicked
  /\ \A t \in Tasks : retryCount[t] <= RetriesOf(t)

\* A failing task is retried at most MaxRetries times, each time with a delay
\* ("Exponential backoff: 5m, 10m, 20m, etc."), as long as no two executions of it
\* overlap: then the count that the unlocked increment stores is the one the check
\* has seen, and is never shifted by -1. With a run by hand beside the loop the
\* code keeps neither promise: the second look at RetryCount may find it reset.
RetryBound == []Alone => []RetriesInBounds

=============================================================================
