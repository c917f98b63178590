------------------------ MODULE SchedulerServiceProofs ------------------------
(***************************************************************************)
(* For every set of tasks, every schedule and any number of goroutines     *)
(* that run tasks by hand, with one controller of Start and Stop, as the   *)
(* admin panel is: Stop leaves nothing running, a task is started at most  *)
(* once after it was disabled or replaced, and interval tasks keep their   *)
(* distance.  Cron tasks keep theirs if nobody runs tasks by hand.  All of *)
(* this rests on one fact: at most one loop, the latest, is alive          *)
(* (OneLoop).                                                              *)
(*                                                                         *)
(* For any number of controllers: the types hold, and retries are bounded  *)
(* and never panic if no two executions of a task overlap.                 *)
(***************************************************************************)
EXTENDS SchedulerService, FiniteSetTheorems, TLAPS

-----------------------------------------------------------------------------
(* The delay of a retry *)

\* Every set of naturals has a least element: of the intervals that end in it,
\* one is the smallest.  This is what induction over the naturals rests on here.
LEMMA LeastElement ==
  ASSUME NEW T, T \subseteq Nat, T # {}
  PROVE  \E m \in T : \A k \in T : m <= k
<1> DEFINE U == {0 .. n : n \in T}
<1>1. IsWellFoundedOn(StrictSubsetOrdering(Nat), FiniteSubsetsOf(Nat))
  BY FS_StrictSubsetOrderingWellFounded
<1>2. U \subseteq FiniteSubsetsOf(Nat)
  <2> SUFFICES ASSUME NEW n \in T PROVE 0 .. n \in FiniteSubsetsOf(Nat)
    OBVIOUS
  <2>1. IsFiniteSet(0 .. n)
    BY FS_Interval
  <2>2. 0 .. n \subseteq Nat
    OBVIOUS
  <2> QED
    BY <2>1, <2>2 DEF FiniteSubsetsOf
<1>3. U # {}
  OBVIOUS
<1> HIDE DEF U
<1>4. PICK x \in U : \A y \in U : ~ (<<y, x>> \in StrictSubsetOrdering(Nat))
  BY <1>1, <1>2, <1>3, WFMin
<1>5. PICK m \in T : x = 0 .. m
  BY DEF U
<1>6. ASSUME NEW k \in T, k < m PROVE FALSE
  <2>1. 0 .. k \in U
    BY DEF U
  <2>2. 0 .. k \subseteq 0 .. m /\ m \in 0 .. m /\ m \notin 0 .. k
    BY <1>6
  <2>3. <<0 .. k, 0 .. m>> \in StrictSubsetOrdering(Nat)
    BY <2>2 DEF StrictSubsetOrdering
  <2> QED
    BY <2>1, <2>3, <1>4, <1>5
<1> QED
  BY <1>6

\* g lists the delays of the first n retries.
Delays(g, n) ==
  /\ g \in [1 .. n -> {d \in Nat : d >= RetryDelay}]
  /\ \A i \in 1 .. n : g[i] = IF i = 1 THEN RetryDelay ELSE 2 * g[i - 1]

LEMMA DelaysExist ==
  ASSUME NEW n \in Nat \ {0}
  PROVE  \E g : Delays(g, n)
<1> DEFINE T == {m \in Nat \ {0} : ~ \E g : Delays(g, m)}
<1> SUFFICES ASSUME T # {} PROVE FALSE
  OBVIOUS
<1>0. RetryDelay \in Nat
  BY LimitsAssumption
<1>1. PICK m \in T : \A k \in T : m <= k
  BY LeastElement
<1>2. CASE m = 1
  <2>1. Delays([i \in 1 .. m |-> RetryDelay], m)
    BY <1>0, <1>2 DEF Delays
  <2> QED
    BY <2>1
<1>3. CASE m # 1
  <2>1. m - 1 \in Nat \ {0} /\ m - 1 \notin T
    BY <1>1, <1>3
  <2>2. PICK g : Delays(g, m - 1)
    BY <2>1
  <2>3. 2 * g[m - 1] \in {d \in Nat : d >= RetryDelay}
    BY <1>0, <2>1, <2>2 DEF Delays
  <2> DEFINE h == [i \in 1 .. m |-> IF i = m THEN 2 * g[m - 1] ELSE g[i]]
  <2>4. h \in [1 .. m -> {d \in Nat : d >= RetryDelay}]
    BY <2>2, <2>3 DEF Delays
  <2>5. \A i \in 1 .. m : h[i] = IF i = 1 THEN RetryDelay ELSE 2 * h[i - 1]
    <3> SUFFICES ASSUME NEW i \in 1 .. m
                 PROVE  h[i] = IF i = 1 THEN RetryDelay ELSE 2 * h[i - 1]
      OBVIOUS
    <3>1. CASE i = m
      BY <1>3, <2>1, <3>1
    <3>2. CASE i # m
      <4>1. i \in 1 .. (m - 1) /\ h[i] = g[i]
        BY <3>2
      <4>2. i # 1 => i - 1 \in 1 .. m /\ i - 1 # m
        BY <4>1
      <4> QED
        BY <2>2, <4>1, <4>2 DEF Delays
    <3> QED
      BY <3>1, <3>2
  <2> QED
    BY <2>4, <2>5 DEF Delays
<1> QED
  BY <1>2, <1>3

LEMMA DelaysUnique ==
  ASSUME NEW n \in Nat, NEW m \in Nat, n <= m, NEW g, Delays(g, n), NEW h, Delays(h, m),
         NEW i \in 1 .. n
  PROVE  g[i] = h[i]
<1> DEFINE T == {k \in 1 .. n : g[k] # h[k]}
<1> SUFFICES ASSUME T # {} PROVE FALSE
  OBVIOUS
<1>0. T \subseteq Nat
  OBVIOUS
<1>1. PICK k \in T : \A j \in T : k <= j
  <2> HIDE DEF T
  <2> QED
    BY <1>0, LeastElement
<1>2. k # 1 => k - 1 \in 1 .. n /\ k - 1 \notin T
  BY <1>1
<1>3. /\ g[k] = IF k = 1 THEN RetryDelay ELSE 2 * g[k - 1]
      /\ h[k] = IF k = 1 THEN RetryDelay ELSE 2 * h[k - 1]
  <2>1. k \in 1 .. n /\ k \in 1 .. m
    OBVIOUS
  <2> QED
    BY <2>1 DEF Delays
<1> QED
  BY <1>2, <1>3

\* The recursive definition has a solution.
LEMMA BackoffUnfolds ==
  Backoff = [k \in Nat \ {0} |-> IF k = 1 THEN RetryDelay ELSE 2 * Backoff[k - 1]]
<1> DEFINE F(k) == CHOOSE g : Delays(g, k)
           f == [k \in Nat \ {0} |-> F(k)[k]]
<1>1. \A k \in Nat \ {0} : Delays(F(k), k)
  BY DelaysExist
<1> HIDE DEF F
<1>2. ASSUME NEW k \in Nat \ {0}
      PROVE  f[k] = IF k = 1 THEN RetryDelay ELSE 2 * f[k - 1]
  <2>1. F(k)[k] = IF k = 1 THEN RetryDelay ELSE 2 * F(k)[k - 1]
    BY <1>1 DEF Delays
  <2>2. CASE k # 1
    <3>1. k - 1 \in Nat \ {0} /\ k - 1 <= k /\ k - 1 \in 1 .. (k - 1)
      BY <2>2
    <3>2. Delays(F(k - 1), k - 1) /\ Delays(F(k), k)
      BY <1>1, <3>1
    <3>3. F(k - 1)[k - 1] = F(k)[k - 1]
      BY <3>1, <3>2, DelaysUnique
    <3> QED
      BY <2>1, <2>2, <3>1, <3>3
  <2> QED
    BY <2>1, <2>2
<1>3. f = [k \in Nat \ {0} |-> IF k = 1 THEN RetryDelay ELSE 2 * f[k - 1]]
  BY <1>2
<1> HIDE DEF f
<1>4. \E e : e = [k \in Nat \ {0} |-> IF k = 1 THEN RetryDelay ELSE 2 * e[k - 1]]
  BY <1>3
<1> QED
  BY <1>4 DEF Backoff

\* A retry waits at least RetryDelay.
LEMMA BackoffBounds ==
  ASSUME NEW n \in Nat \ {0}
  PROVE  Backoff[n] \in Nat /\ Backoff[n] >= RetryDelay
<1> DEFINE Wrong == {k \in Nat \ {0} : ~(Backoff[k] \in Nat /\ Backoff[k] >= RetryDelay)}
<1> SUFFICES ASSUME Wrong # {} PROVE FALSE
  OBVIOUS
<1>1. PICK k \in Wrong : \A j \in Wrong : k <= j
  BY LeastElement
<1>2. RetryDelay \in Nat /\ Backoff[k] = IF k = 1 THEN RetryDelay ELSE 2 * Backoff[k - 1]
  BY BackoffUnfolds, LimitsAssumption
<1>3. k # 1 => k - 1 \in Nat \ {0} /\ k - 1 \notin Wrong
  BY <1>1
<1> QED
  BY <1>2, <1>3

LEMMA MinOfNaturals ==
  ASSUME NEW S \in SUBSET Nat, S # {}
  PROVE  Min(S) \in S
  BY LeastElement DEF Min

-----------------------------------------------------------------------------
(* Types *)

Busy == {"handler", "retry", "backoff", "reschedule"}
AtLoop == Gone \cup {"select", "batch"} \cup Busy

\* The types of what the argument needs: all but the times.
Typed ==
  /\ present \subseteq Tasks
  /\ retryCount \in [Tasks -> Nat]
  /\ running \in BOOLEAN
  /\ born \in 0 .. MaxStarts
  /\ batch \in [Loops -> SUBSET Tasks]
  /\ at \in [Executors -> AtLoop \cup {"idle"}]
  /\ \A l \in Loops : at[l] \in AtLoop
  /\ cur \in [Executors -> Tasks \cup {Nobody}]
  /\ \A e \in Executors : at[e] \in Busy => cur[e] \in Tasks
  /\ retry \in [Executors -> Nat \cup {NoRetry}]
  /\ pc \in [Controllers -> {"idle", "plan", "launch", "wait"}]
  /\ whileDisabled \in [Tasks -> 0 .. 2]

LEMMA MinOfTwo ==
  ASSUME NEW a \in 0 .. 2
  PROVE  Min({a + 1, 2}) \in 0 .. 2 /\ (a = 0 => Min({a + 1, 2}) = 1)
<1>1. \E x \in {a + 1, 2} : \A y \in {a + 1, 2} : x <= y
  OBVIOUS
<1>2. Min({a + 1, 2}) \in {a + 1, 2} /\ \A y \in {a + 1, 2} : Min({a + 1, 2}) <= y
  BY <1>1 DEF Min
<1> QED
  BY <1>2

LEMMA InitTyped == Init => Typed
<1> SUFFICES ASSUME Init PROVE Typed
  OBVIOUS
<1>1. /\ at \in [Executors -> AtLoop \cup {"idle"}]
      /\ \A l \in Loops : at[l] \in AtLoop
      /\ \A e \in Executors : at[e] \notin Busy
  BY DEF Init, AtLoop, Gone, Busy, Executors
<1>2. born \in 0 .. MaxStarts
  BY LimitsAssumption DEF Init
<1>3. /\ present \subseteq Tasks
      /\ batch \in [Loops -> SUBSET Tasks]
      /\ cur \in [Executors -> Tasks \cup {Nobody}]
      /\ retry \in [Executors -> Nat \cup {NoRetry}]
  BY TasksAssumption DEF Init
<1>4. /\ retryCount \in [Tasks -> Nat]
      /\ whileDisabled \in [Tasks -> 0 .. 2]
      /\ pc \in [Controllers -> {"idle", "plan", "launch", "wait"}]
  BY DEF Init
<1>5. running \in BOOLEAN
  BY DEF Init
<1> QED
  BY <1>1, <1>2, <1>3, <1>4, <1>5 DEF Typed

\* What one executor does: its own place changes, among the places of a loop if
\* it is one, and it neither rises from the dead nor is unborn again.
Moved(e) ==
  /\ at[e] \notin Gone
  /\ \E place \in (AtLoop \cup {"idle"}) \ {"unborn"} :
       at' = [at EXCEPT ![e] = place] /\ (e \in Loops => place # "idle")

ExecutorStep(e) ==
  \/ Execute(e) \/ Reload(e)
  \/ e \in Loops /\ RunLoop(e)
  \/ e \in Manual /\ \E t \in Tasks : RunTask(e, t)

LEMMA ExecutorMoves ==
  ASSUME Typed, NEW e \in Executors, ExecutorStep(e)
  PROVE  Moved(e) /\ UNCHANGED <<running, born, pc, present, replaced, enabled>>
<1> DEFINE places == (AtLoop \cup {"idle"}) \ {"unborn"}
<1>a. /\ {"reschedule", "retry", "backoff", "idle"} \subseteq places
      /\ Busy \cap Gone = {} /\ {"reschedule", "retry", "backoff"} \subseteq Busy
  BY DEF AtLoop, Busy, Gone
<1>1. CASE Execute(e) \/ Reload(e)
  <2>1. /\ at[e] \in {"handler", "retry", "backoff"}
        /\ UNCHANGED <<running, born, pc, present, replaced, enabled>>
    BY <1>1 DEF Execute, HandlerReturnsNil, HandlerFails, CountRetry, PlanRetry,
       ShiftPanics, Reload, registry, service
  <2>2. ASSUME Return(e)
        PROVE  \E place \in places :
                 at' = [at EXCEPT ![e] = place] /\ (e \in Loops => place # "idle")
    BY <2>2, <1>a DEF Return
  <2>3. \/ Return(e) \/ at' = [at EXCEPT ![e] = "retry"]
        \/ at' = [at EXCEPT ![e] = "backoff"] \/ at' = at
    BY <1>1 DEF Execute, HandlerReturnsNil, HandlerFails, GoesToRetry, CountRetry,
       PlanRetry, ShiftPanics, Reload, exec
  <2>4. CASE at' = at
    <3>1. at' = [at EXCEPT ![e] = at[e]] /\ at[e] \in places /\ at[e] # "idle"
          /\ at[e] \notin Gone
      BY <2>1, <2>4 DEF Typed, AtLoop, Busy, Gone
    <3> QED
      BY <2>1, <3>1 DEF Moved
  <2>5. CASE at' # at
    BY <1>a, <2>1, <2>2, <2>3, <2>5 DEF Moved, Gone
  <2> QED
    BY <2>4, <2>5
<1>2. CASE e \in Loops /\ RunLoop(e)
  <2>1. /\ at[e] \in {"select", "batch", "reschedule"}
        /\ \E place \in {"select", "gone", "batch", "handler"} :
             at' = [at EXCEPT ![e] = place]
        /\ UNCHANGED <<registry, service>>
    BY <1>2 DEF RunLoop, LoopSelect, LoopExit, LoopCollect, LoopReschedule, LoopExecute
  <2>2. {"select", "gone", "batch", "handler"} \subseteq places \ {"idle"}
    BY DEF AtLoop, Busy, Gone
  <2> QED
    BY <2>1, <2>2 DEF Moved, Gone, registry, service
<1>3. CASE e \in Manual /\ \E t \in Tasks : RunTask(e, t)
  <2>1. at[e] = "idle" /\ at' = [at EXCEPT ![e] = "handler"] /\ "handler" \in places
    BY <1>3 DEF RunTask, AtLoop, Busy
  <2> QED
    BY <1>3, <2>1 DEF RunTask, Moved, Gone, registry, service
<1> QED
  BY <1>1, <1>2, <1>3 DEF ExecutorStep

\* The disjuncts of Next, by the part of the state they are about.
RegistryStep ==
  \E t \in Tasks : RegisterHandler(t) \/ AddTask(t) \/ EnableTask(t) \/ DisableTask(t)

LEMMA Steps ==
  ASSUME [Next]_vars
  PROVE  \/ RegistryStep
         \/ \E c \in Controllers : Control(c)
         \/ \E e \in Executors : ExecutorStep(e)
         \/ Tick
         \/ UNCHANGED vars
  BY DEF Next, RegistryStep, ExecutorStep, Executors

LEMMA ExecutorTyped ==
  ASSUME Typed, NEW e \in Executors, ExecutorStep(e)
  PROVE  Typed'
<1>1. /\ at' \in [Executors -> AtLoop \cup {"idle"}]
      /\ \A l \in Loops : at'[l] \in AtLoop
      /\ UNCHANGED <<running, born, pc, present>>
  BY ExecutorMoves DEF Moved, Typed, Executors
<1>2. /\ retryCount' \in [Tasks -> Nat]
      /\ batch' \in [Loops -> SUBSET Tasks]
      /\ cur' \in [Executors -> Tasks \cup {Nobody}]
      /\ \A x \in Executors : at'[x] \in Busy => cur'[x] \in Tasks
      /\ retry' \in [Executors -> Nat \cup {NoRetry}]
      /\ whileDisabled' \in [Tasks -> 0 .. 2]
  <2>1. CASE HandlerReturnsNil(e)
    BY <2>1 DEF HandlerReturnsNil, Return, Typed, Busy, AtLoop, Gone, loop, history
  <2>2. CASE HandlerFails(e)
    BY <2>2 DEF HandlerFails, GoesToRetry, Return, Typed, Busy, AtLoop, Gone, plan, loop,
       history
  <2>3. CASE CountRetry(e)
    <3>1. cur[e] \in Tasks /\ retry[e] + 1 \in Nat
      BY <2>3 DEF CountRetry, Typed, Busy, NoRetry
    <3> QED
      BY <2>3, <3>1 DEF CountRetry, Typed, Busy, AtLoop, Gone, loop, history
  <2>6. CASE PlanRetry(e)
    BY <2>6 DEF PlanRetry, Return, Typed, Busy, AtLoop, Gone, loop, history
  <2>7. CASE ShiftPanics(e)
    BY <2>7 DEF ShiftPanics, Return, Typed, Busy, AtLoop, Gone, plan, loop, exec, history
  <2>8. CASE Reload(e)
    <3>1. retryCount[cur[e]] \in Nat
      BY <2>8 DEF Reload, Typed, Busy
    <3> QED
      BY <2>8, <3>1 DEF Reload, Typed, plan, loop, history
  <2>4. CASE e \in Loops /\ RunLoop(e)
    <3>1. CASE \E t \in Tasks : LoopExecute(e, t)
      <4>1. PICK t \in Tasks : LoopExecute(e, t)
        BY <3>1
      <4>2. whileDisabled[t] \in 0 .. 2
        BY <4>1 DEF Typed
      <4>3. whileDisabled' = [whileDisabled EXCEPT ![t] =
                                IF t \in Listed THEN 0 ELSE Min({whileDisabled[t] + 1, 2})]
        BY <4>1 DEF LoopExecute
      <4>4. (IF t \in Listed THEN 0 ELSE Min({whileDisabled[t] + 1, 2})) \in 0 .. 2
        BY <4>2, MinOfTwo
      <4>5. whileDisabled' \in [Tasks -> 0 .. 2]
        BY <4>3, <4>4 DEF Typed
      <4> QED
        BY <2>4, <4>1, <4>5 DEF LoopExecute, Typed, Busy, AtLoop, Gone
    <3>2. CASE LoopSelect(e) \/ LoopExit(e)
      BY <3>2 DEF LoopSelect, LoopExit, Typed, Busy, AtLoop, Gone, plan, loop, history
    <3>3. CASE LoopCollect(e)
      BY <3>3 DEF LoopCollect, DueTasks, Listed, Typed, Busy, AtLoop, Gone, plan, history
    <3>4. CASE LoopReschedule(e)
      BY <3>4 DEF LoopReschedule, Typed, Busy, AtLoop, Gone, loop, history
    <3> QED
      BY <2>4, <3>1, <3>2, <3>3, <3>4 DEF RunLoop
  <2>5. CASE e \in Manual /\ \E t \in Tasks : RunTask(e, t)
    BY <2>5 DEF RunTask, Typed, Busy, AtLoop, Gone, loop, history
  <2> QED
    BY <2>1, <2>2, <2>3, <2>4, <2>5, <2>6, <2>7, <2>8 DEF ExecutorStep, Execute
<1> QED
  BY <1>1, <1>2 DEF Typed

LEMMA NextTyped == Typed /\ [Next]_vars => Typed'
<1> SUFFICES ASSUME Typed, [Next]_vars PROVE Typed'
  OBVIOUS
<1>1. CASE RegistryStep
  BY <1>1 DEF RegistryStep, RegisterHandler, AddTask, EnableTask, DisableTask, Typed,
     plan, service, loop, exec, history
<1>2. ASSUME NEW c \in Controllers, Control(c) PROVE Typed'
  <2>1. CASE StartLaunch(c)
    <3>1. born + 1 \in Loops /\ born + 1 \in 0 .. MaxStarts
      BY <2>1, LimitsAssumption DEF StartLaunch, Typed, Loops
    <3>2. /\ at' \in [Executors -> AtLoop \cup {"idle"}]
          /\ \A l \in Loops : at'[l] \in AtLoop
          /\ \A e \in Executors : at'[e] \in Busy => at[e] \in Busy
      BY <2>1, <3>1 DEF StartLaunch, Typed, AtLoop, Gone, Busy, Executors
    <3> QED
      BY <2>1, <3>1, <3>2 DEF StartLaunch, Typed, registry, plan, loop, history
  <2> QED
    BY <1>2, <2>1 DEF Control, StartAlreadyRunning, StartContext, StartPlan,
       StopNotRunning, StopCancel, StopWait, Typed, registry, plan, loop, exec, history, vars
<1>3. ASSUME NEW e \in Executors, ExecutorStep(e) PROVE Typed'
  BY <1>3, ExecutorTyped
<1>4. CASE Tick
  BY <1>4 DEF Tick, Typed, registry, plan, service, exec, history
<1>5. CASE UNCHANGED vars
  BY <1>5 DEF Typed, vars
<1> QED
  BY <1>1, <1>2, <1>3, <1>4, <1>5, Steps

-----------------------------------------------------------------------------
(* The times and the contexts, for any number of controllers *)

TimesTyped ==
  /\ now \in Times
  /\ lastRun \in [Tasks -> Times \cup {Never}]
  /\ nextRun \in [Tasks -> Nat \cup {Never}]
  /\ ticked \in [Loops -> Times \cup {Never}]
  /\ lastStart \in [Tasks -> Times \cup {Never}]

\* A name belongs to one object of the map.
RegistryTyped ==
  /\ present \subseteq Tasks /\ replaced \subseteq Tasks \ present
  /\ \A t, u \in present : Name[t] = Name[u] => t = u
  /\ enabled \subseteq present \cup replaced /\ handler \subseteq present \cup replaced

\* A service that is running has a context to cancel.
ServiceTyped ==
  /\ panicked \in BOOLEAN
  /\ ctx \in 0 .. MaxStarts /\ cancelled \subseteq 1 .. ctx
  /\ running => ctx >= 1
  /\ watch \in [Loops -> 0 .. MaxStarts]

\* An executor about to schedule a retry has read the count.
RetryKnown == \A e \in Executors : at[e] \in {"retry", "backoff"} => retry[e] \in Nat

TypeInv == Typed /\ TimesTyped /\ RegistryTyped /\ ServiceTyped /\ RetryKnown

\* The next run is never planned within the interval of the last one.
LEMMA CatchUpBeyond ==
  ASSUME NEW last \in Int, NEW from \in Int, NEW interval \in Nat \ {0}
  PROVE  CatchUp(last, interval, from) \in Int /\ CatchUp(last, interval, from) >= last + interval
<1> DEFINE late == from - (last + interval)
<1>1. CASE late <= 0
  BY <1>1 DEF CatchUp
<1>2. CASE late > 0
  <2>1. (late + interval - 1) \div interval \in Nat
    <3>1. late + interval - 1 \in Nat
      BY <1>2
    <3> QED
      BY <3>1
  <2>2. interval * ((late + interval - 1) \div interval) \in Nat
    BY <2>1
  <2> QED
    BY <1>2, <2>2 DEF CatchUp
<1> QED
  BY <1>1, <1>2

LEMMA NextRunTyped ==
  ASSUME TimesTyped, NEW t \in Tasks, NEW late \in BOOLEAN
  PROVE  NextRunOf(t, now, late) \in Nat \cup {Never}
<1>1. /\ now \in Nat /\ Interval[t] \in Nat /\ CronMinutes[t] \subseteq Nat
      /\ lastRun[t] \in Nat \cup {Never} /\ nextRun[t] \in Nat \cup {Never}
  BY TasksAssumption, LimitsAssumption DEF TimesTyped, Times
<1>2. CASE Interval[t] > 0 /\ lastRun[t] = Never
  BY <1>1, <1>2 DEF NextRunOf
<1>3. CASE Interval[t] > 0 /\ lastRun[t] # Never
  <2> DEFINE from == IF late THEN now + 1 ELSE now
  <2>1. NextRunOf(t, now, late) = CatchUp(lastRun[t], Interval[t], from)
    BY <1>3 DEF NextRunOf
  <2>2. lastRun[t] \in Nat /\ from \in Int /\ Interval[t] \in Nat \ {0}
    BY <1>1, <1>3
  <2> HIDE DEF from
  <2>3. NextRunOf(t, now, late) \in Int /\ NextRunOf(t, now, late) >= lastRun[t] + Interval[t]
    BY <2>1, <2>2, CatchUpBeyond
  <2> QED
    BY <2>2, <2>3
<1>4. CASE ~(Interval[t] > 0)
  <2> DEFINE later == CronMatches(t, now + 1, now + Horizon)
  <2>1. later \subseteq Nat
    BY <1>1 DEF CronMatches
  <2>2. NextRunOf(t, now, late) = IF later = {} THEN nextRun[t] ELSE Min(later)
    BY <1>4 DEF NextRunOf
  <2> HIDE DEF later
  <2>3. later # {} => Min(later) \in Nat
    BY <2>1, MinOfNaturals
  <2> QED
    BY <1>1, <2>2, <2>3
<1> QED
  BY <1>2, <1>3, <1>4

LEMMA TimesStep ==
  ASSUME TypeInv, [Next]_vars
  PROVE  TimesTyped'
<1>0. Typed /\ TimesTyped /\ RetryKnown
  BY DEF TypeInv
<1>a. now \in Times /\ now \in Nat /\ Times \subseteq Nat
  BY <1>0, LimitsAssumption DEF TimesTyped, Times
<1>1. CASE Tick
  <2>1. now + 1 \in Times
    BY <1>a, <1>1, LimitsAssumption DEF Tick, Times
  <2> QED
    BY <1>0, <1>1, <2>1 DEF Tick, TimesTyped, plan, history
<1>2. ASSUME NEW c \in Controllers, StartPlan(c) PROVE TimesTyped'
  <2>1. PICK late \in SUBSET present :
          nextRun' = [t \in Tasks |->
            IF t \in present THEN NextRunOf(t, now, t \in late) ELSE nextRun[t]]
    BY <1>2 DEF StartPlan
  <2>2. \A t \in Tasks : (t \in late) \in BOOLEAN
    OBVIOUS
  <2>3. \A t \in Tasks : NextRunOf(t, now, t \in late) \in Nat \cup {Never}
    BY <1>0, <2>2, NextRunTyped
  <2>4. nextRun' \in [Tasks -> Nat \cup {Never}]
    BY <1>0, <2>1, <2>3 DEF TimesTyped
  <2> QED
    BY <1>0, <1>2, <2>4 DEF StartPlan, TimesTyped, loop, history
<1>3. ASSUME NEW e \in Executors, PlanRetry(e) PROVE TimesTyped'
  <2>1. retry[e] \in Nat \ {0}
    BY <1>0, <1>3 DEF PlanRetry, RetryKnown
  <2>2. now + Backoff[retry[e]] \in Nat
    BY <1>a, <2>1, BackoffBounds
  <2> QED
    BY <1>0, <1>3, <2>2 DEF PlanRetry, TimesTyped, loop, history
<1>4. ASSUME NEW l \in Loops, LoopReschedule(l) PROVE TimesTyped'
  <2>1. cur[l] \in Tasks
    BY <1>0, <1>4 DEF LoopReschedule, Typed, Busy, Executors
  <2>2. \A late \in BOOLEAN : NextRunOf(cur[l], now, late) \in Nat \cup {Never}
    BY <1>0, <2>1, NextRunTyped
  <2> QED
    BY <1>0, <1>4, <2>2 DEF LoopReschedule, TimesTyped, loop, history
<1>5. ASSUME NEW l \in Loops, NEW t \in Tasks, LoopExecute(l, t) PROVE TimesTyped'
  BY <1>0, <1>5 DEF LoopExecute, TimesTyped
<1>6. ASSUME NEW m \in Manual, NEW t \in Tasks, RunTask(m, t) PROVE TimesTyped'
  BY <1>0, <1>6 DEF RunTask, TimesTyped, loop, history
<1>7. ASSUME NEW l \in Loops, LoopCollect(l) PROVE TimesTyped'
  BY <1>0, <1>7 DEF LoopCollect, TimesTyped, plan, history
<1>8. CASE UNCHANGED <<now, lastRun, nextRun, ticked, lastStart>>
  BY <1>0, <1>8 DEF TimesTyped
<1>9. ASSUME NEW e \in Executors, Execute(e) \/ Reload(e) PROVE TimesTyped'
  <2>1. PlanRetry(e) \/ UNCHANGED <<now, lastRun, nextRun, ticked, lastStart>>
    BY <1>9 DEF Execute, HandlerReturnsNil, HandlerFails, CountRetry, ShiftPanics, Reload,
       plan, loop, history
  <2> QED
    BY <1>3, <1>8, <2>1
<1> QED
  BY <1>1, <1>2, <1>4, <1>5, <1>6, <1>7, <1>8, <1>9
     DEF Next, RegisterHandler, AddTask, EnableTask, DisableTask, Control,
         StartAlreadyRunning, StartContext, StartLaunch, StopNotRunning, StopCancel,
         StopWait, RunLoop, LoopSelect, LoopExit, plan, loop, history, vars

LEMMA ServiceStep ==
  ASSUME TypeInv, [Next]_vars
  PROVE  ServiceTyped'
<1>0. Typed /\ ServiceTyped /\ MaxStarts \in Nat
  BY LimitsAssumption DEF TypeInv
<1>1. CASE RegistryStep
  BY <1>0, <1>1 DEF RegistryStep, RegisterHandler, AddTask, EnableTask, DisableTask, service,
     loop, ServiceTyped
<1>2. ASSUME NEW c \in Controllers, StartContext(c) PROVE ServiceTyped'
  <2>1. ctx + 1 \in 0 .. MaxStarts /\ ctx + 1 >= 1 /\ 1 .. ctx \subseteq 1 .. (ctx + 1)
    BY <1>0, <1>2 DEF StartContext, ServiceTyped
  <2>2. ctx' = ctx + 1 /\ cancelled' = cancelled /\ UNCHANGED <<panicked, watch>>
    BY <1>2 DEF StartContext, registry, loop
  <2>3. cancelled' \subseteq 1 .. ctx'
    BY <1>0, <2>1, <2>2 DEF ServiceTyped
  <2> QED
    BY <1>0, <2>1, <2>2, <2>3 DEF ServiceTyped
<1>3. ASSUME NEW c \in Controllers, StopCancel(c) PROVE ServiceTyped'
  <2>1. ctx \in 1 .. ctx
    BY <1>0, <1>3 DEF StopCancel, ServiceTyped
  <2> QED
    BY <1>0, <1>3, <2>1 DEF StopCancel, ServiceTyped, registry, loop
<1>4. ASSUME NEW l \in Loops, LoopSelect(l) PROVE ServiceTyped'
  BY <1>0, <1>4 DEF LoopSelect, ServiceTyped, registry, service
<1>5. CASE UNCHANGED <<panicked, ctx, cancelled, running, watch>>
  BY <1>0, <1>5 DEF ServiceTyped
<1>6. ASSUME NEW e \in Executors, ShiftPanics(e) PROVE ServiceTyped'
  BY <1>0, <1>6 DEF ShiftPanics, ServiceTyped, loop
<1> QED
  BY <1>1, <1>2, <1>3, <1>4, <1>5, <1>6
     DEF Next, RegistryStep, Control, StartAlreadyRunning, StartPlan, StartLaunch,
         StopNotRunning, StopWait, Execute, HandlerReturnsNil, HandlerFails, CountRetry, PlanRetry, ShiftPanics, Reload,
         RunLoop, LoopExit, LoopCollect, LoopReschedule, LoopExecute, RunTask, Tick,
         registry, service, loop, vars

LEMMA RegistryTypedStep ==
  ASSUME TypeInv, [Next]_vars
  PROVE  RegistryTyped'
<1>0. RegistryTyped
  BY DEF TypeInv
<1>1. CASE UNCHANGED registry
  BY <1>0, <1>1 DEF RegistryTyped, registry
<1>2. ASSUME NEW t \in Tasks, AddTask(t) PROVE RegistryTyped'
  <2> DEFINE old == {u \in present : Name[u] = Name[t]}
  <2>1. /\ present' = (present \ old) \cup {t} /\ replaced' = replaced \cup old
        /\ t \notin present \cup replaced
        /\ enabled' = enabled \cup {t} /\ handler' = handler \cup {t}
    BY <1>2 DEF AddTask
  <2>2. old \subseteq present /\ \A u \in present \ old : Name[u] # Name[t]
    OBVIOUS
  <2> HIDE DEF old
  <2>3. \A u, v \in present' : Name[u] = Name[v] => u = v
    BY <1>0, <2>1, <2>2 DEF RegistryTyped
  <2> QED
    BY <1>0, <2>1, <2>2, <2>3 DEF RegistryTyped
<1>3. ASSUME NEW t \in Tasks, RegisterHandler(t) \/ EnableTask(t) \/ DisableTask(t)
      PROVE  RegistryTyped'
  BY <1>0, <1>3 DEF RegisterHandler, EnableTask, DisableTask, RegistryTyped
<1> QED
  BY <1>1, <1>2, <1>3
     DEF Next, Control, StartAlreadyRunning, StartContext, StartPlan, StartLaunch,
         StopNotRunning, StopCancel, StopWait, Execute, HandlerReturnsNil, HandlerFails,
         CountRetry, PlanRetry, ShiftPanics, Reload, RunLoop, LoopSelect, LoopExit,
         LoopCollect, LoopReschedule, LoopExecute, RunTask, Tick, registry, vars

LEMMA RetryKnownStep ==
  ASSUME TypeInv, [Next]_vars
  PROVE  RetryKnown'
<1>0. Typed /\ RetryKnown
  BY DEF TypeInv
<1>1. CASE UNCHANGED <<at, retry>>
  BY <1>0, <1>1 DEF RetryKnown
<1>2. ASSUME NEW c \in Controllers, StartLaunch(c) PROVE RetryKnown'
  BY <1>0, <1>2 DEF StartLaunch, RetryKnown, Typed
<1>3. ASSUME NEW e \in Executors, ExecutorStep(e) PROVE RetryKnown'
  <2>1. \A x \in Executors : x # e => at'[x] = at[x] /\ retry'[x] = retry[x]
    <3>1. CASE Execute(e) \/ Reload(e)
      BY <1>0, <3>1 DEF Execute, HandlerReturnsNil, HandlerFails, GoesToRetry, CountRetry,
         PlanRetry, ShiftPanics, Reload, Return, exec, Typed
    <3>2. CASE ~(Execute(e) \/ Reload(e))
      BY <1>0, <1>3, <3>2 DEF ExecutorStep, RunLoop, LoopSelect, LoopExit, LoopCollect,
         LoopExecute, LoopReschedule, RunTask, exec, Typed
    <3> QED
      BY <3>1, <3>2
  <2>2. at'[e] \in {"retry", "backoff"} => retry'[e] \in Nat
    <3>1. CASE HandlerFails(e) \/ Reload(e)
      <4>1. retryCount[cur[e]] \in Nat
        BY <1>0, <3>1 DEF HandlerFails, Reload, Typed, Busy
      <4>2. CASE retry' = [retry EXCEPT ![e] = retryCount[cur[e]]]
        BY <1>0, <4>1, <4>2 DEF Typed
      <4>3. CASE Return(e)
        BY <1>0, <4>3 DEF Return, Typed
      <4> QED
        BY <3>1, <4>2, <4>3 DEF HandlerFails, GoesToRetry, Reload
    <3>2. CASE CountRetry(e)
      BY <1>0, <3>2 DEF CountRetry, RetryKnown, Typed
    <3>3. CASE ShiftPanics(e)
      BY <1>0, <3>3 DEF ShiftPanics, Return, RetryKnown, Typed, exec
    <3>4. CASE ~(HandlerFails(e) \/ Reload(e) \/ CountRetry(e) \/ ShiftPanics(e))
      BY <1>0, <1>3, <3>4 DEF ExecutorStep, Execute, HandlerReturnsNil, PlanRetry, Return,
         RunLoop, LoopSelect, LoopExit, LoopCollect, LoopExecute, LoopReschedule, RunTask,
         Typed
    <3> QED
      BY <3>1, <3>2, <3>3, <3>4
  <2> QED
    BY <1>0, <2>1, <2>2 DEF RetryKnown
<1> QED
  BY <1>1, <1>2, <1>3, Steps
     DEF RegistryStep, RegisterHandler, AddTask, EnableTask, DisableTask, Control,
         StartAlreadyRunning, StartContext, StartPlan, StopNotRunning, StopCancel,
         StopWait, Tick, exec, vars

LEMMA InitTypeInv == Init => TypeInv
<1> SUFFICES ASSUME Init PROVE TypeInv
  OBVIOUS
<1>1. TimesTyped
  BY LimitsAssumption DEF Init, TimesTyped, Times
<1>2. ServiceTyped
  <2>1. panicked \in BOOLEAN /\ ~running
    BY DEF Init
  <2>2. /\ ctx \in 0 .. MaxStarts /\ cancelled \subseteq 1 .. ctx
        /\ watch \in [Loops -> 0 .. MaxStarts]
    BY LimitsAssumption DEF Init
  <2> QED
    BY <2>1, <2>2 DEF ServiceTyped
<1>3. RetryKnown
  BY DEF Init, RetryKnown, Executors
<1>4. RegistryTyped
  BY TasksAssumption DEF Init, RegistryTyped
<1> QED
  BY <1>1, <1>2, <1>3, <1>4, InitTyped DEF TypeInv

LEMMA TypeInvStep == TypeInv /\ [Next]_vars => TypeInv'
  BY NextTyped, TimesStep, RegistryTypedStep, ServiceStep, RetryKnownStep DEF TypeInv

LEMMA TypeInvHolds == Spec => []TypeInv
  BY InitTypeInv, TypeInvStep, PTL DEF Spec

\* However many goroutines start, stop and run things: no time is negative, no
\* context is cancelled that was not made, no loop is counted twice.
THEOREM TypesHold == Spec => []TypeOK
<1>1. TypeInv => TypeOK
  BY DEF TypeInv, Typed, TimesTyped, RegistryTyped, ServiceTyped, TypeOK, AtLoop, Busy, Gone
<1> QED
  BY <1>1, TypeInvHolds, PTL

-----------------------------------------------------------------------------
(* One controller. *)

\* No loop but the latest is alive, and loops to come have nothing to do.
OneLoop ==
  /\ \A l \in Loops : l # born => at[l] \in Gone
  /\ \A l \in Loops : at[l] = "unborn" => batch[l] = {}
  /\ \A l \in Loops : l > born => at[l] = "unborn"

\* Between two calls the controller knows whether there is a loop.
StopInOrder(c) ==
  /\ pc[c] = "idle" /\ ~running => Alive = {}
  /\ pc[c] \in {"plan", "launch"} => running /\ Alive = {}
  /\ pc[c] = "wait" => ~running

ControlInv == Typed /\ OneLoop /\ \A c \in Controllers : StopInOrder(c)

LEMMA ExecutorControl ==
  ASSUME ControlInv, NEW e \in Executors, ExecutorStep(e)
  PROVE  ControlInv' /\ Alive' \subseteq Alive
<1>1. Moved(e) /\ UNCHANGED <<running, born, pc>>
  BY ExecutorMoves DEF ControlInv
<1>2. \A l \in Loops : at[l] \in Gone => at'[l] = at[l]
  BY <1>1 DEF Moved, ControlInv, Typed, Executors
<1>3. \A l \in Loops : at'[l] = "unborn" => at[l] = "unborn"
  BY <1>1 DEF Moved, ControlInv, Typed, Executors
<1>4. Alive' \subseteq Alive
  BY <1>2 DEF Alive
<1>5. \A l \in Loops : at[l] = "unborn" => batch'[l] = batch[l]
  BY DEF ExecutorStep, Execute, HandlerReturnsNil, HandlerFails, CountRetry, PlanRetry,
     ShiftPanics, Reload, RunLoop, LoopSelect, LoopExit, LoopCollect, LoopReschedule,
     LoopExecute, RunTask, loop, Gone, ControlInv, Typed
<1>6. OneLoop'
  BY <1>1, <1>2, <1>3, <1>5 DEF OneLoop, ControlInv, Gone
<1>7. \A c \in Controllers : StopInOrder(c)'
  BY <1>1, <1>4 DEF StopInOrder, ControlInv
<1> QED
  BY <1>4, <1>6, <1>7, ExecutorTyped DEF ControlInv

LEMMA ControlStep ==
  ASSUME NEW c, Controllers = {c}, ControlInv, [Next]_vars
  PROVE  ControlInv'
<1>0. Typed'
  BY NextTyped DEF ControlInv
<1>1. CASE RegistryStep
  BY <1>0, <1>1 DEF RegistryStep, RegisterHandler, AddTask, EnableTask, DisableTask,
     ControlInv, OneLoop, StopInOrder, Alive, service, loop, exec
<1>2. CASE Control(c)
  <2>1. CASE StartLaunch(c)
    <3>1. born + 1 \in Loops /\ born' = born + 1 /\ Alive = {} /\ running
          /\ running' = running /\ born \in Nat
      BY <2>1, LimitsAssumption DEF StartLaunch, ControlInv, StopInOrder, Typed, Loops, service
    <3>2. \A l \in Loops : at[l] \in Gone
      BY <3>1 DEF Alive
    <3>3. batch' = batch /\ \A l \in Loops : l # born + 1 => at'[l] = at[l]
      BY <2>1 DEF StartLaunch, loop, ControlInv, Typed, Executors
    <3>4. at'[born + 1] = "batch"
      BY <2>1, <3>1 DEF StartLaunch, ControlInv, Typed, Executors
    <3>5. OneLoop'
      BY <3>1, <3>2, <3>3, <3>4 DEF OneLoop, ControlInv, Gone, Loops
    <3>6. pc'[c] = "idle"
      BY <2>1 DEF StartLaunch, ControlInv, Typed
    <3> QED
      BY <1>0, <3>1, <3>5, <3>6 DEF ControlInv, StopInOrder
  <2>2. CASE ~StartLaunch(c)
    <3>1. UNCHANGED <<at, batch, born>>
      BY <1>2, <2>2 DEF Control, StartAlreadyRunning, StartContext, StartPlan,
         StopNotRunning, StopCancel, StopWait, exec, loop, vars
    <3>2. OneLoop' /\ Alive' = Alive
      BY <3>1 DEF OneLoop, ControlInv, Alive
    <3>3. StopInOrder(c)'
      BY <1>2, <2>2, <3>2 DEF Control, StartAlreadyRunning, StartContext, StartPlan,
         StopNotRunning, StopCancel, StopWait, ControlInv, StopInOrder, Typed, service, vars
    <3> QED
      BY <1>0, <3>2, <3>3 DEF ControlInv
  <2> QED
    BY <2>1, <2>2
<1>3. ASSUME NEW e \in Executors, ExecutorStep(e) PROVE ControlInv'
  BY <1>3, ExecutorControl
<1>4. CASE Tick
  BY <1>0, <1>4 DEF Tick, ControlInv, OneLoop, StopInOrder, Alive, service, exec
<1>5. CASE UNCHANGED vars
  BY <1>0, <1>5 DEF ControlInv, OneLoop, StopInOrder, Alive, vars
<1> QED
  BY <1>1, <1>2, <1>3, <1>4, <1>5, Steps

LEMMA InitControl == Init => ControlInv
<1> SUFFICES ASSUME Init PROVE ControlInv
  OBVIOUS
<1>1. \A l \in Loops : at[l] = "unborn" /\ batch[l] = {}
  BY DEF Init, Executors
<1>2. Alive = {}
  BY <1>1 DEF Alive, Gone
<1> QED
  BY <1>1, <1>2, InitTyped DEF Init, ControlInv, OneLoop, StopInOrder, Gone

LEMMA ControlHolds ==
  ASSUME NEW c, Controllers = {c}
  PROVE  Spec => []ControlInv
<1>1. ControlInv /\ [Next]_vars => ControlInv'
  BY ControlStep
<1> QED
  BY <1>1, InitControl, PTL DEF Spec

\* When Stop has returned, and until the next Start, no loop is left: Stop waits
\* for the loop whose context it cancelled, and no other one exists.
THEOREM StopLeavesNothing ==
  ASSUME NEW c, Controllers = {c}
  PROVE  Spec => []StopMeansQuiet
<1>1. ControlInv => StopMeansQuiet
  BY DEF ControlInv, StopInOrder, StopMeansQuiet, Settled
<1> QED
  BY <1>1, ControlHolds, PTL

-----------------------------------------------------------------------------
(* A disabled task is started by the pass that had collected it, no other. *)

CollectedOnce ==
  /\ \A t \in Tasks \cap Listed : whileDisabled[t] = 0
  /\ \A t \in Tasks \ Listed :
       \/ whileDisabled[t] = 0
       \/ whileDisabled[t] = 1 /\ \A l \in Loops : at[l] \notin Gone => t \notin batch[l]

LEMMA CollectedStep ==
  ASSUME NEW c, Controllers = {c}, ControlInv, CollectedOnce, [Next]_vars
  PROVE  CollectedOnce'
<1>0. Typed /\ OneLoop
  BY DEF ControlInv
<1>1. CASE RegistryStep
  BY <1>0, <1>1 DEF RegistryStep, RegisterHandler, AddTask, EnableTask, DisableTask,
     CollectedOnce, Listed, Typed, service, loop, exec, history
<1>2. CASE Control(c)
  <2>1. CASE StartLaunch(c)
    <3>1. born + 1 \in Loops /\ at[born + 1] = "unborn" /\ batch[born + 1] = {}
      BY <1>0, <2>1, LimitsAssumption DEF StartLaunch, Typed, OneLoop, Loops
    <3>2. \A l \in Loops : l # born + 1 => at'[l] = at[l]
      BY <1>0, <2>1 DEF StartLaunch, Typed, Executors
    <3> QED
      BY <2>1, <3>1, <3>2 DEF StartLaunch, CollectedOnce, Listed, registry, loop, history
  <2>2. CASE ~StartLaunch(c)
    BY <1>2, <2>2 DEF Control, StartAlreadyRunning, StartContext, StartPlan,
       StopNotRunning, StopCancel, StopWait, CollectedOnce, Listed, registry, loop, exec, history, vars
  <2> QED
    BY <2>1, <2>2
<1>3. ASSUME NEW e \in Executors, ExecutorStep(e) PROVE CollectedOnce'
  <2>1. Moved(e) /\ UNCHANGED <<born, present, enabled, Listed>>
    BY <1>0, <1>3, ExecutorMoves DEF Listed
  <2>2. \A l \in Loops : at'[l] \notin Gone => at[l] \notin Gone
    BY <1>0, <2>1 DEF Moved, Typed, Executors
  <2>3. CASE e \in Loops /\ \E t \in Tasks : LoopExecute(e, t)
    <3>1. PICK t \in Tasks : LoopExecute(e, t)
      BY <2>3
    <3>2. t \in batch[e] /\ at[e] \notin Gone
      BY <3>1 DEF LoopExecute, Gone
    <3>3. batch'[e] = batch[e] \ {t} /\ \A l \in Loops : l # e => batch'[l] = batch[l]
      BY <1>0, <2>3, <3>1 DEF LoopExecute, Typed
    <3>4. e = born /\ \A l \in Loops : l # e => at'[l] \in Gone
      BY <1>0, <2>1, <2>2, <2>3, <3>2 DEF OneLoop
    <3>5. whileDisabled'[t] = IF t \in Listed THEN 0 ELSE 1
      <4>1. whileDisabled[t] = 0
        BY <2>3, <3>2 DEF CollectedOnce
      <4> QED
        BY <1>0, <3>1, <4>1, MinOfTwo DEF LoopExecute, Typed
    <3>6. \A u \in Tasks : u # t => whileDisabled'[u] = whileDisabled[u]
      BY <1>0, <3>1 DEF LoopExecute, Typed
    <3>7. ASSUME NEW u \in Tasks \ Listed
          PROVE  \/ whileDisabled'[u] = 0
                 \/ whileDisabled'[u] = 1 /\ \A l \in Loops : at'[l] \notin Gone => u \notin batch'[l]
      BY <1>0, <2>2, <3>3, <3>4, <3>5, <3>6, <3>7 DEF CollectedOnce
    <3>8. \A u \in Tasks \cap Listed : whileDisabled'[u] = 0
      BY <3>5, <3>6 DEF CollectedOnce
    <3> QED
      BY <2>1, <3>7, <3>8 DEF CollectedOnce
  <2>4. CASE e \in Loops /\ LoopCollect(e)
    <3>1. /\ batch'[e] \subseteq Listed
          /\ \A l \in Loops : l # e => batch'[l] = batch[l]
          /\ whileDisabled' = whileDisabled
      BY <1>0, <2>4 DEF LoopCollect, DueTasks, Typed, history
    <3> QED
      BY <2>1, <2>2, <3>1 DEF CollectedOnce
  <2>5. CASE UNCHANGED <<batch, whileDisabled>>
    BY <2>1, <2>2, <2>5 DEF CollectedOnce
  <2> QED
    BY <1>3, <2>3, <2>4, <2>5
       DEF ExecutorStep, Execute, HandlerReturnsNil, HandlerFails, CountRetry, PlanRetry,
           ShiftPanics, Reload, RunLoop, LoopSelect, LoopExit, LoopReschedule, RunTask, loop,
           history
<1>4. CASE Tick
  BY <1>4 DEF Tick, CollectedOnce, Listed, registry, exec, history
<1>5. CASE UNCHANGED vars
  BY <1>5 DEF CollectedOnce, Listed, vars
<1> QED
  BY <1>1, <1>2, <1>3, <1>4, <1>5, Steps

\* A pass does not look at the flag of a task it has collected, or whether it is in
\* the map still, so DisableTask or its replacement may be followed by one start,
\* never by two.
THEOREM DisabledTasksStartOnce ==
  ASSUME NEW c, Controllers = {c}
  PROVE  Spec => []DisabledStartsOnce
<1>1. Init => CollectedOnce
  BY DEF Init, CollectedOnce
<1>2. ControlInv /\ CollectedOnce /\ [Next]_vars => CollectedOnce'
  BY CollectedStep
<1>3. CollectedOnce => DisabledStartsOnce
  BY DEF CollectedOnce, DisabledStartsOnce
<1> QED
  BY <1>1, <1>2, <1>3, ControlHolds, PTL DEF Spec

-----------------------------------------------------------------------------
(* Retries, as long as nobody runs a task that another executor is in. *)

\* What is in hand is what the task has, between the check and the retry it plans.
RetryInv ==
  /\ ~panicked /\ Alone
  /\ \A t \in Tasks : retryCount[t] <= RetriesOf(t)
  /\ \A e \in Executors :
       /\ at[e] \in {"retry", "backoff"} => retry[e] = retryCount[cur[e]]
       /\ at[e] = "retry" => retry[e] < RetriesOf(cur[e])
       /\ at[e] = "backoff" => retry[e] > 0

LEMMA RetriesNat == \A t : RetriesOf(t) \in Nat
  BY LimitsAssumption DEF RetriesOf

\* An executor that goes on with its task, or gives it up, leaves the tasks of the
\* others alone.
LEMMA RetryExecutor ==
  ASSUME TypeInv, RetryInv, NEW e \in Executors, Execute(e) \/ Reload(e), Alone'
  PROVE  RetryInv'
<1>0. Typed /\ RetryKnown
  BY DEF TypeInv
<1>1. cur[e] \in Tasks /\ retryCount[cur[e]] \in Nat
  BY <1>0 DEF Execute, HandlerReturnsNil, HandlerFails, CountRetry, PlanRetry, ShiftPanics,
     Reload, Typed, Busy
<1>2. \A x \in Executors : x # e =>
        /\ at'[x] = at[x] /\ cur'[x] = cur[x] /\ retry'[x] = retry[x]
        /\ at[x] \in {"retry", "backoff"} => cur[x] # cur[e]
  <2>1. at[e] \in {"handler", "retry", "backoff"}
    BY DEF Execute, HandlerReturnsNil, HandlerFails, CountRetry, PlanRetry, ShiftPanics,
       Reload
  <2>2. \A x \in Executors : x # e /\ at[x] \in {"retry", "backoff"} => cur[x] # cur[e]
    BY <2>1 DEF RetryInv, Alone
  <2> QED
    BY <1>0, <2>2 DEF Execute, HandlerReturnsNil, HandlerFails, GoesToRetry, CountRetry,
       PlanRetry, ShiftPanics, Reload, Return, Typed, exec
<1>3. \A t \in Tasks : t # cur[e] => retryCount'[t] = retryCount[t]
  BY <1>0 DEF Execute, HandlerReturnsNil, HandlerFails, CountRetry, PlanRetry, ShiftPanics,
     Reload, Typed, plan
<1>4. \A x \in Executors : x # e /\ at[x] \in {"retry", "backoff"} =>
        cur[x] \in Tasks /\ retryCount'[cur[x]] = retryCount[cur[x]]
  BY <1>0, <1>2, <1>3 DEF Typed, Busy
<1>5. /\ ~panicked'
      /\ retryCount'[cur[e]] <= RetriesOf(cur[e])
      /\ at'[e] \in {"retry", "backoff"} => cur'[e] = cur[e] /\ retry'[e] = retryCount'[cur[e]]
      /\ at'[e] = "retry" => retry'[e] < RetriesOf(cur[e])
      /\ at'[e] = "backoff" => retry'[e] > 0
  <2>1. CASE HandlerReturnsNil(e)
    BY <1>0, <1>1, <2>1, RetriesNat DEF HandlerReturnsNil, Return, RetryInv, Typed, service
  <2>2. CASE HandlerFails(e)
    BY <1>0, <1>1, <2>2 DEF HandlerFails, GoesToRetry, Return, RetryInv, Typed, service, plan
  <2>3. CASE CountRetry(e)
    <3>1. retry[e] \in Nat /\ retry[e] < RetriesOf(cur[e])
      BY <1>0, <2>3 DEF CountRetry, RetryInv, RetryKnown
    <3> QED
      BY <1>0, <1>1, <2>3, <3>1, RetriesNat DEF CountRetry, RetryInv, Typed, service
  <2>4. CASE PlanRetry(e)
    BY <1>0, <1>1, <2>4 DEF PlanRetry, Return, RetryInv, Typed, service
  <2>5. CASE ShiftPanics(e)
    BY <2>5 DEF ShiftPanics, RetryInv
  <2>6. CASE Reload(e)
    BY <1>0, <1>1, <2>6 DEF Reload, RetryInv, Typed, service, plan
  <2> QED
    BY <2>1, <2>2, <2>3, <2>4, <2>5, <2>6 DEF Execute
<1>6. \A t \in Tasks : retryCount'[t] <= RetriesOf(t)
  BY <1>3, <1>5 DEF RetryInv
<1>7. ASSUME NEW x \in Executors
      PROVE  /\ at'[x] \in {"retry", "backoff"} => retry'[x] = retryCount'[cur'[x]]
             /\ at'[x] = "retry" => retry'[x] < RetriesOf(cur'[x])
             /\ at'[x] = "backoff" => retry'[x] > 0
  <2>1. CASE x = e
    BY <1>5, <2>1
  <2>2. CASE x # e
    BY <1>2, <1>4, <2>2 DEF RetryInv
  <2> QED
    BY <2>1, <2>2
<1> QED
  BY <1>5, <1>6, <1>7 DEF RetryInv, RetriesOf

LEMMA RetryStep ==
  ASSUME TypeInv, RetryInv, [Next /\ Alone']_vars
  PROVE  RetryInv'
<1>0. Typed
  BY DEF TypeInv
<1>1. CASE UNCHANGED <<panicked, retryCount, at, cur, retry>>
  BY <1>1 DEF RetryInv, Alone, RetriesOf
<1>2. CASE UNCHANGED vars
  BY <1>1, <1>2 DEF vars
<1>3. CASE Next /\ Alone'
  <2>1. ASSUME NEW e \in Executors, Execute(e) \/ Reload(e) PROVE RetryInv'
    BY <1>3, <2>1, RetryExecutor
  <2>2. ASSUME NEW e \in Executors,
               \/ e \in Loops /\ RunLoop(e)
               \/ e \in Manual /\ \E t \in Tasks : RunTask(e, t)
        PROVE  RetryInv'
    <3>1. /\ UNCHANGED <<panicked, retryCount, retry>>
          /\ at[e] \notin {"retry", "backoff"} /\ at'[e] \notin {"retry", "backoff"}
          /\ \A x \in Executors : x # e => at'[x] = at[x] /\ cur'[x] = cur[x]
      BY <1>0, <2>2 DEF RunLoop, LoopSelect, LoopExit, LoopCollect, LoopReschedule,
         LoopExecute, RunTask, Typed, plan, exec, service
    <3> QED
      BY <1>3, <3>1 DEF RetryInv, RetriesOf
  <2>3. ASSUME NEW c \in Controllers, StartLaunch(c) PROVE RetryInv'
    <3>1. /\ UNCHANGED <<panicked, retryCount, cur, retry>>
          /\ at' = [at EXCEPT ![born + 1] = "batch"]
      BY <2>3 DEF StartLaunch, plan
    <3>2. \A x \in Executors : at'[x] \in {"retry", "backoff"} => at'[x] = at[x]
      BY <1>0, <3>1 DEF Typed
    <3> QED
      BY <1>3, <3>1, <3>2 DEF RetryInv, RetriesOf
  <2>4. CASE RegistryStep \/ Tick
    BY <1>1, <2>4 DEF RegistryStep, RegisterHandler, AddTask, EnableTask, DisableTask, Tick,
       plan, exec, service
  <2>5. ASSUME NEW c \in Controllers, Control(c) PROVE RetryInv'
    <3>1. \/ StartLaunch(c)
          \/ UNCHANGED <<panicked, retryCount, at, cur, retry>>
      BY <2>5 DEF Control, StartAlreadyRunning, StartContext, StartPlan, StopNotRunning,
         StopCancel, StopWait, plan, exec, service, vars
    <3> QED
      BY <1>1, <2>3, <3>1
  <2>6. ASSUME NEW e \in Executors, ExecutorStep(e) PROVE RetryInv'
    BY <2>1, <2>2, <2>6 DEF ExecutorStep
  <2>7. [Next]_vars
    BY <1>3
  <2> QED
    BY <1>2, <2>4, <2>5, <2>6, <2>7, Steps
<1> QED
  BY <1>2, <1>3

\* However many goroutines start and stop the service and run tasks by hand: in a
\* behaviour in which no two executions of a task overlap, a task is retried at most
\* MaxRetries times and the shift that computes the delay is never negative.
THEOREM RetriesBounded == Spec => RetryBound
<1>1. Init => RetryInv
  <2> SUFFICES ASSUME Init PROVE RetryInv
    OBVIOUS
  <2>1. \A e \in Executors : at[e] \notin {"retry", "backoff"}
    BY DEF Init, Executors
  <2>2. Alone /\ ~panicked /\ \A t \in Tasks : retryCount[t] <= RetriesOf(t)
    BY RetriesNat DEF Init, Alone
  <2> QED
    BY <2>1, <2>2 DEF RetryInv
<1>2. TypeInv /\ RetryInv /\ [Next]_vars /\ Alone' => RetryInv'
  BY RetryStep
<1>3. RetryInv => RetriesInBounds
  BY DEF RetryInv, RetriesInBounds
<1> QED
  BY <1>1, <1>2, <1>3, InitTypeInv, TypeInvStep, PTL DEF Spec, RetryBound

-----------------------------------------------------------------------------
(* The distance of two starts by the loop *)

\* A start of task t at time n keeps its distance from one at time s.
Apart(t, s, n) ==
  IF Interval[t] > 0 THEN n - s >= Min({Interval[t], RetryDelay})
  ELSE \E m \in CronMinutes[t] : s < m /\ m <= n

\* The tasks that keep it: those on an interval, and those on a cron schedule if
\* nobody runs tasks by hand and the search for the next match never comes back
\* without one.
Spaced(t) ==
  \/ Interval[t] > 0
  \/ Manual = {} /\ \A n \in Times : CronMatches(t, n + 1, n + Horizon) # {}

Executing(t) == \E l \in Loops : at[l] \in Busy /\ cur[l] = t

\* What the loop knows of a task it has started: nobody plans it too early while
\* the loop is not in it, and a pass has not collected it too early.
Planned(t) ==
  /\ lastStart[t] # Never =>
       /\ lastRun[t] >= lastStart[t]
       /\ ~Executing(t) => Apart(t, lastStart[t], nextRun[t])
  /\ \A l \in Loops : at[l] \notin Gone /\ t \in batch[l] =>
       /\ lastStart[t] # Never => Apart(t, lastStart[t], now)
       /\ ~(at[l] \in Busy /\ cur[l] = t)

PastTimes ==
  /\ \A l \in Loops : ticked[l] <= now
  /\ \A t \in Tasks : lastStart[t] <= now

PlanInv ==
  /\ ControlInv /\ TypeInv /\ PastTimes
  /\ \A t \in Tasks : Spaced(t) => Planned(t)

LEMMA SpacingBounds ==
  ASSUME NEW t \in Tasks, Interval[t] > 0
  PROVE  /\ Min({Interval[t], RetryDelay}) \in Nat
         /\ Min({Interval[t], RetryDelay}) <= Interval[t]
         /\ Min({Interval[t], RetryDelay}) <= RetryDelay
<1>1. Interval[t] \in Nat /\ RetryDelay \in Nat
  BY TasksAssumption, LimitsAssumption
<1>2. \E x \in {Interval[t], RetryDelay} : \A y \in {Interval[t], RetryDelay} : x <= y
  BY <1>1
<1> QED
  BY <1>1, <1>2 DEF Min

LEMMA ApartLater ==
  ASSUME NEW t \in Tasks, NEW s \in Int, NEW n \in Int, NEW k \in Int, n <= k,
         Apart(t, s, n)
  PROVE  Apart(t, s, k)
<1>1. CASE Interval[t] > 0
  BY <1>1, SpacingBounds DEF Apart
<1>2. CASE ~(Interval[t] > 0)
  <2>1. PICK m \in CronMinutes[t] : s < m /\ m <= n
    BY <1>2 DEF Apart
  <2>2. m \in Nat
    BY TasksAssumption
  <2> QED
    BY <1>2, <2>1, <2>2 DEF Apart
<1> QED
  BY <1>1, <1>2

LEMMA PastTimesStep == PastTimes /\ TypeInv /\ [Next]_vars => PastTimes'
<1> SUFFICES ASSUME PastTimes, TypeInv, [Next]_vars PROVE PastTimes'
  OBVIOUS
<1>0. /\ now \in Nat /\ ticked \in [Loops -> Int] /\ lastStart \in [Tasks -> Int]
  BY LimitsAssumption DEF TypeInv, TimesTyped, Times, Never
<1>1. CASE Tick
  BY <1>0, <1>1 DEF Tick, PastTimes, history
<1>2. CASE UNCHANGED <<now, ticked, lastStart>>
  BY <1>2 DEF PastTimes
<1>3. ASSUME NEW l \in Loops, LoopCollect(l) PROVE PastTimes'
  BY <1>0, <1>3 DEF LoopCollect, PastTimes, Never, history
<1>4. ASSUME NEW l \in Loops, NEW t \in Tasks, LoopExecute(l, t) PROVE PastTimes'
  BY <1>0, <1>4 DEF LoopExecute, PastTimes
<1> QED
  BY <1>1, <1>2, <1>3, <1>4
     DEF Next, RegisterHandler, AddTask, EnableTask, DisableTask, Control,
         StartAlreadyRunning, StartContext, StartPlan, StartLaunch, StopNotRunning,
         StopCancel, StopWait, Execute, HandlerReturnsNil, HandlerFails, CountRetry, PlanRetry, ShiftPanics, Reload,
         RunLoop, LoopSelect, LoopExit, LoopReschedule, RunTask, loop, exec, history, vars

\* The next run of a task, as calculateNextRun leaves it.
LEMMA NextRunApart ==
  ASSUME TypeInv, PastTimes, NEW t \in Tasks, Spaced(t), lastStart[t] # Never,
         lastRun[t] >= lastStart[t], NEW late \in BOOLEAN
  PROVE  Apart(t, lastStart[t], NextRunOf(t, now, late))
<1>1. /\ Interval[t] \in Nat /\ now \in Times /\ now \in Nat /\ CronMinutes[t] \subseteq Nat
      /\ lastStart[t] \in Nat /\ lastRun[t] \in Nat /\ lastStart[t] <= now
  BY TasksAssumption, LimitsAssumption DEF TypeInv, TimesTyped, Times, PastTimes, Never
<1>2. CASE Interval[t] > 0
  <2> DEFINE from == IF late THEN now + 1 ELSE now
  <2>1. NextRunOf(t, now, late) = CatchUp(lastRun[t], Interval[t], from)
    BY <1>1, <1>2 DEF NextRunOf, Never
  <2>2. /\ CatchUp(lastRun[t], Interval[t], from) \in Int
        /\ CatchUp(lastRun[t], Interval[t], from) >= lastRun[t] + Interval[t]
    <3>1. lastRun[t] \in Int /\ from \in Int /\ Interval[t] \in Nat \ {0}
      BY <1>1, <1>2
    <3> HIDE DEF from
    <3> QED
      BY <3>1, CatchUpBeyond
  <2> HIDE DEF CatchUp, from
  <2> QED
    BY <1>1, <1>2, <2>1, <2>2, SpacingBounds DEF Apart
<1>3. CASE ~(Interval[t] > 0)
  <2> DEFINE later == CronMatches(t, now + 1, now + Horizon)
  <2>1. later # {}
    BY <1>1, <1>3 DEF Spaced
  <2>2. NextRunOf(t, now, late) = Min(later)
    BY <1>3, <2>1 DEF NextRunOf
  <2>3. later \subseteq Nat
    BY <1>1 DEF CronMatches
  <2>4. Min(later) \in later
    <3> HIDE DEF later
    <3> QED
      BY <2>1, <2>3, MinOfNaturals
  <2>5. Min(later) \in CronMinutes[t] /\ now + 1 <= Min(later) /\ Min(later) \in Nat
    BY <2>3, <2>4 DEF CronMatches
  <2> HIDE DEF later
  <2> QED
    BY <1>1, <1>3, <2>2, <2>5 DEF Apart
<1> QED
  BY <1>2, <1>3

\* While a loop is between two tasks, nothing is executing.
LEMMA OneAtATime ==
  ASSUME ControlInv, NEW l \in Loops, at[l] \notin Gone
  PROVE  \A k \in Loops : at[k] \notin Gone => k = l
  BY DEF ControlInv, OneLoop

\* A step in which no loop moves and the plan of t is kept, or is a good one.
LEMMA LoopsAlone ==
  ASSUME TypeInv, NEW t \in Tasks, Planned(t), UNCHANGED <<now, lastStart, batch>>,
         \A l \in Loops : at'[l] = at[l] /\ cur'[l] = cur[l],
         lastStart[t] # Never =>
           /\ lastRun'[t] >= lastStart[t]
           /\ nextRun'[t] = nextRun[t] \/ Apart(t, lastStart[t], nextRun'[t])
  PROVE  Planned(t)'
<1>1. Executing(t)' = Executing(t)
  BY DEF Executing
<1> QED
  BY <1>1 DEF Planned

\* Somebody runs a task by hand, and may plan a retry of it.
LEMMA ManualStep ==
  ASSUME PlanInv, NEW m \in Manual, Execute(m) \/ Reload(m) \/ \E u \in Tasks : RunTask(m, u),
         NEW t \in Tasks, Spaced(t)
  PROVE  Planned(t)'
<1>0. TypeInv /\ Typed /\ PastTimes /\ Planned(t) /\ m \in Executors /\ m \notin Loops
  BY ExecutorsAssumption DEF PlanInv, TypeInv, Executors
<1>1. Interval[t] > 0
  BY DEF Spaced
<1>2. now \in Nat /\ lastRun[t] \in Int /\ lastStart[t] \in Int /\ lastStart[t] <= now
      /\ lastRun \in [Tasks -> Times \cup {Never}]
      /\ nextRun \in [Tasks -> Nat \cup {Never}]
  BY <1>0, LimitsAssumption DEF TypeInv, TimesTyped, Times, PastTimes, Never
<1>3. /\ UNCHANGED <<now, lastStart, batch>>
      /\ \A l \in Loops : at'[l] = at[l] /\ cur'[l] = cur[l]
  BY <1>0 DEF Execute, HandlerReturnsNil, HandlerFails, GoesToRetry, CountRetry, PlanRetry,
     ShiftPanics, Reload, RunTask, Return, Typed, Executors, loop, history
<1>4. CASE UNCHANGED nextRun
  <2>1. lastRun'[t] \in {lastRun[t], now}
    BY <1>2 DEF Execute, HandlerReturnsNil, HandlerFails, CountRetry, PlanRetry, ShiftPanics,
       Reload, RunTask, plan
  <2>2. lastStart[t] # Never => lastRun[t] >= lastStart[t]
    BY <1>0 DEF Planned
  <2> QED
    BY <1>0, <1>2, <1>3, <1>4, <2>1, <2>2, LoopsAlone
<1>5. CASE PlanRetry(m)
  <2>1. retry[m] \in Nat \ {0}
    BY <1>0, <1>5 DEF PlanRetry, TypeInv, RetryKnown
  <2>2. /\ Backoff[retry[m]] \in Nat /\ Backoff[retry[m]] >= RetryDelay
        /\ RetryDelay \in Nat
    BY <2>1, BackoffBounds, LimitsAssumption
  <2> DEFINE next == now + Backoff[retry[m]]
  <2>3. Apart(t, lastStart[t], next)
    BY <1>1, <1>2, <2>2, SpacingBounds DEF Apart
  <2>4. nextRun'[t] = nextRun[t] \/ nextRun'[t] = next
    BY <1>2, <1>5 DEF PlanRetry
  <2>5. lastRun'[t] = lastRun[t] /\ (lastStart[t] # Never => lastRun[t] >= lastStart[t])
    BY <1>0, <1>5 DEF PlanRetry, Planned
  <2> HIDE DEF next
  <2> QED
    BY <1>0, <1>3, <2>3, <2>4, <2>5, LoopsAlone
<1> QED
  BY <1>4, <1>5 DEF Execute, HandlerReturnsNil, HandlerFails, CountRetry, ShiftPanics,
     Reload, RunTask, plan

\* One case for each action that changes the plan, the pass or what executes.
LEMMA PlannedStep ==
  ASSUME NEW c, Controllers = {c}, PlanInv, [Next]_vars, NEW t \in Tasks, Spaced(t)
  PROVE  Planned(t)'
<1>0. /\ Typed /\ OneLoop /\ ControlInv /\ StopInOrder(c)
      /\ TypeInv /\ TimesTyped /\ PastTimes /\ Planned(t)
  BY DEF PlanInv, ControlInv, TypeInv
<1>a. /\ now \in Nat /\ lastRun[t] \in Int /\ lastStart[t] \in Int /\ nextRun[t] \in Int
      /\ nextRun \in [Tasks -> Nat \cup {Never}]
      /\ \A l \in Loops : ticked[l] \in Int /\ l \in Executors
  BY <1>0, LimitsAssumption DEF TimesTyped, Times, Never, Executors
<1>1. CASE StartPlan(c)
  <2>1. UNCHANGED <<now, lastRun, lastStart, batch, at, cur>>
    BY <1>1 DEF StartPlan, loop, exec, history
  <2>2. \/ \E late \in BOOLEAN : nextRun'[t] = NextRunOf(t, now, late)
        \/ nextRun'[t] = nextRun[t]
    <3>1. PICK lates \in SUBSET present :
            nextRun' = [u \in Tasks |->
              IF u \in present THEN NextRunOf(u, now, u \in lates) ELSE nextRun[u]]
      BY <1>1 DEF StartPlan
    <3>2. (t \in lates) \in BOOLEAN
      OBVIOUS
    <3>3. nextRun'[t] = IF t \in present THEN NextRunOf(t, now, t \in lates) ELSE nextRun[t]
      BY <3>1
    <3> QED
      BY <3>2, <3>3
  <2>3. lastStart[t] # Never => lastRun[t] >= lastStart[t]
    BY <1>0 DEF Planned
  <2>4. lastStart[t] # Never =>
          nextRun'[t] = nextRun[t] \/ Apart(t, lastStart[t], nextRun'[t])
    BY <1>0, <2>2, <2>3, NextRunApart
  <2> QED
    BY <1>0, <2>1, <2>3, <2>4, LoopsAlone
<1>2. CASE StartLaunch(c)
  <2>1. born + 1 \in Loops /\ at[born + 1] = "unborn" /\ batch[born + 1] = {}
    BY <1>0, <1>2, LimitsAssumption DEF StartLaunch, Typed, OneLoop, Loops
  <2>2. /\ at'[born + 1] = "batch"
        /\ \A l \in Loops : l # born + 1 => at'[l] = at[l]
    BY <1>0, <1>2, <2>1 DEF StartLaunch, Typed, Executors
  <2>3. UNCHANGED <<now, lastRun, lastStart, nextRun, batch, cur>>
    BY <1>2 DEF StartLaunch, plan, loop, history
  <2>4. Executing(t)' = Executing(t)
    BY <2>1, <2>2, <2>3 DEF Executing, Busy
  <2> QED
    BY <1>0, <2>1, <2>2, <2>3, <2>4 DEF Planned
<1>3. ASSUME NEW l \in Loops, NEW u \in Tasks, LoopExecute(l, u) PROVE Planned(t)'
  <2>1. /\ at[l] = "batch" /\ at'[l] = "handler" /\ cur'[l] = u
        /\ batch'[l] = batch[l] \ {u}
        /\ UNCHANGED <<now, nextRun>>
    BY <1>0, <1>a, <1>3 DEF LoopExecute, Typed
  <2>2. \A k \in Loops : k # l => at'[k] = at[k] /\ cur'[k] = cur[k] /\ at[k] \in Gone
    BY <1>0, <1>a, <1>3, <2>1, OneAtATime DEF LoopExecute, Typed, Gone
  <2>3. ~Executing(t)
    BY <2>1, <2>2 DEF Executing, Busy, Gone
  <2>4. CASE t = u
    <3>1. lastRun'[t] = now /\ lastStart'[t] = now
      BY <1>0, <1>3, <2>4 DEF LoopExecute, TimesTyped
    <3>2. Executing(t)'
      BY <2>1, <2>4 DEF Executing, Busy
    <3>3. \A k \in Loops : at'[k] \notin Gone => t \notin batch'[k]
      BY <2>1, <2>2, <2>4
    <3> QED
      BY <1>a, <3>1, <3>2, <3>3 DEF Planned
  <2>5. CASE t # u
    <3>1. lastRun'[t] = lastRun[t] /\ lastStart'[t] = lastStart[t]
      BY <1>0, <1>3, <2>5 DEF LoopExecute, TimesTyped
    <3>2. \A k \in Loops : at'[k] \notin Gone /\ t \in batch'[k] =>
            k = l /\ t \in batch[l] /\ cur'[k] # t
      BY <2>1, <2>2, <2>5
    <3>3. at[l] \notin Gone
      BY <2>1 DEF Gone
    <3> QED
      BY <1>0, <2>1, <2>3, <3>1, <3>2, <3>3 DEF Planned
  <2> QED
    BY <2>4, <2>5
<1>4. ASSUME NEW l \in Loops, Execute(l) \/ Reload(l) PROVE Planned(t)'
  <2>1. /\ at[l] \in Busy /\ at'[l] \in Busy /\ cur' = cur
        /\ \A k \in Loops : k # l => at'[k] = at[k]
        /\ UNCHANGED <<now, lastRun, lastStart, batch>>
    BY <1>0, <1>a, <1>4 DEF Execute, HandlerReturnsNil, HandlerFails, GoesToRetry,
       CountRetry, PlanRetry, ShiftPanics, Reload, Return, Busy, Typed, plan, loop, exec,
       history
  <2>2. Executing(t)' = Executing(t)
    BY <2>1 DEF Executing
  <2>3. at[l] \notin Gone /\ \A k \in Loops : at'[k] \notin Gone => at[k] \notin Gone
    BY <2>1 DEF Busy, Gone
  <2>4. cur[l] # t => nextRun'[t] = nextRun[t]
    BY <1>a, <1>4 DEF Execute, HandlerReturnsNil, HandlerFails, CountRetry, PlanRetry,
       ShiftPanics, Reload, plan
  <2>5. CASE cur[l] = t
    <3>1. Executing(t) /\ t \notin batch[l]
      BY <1>0, <2>1, <2>3, <2>5 DEF Executing, Planned
    <3>2. \A k \in Loops : at'[k] \notin Gone => k = l
      BY <1>0, <2>3, OneAtATime
    <3> QED
      BY <1>0, <2>1, <2>2, <3>1, <3>2 DEF Planned
  <2>6. CASE cur[l] # t
    <3>1. \A k \in Loops : (at'[k] \in Busy /\ cur[k] = t) => (at[k] \in Busy /\ cur[k] = t)
      BY <2>1, <2>6
    <3> QED
      BY <1>0, <2>1, <2>2, <2>3, <2>4, <2>6, <3>1 DEF Planned
  <2> QED
    BY <2>5, <2>6
<1>5. ASSUME NEW l \in Loops, LoopReschedule(l) PROVE Planned(t)'
  <2>1. /\ at[l] = "reschedule" /\ at'[l] = "batch" /\ cur[l] \in Tasks
        /\ UNCHANGED <<now, lastRun, lastStart, batch>>
    BY <1>0, <1>a, <1>5 DEF LoopReschedule, Typed, Busy, loop, history
  <2>2. \A k \in Loops : k # l => at'[k] = at[k] /\ cur'[k] = cur[k] /\ at[k] \in Gone
    BY <1>0, <1>a, <1>5, <2>1, OneAtATime DEF LoopReschedule, Typed, Gone
  <2>3. at[l] \in Busy /\ at[l] \notin Gone /\ at'[l] \notin Busy
    BY <2>1 DEF Busy, Gone
  <2>4. CASE cur[l] = t
    <3>1. \E late \in BOOLEAN : nextRun'[t] = NextRunOf(t, now, late)
      BY <1>a, <1>5, <2>4 DEF LoopReschedule
    <3>2. t \notin batch[l]
      BY <1>0, <2>3, <2>4 DEF Planned
    <3>3. \A k \in Loops : at'[k] \notin Gone => k = l
      BY <2>2
    <3>4. lastStart[t] # Never => Apart(t, lastStart[t], nextRun'[t])
      BY <1>0, <3>1, NextRunApart DEF Planned
    <3> QED
      BY <1>0, <2>1, <3>2, <3>3, <3>4 DEF Planned
  <2>5. CASE cur[l] # t
    <3>1. nextRun'[t] = nextRun[t]
      BY <1>a, <1>5, <2>5 DEF LoopReschedule
    <3>2. ~Executing(t)
      BY <2>2, <2>5 DEF Executing, Busy, Gone
    <3> QED
      BY <1>0, <2>1, <2>2, <2>3, <3>1, <3>2 DEF Planned
  <2> QED
    BY <2>4, <2>5
<1>6. ASSUME NEW l \in Loops, LoopCollect(l) PROVE Planned(t)'
  <2>1. /\ at[l] = "select" /\ at'[l] = "batch"
        /\ batch'[l] \subseteq DueTasks(ticked[l]) /\ ticked[l] \in Int /\ ticked[l] <= now
        /\ UNCHANGED <<now, lastRun, lastStart, nextRun, cur>>
    BY <1>0, <1>a, <1>6 DEF LoopCollect, PastTimes, Typed, plan, history
  <2>2. \A k \in Loops : k # l => at'[k] = at[k] /\ at[k] \in Gone
    BY <1>0, <1>a, <1>6, <2>1, OneAtATime DEF LoopCollect, Typed, Gone
  <2>3. ~Executing(t)
    BY <2>1, <2>2 DEF Executing, Busy, Gone
  <2>4. t \in batch'[l] => nextRun[t] <= now
    BY <1>a, <2>1 DEF DueTasks
  <2>5. t \in batch'[l] /\ lastStart[t] # Never => Apart(t, lastStart[t], now)
    BY <1>0, <1>a, <2>3, <2>4, ApartLater DEF Planned
  <2> QED
    BY <1>0, <2>1, <2>2, <2>3, <2>5 DEF Planned, Busy
<1>7. ASSUME NEW l \in Loops, LoopSelect(l) \/ LoopExit(l) PROVE Planned(t)'
  <2>1. /\ at[l] \notin Busy \cup Gone /\ at'[l] \notin Busy
        /\ \A k \in Loops : k # l => at'[k] = at[k]
        /\ UNCHANGED <<now, lastRun, lastStart, nextRun, batch, cur>>
    BY <1>0, <1>a, <1>7 DEF LoopSelect, LoopExit, Typed, Busy, Gone, plan, loop, history
  <2>2. Executing(t)' = Executing(t)
    BY <2>1 DEF Executing
  <2> QED
    BY <1>0, <2>1, <2>2 DEF Planned
<1>8. CASE Tick
  <2>1. UNCHANGED <<lastRun, lastStart, nextRun, batch, at, cur>> /\ now' = now + 1
    BY <1>8 DEF Tick, plan, exec, history
  <2>2. Apart(t, lastStart[t], now) => Apart(t, lastStart[t], now + 1)
    BY <1>a, ApartLater
  <2>3. Executing(t)' = Executing(t)
    BY <2>1 DEF Executing
  <2> QED
    BY <1>0, <2>1, <2>2, <2>3 DEF Planned
<1>9. CASE UNCHANGED <<now, lastRun, lastStart, nextRun, batch, at, cur>>
  BY <1>0, <1>9 DEF Planned, Executing
<1>10. CASE RegistryStep \/ UNCHANGED vars
  BY <1>9, <1>10 DEF RegistryStep, RegisterHandler, AddTask, EnableTask, DisableTask,
     plan, loop, exec, history, vars
<1>11. CASE Control(c)
  <2>1. \/ StartPlan(c) \/ StartLaunch(c)
        \/ UNCHANGED <<now, lastRun, lastStart, nextRun, batch, at, cur>>
    BY <1>11 DEF Control, StartAlreadyRunning, StartContext, StopNotRunning, StopCancel,
       StopWait, plan, loop, exec, history, vars
  <2> QED
    BY <1>1, <1>2, <1>9, <2>1
<1>12. ASSUME NEW e \in Executors, ExecutorStep(e) PROVE Planned(t)'
  <2>1. CASE e \in Loops
    <3>1. Execute(e) \/ Reload(e) \/ RunLoop(e)
      BY <1>12, <2>1, ExecutorsAssumption DEF ExecutorStep
    <3> QED
      BY <2>1, <3>1, <1>3, <1>4, <1>5, <1>6, <1>7 DEF RunLoop
  <2>2. CASE e \in Manual
    <3>1. Execute(e) \/ Reload(e) \/ \E u \in Tasks : RunTask(e, u)
      BY <1>12, <2>2, ExecutorsAssumption DEF ExecutorStep
    <3> QED
      BY <2>2, <3>1, ManualStep
  <2> QED
    BY <2>1, <2>2 DEF Executors
<1> QED
  BY <1>8, <1>10, <1>11, <1>12, Steps

LEMMA InitPlan == Init => PlanInv
<1> SUFFICES ASSUME Init PROVE PlanInv
  OBVIOUS
<1>1. PastTimes
  BY DEF Init, PastTimes, Never
<1>2. ASSUME NEW t \in Tasks PROVE Planned(t)
  BY <1>1 DEF Init, Planned
<1> QED
  BY <1>1, <1>2, InitControl, InitTypeInv DEF PlanInv

LEMMA PlanHolds ==
  ASSUME NEW c, Controllers = {c}
  PROVE  Spec => []PlanInv
<1>1. PlanInv /\ [Next]_vars => PlanInv'
  BY ControlStep, TypeInvStep, PastTimesStep, PlannedStep DEF PlanInv
<1> QED
  BY <1>1, InitPlan, PTL DEF Spec

\* A task that the loop starts again has kept its distance.
LEMMA StartApart ==
  ASSUME PlanInv, [Next]_vars, NEW t \in Tasks, Spaced(t),
         lastStart'[t] # lastStart[t], lastStart[t] # Never
  PROVE  Apart(t, lastStart[t], lastStart'[t])
<1>0. TypeInv /\ Typed /\ TimesTyped /\ Planned(t)
  BY DEF PlanInv, TypeInv
<1>1. PICK l \in Loops, u \in Tasks : LoopExecute(l, u)
  BY DEF Next, RegisterHandler, AddTask, EnableTask, DisableTask, Control,
     StartAlreadyRunning, StartContext, StartPlan, StartLaunch, StopNotRunning,
     StopCancel, StopWait, Execute, HandlerReturnsNil, HandlerFails, CountRetry, PlanRetry, ShiftPanics, Reload,
     RunLoop, LoopSelect, LoopExit, LoopCollect, LoopReschedule, RunTask, Tick,
     history, vars
<1>2. t = u /\ lastStart'[t] = now
  BY <1>0, <1>1 DEF LoopExecute, TimesTyped
<1>3. at[l] \notin Gone /\ t \in batch[l]
  BY <1>1, <1>2 DEF LoopExecute, Gone
<1> QED
  BY <1>0, <1>2, <1>3 DEF Planned

\* Two starts of an interval task by the loop are at least its interval or the
\* delay of a retry apart, whoever runs it by hand in between: no tick that waited
\* in the channel, no run by hand and no restart of the service brings one forward
\* (scheduler.go, calculateNextRun and executeTask).
THEOREM IntervalStartsSpaced ==
  ASSUME NEW c, Controllers = {c}
  PROVE  Spec => StartsSpaced
<1>1. ASSUME PlanInv, [Next]_vars, NEW t \in Tasks,
             Interval[t] > 0, lastStart'[t] # lastStart[t], lastStart[t] # Never
      PROVE  lastStart'[t] - lastStart[t] >= Min({Interval[t], RetryDelay})
  BY <1>1, StartApart DEF Apart, Spaced
<1>2. PlanInv /\ [Next]_vars =>
        [\A t \in Tasks :
           (Interval[t] > 0 /\ lastStart'[t] # lastStart[t] /\ lastStart[t] # Never)
             => lastStart'[t] - lastStart[t] >= Min({Interval[t], RetryDelay})]_vars
  BY <1>1
<1> QED
  BY <1>2, PlanHolds, PTL DEF Spec, StartsSpaced

\* Between two starts of a cron task lies a minute of its schedule, if nobody runs
\* tasks by hand and the search always finds a match.  Both are needed: a failure
\* by hand plans a retry that no loop overwrites, and a search without a match
\* (a 29th of February) leaves the NextRun of the last run in place.
THEOREM CronStartsApart ==
  ASSUME Manual = {}, NEW c, Controllers = {c},
         \A t \in Tasks, n \in Times :
           Interval[t] = 0 => CronMatches(t, n + 1, n + Horizon) # {}
  PROVE  Spec => CronStartsSpaced
<1>1. ASSUME PlanInv, [Next]_vars, NEW t \in Tasks,
             Interval[t] = 0, lastStart'[t] # lastStart[t], lastStart[t] # Never
      PROVE  \E m \in CronMinutes[t] : lastStart[t] < m /\ m <= lastStart'[t]
  <2>1. Spaced(t)
    BY <1>1 DEF Spaced
  <2>2. Apart(t, lastStart[t], lastStart'[t])
    BY <1>1, <2>1, StartApart
  <2> QED
    BY <1>1, <2>2 DEF Apart
<1>2. PlanInv /\ [Next]_vars =>
        [\A t \in Tasks :
           (Interval[t] = 0 /\ lastStart'[t] # lastStart[t] /\ lastStart[t] # Never)
             => \E m \in CronMinutes[t] : lastStart[t] < m /\ m <= lastStart'[t]]_vars
  BY <1>1
<1> QED
  BY <1>2, PlanHolds, PTL DEF Spec, CronStartsSpaced
=============================================================================
