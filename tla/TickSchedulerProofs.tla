------------------------- MODULE TickSchedulerProofs -------------------------
(***************************************************************************)
(* For every set of tasks and callers, every schedule, ticker and clock    *)
(* bound the scheduler's state stays well formed.                          *)
(*                                                                         *)
(* As long as the scheduler has been started once, as main does: handlers  *)
(* that end before the next tick never overlap, interval tasks run neither *)
(* early nor late, and a cron task runs once in each matching minute if    *)
(* the window and the ticker's period agree.  The argument is a bound on   *)
(* the phase of the loop, between its last tick and its next one.          *)
(***************************************************************************)
EXTENDS TickScheduler, TLAPS

-----------------------------------------------------------------------------
(* Minutes. *)

LEMMA DivMod ==
  ASSUME NEW m \in Nat \ {0}, NEW a \in Nat
  PROVE  /\ a % m \in 0 .. m - 1
         /\ a \div m \in Nat
         /\ a = m * (a \div m) + (a % m)
  OBVIOUS

\* Quotient and remainder are unique.
LEMMA DivModUnique ==
  ASSUME NEW m \in Nat \ {0}, NEW q \in Int, NEW p \in Int,
         NEW r \in 0 .. m - 1, NEW s \in 0 .. m - 1,
         m * q + r = m * p + s
  PROVE  q = p /\ r = s
<1>1. CASE q = p
  BY <1>1
<1>2. CASE q > p
  <2>1. q - p >= 1
    BY <1>2
  <2>2. m * (q - p) = s - r
    OBVIOUS
  <2>3. m * (q - p) >= m
    BY <2>1
  <2> QED
    BY <2>2, <2>3
<1>3. CASE q < p
  <2>1. p - q >= 1
    BY <1>3
  <2>2. m * (p - q) = r - s
    OBVIOUS
  <2>3. m * (p - q) >= m
    BY <2>1
  <2> QED
    BY <2>2, <2>3
<1> QED
  BY <1>1, <1>2, <1>3

\* Two times of one minute are as far apart as their seconds.
LEMMA SameMinute ==
  ASSUME NEW m \in Nat \ {0}, NEW a \in Nat, NEW b \in Nat, a \div m = b \div m
  PROVE  a - b = (a % m) - (b % m)
<1>1. a = m * (a \div m) + (a % m) /\ b = m * (a \div m) + (b % m)
  BY DivMod
<1> QED
  BY <1>1, DivMod

\* The next unit of time begins a minute or belongs to the same one.
LEMMA NextUnit ==
  ASSUME NEW m \in Nat \ {0}, NEW a \in Nat
  PROVE  \/ (a + 1) % m = 0
         \/ (a + 1) % m = (a % m) + 1 /\ (a + 1) \div m = a \div m
<1> DEFINE q == a \div m
           r == a % m
           p == (a + 1) \div m
           s == (a + 1) % m
<1>1. /\ r \in 0 .. m - 1 /\ q \in Nat /\ a = m * q + r
      /\ s \in 0 .. m - 1 /\ p \in Nat /\ a + 1 = m * p + s
  BY DivMod, a + 1 \in Nat
<1> HIDE DEF q, r, p, s
<1>2. CASE r = m - 1
  <2>1. a + 1 = m * (q + 1) + 0
    BY <1>1, <1>2
  <2>2. m * p + s = m * (q + 1) + 0 /\ 0 \in 0 .. m - 1 /\ q + 1 \in Int
    BY <1>1, <2>1
  <2>3. s = 0
    BY <1>1, <2>2, DivModUnique
  <2> QED
    BY <2>3 DEF s
<1>3. CASE r # m - 1
  <2>1. r + 1 \in 0 .. m - 1 /\ m * p + s = m * q + (r + 1)
    BY <1>1, <1>3
  <2>2. s = r + 1 /\ p = q
    BY <1>1, <2>1, DivModUnique
  <2> QED
    BY <2>2 DEF s, r, p, q
<1> QED
  BY <1>2, <1>3

-----------------------------------------------------------------------------
(* Types. *)

LEMMA InitTyped == Init => TypeOK
<1> SUFFICES ASSUME Init PROVE TypeOK
  OBVIOUS
<1>1. DOMAIN loops = {} /\ loops \in [DOMAIN loops -> Loop]
  BY DEF Init
<1>2. now \in Times
  BY TimeAssumption DEF Init, Times
<1>3. born \in 0 .. MaxStarts /\ DOMAIN loops \subseteq 1 .. born
  BY <1>1, TimeAssumption DEF Init
<1>4. runs \subseteq Run
  BY DEF Init
<1> QED
  BY <1>1, <1>2, <1>3, <1>4 DEF Init, TypeOK

\* The types of the loops, apart from those of everything else.
LoopsTyped ==
  /\ born \in 0 .. MaxStarts
  /\ DOMAIN loops \subseteq 1 .. born
  /\ loops \in [DOMAIN loops -> Loop]

LEMMA LaunchTyped ==
  ASSUME TypeOK, NEW c \in Callers, StartLaunch(c)
  PROVE  LoopsTyped'
<1>1. DOMAIN loops' = DOMAIN loops \cup {born + 1}
  BY DEF StartLaunch
<1>2. born + 1 \in 1 .. MaxStarts /\ born' = born + 1
  BY TimeAssumption DEF StartLaunch, TypeOK
<1>3. DOMAIN loops' \subseteq 1 .. born'
  BY <1>1, <1>2, TimeAssumption DEF TypeOK
<1>4. [born |-> now, due |-> now + Period] \in Loop
  BY TimeAssumption DEF TypeOK, Loop, Times
<1>5. loops' \in [DOMAIN loops' -> Loop]
  BY <1>1, <1>4 DEF StartLaunch, TypeOK
<1> QED
  BY <1>2, <1>3, <1>5, TimeAssumption DEF LoopsTyped

LEMMA TickTyped ==
  ASSUME TypeOK, NEW l \in LoopIds, LoopTick(l)
  PROVE  LoopsTyped' /\ runs' \subseteq Run /\ lastStart' \in [Tasks -> Times \cup {Never}]
<1>1. /\ l \in DOMAIN loops
      /\ loops[l] \in Loop
  BY DEF LoopTick, TypeOK
<1>2. [loops[l] EXCEPT !.due = @ + Period] \in Loop
  BY <1>1, TimeAssumption DEF Loop
<1>3. /\ DOMAIN loops' = DOMAIN loops
      /\ loops' \in [DOMAIN loops' -> Loop]
  BY <1>1, <1>2 DEF LoopTick, TypeOK
<1>4. \A t \in Tasks : [task |-> t, loop |-> l, at |-> now] \in Run
  BY DEF Run, TypeOK
<1>5. runs' \subseteq Run
  BY <1>4 DEF LoopTick, TypeOK
<1>6. lastStart' \in [Tasks -> Times \cup {Never}]
  BY DEF LoopTick, TypeOK
<1> QED
  BY <1>3, <1>5, <1>6 DEF LoopsTyped, LoopTick, TypeOK, life

LEMMA ExitTyped ==
  ASSUME TypeOK, NEW l \in LoopIds, LoopExit(l)
  PROVE  LoopsTyped'
<1>1. loops' = [k \in DOMAIN loops \ {l} |-> loops[k]]
  BY DEF LoopExit, Restrict
<1>2. DOMAIN loops' \subseteq DOMAIN loops
  BY <1>1
<1>3. loops' \in [DOMAIN loops' -> Loop]
  BY <1>1 DEF TypeOK
<1> QED
  BY <1>2, <1>3 DEF LoopsTyped, LoopExit, TypeOK, life

LEMMA NextTyped == TypeOK /\ [Next]_vars => TypeOK'
<1> SUFFICES ASSUME TypeOK, [Next]_vars PROVE TypeOK'
  OBVIOUS
<1>1. ASSUME NEW t \in Tasks, Register(t) PROVE TypeOK'
  BY <1>1 DEF TypeOK, Register, life
<1>2. ASSUME NEW t \in Tasks, Disable(t) PROVE TypeOK'
  BY <1>2 DEF TypeOK, Disable, life
<1>3. ASSUME NEW c \in Callers, StartFlag(c) PROVE TypeOK'
  BY <1>3 DEF TypeOK, StartFlag, registry
<1>4. ASSUME NEW c \in Callers, StartLaunch(c) PROVE TypeOK'
  BY <1>4, LaunchTyped DEF TypeOK, LoopsTyped, StartLaunch, registry
<1>5. ASSUME NEW c \in Callers, StopFlag(c) PROVE TypeOK'
  BY <1>5 DEF TypeOK, StopFlag, registry
<1>6. ASSUME NEW c \in Callers, StopClose(c) PROVE TypeOK'
  BY <1>6 DEF TypeOK, StopClose, registry
<1>7. ASSUME NEW l \in LoopIds, LoopTick(l) PROVE TypeOK'
  BY <1>7, TickTyped DEF TypeOK, LoopsTyped, LoopTick, registry, life
<1>8. ASSUME NEW l \in LoopIds, LoopExit(l) PROVE TypeOK'
  BY <1>8, ExitTyped DEF TypeOK, LoopsTyped, LoopExit, registry, life
<1>9. ASSUME NEW run \in runs, RunEnd(run) PROVE TypeOK'
  BY <1>9 DEF TypeOK, RunEnd, life
<1>10. CASE Tick
  <2>1. now' \in Times
    BY <1>10, TimeAssumption DEF TypeOK, Tick, Times
  <2> QED
    BY <2>1, <1>10 DEF TypeOK, Tick, registry, life
<1>11. CASE UNCHANGED vars
  BY <1>11 DEF TypeOK, vars
<1> QED
  BY <1>1, <1>2, <1>3, <1>4, <1>5, <1>6, <1>7, <1>8, <1>9, <1>10, <1>11
     DEF Next, StartStop, StartAlreadyRunning, StopNotRunning

\* The registry, the loops and the goroutines of the scheduler are always well
\* formed, whoever starts and stops it and however late its ticks are.
THEOREM TickTypesHold == Spec => []TypeOK
  BY InitTyped, NextTyped, PTL DEF Spec

-----------------------------------------------------------------------------
(* Registration comes before Start. *)

AllRegistered ==
  \A t \in Tasks : task[t] = IF t \in DisabledTasks THEN "disabled" ELSE "enabled"

RegisteredFirst == (born > 0 \/ \E c \in Callers : pc[c] = "launch") => AllRegistered

RegInv == TypeOK /\ RegisteredFirst

LEMMA RegStep ==
  ASSUME ~RegisterWhileRunning, RegInv, [Next]_vars
  PROVE  RegInv'
<1>0. TypeOK'
  BY NextTyped DEF RegInv
<1>1. AllRegistered => AllRegistered'
  <2> SUFFICES ASSUME AllRegistered PROVE AllRegistered'
    OBVIOUS
  <2>1. \A t \in Tasks : ~Register(t) /\ ~Disable(t)
    BY DEF AllRegistered, Register, Disable
  <2>2. UNCHANGED task
    BY <2>1 DEF Next, StartStop, StartAlreadyRunning, StartFlag, StartLaunch,
       StopNotRunning, StopFlag, StopClose, LoopTick, LoopExit, RunEnd, Tick,
       registry, vars
  <2> QED
    BY <2>2 DEF AllRegistered
<1>2. RegisteredFirst'
  <2> SUFFICES ASSUME born' > 0 \/ \E c \in Callers : pc'[c] = "launch"
               PROVE  AllRegistered
    BY <1>1 DEF RegisteredFirst
  <2>1. ASSUME NEW c \in Callers, StartFlag(c) PROVE AllRegistered
    BY <2>1 DEF StartFlag, Registered, AllRegistered
  <2>2. ASSUME NEW c \in Callers, StartLaunch(c) PROVE AllRegistered
    BY <2>2 DEF StartLaunch, RegInv, RegisteredFirst
  <2>3. ASSUME NEW c \in Callers, StopFlag(c) \/ StopClose(c) PROVE AllRegistered
    BY <2>3 DEF StopFlag, StopClose, RegInv, RegisteredFirst, TypeOK
  <2>4. CASE UNCHANGED <<born, pc>>
    BY <2>4 DEF RegInv, RegisteredFirst
  <2> QED
    BY <2>1, <2>2, <2>3, <2>4
       DEF Next, StartStop, StartAlreadyRunning, StopNotRunning, Register, Disable,
           LoopTick, LoopExit, RunEnd, Tick, registry, life, vars
<1> QED
  BY <1>0, <1>2 DEF RegInv

LEMMA RegHolds ==
  ASSUME ~RegisterWhileRunning
  PROVE  Spec => []RegInv
<1>1. Init => RegInv
  BY InitTyped, ScheduleAssumption
     DEF Init, RegInv, RegisteredFirst
<1>2. RegInv /\ [Next]_vars => RegInv'
  BY RegStep
<1> QED
  BY <1>1, <1>2, PTL DEF Spec

-----------------------------------------------------------------------------
(* A scheduler that has been started once. *)

LEMMA BornGrows ==
  ASSUME TypeOK, [Next]_vars, StartedOnce'
  PROVE  StartedOnce
<1>1. born' = born \/ born' = born + 1
  BY DEF Next, StartStop, StartAlreadyRunning, StartFlag, StartLaunch, StopNotRunning,
     StopFlag, StopClose, Register, Disable, LoopTick, LoopExit, RunEnd, Tick, life, vars
<1> QED
  BY <1>1 DEF TypeOK, StartedOnce

\* The loop is between two ticks, a handler within its time.
InPhase ==
  /\ \A t \in Tasks : lastStart[t] <= now
  /\ \A l \in DOMAIN loops : loops[l].due <= now + Period /\ now <= loops[l].due + MaxDelay
  /\ \A run \in runs : run.at <= now /\ now <= run.at + MaxRun

\* Before the first loop nothing has run.
Untouched ==
  born = 0 => /\ DOMAIN loops = {} /\ runs = {}
              /\ \A t \in Tasks : lastStart[t] = Never /\ lastRun[t] = Never

\* The next tick is a period after the last start.
TickFollows ==
  \A l \in DOMAIN loops :
    /\ \A run \in runs : run.at + Period <= loops[l].due + MaxDelay
    /\ \A t \in Tasks :
         lastStart[t] # Never => lastStart[t] + Period <= loops[l].due + MaxDelay

PhaseInv == TypeOK /\ InPhase /\ Untouched /\ TickFollows

LEMMA LaunchPhase ==
  ASSUME StartedOnce', PhaseInv, NEW c \in Callers, StartLaunch(c)
  PROVE  (InPhase /\ Untouched /\ TickFollows)'
<1>1. born = 0 /\ born' = 1
  BY DEF StartLaunch, StartedOnce, PhaseInv, TypeOK
<1>2. DOMAIN loops = {} /\ runs = {} /\ \A t \in Tasks : lastStart[t] = Never
  BY <1>1 DEF PhaseInv, Untouched
<1>3. loops' = [l \in {1} |-> [born |-> now, due |-> now + Period]]
  BY <1>1, <1>2 DEF StartLaunch
<1>4. UNCHANGED <<now, runs, lastStart>>
  BY DEF StartLaunch
<1>5. now \in Nat /\ Period \in Nat /\ MaxDelay \in Nat
  BY TimeAssumption DEF PhaseInv, TypeOK, Times
<1>6. InPhase'
  BY <1>2, <1>3, <1>4, <1>5 DEF InPhase, PhaseInv
<1> QED
  BY <1>1, <1>2, <1>3, <1>4, <1>6 DEF Untouched, TickFollows

\* What a tick does to the phase of the loop.
LEMMA TickMoves ==
  ASSUME TypeOK, NEW l \in LoopIds, LoopTick(l)
  PROVE  /\ l \in DOMAIN loops /\ DOMAIN loops' = DOMAIN loops
         /\ loops[l].due \in Nat /\ loops[l].due <= now
         /\ loops'[l].due = loops[l].due + Period
         /\ loops'[l].born = loops[l].born
         /\ StartedOnce => DOMAIN loops = {l}
<1>1. l \in DOMAIN loops /\ loops[l].due <= now
  BY DEF LoopTick
<1>2. loops[l] \in Loop
  BY <1>1 DEF TypeOK
<1>3. /\ DOMAIN loops' = DOMAIN loops
      /\ loops'[l] = [loops[l] EXCEPT !.due = @ + Period]
  BY <1>1 DEF LoopTick, TypeOK
<1>4. loops'[l].due = loops[l].due + Period /\ loops'[l].born = loops[l].born
  BY <1>2, <1>3 DEF Loop
<1>5. ASSUME StartedOnce PROVE DOMAIN loops \subseteq {1}
  <2>1. 1 .. born \subseteq {1}
    BY <1>5 DEF TypeOK, StartedOnce
  <2> QED
    BY <2>1 DEF TypeOK
<1> QED
  BY <1>1, <1>2, <1>3, <1>4, <1>5 DEF Loop

LEMMA TickPhase ==
  ASSUME StartedOnce, PhaseInv, NEW l \in LoopIds, LoopTick(l)
  PROVE  (InPhase /\ Untouched /\ TickFollows)'
<1> DEFINE D == loops[l].due
<1>0. TypeOK
  BY DEF PhaseInv
<1>1. /\ DOMAIN loops = {l} /\ DOMAIN loops' = {l}
      /\ D \in Nat /\ D <= now /\ loops'[l].due = D + Period
  BY <1>0, TickMoves
<1>2. now \in Nat /\ {Period, MaxDelay, MaxRun} \subseteq Nat
  BY TimeAssumption DEF PhaseInv, TypeOK, Times
<1>3. now <= D + MaxDelay
  BY <1>1 DEF PhaseInv, InPhase
<1>4. UNCHANGED <<now, born>>
  BY DEF LoopTick, life
<1>5. ASSUME NEW run \in runs'
      PROVE  /\ run.at <= now /\ now <= run.at + MaxRun
             /\ run.at + Period <= D + Period + MaxDelay
  <2>1. CASE run \in runs
    BY <2>1, <1>1, <1>2 DEF PhaseInv, InPhase, TickFollows, TypeOK, Run, Times
  <2>2. CASE run \notin runs
    <3>1. run.at = now
      BY <2>2 DEF LoopTick
    <3> QED
      BY <3>1, <1>2, <1>3, <1>1
  <2> QED
    BY <2>1, <2>2
<1>6. ASSUME NEW t \in Tasks, lastStart'[t] # Never
      PROVE  lastStart'[t] + Period <= D + Period + MaxDelay
  <2>1. CASE lastStart'[t] = now
    BY <2>1, <1>1, <1>2, <1>3
  <2>2. CASE lastStart'[t] = lastStart[t]
    BY <2>2, <1>1, <1>2, <1>6 DEF PhaseInv, TickFollows, TypeOK, Times, Never
  <2> QED
    BY <2>1, <2>2 DEF LoopTick
<1>7. born # 0
  BY <1>1 DEF PhaseInv, Untouched
<1> HIDE DEF D
<1>8. InPhase'
  <2>1. \A t \in Tasks : lastStart'[t] <= now
    BY <1>2 DEF LoopTick, PhaseInv, InPhase
  <2> QED
    BY <2>1, <1>1, <1>2, <1>3, <1>4, <1>5 DEF InPhase
<1>9. TickFollows'
  BY <1>1, <1>5, <1>6 DEF TickFollows
<1> QED
  BY <1>4, <1>7, <1>8, <1>9 DEF Untouched

LEMMA PhaseStep ==
  ASSUME StartedOnce', PhaseInv, [Next]_vars
  PROVE  PhaseInv'
<1>0. TypeOK' /\ StartedOnce
  BY NextTyped, BornGrows DEF PhaseInv
<1>1. ASSUME NEW c \in Callers, StartLaunch(c) PROVE PhaseInv'
  BY <1>0, <1>1, LaunchPhase DEF PhaseInv
<1>2. ASSUME NEW l \in LoopIds, LoopTick(l) PROVE PhaseInv'
  BY <1>0, <1>2, TickPhase DEF PhaseInv
<1>3. ASSUME NEW l \in LoopIds, LoopExit(l) PROVE PhaseInv'
  <2>1. /\ DOMAIN loops' \subseteq DOMAIN loops
        /\ \A k \in DOMAIN loops' : loops'[k] = loops[k]
    BY <1>3 DEF LoopExit, Restrict
  <2> QED
    BY <1>0, <1>3, <2>1 DEF PhaseInv, InPhase, Untouched, TickFollows, LoopExit, registry, life
<1>4. ASSUME NEW run \in runs, RunEnd(run) PROVE PhaseInv'
  <2>1. born # 0
    BY DEF PhaseInv, Untouched
  <2> QED
    BY <1>0, <1>4, <2>1 DEF PhaseInv, InPhase, Untouched, TickFollows, RunEnd, life
<1>5. CASE Tick
  <2>1. now \in Nat /\ {Period, MaxDelay, MaxRun} \subseteq Nat /\ now' = now + 1
    BY <1>5, TimeAssumption DEF PhaseInv, TypeOK, Times, Tick
  <2>2. ASSUME NEW l \in DOMAIN loops
        PROVE  loops[l].due <= now' + Period /\ now' <= loops[l].due + MaxDelay
    BY <1>5, <2>1 DEF PhaseInv, InPhase, TypeOK, Loop, Tick, Prompt
  <2>3. ASSUME NEW run \in runs
        PROVE  run.at <= now' /\ now' <= run.at + MaxRun
    BY <1>5, <2>1 DEF PhaseInv, InPhase, TypeOK, Run, Times, Tick
  <2>4. \A t \in Tasks : lastStart[t] <= now'
    BY <2>1 DEF PhaseInv, InPhase, TypeOK, Times, Never
  <2> QED
    BY <1>0, <1>5, <2>2, <2>3, <2>4
       DEF PhaseInv, InPhase, Untouched, TickFollows, Tick, registry, life
<1>6. CASE UNCHANGED <<now, loops, born, runs, lastRun, lastStart>>
  BY <1>0, <1>6 DEF PhaseInv, InPhase, Untouched, TickFollows
<1> QED
  BY <1>1, <1>2, <1>3, <1>4, <1>5, <1>6
     DEF Next, StartStop, StartAlreadyRunning, StartFlag, StopNotRunning, StopFlag,
         StopClose, Register, Disable, registry, life, vars

LEMMA PhaseHolds ==
  Spec => [](StartedOnce => PhaseInv)
<1>1. Init => PhaseInv
  BY InitTyped, TimeAssumption DEF Init, PhaseInv, InPhase, Untouched, TickFollows, Never
<1>2. TypeOK /\ (StartedOnce => PhaseInv) /\ [Next]_vars => (StartedOnce => PhaseInv)'
  BY PhaseStep, BornGrows
<1> QED
  BY <1>1, <1>2, TickTypesHold, PTL DEF Spec

-----------------------------------------------------------------------------
(* Handlers that end before the next tick. *)

\* Every start is under way or recorded in LastRun.
StartsRecorded ==
  \A t \in Tasks :
    lastStart[t] = Never \/ lastStart[t] <= lastRun[t] \/ \E run \in runs : run.task = t

AloneInv == PhaseInv /\ NoOverlap /\ StartsRecorded

\* When the loop ticks all handlers have returned.
LEMMA TickFindsNobody ==
  ASSUME MaxRun + MaxDelay < Period, PhaseInv,
         NEW l \in LoopIds, LoopTick(l)
  PROVE  runs = {}
<1> SUFFICES ASSUME NEW run \in runs PROVE FALSE
  OBVIOUS
<1>1. TypeOK /\ l \in DOMAIN loops /\ loops[l].due <= now /\ loops[l].due \in Nat
  BY TickMoves DEF PhaseInv
<1>2. run.at + Period <= loops[l].due + MaxDelay /\ now <= run.at + MaxRun
  BY <1>1 DEF PhaseInv, TickFollows, InPhase
<1>3. run.at \in Nat /\ now \in Nat /\ {Period, MaxDelay, MaxRun} \subseteq Nat
  BY <1>1, TimeAssumption DEF TypeOK, Run, Times
<1> QED
  BY <1>1, <1>2, <1>3

LEMMA AloneStep ==
  ASSUME StartedOnce', MaxRun + MaxDelay < Period, AloneInv, [Next]_vars
  PROVE  AloneInv'
<1>0. PhaseInv' /\ TypeOK /\ StartedOnce
  BY PhaseStep, BornGrows DEF AloneInv, PhaseInv
<1>1. ASSUME NEW l \in LoopIds, LoopTick(l) PROVE AloneInv'
  <2>1. runs = {}
    BY <1>1, TickFindsNobody DEF AloneInv
  <2>2. NoOverlap'
    BY <1>1, <2>1 DEF LoopTick, NoOverlap
  <2>3. ASSUME NEW t \in Tasks
        PROVE  \/ lastStart'[t] = Never \/ lastStart'[t] <= lastRun'[t]
               \/ \E run \in runs' : run.task = t
    <3>1. lastRun' = lastRun
      BY <1>1 DEF LoopTick, registry
    <3>2. CASE task[t] = "enabled" /\ Due(t)
      <4>1. [task |-> t, loop |-> l, at |-> now] \in runs'
        BY <1>1, <3>2 DEF LoopTick
      <4> QED
        BY <4>1
    <3>3. CASE ~(task[t] = "enabled" /\ Due(t))
      <4>1. lastStart'[t] = lastStart[t]
        BY <1>1, <3>3 DEF LoopTick
      <4> QED
        BY <2>1, <3>1, <4>1 DEF AloneInv, StartsRecorded
    <3> QED
      BY <3>2, <3>3
  <2> QED
    BY <1>0, <2>2, <2>3 DEF AloneInv, StartsRecorded
<1>2. ASSUME NEW run \in runs, RunEnd(run) PROVE AloneInv'
  <2>1. NoOverlap'
    BY <1>0, <1>2 DEF RunEnd, AloneInv, NoOverlap
  <2>2. ASSUME NEW t \in Tasks
        PROVE  \/ lastStart'[t] = Never \/ lastStart'[t] <= lastRun'[t]
               \/ \E other \in runs' : other.task = t
    <3>1. CASE t = run.task
      <4>1. lastRun'[t] = now /\ lastStart' = lastStart
        BY <1>2, <3>1, <1>0 DEF RunEnd, TypeOK
      <4>2. lastStart[t] <= now
        BY DEF AloneInv, PhaseInv, InPhase
      <4> QED
        BY <4>1, <4>2
    <3>2. CASE t # run.task
      BY <1>2, <3>2, <1>0 DEF RunEnd, AloneInv, StartsRecorded, TypeOK
    <3> QED
      BY <3>1, <3>2
  <2> QED
    BY <1>0, <2>1, <2>2 DEF AloneInv, StartsRecorded
<1>3. CASE UNCHANGED <<runs, lastRun, lastStart>>
  BY <1>0, <1>3 DEF AloneInv, NoOverlap, StartsRecorded
<1> QED
  BY <1>1, <1>2, <1>3
     DEF Next, StartStop, StartAlreadyRunning, StartFlag, StartLaunch, StopNotRunning,
         StopFlag, StopClose, Register, Disable, LoopExit, Tick, registry, life, vars

LEMMA AloneHolds ==
  ASSUME MaxRun + MaxDelay < Period
  PROVE  Spec => [](StartedOnce => AloneInv)
<1>1. Init => AloneInv
  BY InitTyped, TimeAssumption
     DEF Init, AloneInv, PhaseInv, InPhase, Untouched, TickFollows, NoOverlap,
         StartsRecorded, Never
<1>2. TypeOK /\ (StartedOnce => AloneInv) /\ [Next]_vars => (StartedOnce => AloneInv)'
  BY AloneStep, BornGrows
<1> QED
  BY <1>1, <1>2, TickTypesHold, PTL DEF Spec

\* If every handler ends before the next tick, however late the last one was,
\* no task ever runs twice at a time, although the loop does not look.
THEOREM HandlersDoNotOverlap ==
  ASSUME MaxRun + MaxDelay < Period
  PROVE  Spec => []NoOverlap
<1>1. (StartedOnce => AloneInv) => NoOverlap
  BY DEF AloneInv, NoOverlap
<1> QED
  BY <1>1, AloneHolds, PTL

\* Only a tick starts a task, and only one that is due.
LEMMA StartIsDue ==
  ASSUME TypeOK, [Next]_vars, NEW run \in runs' \ runs
  PROVE  \E l \in LoopIds :
           /\ LoopTick(l)
           /\ run.task \in Tasks /\ run.at = now
           /\ task[run.task] = "enabled" /\ Due(run.task)
<1>1. PICK l \in LoopIds : LoopTick(l)
  BY DEF Next, StartStop, StartAlreadyRunning, StartFlag, StartLaunch, StopNotRunning,
     StopFlag, StopClose, Register, Disable, LoopExit, RunEnd, Tick, life, vars
<1>2. PICK t \in Tasks : task[t] = "enabled" /\ Due(t) /\ run = [task |-> t, loop |-> l, at |-> now]
  BY <1>1 DEF LoopTick
<1> QED
  BY <1>1, <1>2

\* Two starts of an interval task are at least its interval apart.
THEOREM IntervalsAreKept ==
  ASSUME MaxRun + MaxDelay < Period
  PROVE  Spec => StartsSpaced
<1>1. ASSUME AloneInv, [Next]_vars, NEW run \in runs' \ runs,
             Interval[run.task] > 0, lastStart[run.task] # Never
      PROVE  run.at - lastStart[run.task] >= Interval[run.task]
  <2>1. TypeOK
    BY <1>1 DEF AloneInv, PhaseInv
  <2> DEFINE t == run.task
  <2>2. PICK l \in LoopIds :
          LoopTick(l) /\ t \in Tasks /\ run.at = now /\ Due(t)
    BY <1>1, <2>1, StartIsDue
  <2>3. runs = {}
    BY <1>1, <2>2, TickFindsNobody DEF AloneInv
  <2>4. lastStart[t] <= lastRun[t]
    BY <1>1, <2>2, <2>3 DEF AloneInv, StartsRecorded
  <2>5. lastRun[t] \in Times \cup {Never} /\ lastStart[t] \in Times /\ now \in Times
    BY <1>1, <2>1, <2>2 DEF TypeOK
  <2>6. now - lastRun[t] >= Interval[t]
    BY <1>1, <2>2, <2>4, <2>5, TimeAssumption
       DEF Due, IntervalElapsed, Never, Times
  <2>7. Interval[t] \in Nat
    BY <2>2, ScheduleAssumption
  <2> QED
    BY <2>2, <2>4, <2>5, <2>6, <2>7, TimeAssumption DEF Times, Never
<1>2. (StartedOnce => AloneInv) /\ [Next]_vars =>
        [\A run \in runs' \ runs :
           (StartedOnce /\ Interval[run.task] > 0 /\ lastStart[run.task] # Never)
             => run.at - lastStart[run.task] >= Interval[run.task]]_vars
  BY <1>1
<1> QED
  BY <1>2, AloneHolds, PTL DEF Spec, StartsSpaced

-----------------------------------------------------------------------------
(* Cron tasks. *)

\* A window no longer than the ticker's period is met by at most one tick of
\* each minute, so a cron task is started at most once in it.
THEOREM CronAtMostOnce ==
  ASSUME Window + MaxDelay <= Period
  PROVE  Spec => OncePerMinute
<1>1. ASSUME PhaseInv, [Next]_vars, NEW run \in runs' \ runs,
             Interval[run.task] = 0, lastStart[run.task] # Never
      PROVE  run.at \div Minute # lastStart[run.task] \div Minute
  <2>1. TypeOK
    BY <1>1 DEF PhaseInv
  <2> DEFINE t == run.task
             s == lastStart[t]
  <2>2. PICK l \in LoopIds :
          LoopTick(l) /\ t \in Tasks /\ run.at = now /\ Due(t)
    BY <1>1, <2>1, StartIsDue
  <2>3. now % Minute < Window
    BY <1>1, <2>2 DEF Due, InWindow
  <2>4. l \in DOMAIN loops /\ loops[l].due \in Nat /\ loops[l].due <= now
    BY <2>1, <2>2, TickMoves
  <2>5. s + Period <= loops[l].due + MaxDelay
    BY <1>1, <2>2, <2>4 DEF PhaseInv, TickFollows
  <2>6. s \in Nat /\ now \in Nat
    BY <1>1, <2>1, <2>2, TimeAssumption DEF TypeOK, Times
  <2>7. {Period, MaxDelay, Window} \subseteq Nat /\ Minute \in Nat \ {0}
    BY TimeAssumption
  <2> HIDE DEF s
  <2>8. now - s >= Window
    BY <2>4, <2>5, <2>6, <2>7
  <2>9. ASSUME now \div Minute = s \div Minute PROVE FALSE
    <3>1. now - s = (now % Minute) - (s % Minute)
      BY <2>6, <2>7, <2>9, SameMinute
    <3>2. s % Minute \in Nat /\ now % Minute \in Nat
      BY <2>6, <2>7, DivMod
    <3> QED
      BY <3>1, <3>2, <2>3, <2>7, <2>8
  <2> QED
    BY <2>2, <2>9 DEF s
<1>2. (StartedOnce => PhaseInv) /\ [Next]_vars =>
        [\A run \in runs' \ runs :
           (StartedOnce /\ Interval[run.task] = 0 /\ lastStart[run.task] # Never)
             => run.at \div Minute # lastStart[run.task] \div Minute]_vars
  BY <1>1
<1> QED
  BY <1>2, PhaseHolds, PTL DEF Spec, OncePerMinute

-----------------------------------------------------------------------------
(* No task is late. *)

Idle(t) == \A run \in runs : run.task # t

\* An idle interval task was not due at the last tick.
NotOverdue ==
  \A t \in Tasks, l \in DOMAIN loops :
    (Interval[t] > 0 /\ task[t] = "enabled" /\ Idle(t)) =>
      IF lastRun[t] = Never THEN loops[l].due = loops[l].born + Period
      ELSE loops[l].due < lastRun[t] + Interval[t] + Period

\* A cron task whose minute has had a tick was started in it.
MinuteServed ==
  \A t \in Tasks, l \in DOMAIN loops :
    (/\ Interval[t] = 0 /\ task[t] = "enabled" /\ ShouldRun(t)
     /\ loops[l].born < MinuteStart /\ loops[l].due - Period >= MinuteStart)
      => lastStart[t] >= MinuteStart

ServedInv == PhaseInv /\ RegInv /\ NotOverdue

CronInv == PhaseInv /\ RegInv /\ MinuteServed

LEMMA LaunchServed ==
  ASSUME StartedOnce', PhaseInv, NEW c \in Callers, StartLaunch(c)
  PROVE  /\ loops' = [l \in {1} |-> [born |-> now, due |-> now + Period]]
         /\ \A t \in Tasks : lastRun'[t] = Never
         /\ now' = now /\ now \in Nat
<1>1. born = 0
  BY DEF StartLaunch, StartedOnce, PhaseInv, TypeOK
<1>2. DOMAIN loops = {} /\ \A t \in Tasks : lastRun[t] = Never
  BY <1>1 DEF PhaseInv, Untouched
<1> QED
  BY <1>1, <1>2 DEF StartLaunch, registry, PhaseInv, TypeOK, Times

\* Once there is a loop, registration is over.
LEMMA RegistrationOver ==
  ASSUME RegInv, DOMAIN loops # {}, NEW t \in Tasks, Register(t) \/ Disable(t)
  PROVE  FALSE
<1>1. born > 0
  BY DEF RegInv, TypeOK
<1> QED
  BY <1>1 DEF RegInv, RegisteredFirst, AllRegistered, Register, Disable

LEMMA NotOverdueStep ==
  ASSUME StartedOnce', ServedInv, [Next]_vars
  PROVE  NotOverdue'
<1>0. TypeOK /\ PhaseInv /\ RegInv /\ NotOverdue /\ StartedOnce
  BY BornGrows DEF ServedInv, PhaseInv
<1>a. now \in Nat /\ Period \in Nat
  BY <1>0, TimeAssumption DEF TypeOK, Times
<1>1. ASSUME NEW c \in Callers, StartLaunch(c) PROVE NotOverdue'
  BY <1>0, <1>1, LaunchServed DEF NotOverdue
<1>2. ASSUME NEW l \in LoopIds, LoopTick(l) PROVE NotOverdue'
  <2>1. /\ DOMAIN loops' = {l} /\ loops[l].due \in Nat /\ loops[l].due <= now
        /\ loops'[l].due = loops[l].due + Period
    BY <1>0, <1>2, TickMoves
  <2>2. UNCHANGED <<task, lastRun>>
    BY <1>2 DEF LoopTick, registry
  <2>3. ASSUME NEW t \in Tasks, Interval[t] > 0, task[t] = "enabled", Idle(t)'
        PROVE  lastRun[t] # Never /\ now - lastRun[t] < Interval[t]
    <3>1. ~Due(t)
      <4> SUFFICES ASSUME Due(t) PROVE FALSE
        OBVIOUS
      <4>1. [task |-> t, loop |-> l, at |-> now] \in runs'
        BY <1>2, <2>3 DEF LoopTick
      <4> QED
        BY <2>3, <4>1 DEF Idle
    <3>2. lastRun[t] \in Int /\ Interval[t] \in Nat
      BY <1>0, ScheduleAssumption, TimeAssumption DEF TypeOK, Times, Never
    <3> QED
      BY <1>a, <2>3, <3>1, <3>2 DEF Due, IntervalElapsed
  <2>4. \A t \in Tasks : lastRun[t] \in Int /\ Interval[t] \in Nat
    BY <1>0, ScheduleAssumption, TimeAssumption DEF TypeOK, Times, Never
  <2> QED
    BY <1>a, <2>1, <2>2, <2>3, <2>4 DEF NotOverdue
<1>3. ASSUME NEW run \in runs, RunEnd(run) PROVE NotOverdue'
  <2>1. UNCHANGED <<task, loops>> /\ runs' = runs \ {run}
    BY <1>3 DEF RunEnd, life
  <2> SUFFICES ASSUME NEW t \in Tasks, NEW l \in DOMAIN loops,
                      Interval[t] > 0, task[t] = "enabled", Idle(t)'
               PROVE  IF lastRun'[t] = Never THEN loops[l].due = loops[l].born + Period
                      ELSE loops[l].due < lastRun'[t] + Interval[t] + Period
    BY <2>1 DEF NotOverdue
  <2>2. CASE t = run.task
    <3>1. lastRun'[t] = now
      BY <1>0, <1>3, <2>2 DEF RunEnd, TypeOK
    <3>2. loops[l].due <= now + Period /\ loops[l].due \in Nat
      BY <1>0 DEF PhaseInv, InPhase, TypeOK, Loop
    <3>3. Interval[t] \in Nat
      BY ScheduleAssumption
    <3> QED
      BY <1>a, <3>1, <3>2, <3>3 DEF Never
  <2>3. CASE t # run.task
    <3>1. Idle(t) /\ lastRun'[t] = lastRun[t]
      BY <1>0, <1>3, <2>1, <2>3 DEF Idle, RunEnd, TypeOK
    <3> QED
      BY <1>0, <3>1 DEF NotOverdue
  <2> QED
    BY <2>2, <2>3
<1>4. ASSUME NEW l \in LoopIds, LoopExit(l) PROVE NotOverdue'
  <2>1. /\ DOMAIN loops' \subseteq DOMAIN loops
        /\ \A k \in DOMAIN loops' : loops'[k] = loops[k]
    BY <1>4 DEF LoopExit, Restrict
  <2> QED
    BY <1>0, <1>4, <2>1 DEF NotOverdue, Idle, LoopExit, registry
<1>5. ASSUME NEW t \in Tasks, Register(t) \/ Disable(t) PROVE NotOverdue'
  <2>1. DOMAIN loops' = {}
    BY <1>0, <1>5, RegistrationOver DEF Register, Disable
  <2> QED
    BY <2>1 DEF NotOverdue
<1>6. CASE UNCHANGED <<task, lastRun, loops, runs>>
  BY <1>0, <1>6 DEF NotOverdue, Idle
<1> QED
  BY <1>1, <1>2, <1>3, <1>4, <1>5, <1>6
     DEF Next, StartStop, StartAlreadyRunning, StartFlag, StopNotRunning, StopFlag,
         StopClose, Tick, registry, life, vars

LEMMA ServedHolds ==
  ASSUME ~RegisterWhileRunning
  PROVE  Spec => [](StartedOnce => ServedInv)
<1>1. Init => NotOverdue
  BY DEF Init, NotOverdue
<1>2. TypeOK /\ (StartedOnce => ServedInv) /\ [Next]_vars /\ StartedOnce' => NotOverdue'
  BY NotOverdueStep, BornGrows
<1>3. ServedInv <=> PhaseInv /\ RegInv /\ NotOverdue
  BY DEF ServedInv
<1> QED
  BY <1>1, <1>2, <1>3, TickTypesHold, PhaseHolds, RegHolds, PTL DEF Spec

\* An idle interval task is started again no later than a tick after its
\* interval is over, however late ticks are and however long handlers run.
THEOREM IntervalTasksArePunctual ==
  ASSUME ~RegisterWhileRunning
  PROVE  Spec => []Punctual
<1>1. (StartedOnce => ServedInv) => Punctual
  <2> SUFFICES ASSUME ServedInv, NEW t \in Tasks, NEW l \in DOMAIN loops,
                      Interval[t] > 0, task[t] = "enabled",
                      \A run \in runs : run.task # t
               PROVE  IF lastRun[t] = Never
                      THEN now - loops[l].born <= Period + MaxDelay
                      ELSE now - lastRun[t] < Interval[t] + Period + MaxDelay
    BY DEF Punctual
  <2>1. TypeOK /\ now <= loops[l].due + MaxDelay
    BY DEF ServedInv, PhaseInv, InPhase
  <2>2. IF lastRun[t] = Never THEN loops[l].due = loops[l].born + Period
        ELSE loops[l].due < lastRun[t] + Interval[t] + Period
    BY DEF ServedInv, NotOverdue, Idle
  <2>3. /\ {now, Period, MaxDelay, Interval[t], loops[l].due, loops[l].born} \subseteq Nat
        /\ lastRun[t] \in Int
    BY <2>1, TimeAssumption, ScheduleAssumption DEF TypeOK, Loop, Times, Never
  <2> QED
    BY <2>1, <2>2, <2>3
<1> QED
  BY <1>1, ServedHolds, PTL

LEMMA CronStep ==
  ASSUME StartedOnce', Period + MaxDelay <= Window, CronInv, [Next]_vars
  PROVE  MinuteServed'
<1>0. TypeOK /\ PhaseInv /\ RegInv /\ MinuteServed /\ StartedOnce
  BY BornGrows DEF CronInv, PhaseInv
<1>a. /\ now \in Nat /\ {Period, MaxDelay, Window} \subseteq Nat
      /\ now % Minute \in Nat /\ MinuteStart \in Int /\ MinuteStart <= now
  BY <1>0, TimeAssumption, DivMod DEF TypeOK, Times, MinuteStart
<1>1. ASSUME NEW c \in Callers, StartLaunch(c) PROVE MinuteServed'
  <2>1. /\ loops' = [l \in {1} |-> [born |-> now, due |-> now + Period]]
        /\ now' = now
    BY <1>0, <1>1, LaunchServed
  <2>2. MinuteStart' = MinuteStart
    BY <2>1 DEF MinuteStart
  <2> QED
    BY <1>a, <2>1, <2>2 DEF MinuteServed
<1>2. ASSUME NEW l \in LoopIds, LoopTick(l) PROVE MinuteServed'
  <2>1. /\ l \in DOMAIN loops /\ DOMAIN loops' = {l}
        /\ loops[l].due \in Nat /\ loops[l].due <= now
        /\ loops'[l].due = loops[l].due + Period
        /\ loops'[l].born = loops[l].born
    BY <1>0, <1>2, TickMoves
  <2>2. UNCHANGED <<now, task>>
    BY <1>2 DEF LoopTick, registry
  <2>3. MinuteStart' = MinuteStart /\ \A t \in Tasks : ShouldRun(t)' = ShouldRun(t)
    BY <2>2 DEF MinuteStart, ShouldRun
  <2>4. ASSUME NEW t \in Tasks, Interval[t] = 0, task[t] = "enabled", ShouldRun(t),
               loops[l].born < MinuteStart, loops[l].due >= MinuteStart
        PROVE  lastStart'[t] >= MinuteStart
    <3>1. CASE loops[l].due - Period >= MinuteStart
      <4>1. lastStart[t] >= MinuteStart
        BY <1>0, <2>1, <2>4, <3>1 DEF MinuteServed
      <4>2. lastStart'[t] = now \/ lastStart'[t] = lastStart[t]
        BY <1>2 DEF LoopTick
      <4> QED
        BY <1>a, <4>1, <4>2
    <3>2. CASE loops[l].due - Period < MinuteStart
      <4>1. now <= loops[l].due + MaxDelay
        BY <1>0, <2>1 DEF PhaseInv, InPhase
      <4>2. now - MinuteStart < Window
        BY <1>a, <2>1, <3>2, <4>1
      <4>3. InWindow
        BY <1>a, <4>2 DEF InWindow, MinuteStart
      <4>4. Due(t)
        BY <2>4, <4>3 DEF Due
      <4>5. lastStart'[t] = now
        BY <1>2, <2>4, <4>4 DEF LoopTick
      <4> QED
        BY <1>a, <4>5
    <3> QED
      BY <1>a, <2>1, <3>1, <3>2
  <2> QED
    BY <1>a, <2>1, <2>2, <2>3, <2>4 DEF MinuteServed
<1>3. CASE Tick
  <2>1. now' = now + 1 /\ UNCHANGED <<task, loops, lastStart>>
    BY <1>3 DEF Tick, registry
  <2>2. Minute \in Nat \ {0}
    BY TimeAssumption
  <2>3. CASE (now + 1) % Minute = 0
    <3>1. MinuteStart' = now + 1
      BY <1>a, <2>1, <2>3 DEF MinuteStart
    <3>2. \A l \in DOMAIN loops : loops[l].due - Period <= now /\ loops[l].due \in Nat
      BY <1>0, <1>a DEF PhaseInv, InPhase, TypeOK, Loop
    <3> QED
      BY <1>a, <2>1, <3>1, <3>2 DEF MinuteServed
  <2>4. CASE (now + 1) % Minute = (now % Minute) + 1 /\ (now + 1) \div Minute = now \div Minute
    <3>1. MinuteStart' = MinuteStart /\ \A t \in Tasks : ShouldRun(t)' = ShouldRun(t)
      BY <1>a, <2>1, <2>4 DEF MinuteStart, ShouldRun
    <3> QED
      BY <1>0, <2>1, <3>1 DEF MinuteServed
  <2> QED
    BY <1>a, <2>2, <2>3, <2>4, NextUnit
<1>4. ASSUME NEW l \in LoopIds, LoopExit(l) PROVE MinuteServed'
  <2>1. /\ DOMAIN loops' \subseteq DOMAIN loops
        /\ \A k \in DOMAIN loops' : loops'[k] = loops[k]
    BY <1>4 DEF LoopExit, Restrict
  <2>2. UNCHANGED <<now, task, lastStart>>
    BY <1>4 DEF LoopExit, registry
  <2>3. MinuteStart' = MinuteStart /\ \A t \in Tasks : ShouldRun(t)' = ShouldRun(t)
    BY <2>2 DEF MinuteStart, ShouldRun
  <2> QED
    BY <1>0, <2>1, <2>2, <2>3 DEF MinuteServed
<1>5. ASSUME NEW t \in Tasks, Register(t) \/ Disable(t) PROVE MinuteServed'
  <2>1. DOMAIN loops' = {}
    BY <1>0, <1>5, RegistrationOver DEF Register, Disable
  <2> QED
    BY <2>1 DEF MinuteServed
<1>6. CASE UNCHANGED <<now, task, loops, lastStart>>
  <2>1. MinuteStart' = MinuteStart /\ \A t \in Tasks : ShouldRun(t)' = ShouldRun(t)
    BY <1>6 DEF MinuteStart, ShouldRun
  <2> QED
    BY <1>0, <1>6, <2>1 DEF MinuteServed
<1> QED
  BY <1>1, <1>2, <1>3, <1>4, <1>5, <1>6
     DEF Next, StartStop, StartAlreadyRunning, StartFlag, StopNotRunning, StopFlag,
         StopClose, RunEnd, registry, life, vars

\* A window no shorter than the period and the delay of a tick is met by a tick
\* of every minute, so no matching minute passes without a start.
THEOREM CronTasksAreNotMissed ==
  ASSUME ~RegisterWhileRunning, Period + MaxDelay <= Window
  PROVE  Spec => []CronNotMissed
<1>1. Init => MinuteServed
  BY DEF Init, MinuteServed
<1>2. TypeOK /\ (StartedOnce => CronInv) /\ [Next]_vars /\ StartedOnce' => MinuteServed'
  BY CronStep, BornGrows
<1>3. Spec => [](StartedOnce => CronInv)
  <2>1. CronInv <=> PhaseInv /\ RegInv /\ MinuteServed
    BY DEF CronInv
  <2> QED
    BY <1>1, <1>2, <2>1, TickTypesHold, PhaseHolds, RegHolds, PTL DEF Spec
<1>4. (StartedOnce => CronInv) => CronNotMissed
  <2> SUFFICES ASSUME CronInv, NEW t \in Tasks, NEW l \in DOMAIN loops,
                      Interval[t] = 0, task[t] = "enabled", ShouldRun(t),
                      now % Minute >= Window, loops[l].born < MinuteStart
               PROVE  lastStart[t] >= MinuteStart
    BY DEF CronNotMissed
  <2>1. TypeOK /\ now <= loops[l].due + MaxDelay
    BY DEF CronInv, PhaseInv, InPhase
  <2>2. now \in Nat /\ loops[l].due \in Nat /\ {Period, MaxDelay, Window} \subseteq Nat
    BY <2>1, TimeAssumption DEF TypeOK, Loop, Times
  <2>3. now % Minute \in Nat
    <3>1. Minute \in Nat \ {0}
      BY TimeAssumption
    <3> QED
      BY <2>2, <3>1, DivMod
  <2>4. loops[l].due - Period >= MinuteStart
    BY <2>1, <2>2, <2>3 DEF MinuteStart
  <2> QED
    BY <2>4 DEF CronInv, MinuteServed
<1> QED
  BY <1>3, <1>4, PTL
====
