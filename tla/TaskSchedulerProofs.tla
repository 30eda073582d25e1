------------------------- MODULE TaskSchedulerProofs -------------------------
(***************************************************************************)
(* Proofs about TaskScheduler, for any tasks, periods, goroutines and      *)
(* bounds.                                                                 *)
(*                                                                         *)
(* NoOverlap is not inductive: that RunAcquire finds the slot free must    *)
(* imply that nobody is inside.  SlotTaken says so, and JobSet gives every *)
(* live goroutine a task, so that its slot exists.                         *)
(*                                                                         *)
(* The last part proves the arithmetic of TaskFormat.                      *)
(***************************************************************************)
EXTENDS TaskScheduler, TaskFormat, TLAPS

(* A goroutine that is not idle runs a task.                               *)
JobSet == \A g \in Goroutines : pc[g] # "idle" => job[g] \in Tasks

(* Whoever is inside Run's section holds the slot of the task's runLock.   *)
SlotTaken == \A g \in Goroutines : HoldsRunLock(g) => runLock[job[g]] = 1

(* The inductive invariant behind NoOverlap.                               *)
LockInv == TypeOK /\ JobSet /\ SlotTaken /\ NoOverlap

-----------------------------------------------------------------------------
(* sort.Sort leaves a sequence of tasks.                                   *)
LEMMA SortedType ==
    ASSUME NEW s \in Seq(Tasks), NEW p \in Sorted(s)
    PROVE  p \in Seq(Tasks)
<1>1. p \in [DOMAIN s -> Range(s)]
  BY DEF Sorted
<1>2. DOMAIN s = 1..Len(s) /\ Len(s) \in Nat
  OBVIOUS
<1>3. Range(s) \subseteq Tasks
  BY DEF Range
<1>4. p \in [1..Len(s) -> Tasks]
  BY <1>1, <1>2, <1>3
<1> QED
  BY <1>2, <1>4

(* `go task.Run()` gives each new goroutine one of the tasks started.      *)
LEMMA SpawnType ==
    ASSUME TypeOK, JobSet, NEW rs \in SUBSET Tasks,
           NEW f \in Injection(rs, Idle), Spawn(rs, f)
    PROVE  /\ pc' \in [Goroutines -> {"idle", "select", "locked", "callback", "returned"}]
           /\ job' \in [Goroutines -> Tasks \cup {NoTask}]
           /\ JobSet'
           /\ \A g \in Goroutines : pc'[g] \notin {"idle", "select"} =>
                pc'[g] = pc[g] /\ job'[g] = job[g]
           /\ \A g \in Goroutines : pc[g] \notin {"idle", "select"} =>
                pc'[g] = pc[g] /\ job'[g] = job[g]
<1>1. f \in [rs -> Idle]
  BY DEF Injection
<1>2. \A g \in Range(f) : \E t \in rs : f[t] = g
  BY <1>1 DEF Range
<1>3. \A g \in Range(f) : (CHOOSE t \in rs : f[t] = g) \in Tasks
  BY <1>2
<1>4. \A g \in Range(f) : pc[g] = "idle"
  BY <1>1, <1>2 DEF Idle
<1>5. /\ pc' = [g \in Goroutines |-> IF g \in Range(f) THEN "select" ELSE pc[g]]
      /\ job' = [g \in Goroutines |-> IF g \in Range(f)
                                      THEN CHOOSE t \in rs : f[t] = g
                                      ELSE job[g]]
  BY DEF Spawn
<1>6. /\ pc \in [Goroutines -> {"idle", "select", "locked", "callback", "returned"}]
      /\ job \in [Goroutines -> Tasks \cup {NoTask}]
  BY DEF TypeOK
<1>7. pc' \in [Goroutines -> {"idle", "select", "locked", "callback", "returned"}]
  BY <1>5, <1>6
<1>8. job' \in [Goroutines -> Tasks \cup {NoTask}]
  BY <1>3, <1>5, <1>6
<1>9. JobSet'
  BY <1>3, <1>5, <1>6 DEF JobSet
<1>10. \A g \in Goroutines : pc[g] \notin {"idle", "select"} =>
          pc'[g] = pc[g] /\ job'[g] = job[g]
  BY <1>4, <1>5
<1>11. \A g \in Goroutines : pc'[g] \notin {"idle", "select"} =>
          pc'[g] = pc[g] /\ job'[g] = job[g]
  BY <1>5
<1> QED
  BY <1>7, <1>8, <1>9, <1>10, <1>11

(* getRunnableTasks returns tasks of the list.                             *)
LEMMA RunnableType ==
    ASSUME NEW s \in Seq(Tasks)
    PROVE  Runnable(s) \in SUBSET Tasks
BY DEF Runnable

-----------------------------------------------------------------------------
(* A call of Stop, Run or Clear is counted.                                *)
LEMMA CountCall ==
    ASSUME NEW c \in [stop : Nat, client : Nat]
    PROVE  /\ [c EXCEPT !.stop = @ + 1] \in [stop : Nat, client : Nat]
           /\ [c EXCEPT !.client = @ + 1] \in [stop : Nat, client : Nat]
OBVIOUS

(* The initial states satisfy the inductive invariant.                     *)
LEMMA LockInvInit == Init => LockInv
<1> SUFFICES ASSUME Init PROVE LockInv
  OBVIOUS
<1> USE DEF Init
<1>1. TypeOK
  <2>1. calls \in [stop : Nat, client : Nat]
    OBVIOUS
  <2>2. tasks \in Seq(Tasks)
    OBVIOUS
  <2> QED
    BY <2>1, <2>2 DEF TypeOK
<1>2. JobSet /\ SlotTaken /\ NoOverlap
  BY DEF JobSet, SlotTaken, NoOverlap, HoldsRunLock
<1> QED
  BY <1>1, <1>2 DEF LockInv

(* One step of any actor keeps types and jobs.                             *)
LEMMA TypeStep == TypeOK /\ JobSet /\ [Next]_vars => TypeOK' /\ JobSet'
<1> SUFFICES ASSUME TypeOK, JobSet, [Next]_vars
             PROVE  TypeOK' /\ JobSet'
  OBVIOUS
<1> USE PeriodAssumption, BoundAssumption
<1>1. ASSUME NEW t \in Tasks, Do(t) PROVE TypeOK' /\ JobSet'
  BY SMTT(30), <1>1 DEF Do, NextRun, TypeOK, JobSet, schedVars, goVars, envVars
<1>2. ASSUME NEW t \in Tasks, Add(t) PROVE TypeOK' /\ JobSet'
  BY <1>2 DEF Add, TypeOK, JobSet, taskVars, goVars, envVars
<1>3. CASE Clear
  <2>1. calls' \in [stop : Nat, client : Nat]
    BY <1>3, CountCall DEF Clear, TypeOK
  <2> QED
    BY <1>3, <2>1 DEF Clear, TypeOK, JobSet, taskVars, goVars
<1>4. CASE Start
  BY <1>4 DEF Start, TypeOK, JobSet, taskVars, goVars, envVars
<1>5. CASE StopEnter
  <2>1. calls' \in [stop : Nat, client : Nat]
    BY <1>5, CountCall DEF StopEnter, TypeOK
  <2> QED
    BY <1>5, <2>1 DEF StopEnter, TypeOK, JobSet, taskVars, goVars
<1>6. CASE StopSend
  BY <1>6 DEF StopSend, TypeOK, JobSet, taskVars, goVars, envVars
<1>7. CASE LoopTick
  BY <1>7 DEF LoopTick, TypeOK, JobSet, taskVars, goVars
<1>8. CASE LoopSort
  <2>1. tasks' \in Seq(Tasks)
    BY <1>8, SortedType DEF LoopSort, TypeOK
  <2> QED
    BY <1>8, <2>1 DEF LoopSort, TypeOK, JobSet, taskVars, goVars, envVars
<1>9. CASE LoopScan
  <2>1. PICK f \in Injection(Runnable(tasks), Idle) : Spawn(Runnable(tasks), f)
    BY <1>9 DEF LoopScan
  <2>2. Runnable(tasks) \in SUBSET Tasks
    BY RunnableType DEF TypeOK
  <2>3. /\ pc' \in [Goroutines -> {"idle", "select", "locked", "callback", "returned"}]
        /\ job' \in [Goroutines -> Tasks \cup {NoTask}]
        /\ JobSet'
    BY <2>1, <2>2, SpawnType
  <2> QED
    BY <1>9, <2>3 DEF LoopScan, TypeOK, taskVars, envVars
<1>10. CASE LoopQuit
  BY <1>10 DEF LoopQuit, TypeOK, JobSet, taskVars, goVars
<1>11. ASSUME NEW t \in Tasks, CallRun(t) PROVE TypeOK' /\ JobSet'
  <2>1. PICK f \in Injection({t}, Idle) : Spawn({t}, f)
    BY <1>11 DEF CallRun
  <2>2. /\ pc' \in [Goroutines -> {"idle", "select", "locked", "callback", "returned"}]
        /\ job' \in [Goroutines -> Tasks \cup {NoTask}]
        /\ JobSet'
    BY <2>1, SpawnType
  <2>3. calls' \in [stop : Nat, client : Nat]
    BY <1>11, CountCall DEF CallRun, TypeOK
  <2> QED
    BY <1>11, <2>2, <2>3 DEF CallRun, TypeOK, schedVars, taskVars
<1>12. ASSUME NEW g \in Goroutines, RunAcquire(g) PROVE TypeOK' /\ JobSet'
  BY <1>12 DEF RunAcquire, TypeOK, JobSet, schedVars, envVars
<1>13. ASSUME NEW g \in Goroutines, RunTimeout(g) PROVE TypeOK' /\ JobSet'
  BY <1>13 DEF RunTimeout, TypeOK, JobSet, schedVars, taskVars, envVars
<1>14. ASSUME NEW g \in Goroutines, RunBegin(g) PROVE TypeOK' /\ JobSet'
  BY <1>14 DEF RunBegin, TypeOK, JobSet, schedVars, envVars
<1>15. ASSUME NEW g \in Goroutines, RunReturn(g) PROVE TypeOK' /\ JobSet'
  BY <1>15 DEF RunReturn, TypeOK, JobSet, schedVars, envVars
<1>16. ASSUME NEW g \in Goroutines, RunFinish(g) PROVE TypeOK' /\ JobSet'
  <2>1. job[g] \in Tasks
    BY <1>16 DEF RunFinish, JobSet
  <2>2. NextRun(job[g], lastRunAt[job[g]]) \in Nat
    BY <2>1 DEF NextRun, TypeOK
  <2> QED
    BY <1>16, <2>1, <2>2 DEF RunFinish, TypeOK, JobSet, schedVars, envVars
<1>17. CASE Second
  BY <1>17 DEF Second, TypeOK, JobSet, schedVars, taskVars, goVars
<1>18. CASE UNCHANGED vars
  BY <1>18 DEF vars, schedVars, taskVars, goVars, envVars, TypeOK, JobSet
<1> QED
  BY <1>1, <1>2, <1>3, <1>4, <1>5, <1>6, <1>7, <1>8, <1>9, <1>10, <1>11, <1>12,
     <1>13, <1>14, <1>15, <1>16, <1>17, <1>18
     DEF Next, API, Loop, Run

(* Every step outside Run leaves alone the runLocks and the goroutines     *)
(* that are inside a Run's section.                                        *)
Outside ==
    /\ UNCHANGED <<runLock, taskRunning>>
    /\ \A g \in Goroutines :
         pc[g] \notin {"idle", "select"} \/ pc'[g] \notin {"idle", "select"}
            => pc'[g] = pc[g] /\ job'[g] = job[g]

(* So says Outside of every step that is not a step of Run.               *)
LEMMA OutsideStep ==
    ASSUME TypeOK, JobSet, [Next]_vars,
           ~(\E g \in Goroutines : Run(g))
    PROVE  Outside
<1>1. CASE UNCHANGED <<goVars, runLock, taskRunning>>
  BY <1>1 DEF Outside, goVars
<1>2. CASE LoopScan
  <2>1. PICK f \in Injection(Runnable(tasks), Idle) : Spawn(Runnable(tasks), f)
    BY <1>2 DEF LoopScan
  <2>2. Runnable(tasks) \in SUBSET Tasks
    BY RunnableType DEF TypeOK
  <2> QED
    BY <1>2, <2>1, <2>2, SpawnType DEF LoopScan, Outside, taskVars
<1>3. ASSUME NEW t \in Tasks, CallRun(t) PROVE Outside
  <2>1. PICK f \in Injection({t}, Idle) : Spawn({t}, f)
    BY <1>3 DEF CallRun
  <2> QED
    BY <1>3, <2>1, SpawnType DEF CallRun, Outside, taskVars
<1>4. ASSUME NEW t \in Tasks, Do(t) \/ Add(t)
      PROVE  UNCHANGED <<goVars, runLock, taskRunning>>
  BY <1>4 DEF Do, Add, taskVars
<1>5. CASE Clear \/ Start \/ StopEnter \/ StopSend
  <2>1. UNCHANGED <<goVars, runLock, taskRunning>>
    BY <1>5 DEF Clear, Start, StopEnter, StopSend, taskVars
  <2> QED
    BY <1>1, <2>1
<1>6. CASE LoopTick \/ LoopSort \/ LoopQuit \/ Second
  <2>1. UNCHANGED <<goVars, runLock, taskRunning>>
    BY <1>6 DEF LoopTick, LoopSort, LoopQuit, Second, taskVars
  <2> QED
    BY <1>1, <2>1
<1>7. CASE UNCHANGED vars
  BY <1>1, <1>7 DEF vars, taskVars
<1> QED
  BY <1>1, <1>2, <1>3, <1>4, <1>5, <1>6, <1>7 DEF Next, API, Loop

(* The inductive step: only RunAcquire lets a goroutine in, and it finds   *)
(* the slot free, so by SlotTaken nobody of the same task is inside.       *)
LEMMA LockInvStep == LockInv /\ [Next]_vars => LockInv'
<1> SUFFICES ASSUME LockInv, [Next]_vars
             PROVE  SlotTaken' /\ NoOverlap'
  BY TypeStep DEF LockInv
<1> USE DEF LockInv
<1>0. TypeOK' /\ JobSet'
  BY TypeStep
<1>1. CASE ~(\E g \in Goroutines : Run(g))
  <2>1. Outside
    BY <1>1, OutsideStep
  <2> QED
    BY <2>1 DEF Outside, SlotTaken, NoOverlap, HoldsRunLock
<1>2. ASSUME NEW g \in Goroutines, RunAcquire(g)
      PROVE  SlotTaken' /\ NoOverlap'
  <2>1. /\ job' = job
        /\ \A h \in Goroutines \ {g} : pc'[h] = pc[h]
        /\ runLock[job[g]] = 0
        /\ job[g] \in Tasks
    BY <1>2 DEF RunAcquire, RunLockFree, TypeOK, JobSet
  <2>2. \A t \in Tasks : runLock[t] = 1 \/ t = job[g] => runLock'[t] = 1
    BY <1>2, <2>1 DEF RunAcquire, TypeOK
  <2>3. \A h \in Goroutines \ {g} : HoldsRunLock(h) => job[h] # job[g]
    BY <2>1 DEF SlotTaken
  <2>4. SlotTaken'
    BY <2>1, <2>2, <1>0 DEF SlotTaken, HoldsRunLock, JobSet
  <2>5. NoOverlap'
    BY <2>1, <2>3 DEF NoOverlap, HoldsRunLock
  <2> QED
    BY <2>4, <2>5
<1>3. ASSUME NEW g \in Goroutines, RunTimeout(g)
      PROVE  SlotTaken' /\ NoOverlap'
  <2>1. /\ \A h \in Goroutines \ {g} : pc'[h] = pc[h] /\ job'[h] = job[h]
        /\ pc'[g] = "idle"
        /\ runLock' = runLock
    BY <1>3 DEF RunTimeout, TypeOK, taskVars
  <2> QED
    BY <2>1 DEF SlotTaken, NoOverlap, HoldsRunLock
<1>4. ASSUME NEW g \in Goroutines, RunBegin(g) \/ RunReturn(g)
      PROVE  SlotTaken' /\ NoOverlap'
  <2>1. /\ \A h \in Goroutines : HoldsRunLock(h)' = HoldsRunLock(h)
        /\ job' = job
        /\ runLock' = runLock
    BY <1>4 DEF RunBegin, RunReturn, TypeOK, HoldsRunLock
  <2> QED
    BY <2>1 DEF SlotTaken, NoOverlap
<1>5. ASSUME NEW g \in Goroutines, RunFinish(g)
      PROVE  SlotTaken' /\ NoOverlap'
  <2>1. /\ \A h \in Goroutines \ {g} : pc'[h] = pc[h] /\ job'[h] = job[h]
        /\ pc'[g] = "idle"
        /\ job[g] \in Tasks
    BY <1>5 DEF RunFinish, TypeOK, JobSet
  <2>2. \A t \in Tasks : t # job[g] => runLock'[t] = runLock[t]
    BY <1>5, <2>1 DEF RunFinish, TypeOK
  <2>3. \A h \in Goroutines \ {g} : HoldsRunLock(h) => job[h] # job[g]
    BY <1>5 DEF NoOverlap, RunFinish, HoldsRunLock
  <2>4. SlotTaken'
    BY <1>0, <2>1, <2>2, <2>3 DEF SlotTaken, HoldsRunLock, JobSet
  <2>5. NoOverlap'
    BY <2>1 DEF NoOverlap, HoldsRunLock
  <2> QED
    BY <2>4, <2>5
<1> QED
  BY <1>1, <1>2, <1>3, <1>4, <1>5 DEF Run

(* LockInv holds in every reachable state.                                 *)
THEOREM LockInvariant == Spec => []LockInv
BY LockInvInit, LockInvStep, PTL DEF Spec

(* Every behaviour of the scheduler is type correct.                       *)
THEOREM TypeCorrect == Spec => []TypeOK
<1>1. LockInv => TypeOK
  BY DEF LockInv
<1> QED
  BY <1>1, LockInvariant, PTL

(* Task.Run is mutually exclusive per task: whatever number of ticks and   *)
(* clients call Run, runLock lets one into the section at a time.          *)
THEOREM RunMutualExclusion == Spec => []NoOverlap
<1>1. LockInv => NoOverlap
  BY DEF LockInv
<1> QED
  BY <1>1, LockInvariant, PTL

-----------------------------------------------------------------------------
(* RunningFlagExact is preserved because the section is exclusive: the     *)
(* goroutine that lowers the flag is the only one that executes the task.  *)
LEMMA FlagStep == LockInv /\ RunningFlagExact /\ [Next]_vars => RunningFlagExact'
<1> SUFFICES ASSUME LockInv, RunningFlagExact, [Next]_vars
             PROVE  RunningFlagExact'
  OBVIOUS
<1> USE DEF LockInv
<1>1. CASE ~(\E g \in Goroutines : Run(g))
  <2>1. Outside
    BY <1>1, OutsideStep
  <2>2. \A g \in Goroutines : pc'[g] = "callback" <=> pc[g] = "callback"
    BY <2>1 DEF Outside
  <2>3. \A g \in Goroutines : pc[g] = "callback" => job'[g] = job[g]
    BY <2>1 DEF Outside
  <2>4. taskRunning' = taskRunning
    BY <2>1 DEF Outside
  <2> QED
    BY <2>2, <2>3, <2>4 DEF RunningFlagExact
<1>2. ASSUME NEW g \in Goroutines, RunAcquire(g) \/ RunTimeout(g) \/ RunFinish(g)
      PROVE  RunningFlagExact'
  <2>1. /\ \A h \in Goroutines : pc'[h] = "callback" <=> pc[h] = "callback"
        /\ \A h \in Goroutines \ {g} : job'[h] = job[h]
        /\ pc[g] # "callback"
        /\ taskRunning' = taskRunning
    BY <1>2 DEF RunAcquire, RunTimeout, RunFinish, TypeOK, taskVars
  <2> QED
    BY <2>1 DEF RunningFlagExact
<1>3. ASSUME NEW g \in Goroutines, RunBegin(g)
      PROVE  RunningFlagExact'
  <2>1. /\ \A h \in Goroutines : pc'[h] = "callback" <=> pc[h] = "callback" \/ h = g
        /\ job' = job
        /\ job[g] \in Tasks
    BY <1>3 DEF RunBegin, TypeOK, JobSet
  <2>2. \A t \in Tasks : taskRunning'[t] <=> taskRunning[t] \/ t = job[g]
    BY <1>3, <2>1 DEF RunBegin, TypeOK
  <2> QED
    BY <2>1, <2>2 DEF RunningFlagExact
<1>4. ASSUME NEW g \in Goroutines, RunReturn(g)
      PROVE  RunningFlagExact'
  <2>1. /\ \A h \in Goroutines : pc'[h] = "callback" <=> pc[h] = "callback" /\ h # g
        /\ job' = job
        /\ job[g] \in Tasks
        /\ HoldsRunLock(g)
    BY <1>4 DEF RunReturn, TypeOK, JobSet, HoldsRunLock
  <2>2. \A t \in Tasks : taskRunning'[t] <=> taskRunning[t] /\ t # job[g]
    BY <1>4, <2>1 DEF RunReturn, TypeOK
  <2>3. \A h \in Goroutines : h # g /\ pc[h] = "callback" => job[h] # job[g]
    BY <2>1 DEF NoOverlap, HoldsRunLock
  <2> QED
    BY <2>1, <2>2, <2>3 DEF RunningFlagExact
<1> QED
  BY <1>1, <1>2, <1>3, <1>4 DEF Run

(* task.running tells ShouldRun the truth about the callback.              *)
THEOREM FlagExact == Spec => []RunningFlagExact
<1>1. Init => RunningFlagExact
  BY DEF Init, RunningFlagExact
<1> QED
  BY <1>1, FlagStep, LockInvariant, PTL DEF Spec

(* Outside Run only Do touches a task's times, and it keeps them in step.  *)
LEMMA StepInStep == LockInv /\ ScheduleInStep /\ [Next]_vars => ScheduleInStep'
<1> SUFFICES ASSUME LockInv, ScheduleInStep, [Next]_vars
             PROVE  ScheduleInStep'
  OBVIOUS
<1> USE PeriodAssumption DEF LockInv
<1>1. ASSUME NEW t \in Tasks, Do(t) PROVE ScheduleInStep'
  BY <1>1 DEF Do, NextRun, ScheduleInStep, TypeOK
<1>2. CASE UNCHANGED taskVars
  BY <1>2 DEF taskVars, ScheduleInStep
<1>3. ASSUME NEW g \in Goroutines, RunAcquire(g) PROVE ScheduleInStep'
  <2>1. job[g] \in Tasks
    BY <1>3 DEF RunAcquire, JobSet
  <2> QED
    BY <1>3, <2>1 DEF RunAcquire, ScheduleInStep, TypeOK
<1>4. ASSUME NEW g \in Goroutines, RunBegin(g) \/ RunReturn(g) PROVE ScheduleInStep'
  BY <1>4 DEF RunBegin, RunReturn, ScheduleInStep
<1>5. ASSUME NEW g \in Goroutines, RunFinish(g) PROVE ScheduleInStep'
  <2>1. job[g] \in Tasks
    BY <1>5 DEF RunFinish, JobSet
  <2> QED
    BY <1>5, <2>1 DEF RunFinish, NextRun, ScheduleInStep, TypeOK
<1>6. ASSUME NEW t \in Tasks, Add(t) \/ CallRun(t) PROVE UNCHANGED taskVars
  BY <1>6 DEF Add, CallRun
<1>7. CASE Clear \/ Start \/ StopEnter \/ StopSend \/ Loop \/ Second
  <2>1. UNCHANGED taskVars
    BY <1>7 DEF Clear, Start, StopEnter, StopSend, Loop, LoopTick, LoopSort,
                LoopScan, LoopQuit, Second
  <2> QED
    BY <1>2, <2>1
<1>8. ASSUME NEW g \in Goroutines, RunTimeout(g) PROVE UNCHANGED taskVars
  BY <1>8 DEF RunTimeout
<1>9. CASE UNCHANGED vars
  BY <1>2, <1>9 DEF vars
<1> QED
  BY <1>1, <1>2, <1>3, <1>4, <1>5, <1>6, <1>7, <1>8, <1>9 DEF Next, API, Run

(* A task nobody runs is scheduled exactly one Duration after its last run *)
(* began.                                                                  *)
THEOREM InStep == Spec => []ScheduleInStep
<1>1. Init => ScheduleInStep
  BY DEF Init, ScheduleInStep
<1> QED
  BY <1>1, StepInStep, LockInvariant, PTL DEF Spec

-----------------------------------------------------------------------------
(* The first run of a new task (TaskFormat), for every length of the day,  *)
(* time of day, weekday, interval and reading of the clock.                *)

(* Days are numbered from 0 and the midnights are the multiples of Day.    *)
LEMMA Midnight ==
    ASSUME NEW t \in Nat
    PROVE  /\ Day \in Nat /\ Day > 1
           /\ t \div Day \in Nat
           /\ (t \div Day) * Day <= t /\ t < (t \div Day) * Day + Day
<1>1. Day \in Nat /\ Day > 1
  BY LengthAssumption
<1> QED
  BY <1>1

(* Later moments are on the same day or on later ones.                     *)
LEMMA DayOrder ==
    ASSUME NEW s \in Nat, NEW t \in Nat, s <= t
    PROVE  /\ s \div Day <= t \div Day
           /\ t < (s \div Day) * Day + Day => t \div Day = s \div Day
<1> DEFINE a == s \div Day
           b == t \div Day
<1>1. /\ Day \in Nat /\ Day > 1 /\ a \in Nat /\ b \in Nat
      /\ a * Day <= s /\ s < a * Day + Day
      /\ b * Day <= t /\ t < b * Day + Day
  BY Midnight
<1> HIDE DEF a, b
<1>2. \A x, y \in Nat : x < y => x * Day + Day <= y * Day
  BY <1>1
<1>3. a <= b
  <2>1. ~(b < a)
    <3>1. b < a => b * Day + Day <= a * Day
      BY <1>1, <1>2
    <3>2. a * Day \in Nat /\ b * Day \in Nat
      BY <1>1
    <3> QED
      BY <1>1, <3>1, <3>2
  <2> QED
    BY <1>1, <2>1
<1>4. ASSUME t < a * Day + Day PROVE b = a
  <2>1. ~(a < b)
    <3>1. a < b => a * Day + Day <= b * Day
      BY <1>1, <1>2
    <3>2. a * Day \in Nat /\ b * Day \in Nat
      BY <1>1
    <3> QED
      BY <1>1, <1>4, <3>1, <3>2
  <2> QED
    BY <1>1, <1>3, <2>1
<1> QED
  BY <1>3, <1>4 DEF a, b

(* The time of day hm on the day k.                                        *)
LEMMA TimeOfDay ==
    ASSUME NEW k \in Int, NEW hm \in 0..(Day - 1)
    PROVE  /\ k * Day + hm \in Int
           /\ (k * Day + hm) % Day = hm
           /\ Weekday(k * Day + hm) = k % 7
<1>1. Day \in Nat /\ Day > 1
  BY LengthAssumption
<1>2. (k * Day + hm) \div Day = k /\ (k * Day + hm) % Day = hm
  BY <1>1
<1> QED
  BY <1>1, <1>2 DEF Weekday

(* Going back DaysSince days from a day reaches the latest startDay.       *)
LEMMA BackToStartDay ==
    ASSUME NEW k \in Int, NEW d \in 0..6, NEW n \in Nat
    PROVE  /\ DaysSince(k % 7, d) \in 0..6
           /\ (k - DaysSince(k % 7, d) + 7 * n) % 7 = d
           /\ DaysSince(k % 7, d) = 0 <=> k % 7 = d
<1>1. k % 7 \in 0..6
  OBVIOUS
<1> QED
  BY <1>1 DEF DaysSince

(* A whole number of intervals is no shorter than one.                     *)
LEMMA Intervals ==
    ASSUME NEW n \in Nat \ {0}
    PROVE  n * Day \in Nat /\ n * Day >= Day /\ n * (7 * Day) \in Nat /\ n * (7 * Day) >= 7 * Day
<1>1. Day \in Nat /\ n \in Nat /\ n >= 1
  BY LengthAssumption
<1> QED
  BY <1>1

(* Reads of a clock that is never set back.                                *)
ClockReads == {r \in [1..5 -> Nat] : \A i, k \in 1..5 : i <= k => r[i] <= r[k]}

(* at, for a task of days: the first run is at the time of day asked for,  *)
(* not in the past and at most one interval away, also when midnight       *)
(* passes between two reads of the clock.                                  *)
THEOREM DailyOnTime ==
    ASSUME NEW n \in Nat \ {0}, NEW d \in 0..6, NEW hm \in 0..(Day - 1), NEW r \in ClockReads
    PROVE  OnTime(at(NewTask(n, "Days", d), hm, r), hm, r)
<1> DEFINE q == r[1] \div Day
           mock == q * Day + hm
           back == IF r[2] > mock THEN 0 ELSE 1
           j == at(NewTask(n, "Days", d), hm, r)
           next == scheduleNextRun(j, r)
<1>1. /\ r[1] \in Nat /\ r[2] \in Nat /\ r[5] \in Nat
      /\ r[1] <= r[2] /\ r[2] <= r[5]
  BY DEF ClockReads
<1>2. Day \in Nat /\ Day > 1 /\ q \in Nat /\ q * Day <= r[1] /\ r[1] < q * Day + Day
  BY <1>1, Midnight
<1>3. j = [interval |-> n, unit |-> "Days", startDay |-> d,
           lastRunAt |-> <<IF r[2] > mock THEN mock ELSE mock - Day>>]
  BY DEF at, NewTask
<1>4. Duration(j) = n * Day /\ n * Day \in Nat /\ n * Day >= Day
  BY <1>3, Intervals DEF Duration
<1>5. next = (IF r[2] > mock THEN mock ELSE mock - Day) + n * Day
  BY <1>3, <1>4 DEF scheduleNextRun
<1>6. next = (q - back + n) * Day + hm /\ q - back + n \in Int
  BY <1>2, <1>5
<1>7. next % Day = hm
  BY <1>6, TimeOfDay
<1>8. next \in r[1]..(r[5] + n * Day)
  <2>1. mock \in Int /\ mock >= q * Day /\ mock < q * Day + Day
    BY <1>2
  <2> HIDE DEF mock, q
  <2> QED
    BY <1>1, <1>2, <1>4, <1>5, <2>1
<1>9. j.unit = "Days"
  BY <1>3
<1>10. OnTime(j, hm, r)
  <2> HIDE DEF j
  <2> QED
    BY <1>4, <1>7, <1>8, <1>9 DEF OnTime
<1> QED
  BY <1>10

(* at, for a task of weeks: the first run is at the time and on the        *)
(* weekday asked for, not in the past and at most one interval away, if    *)
(* the two reads of the weekday agree.                                     *)
THEOREM WeekdayOnTime ==
    ASSUME NEW n \in Nat \ {0}, NEW d \in 0..6, NEW hm \in 0..(Day - 1), NEW r \in ClockReads,
           SameWeekday(r)
    PROVE  OnTime(at(NewTask(n, "Weeks", d), hm, r), hm, r)
<1> DEFINE q == r[1] \div Day
           mock == q * Day + hm
           ds == DaysSince(Weekday(mock), d)
           late == d # Weekday(r[2]) \/ (r[3] > mock /\ d = Weekday(r[4]))
           back == IF late THEN ds ELSE 7
           j == at(NewTask(n, "Weeks", d), hm, r)
           next == scheduleNextRun(j, r)
<1>1. /\ r[1] \in Nat /\ r[2] \in Nat /\ r[3] \in Nat /\ r[5] \in Nat
      /\ r[1] <= r[2] /\ r[2] <= r[3] /\ r[3] <= r[5]
  BY DEF ClockReads
<1>2. Day \in Nat /\ Day > 1 /\ q \in Nat /\ q * Day <= r[1] /\ r[1] < q * Day + Day
  BY <1>1, Midnight
<1>3. mock \in Int /\ mock >= q * Day /\ mock < q * Day + Day /\ Weekday(mock) = q % 7
  <2>1. Weekday(mock) = q % 7
    <3>1. q \in Int
      BY <1>2
    <3> HIDE DEF q
    <3> QED
      BY <3>1, TimeOfDay
  <2> QED
    BY <1>2, <2>1
<1>4. ds \in 0..6 /\ (q - ds + 7 * n) % 7 = d /\ (ds = 0 <=> q % 7 = d)
  BY <1>2, <1>3, BackToStartDay
<1>5. j = [interval |-> n, unit |-> "Weeks", startDay |-> d, lastRunAt |-> <<mock - back * Day>>]
  BY DEF at, NewTask
<1>6. Duration(j) = n * (7 * Day) /\ n * (7 * Day) \in Nat /\ n * (7 * Day) >= 7 * Day
  BY <1>5, Intervals DEF Duration
<1>7. next = mock - back * Day + n * (7 * Day)
  BY <1>5, <1>6 DEF scheduleNextRun
<1>8. next = (q - back + 7 * n) * Day + hm /\ q - back + 7 * n \in Int
  BY <1>2, <1>4, <1>7
<1>9. next % Day = hm /\ Weekday(next) = (q - back + 7 * n) % 7
  <2> DEFINE k == q - back + 7 * n
  <2>1. k \in Int /\ next = k * Day + hm
    BY <1>8
  <2> HIDE DEF k, next
  <2>2. next % Day = hm /\ Weekday(next) = k % 7
    BY <2>1, TimeOfDay
  <2> QED
    BY <2>2 DEF k
<1>10. ASSUME late PROVE Weekday(next) = d /\ next \in r[1]..(r[5] + n * (7 * Day))
  <2>1. Weekday(next) = d
    BY <1>4, <1>9, <1>10
  <2>2. mock - ds * Day <= r[5]
    <3>1. CASE ds > 0
      <4>1. ds * Day >= Day /\ ds * Day \in Nat
        BY <1>2, <1>4, <3>1
      <4> HIDE DEF mock, q, ds
      <4> QED
        BY <1>1, <1>2, <1>3, <4>1
    <3>2. CASE ds = 0
      <4>1. mock <= r[5]
        <5>1. CASE r[3] > mock
          BY <1>1, <1>3, <5>1
        <5>2. CASE d # Weekday(r[2])
          <6>1. r[2] \div Day \in Nat /\ (r[2] \div Day) * Day <= r[2]
            BY <1>1, Midnight
          <6>2. q # r[2] \div Day
            BY <1>4, <3>2, <5>2 DEF Weekday
          <6>3. r[2] \div Day >= q + 1
            <7>1. q <= r[2] \div Day
              BY <1>1, DayOrder
            <7> HIDE DEF q
            <7> QED
              BY <1>2, <6>1, <6>2, <7>1
          <6>4. (r[2] \div Day) * Day >= q * Day + Day
            BY <1>2, <6>1, <6>3
          <6> QED
            BY <1>1, <1>2, <1>3, <6>1, <6>4
        <5> QED
          BY <1>10, <5>1, <5>2
      <4> QED
        BY <1>2, <1>3, <3>2, <4>1
    <3> QED
      BY <1>4, <3>1, <3>2
  <2>3. ds * Day \in Nat /\ ds * Day <= 6 * Day
    BY <1>2, <1>4
  <2>4. next = mock - ds * Day + n * (7 * Day)
    BY <1>7, <1>10
  <2>5. next \in r[1]..(r[5] + n * (7 * Day))
    <3> HIDE DEF mock, q, ds, next
    <3> QED
      BY <1>1, <1>2, <1>3, <1>6, <2>2, <2>3, <2>4
  <2> QED
    BY <2>1, <2>5
<1>11. ASSUME ~late PROVE Weekday(next) = d /\ next \in r[1]..(r[5] + n * (7 * Day))
  <2>1. d = Weekday(r[2]) /\ r[3] <= mock
    BY <1>1, <1>3, <1>11 DEF SameWeekday
  <2>2. r[2] \div Day = q
    <3>1. r[2] < q * Day + Day
      <4> HIDE DEF mock, q
      <4>1. q * Day \in Int
        BY <1>2
      <4> QED
        BY <1>1, <1>2, <1>3, <2>1, <4>1
    <3> QED
      BY <1>1, <3>1, DayOrder
  <2>3. d = q % 7
    BY <2>1, <2>2 DEF Weekday
  <2>4. Weekday(next) = d
    <3>1. (q - 7 + 7 * n) % 7 = q % 7
      BY <1>2
    <3> QED
      BY <1>9, <1>11, <2>3, <3>1
  <2>5. next = mock - 7 * Day + n * (7 * Day)
    BY <1>7, <1>11
  <2>6. next \in r[1]..(r[5] + n * (7 * Day))
    <3> HIDE DEF mock, q, next
    <3> QED
      BY <1>1, <1>2, <1>3, <1>6, <2>1, <2>5
  <2> QED
    BY <2>4, <2>6
<1>12. j.unit = "Weeks" /\ j.startDay = d
  BY <1>5
<1>13. Weekday(next) = d /\ next \in r[1]..(r[5] + n * (7 * Day))
  BY <1>10, <1>11
<1>14. OnTime(j, hm, r)
  <2> HIDE DEF j
  <2> QED
    BY <1>6, <1>9, <1>12, <1>13 DEF OnTime
<1> QED
  BY <1>14

(* A task at intervals runs first one interval after it was made, weeks    *)
(* being counted from the last Sunday.                                     *)
THEOREM IntervalOnTime ==
    ASSUME NEW n \in Nat \ {0}, NEW u \in Units, NEW r \in ClockReads
    PROVE  OnTime(NewTaskAtIntervals(n, u), -1, r)
<1> DEFINE j == NewTaskAtIntervals(n, u)
           next == scheduleNextRun(j, r)
<1>1. r[1] \in Nat /\ r[5] \in Nat /\ r[1] <= r[5]
  BY DEF ClockReads
<1>2. j = [interval |-> n, unit |-> u, startDay |-> 0, lastRunAt |-> <<>>]
  BY DEF NewTaskAtIntervals, NewTask
<1>3. CASE u # "Weeks"
  <2>1. \A m \in {OneSecond, Minute, Hour, Day} : n * m \in Nat
    BY LengthAssumption
  <2>2. Duration(j) \in Nat
    BY <1>2, <1>3, <2>1 DEF Duration, Units
  <2>3. next = r[5] + Duration(j)
    BY <1>2, <1>3 DEF scheduleNextRun
  <2>4. next \in r[1]..(r[5] + Duration(j))
    BY <1>1, <2>2, <2>3
  <2>5. j.unit # "Weeks"
    BY <1>2, <1>3
  <2>6. ~(-1 >= 0)
    OBVIOUS
  <2> HIDE DEF j
  <2> QED
    BY <2>4, <2>5, <2>6 DEF OnTime, j
<1>4. CASE u = "Weeks"
  <2> DEFINE q == r[5] \div Day
             ds == DaysSince(Weekday(r[5]), 0)
  <2>1. Day \in Nat /\ Day > 1 /\ q \in Nat /\ q * Day <= r[5] /\ r[5] < q * Day + Day
    BY <1>1, Midnight
  <2>2. Weekday(r[5]) = q % 7
    BY DEF Weekday
  <2>3. ds \in 0..6 /\ (q - ds + 7 * n) % 7 = 0
    BY <2>1, <2>2, BackToStartDay
  <2>4. Duration(j) = n * (7 * Day) /\ n * (7 * Day) \in Nat /\ n * (7 * Day) >= 7 * Day
    BY <1>2, <1>4, Intervals DEF Duration
  <2>5. next = (q - ds) * Day + n * (7 * Day)
    BY <1>2, <1>4, <2>4 DEF scheduleNextRun
  <2>6. next = (q - ds + 7 * n) * Day + 0 /\ q - ds + 7 * n \in Int
    BY <2>1, <2>3, <2>5
  <2>7. Weekday(next) = 0
    <3> DEFINE k == q - ds + 7 * n
    <3>1. k \in Int /\ next = k * Day + 0 /\ 0 \in 0..(Day - 1) /\ k % 7 = 0
      BY <2>1, <2>3, <2>6
    <3> HIDE DEF k, next
    <3> QED
      BY <3>1, TimeOfDay
  <2>8. next \in r[1]..(r[5] + n * (7 * Day))
    <3> HIDE DEF q, ds, next
    <3>1. (q - ds) * Day = q * Day - ds * Day /\ ds * Day \in Nat /\ ds * Day <= 6 * Day
      BY <2>1, <2>3
    <3> QED
      BY <1>1, <2>1, <2>4, <2>5, <3>1
  <2>9. j.startDay = 0
    BY <1>2
  <2>10. ~(-1 >= 0)
    OBVIOUS
  <2>11. OnTime(j, -1, r)
    <3> HIDE DEF j
    <3> QED
      BY <2>4, <2>7, <2>8, <2>9, <2>10 DEF OnTime
  <2> QED
    BY <2>11
<1> QED
  BY <1>3, <1>4
=============================================================================
