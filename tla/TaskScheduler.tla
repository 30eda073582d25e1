---------------------------- MODULE TaskScheduler ----------------------------
(***************************************************************************)
(* Package tasks: the scheduler (tasks/scheduler.go) and the part of a     *)
(* task that runs (task.Run, ShouldRun, Do, scheduleNextRun in             *)
(* tasks/task.go).                                                         *)
(*                                                                         *)
(* Actors: the callers of the Scheduler API; the loop goroutine Start      *)
(* launches; one goroutine per `go task.Run()`; the clock and the one      *)
(* second ticker.  One unit of time is one tick of the ticker.             *)
(*                                                                         *)
(* s.lock is explicit because Stop can block while it holds it.  Run is    *)
(* split where another goroutine can observe it half done: taking runLock  *)
(* and stamping lastRunAt, raising `running`, the callback's return, and   *)
(* scheduleNextRun with the release of runLock.  RunCount is a counter     *)
(* nobody reads inside the package and is left out.                        *)
(***************************************************************************)
EXTENDS Integers, Sequences, FiniteSets, Functions

CONSTANTS
    Tasks,        \* the tasks clients may create and add
    Period,       \* Period[t] is task.Duration(), in ticks
    Goroutines,   \* bound: Run goroutines alive at the same time
    NoTask,       \* what an idle goroutine runs
    MaxTime,      \* bound: the clock saturates here
    MaxStops,     \* bound: calls of Scheduler.Stop
    MaxCalls      \* bound: calls of Task.Run and Clear by clients

ASSUME PeriodAssumption == Period \in [Tasks -> Nat \ {0}]
ASSUME NoTaskAssumption == NoTask \notin Tasks
ASSUME BoundAssumption ==
    /\ MaxTime \in Nat
    /\ MaxStops \in Nat
    /\ MaxCalls \in Nat

VARIABLES
    tasks,        \* s.tasks
    running,      \* s.running
    quit,         \* s.quit, a channel with one slot: elements queued
    lock,         \* who holds s.lock: "free", "loop" or "stop"
    loop,         \* where the goroutine launched by Start is
    tickC,        \* ticker.C, a channel with one slot: elements queued
    created,      \* the tasks whose Do has been called
    lastRunAt,    \* task.lastRunAt
    nextRunAt,    \* task.nextRunAt
    runLock,      \* task.runLock, a channel with one slot: elements queued
    taskRunning,  \* task.running
    pc,           \* where each Run goroutine is
    job,          \* the task each Run goroutine runs
    now,          \* time.Now()
    calls         \* API calls made so far, against their bounds

schedVars == <<tasks, running, quit, lock, loop>>
taskVars  == <<created, lastRunAt, nextRunAt, runLock, taskRunning>>
goVars    == <<pc, job>>
envVars   == <<tickC, now, calls>>
vars      == <<schedVars, taskVars, goVars, envVars>>

Idle == {g \in Goroutines : pc[g] = "idle"}

(* The goroutines that hold the slot of their task's runLock.              *)
HoldsRunLock(g) == pc[g] \in {"locked", "callback", "returned"}

-----------------------------------------------------------------------------
(* task.ShouldRun                                                          *)
ShouldRun(t) == ~taskRunning[t] /\ now > nextRunAt[t]

(* task.scheduleNextRun when lastRunAt is set, as it is after the first    *)
(* call: the next run is one period after the last one began.              *)
NextRun(t, last) == last + Period[t]

(* sort.Sort(s) by Less: any order of the tasks in which no earlier        *)
(* NextScheduledTime comes later (the sort is not stable).                 *)
Sorted(s) ==
    {p \in [DOMAIN s -> Range(s)] :
        /\ Range(p) = Range(s)
        /\ \A i, j \in DOMAIN s : i < j => nextRunAt[p[i]] <= nextRunAt[p[j]]}

(* getRunnableTasks collects from the head of the sorted list and stops at *)
(* the first task that should not run.                                     *)
Runnable(s) ==
    {s[i] : i \in {k \in DOMAIN s : \A m \in 1..k : ShouldRun(s[m])}}

(* `go task.Run()` for every task of rs: f gives each a goroutine.         *)
Spawn(rs, f) ==
    /\ pc'  = [g \in Goroutines |-> IF g \in Range(f) THEN "select" ELSE pc[g]]
    /\ job' = [g \in Goroutines |-> IF g \in Range(f)
                                    THEN CHOOSE t \in rs : f[t] = g
                                    ELSE job[g]]

-----------------------------------------------------------------------------
Init ==
    /\ tasks = <<>>
    /\ running = FALSE
    /\ quit = 0
    /\ lock = "free"
    /\ loop = "none"
    /\ tickC = 0
    /\ created = {}
    /\ lastRunAt = [t \in Tasks |-> 0]
    /\ nextRunAt = [t \in Tasks |-> 0]
    /\ runLock = [t \in Tasks |-> 0]
    /\ taskRunning = [t \in Tasks |-> FALSE]
    /\ pc = [g \in Goroutines |-> "idle"]
    /\ job = [g \in Goroutines |-> NoTask]
    /\ now = 0
    /\ calls = [stop |-> 0, client |-> 0]

-----------------------------------------------------------------------------
(* NewTaskAtIntervals followed by Do: lastRunAt is nil, so Do's            *)
(* scheduleNextRun stamps it with the present.                             *)
Do(t) ==
    /\ t \notin created
    /\ created' = created \cup {t}
    /\ lastRunAt' = [lastRunAt EXCEPT ![t] = now]
    /\ nextRunAt' = [nextRunAt EXCEPT ![t] = NextRun(t, now)]
    /\ UNCHANGED <<schedVars, runLock, taskRunning, goVars, envVars>>

(* Scheduler.Add, under the lock; a client adds a task once.               *)
Add(t) ==
    /\ lock = "free"
    /\ t \in created \ Range(tasks)
    /\ tasks' = Append(tasks, t)
    /\ UNCHANGED <<running, quit, lock, loop, taskVars, goVars, envVars>>

(* Scheduler.Clear, under the lock.                                        *)
Clear ==
    /\ lock = "free"
    /\ calls.client < MaxCalls
    /\ calls' = [calls EXCEPT !.client = @ + 1]
    /\ tasks' = <<>>
    /\ UNCHANGED <<running, quit, lock, loop, taskVars, goVars, tickC, now>>

(* Scheduler.Start; the call that finds `running` set only returns an      *)
(* error.                                                                  *)
Start ==
    /\ lock = "free"
    /\ ~running
    /\ running' = TRUE
    /\ loop' = "select"
    /\ UNCHANGED <<tasks, quit, lock, taskVars, goVars, envVars>>

(* Scheduler.Stop takes the lock and, if running, goes on to send on quit; *)
(* `running` stays set.                                                    *)
StopEnter ==
    /\ lock = "free"
    /\ running
    /\ calls.stop < MaxStops
    /\ calls' = [calls EXCEPT !.stop = @ + 1]
    /\ lock' = "stop"
    /\ UNCHANGED <<tasks, running, quit, loop, taskVars, goVars, tickC, now>>

(* `s.quit <- true` needs the slot of quit; the deferred Unlock follows.   *)
StopSend ==
    /\ lock = "stop"
    /\ quit = 0
    /\ quit' = 1
    /\ lock' = "free"
    /\ UNCHANGED <<tasks, running, loop, taskVars, goVars, envVars>>

-----------------------------------------------------------------------------
(* The loop receives a tick and calls runPending.                          *)
LoopTick ==
    /\ loop = "select"
    /\ tickC = 1
    /\ tickC' = 0
    /\ loop' = "pending"
    /\ UNCHANGED <<tasks, running, quit, lock, taskVars, goVars, now, calls>>

(* getRunnableTasks takes the lock and sorts.                              *)
LoopSort ==
    /\ loop = "pending"
    /\ lock = "free"
    /\ lock' = "loop"
    /\ tasks' \in Sorted(tasks)
    /\ loop' = "sorted"
    /\ UNCHANGED <<running, quit, taskVars, goVars, envVars>>

(* getRunnableTasks scans and unlocks; runPending starts a goroutine for   *)
(* each runnable task.                                                     *)
LoopScan ==
    /\ loop = "sorted"
    /\ LET rs == Runnable(tasks)
       IN \E f \in Injection(rs, Idle) : Spawn(rs, f)
    /\ lock' = "free"
    /\ loop' = "select"
    /\ UNCHANGED <<tasks, running, quit, taskVars, envVars>>

(* The loop receives from quit, stops the ticker and returns.              *)
LoopQuit ==
    /\ loop = "select"
    /\ quit = 1
    /\ quit' = 0
    /\ loop' = "exited"
    /\ tickC' = 0
    /\ UNCHANGED <<tasks, running, lock, taskVars, goVars, now, calls>>

-----------------------------------------------------------------------------
(* A client runs a task itself, as rest.StartHTTP runs the heartbeat.      *)
CallRun(t) ==
    /\ t \in created
    /\ calls.client < MaxCalls
    /\ calls' = [calls EXCEPT !.client = @ + 1]
    /\ \E f \in Injection({t}, Idle) : Spawn({t}, f)
    /\ UNCHANGED <<schedVars, taskVars, tickC, now>>

(* Run, first case of the select: the slot of runLock is taken and         *)
(* lastRunAt stamped.                                                      *)
RunLockFree_Always(t) == TRUE

RunLockFree(t) == runLock[t] = 0

RunAcquire(g) ==
    /\ pc[g] = "select"
    /\ RunLockFree(job[g])
    /\ runLock' = [runLock EXCEPT ![job[g]] = 1]
    /\ lastRunAt' = [lastRunAt EXCEPT ![job[g]] = now]
    /\ pc' = [pc EXCEPT ![g] = "locked"]
    /\ UNCHANGED <<schedVars, created, nextRunAt, taskRunning, job, envVars>>

(* Run, second case: the millisecond is over.  A goroutine preempted       *)
(* before the select may find both cases ready, so a free slot does not    *)
(* rule this out.                                                          *)
RunTimeout(g) ==
    /\ pc[g] = "select"
    /\ pc' = [pc EXCEPT ![g] = "idle"]
    /\ job' = [job EXCEPT ![g] = NoTask]
    /\ UNCHANGED <<schedVars, taskVars, envVars>>

(* `j.running = true`, then the callback is called.                        *)
RunBegin(g) ==
    /\ pc[g] = "locked"
    /\ taskRunning' = [taskRunning EXCEPT ![job[g]] = TRUE]
    /\ pc' = [pc EXCEPT ![g] = "callback"]
    /\ UNCHANGED <<schedVars, created, lastRunAt, nextRunAt, runLock, job,
                   envVars>>

(* The callback returns and `j.running = false`.                           *)
RunReturn_FlagLeft(g) ==
    /\ pc[g] = "callback"
    /\ pc' = [pc EXCEPT ![g] = "returned"]
    /\ UNCHANGED <<schedVars, taskVars, job, envVars>>

RunReturn(g) ==
    /\ pc[g] = "callback"
    /\ taskRunning' = [taskRunning EXCEPT ![job[g]] = FALSE]
    /\ pc' = [pc EXCEPT ![g] = "returned"]
    /\ UNCHANGED <<schedVars, created, lastRunAt, nextRunAt, runLock, job,
                   envVars>>

(* scheduleNextRun, then the slot of runLock is released.                  *)
RunFinish_NoReschedule(g) ==
    /\ pc[g] = "returned"
    /\ runLock' = [runLock EXCEPT ![job[g]] = 0]
    /\ pc' = [pc EXCEPT ![g] = "idle"]
    /\ job' = [job EXCEPT ![g] = NoTask]
    /\ UNCHANGED <<schedVars, created, lastRunAt, nextRunAt, taskRunning,
                   envVars>>

RunFinish(g) ==
    /\ pc[g] = "returned"
    /\ nextRunAt' = [nextRunAt EXCEPT ![job[g]] = NextRun(job[g], lastRunAt[job[g]])]
    /\ runLock' = [runLock EXCEPT ![job[g]] = 0]
    /\ pc' = [pc EXCEPT ![g] = "idle"]
    /\ job' = [job EXCEPT ![g] = NoTask]
    /\ UNCHANGED <<schedVars, created, lastRunAt, taskRunning, envVars>>

-----------------------------------------------------------------------------
(* A second passes; the ticker of a live loop fires and drops the tick     *)
(* when its slot is taken.                                                 *)
Second ==
    /\ now' = IF now < MaxTime THEN now + 1 ELSE now
    /\ tickC' = IF loop \in {"none", "exited"} THEN tickC ELSE 1
    /\ UNCHANGED <<schedVars, taskVars, goVars, calls>>

-----------------------------------------------------------------------------
API == \/ Clear \/ Start \/ StopEnter \/ StopSend
       \/ \E t \in Tasks : Do(t) \/ Add(t) \/ CallRun(t)

Loop == LoopTick \/ LoopSort \/ LoopScan \/ LoopQuit

Run(g) == \/ RunAcquire(g) \/ RunTimeout(g) \/ RunBegin(g) \/ RunReturn(g)
          \/ RunFinish(g)

Next == API \/ Loop \/ Second \/ \E g \in Goroutines : Run(g)

Spec == Init /\ [][Next]_vars

(***************************************************************************)
(* Fairness.  Goroutines that can proceed do; sync.RWMutex does not starve *)
(* a waiter, and Go's select picks among ready cases at random, so the     *)
(* loop's Lock, its quit case and the runLock case of Run are strongly     *)
(* fair.  The ticker keeps ticking.  RunReturn is fair: a callback         *)
(* returns.  Nothing obliges a client to call the API.                     *)
(***************************************************************************)
Acquire(t) == \E g \in Goroutines : job[g] = t /\ RunAcquire(g)

Fairness ==
    /\ WF_vars(Second)
    /\ WF_vars(LoopTick) /\ SF_vars(LoopSort) /\ WF_vars(LoopScan)
    /\ SF_vars(LoopQuit) /\ WF_vars(StopSend)
    /\ \A t \in Tasks : SF_vars(Acquire(t))
    /\ \A g \in Goroutines : /\ WF_vars(RunBegin(g))
                             /\ WF_vars(RunReturn(g))
                             /\ WF_vars(RunFinish(g))

FairSpec == Spec /\ Fairness

-----------------------------------------------------------------------------
(* Type invariant of the scheduler, its tasks and its goroutines.          *)
TypeOK ==
    /\ tasks \in Seq(Tasks)
    /\ running \in BOOLEAN
    /\ quit \in {0, 1}
    /\ lock \in {"free", "loop", "stop"}
    /\ loop \in {"none", "select", "pending", "sorted", "exited"}
    /\ tickC \in {0, 1}
    /\ created \in SUBSET Tasks
    /\ lastRunAt \in [Tasks -> Nat]
    /\ nextRunAt \in [Tasks -> Nat]
    /\ runLock \in [Tasks -> {0, 1}]
    /\ taskRunning \in [Tasks -> BOOLEAN]
    /\ pc \in [Goroutines -> {"idle", "select", "locked", "callback", "returned"}]
    /\ job \in [Goroutines -> Tasks \cup {NoTask}]
    /\ now \in Nat
    /\ calls \in [stop : Nat, client : Nat]

(* "Run will try to run the task, if it's not already running"             *)
(* (task.go:50): two Run goroutines of one task are never inside the       *)
(* section runLock guards, whoever started them.                           *)
NoOverlap ==
    \A g, h \in Goroutines :
        g # h /\ HoldsRunLock(g) /\ HoldsRunLock(h) => job[g] # job[h]

(* Whenever no Run of a task is under way its schedule is in step with its *)
(* last run: the next run is exactly one Duration after lastRunAt, however *)
(* clients' runs and the loop's runs interleaved.                          *)
ScheduleInStep ==
    \A t \in created : runLock[t] = 0 => nextRunAt[t] = lastRunAt[t] + Period[t]

(* task.running, which ShouldRun reads with no lock, is up exactly while a *)
(* callback of the task executes.                                          *)
RunningFlagExact ==
    \A t \in Tasks : taskRunning[t] <=>
        \E g \in Goroutines : pc[g] = "callback" /\ job[g] = t

(* A Stop that waits with s.lock in hand for room in quit, which nobody    *)
(* makes: the loop waits for the lock itself, or has returned.             *)
Jammed == lock = "stop" /\ quit = 1 /\ loop \in {"pending", "exited"}

(* A task in the list whose time has come is run: the loop cannot forget   *)
(* it, lose the race for runLock forever or be starved of the lock.        *)
Due(t) == t \in Range(tasks) /\ now > nextRunAt[t] /\ loop \notin {"none", "exited"}

DueTaskRuns ==
    \A t \in Tasks : Due(t) ~> (runLock[t] = 1 \/ t \notin Range(tasks) \/ loop = "exited" \/ Jammed)

(* Stop ends the loop: a value in quit is received while the loop lives.   *)
StopEndsLoop == (quit = 1 /\ loop # "exited") ~> (loop = "exited" \/ Jammed)

(* Whoever takes s.lock gives it back, so that Add, Clear, IsRunning and   *)
(* the loop do not wait for ever, unless it is a Stop that is jammed.  The *)
(* first Stop never is, nor is the second one after the loop has ended.    *)
LockReleased ==
    /\ (lock # "free") ~> (lock = "free" \/ Jammed)
    /\ [](Jammed => calls.stop > 1 /\ (loop = "exited" => calls.stop > 2))

(* However many Stops, runs of clients and ticks race, due tasks run, Stop *)
(* ends the loop and s.lock is given back (scheduler.go:93, 156, 174) up   *)
(* to a Stop that finds quit full: that one hangs, and everybody with it,  *)
(* when the loop cannot receive; the first Stop is never the one.          *)
SchedulerProgress == DueTaskRuns /\ StopEndsLoop /\ LockReleased
=============================================================================
