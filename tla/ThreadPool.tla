------------------------------ MODULE ThreadPool ------------------------------
(***************************************************************************)
(* yuan::thread::ThreadPool: submit(), start(), stop(), shutdown(),        *)
(* wait_all() and worker_loop().                                           *)
(*                                                                         *)
(* running_ and active_count_ are atomics that are written without mut_,   *)
(* so a critical section that reads one of them and then acts on it (goes  *)
(* to sleep on a condition variable, pushes a task) is two steps with mut_ *)
(* held in between; every other critical section is one step.  One thread  *)
(* controls the pool: start(), stop() and shutdown() share threads_        *)
(* without a lock.  The variables that a task itself uses are left out.    *)
(***************************************************************************)
EXTENDS Naturals, Sequences, FiniteSets

CONSTANTS
    Workers,        \* the thread_count_ threads of the pool
    Submitters,     \* the threads that call submit()
    Waiters,        \* the threads that call wait_all()
    MaxSubmits,     \* bound: calls of submit() by one thread
    MaxWaits,       \* bound: calls of wait_all() by one thread
    MaxStarts,      \* bound: calls of start()
    MaxQueueSize,   \* max_queue_size_, 0 for no limit
    CallerRuns,     \* is reject_policy_ caller_runs?
    NoOne           \* nobody holds mut_

ASSUME ThreadPoolAssumption ==
    /\ MaxSubmits \in Nat
    /\ MaxWaits \in Nat
    /\ MaxStarts \in Nat
    /\ MaxQueueSize \in Nat
    /\ CallerRuns \in BOOLEAN
    /\ NoOne \notin Workers \cup Submitters \cup Waiters

VARIABLES
    running,        \* running_
    active,         \* active_count_
    tasks,          \* tasks_
    mut,            \* owner of mut_
    wpc,            \* where each worker is
    hand,           \* the task a worker has popped
    spc,            \* where each submitter is
    submits,        \* calls of submit() so far
    ctl,            \* where the controlling thread is
    cancelled,      \* the tasks stop() has swapped out
    starts,         \* calls of start() so far
    apc,            \* where each caller of wait_all() is
    waits,          \* calls of wait_all() so far
    result          \* the promise of each task

poolVars == <<running, active, tasks, mut>>
workerVars == <<wpc, hand>>
submitVars == <<spc, submits>>
ctlVars == <<ctl, cancelled, starts>>
waitVars == <<apc, waits>>
vars == <<poolVars, workerVars, submitVars, ctlVars, waitVars, result>>

\* The n-th task of a submitter.
Tasks == Submitters \X (1..MaxSubmits)
TaskOf(s) == <<s, submits[s]>>
NoTask == <<>>

Init ==
    /\ running = FALSE
    /\ active = 0
    /\ tasks = <<>>
    /\ mut = NoOne
    /\ wpc = [w \in Workers |-> "off"]
    /\ hand = [w \in Workers |-> NoTask]
    /\ spc = [s \in Submitters |-> "idle"]
    /\ submits = [s \in Submitters |-> 0]
    /\ ctl = "idle"
    /\ cancelled = <<>>
    /\ starts = 0
    /\ apc = [a \in Waiters |-> "idle"]
    /\ waits = [a \in Waiters |-> 0]
    /\ result = [t \in Tasks |-> "unset"]

MutFree == mut = NoOne

\* promise->set_value().
Settle(t, r) == result' = [result EXCEPT ![t] = r]

\* notify_all() on cond_ and on done_.
WakeWorkers == [w \in Workers |-> IF wpc[w] = "asleep" THEN "test" ELSE wpc[w]]
WakeWaiters == [a \in Waiters |-> IF apc[a] = "asleep" THEN "test" ELSE apc[a]]

-----------------------------------------------------------------------------
(* submit(), and push_task(), which is submit() without the future.        *)

QueueFull == MaxQueueSize > 0 /\ Len(tasks) >= MaxQueueSize

\* Lines 90-108: refuse, hand the task to the caller, or go on to queue it.
Submit(s) ==
    /\ spc[s] = "idle"
    /\ submits[s] < MaxSubmits
    /\ MutFree
    /\ submits' = [submits EXCEPT ![s] = @ + 1]
    /\ \/ /\ ~running \/ (QueueFull /\ ~CallerRuns)
          /\ Settle(<<s, submits[s] + 1>>, "rejected")
          /\ UNCHANGED <<mut, spc>>
       \/ /\ running /\ QueueFull /\ CallerRuns
          /\ spc' = [spc EXCEPT ![s] = "callerRuns"]
          /\ UNCHANGED <<mut, result>>
       \/ /\ running /\ ~QueueFull
          /\ mut' = s
          /\ spc' = [spc EXCEPT ![s] = "admitted"]
          /\ UNCHANGED result
    /\ UNCHANGED <<running, active, tasks, workerVars, ctlVars, waitVars>>

\* Line 101.
CallerRunsTask(s) ==
    /\ spc[s] = "callerRuns"
    /\ Settle(TaskOf(s), "done")
    /\ spc' = [spc EXCEPT ![s] = "idle"]
    /\ UNCHANGED <<poolVars, workerVars, submits, ctlVars, waitVars>>

\* Lines 109-110.
SubmitPush(s) ==
    /\ spc[s] = "admitted"
    /\ tasks' = Append(tasks, TaskOf(s))
    /\ mut' = NoOne
    /\ spc' = [spc EXCEPT ![s] = "notify"]
    /\ UNCHANGED <<running, active, workerVars, submits, ctlVars, waitVars, result>>

\* Mutant: cond_ is not notified.
NotifiableNobody == {}

Notifiable == {w \in Workers : wpc[w] = "asleep"}

\* Line 112: cond_.notify_one() wakes one sleeping worker, if there is any.
SubmitNotify(s) ==
    /\ spc[s] = "notify"
    /\ IF Notifiable = {} THEN UNCHANGED wpc
       ELSE \E w \in Notifiable : wpc' = [wpc EXCEPT ![w] = "test"]
    /\ spc' = [spc EXCEPT ![s] = "idle"]
    /\ UNCHANGED <<poolVars, hand, submits, ctlVars, waitVars, result>>

-----------------------------------------------------------------------------
(* worker_loop().                                                          *)

Move(w, pc) == wpc' = [wpc EXCEPT ![w] = pc]

MayPop == tasks # <<>>

\* Lines 111-121: pop a task, leave, or find nothing to do.
WorkerTest(w) ==
    /\ wpc[w] = "test"
    /\ MutFree
    /\ \/ /\ MayPop
          /\ hand' = [hand EXCEPT ![w] = Head(tasks)]
          /\ tasks' = Tail(tasks)
          /\ Move(w, "popped")
          /\ UNCHANGED mut
       \/ /\ ~MayPop /\ ~running
          /\ Move(w, "exited")
          /\ UNCHANGED <<hand, tasks, mut>>
       \/ /\ ~MayPop /\ running
          /\ Move(w, "tested")
          /\ mut' = w
          /\ UNCHANGED <<hand, tasks>>
    /\ UNCHANGED <<running, active, submitVars, ctlVars, waitVars, result>>

\* cond_.wait() releases mut_ and sleeps.
WorkerSleep(w) ==
    /\ wpc[w] = "tested"
    /\ Move(w, "asleep")
    /\ mut' = NoOne
    /\ UNCHANGED <<running, active, tasks, hand, submitVars, ctlVars, waitVars, result>>

\* A condition variable may wake its waiters for no reason.
WorkerSpurious(w) ==
    /\ wpc[w] = "asleep"
    /\ Move(w, "test")
    /\ UNCHANGED <<poolVars, hand, submitVars, ctlVars, waitVars, result>>

\* Line 125.
WorkerActivate(w) ==
    /\ wpc[w] = "popped"
    /\ active' = active + 1
    /\ Move(w, "running")
    /\ UNCHANGED <<running, tasks, mut, hand, submitVars, ctlVars, waitVars, result>>

\* Lines 126-137; an exception of the task ends up in its promise.
WorkerRun(w) ==
    /\ wpc[w] = "running"
    /\ Settle(hand[w], "done")
    /\ hand' = [hand EXCEPT ![w] = NoTask]
    /\ Move(w, "ran")
    /\ UNCHANGED <<poolVars, submitVars, ctlVars, waitVars>>

\* Line 138.
WorkerDeactivate(w) ==
    /\ wpc[w] = "ran"
    /\ active' = active - 1
    /\ Move(w, "notify")
    /\ UNCHANGED <<running, tasks, mut, hand, submitVars, ctlVars, waitVars, result>>

\* Line 139: done_.notify_all().
WorkerNotify(w) ==
    /\ wpc[w] = "notify"
    /\ apc' = WakeWaiters
    /\ Move(w, "test")
    /\ UNCHANGED <<poolVars, hand, submitVars, ctlVars, waits, result>>

-----------------------------------------------------------------------------
(* start(), stop(), shutdown() on the controlling thread.                  *)

Start ==
    /\ ctl = "idle"
    /\ starts < MaxStarts
    /\ ~running
    /\ running' = TRUE
    /\ starts' = starts + 1
    /\ wpc' = [w \in Workers |-> "test"]
    /\ UNCHANGED <<active, tasks, mut, hand, submitVars, ctl, cancelled, waitVars, result>>

\* Line 46 and line 72: the exchange of running_.
Halt(pc) ==
    /\ ctl = "idle"
    /\ running
    /\ running' = FALSE
    /\ ctl' = pc
    /\ UNCHANGED <<active, tasks, mut, workerVars, submitVars, cancelled, starts,
                   waitVars, result>>

Stop == Halt("stopSwap")

Shutdown == Halt("shutNotify")

\* Mutant: the queue is copied, not swapped.
QueueAfterStopKept == tasks

QueueAfterStop == <<>>

\* Lines 50-54.
StopSwap ==
    /\ ctl = "stopSwap"
    /\ MutFree
    /\ cancelled' = tasks
    /\ tasks' = QueueAfterStop
    /\ ctl' = "stopCancel"
    /\ UNCHANGED <<running, active, mut, workerVars, submitVars, starts, waitVars, result>>

\* Lines 55-57.
StopCancel ==
    /\ ctl = "stopCancel"
    /\ IF cancelled = <<>>
       THEN ctl' = "stopNotify" /\ UNCHANGED <<cancelled, result>>
       ELSE /\ Settle(Head(cancelled), "cancelled")
            /\ cancelled' = Tail(cancelled)
            /\ UNCHANGED ctl
    /\ UNCHANGED <<poolVars, workerVars, submitVars, starts, waitVars>>

\* Mutant: cond_ is not notified.
WokenByStopNobody == wpc

WokenByStop == WakeWorkers

\* Lines 58-59: done_.notify_all(), cond_.notify_all().
StopNotify ==
    /\ ctl = "stopNotify"
    /\ wpc' = WokenByStop
    /\ apc' = WakeWaiters
    /\ ctl' = "stopJoin"
    /\ UNCHANGED <<poolVars, hand, submitVars, cancelled, starts, waits, result>>

\* Line 76: cond_.notify_all().
ShutdownNotify ==
    /\ ctl = "shutNotify"
    /\ wpc' = WakeWorkers
    /\ ctl' = "shutJoin"
    /\ UNCHANGED <<poolVars, hand, submitVars, cancelled, starts, waitVars, result>>

\* Lines 61-66 and 78-83.
Join ==
    /\ ctl \in {"stopJoin", "shutJoin"}
    /\ \A w \in Workers : wpc[w] = "exited"
    /\ wpc' = [w \in Workers |-> "off"]
    /\ ctl' = "idle"
    /\ UNCHANGED <<poolVars, hand, submitVars, cancelled, starts, waitVars, result>>

-----------------------------------------------------------------------------
(* wait_all().                                                             *)

WaitAll(a) ==
    /\ apc[a] = "idle"
    /\ waits[a] < MaxWaits
    /\ waits' = [waits EXCEPT ![a] = @ + 1]
    /\ apc' = [apc EXCEPT ![a] = "test"]
    /\ UNCHANGED <<poolVars, workerVars, submitVars, ctlVars, result>>

\* The predicate of done_.wait(), with mut_ held.
WaitTest(a) ==
    /\ apc[a] = "test"
    /\ MutFree
    /\ IF tasks = <<>> /\ active = 0
       THEN apc' = [apc EXCEPT ![a] = "idle"] /\ UNCHANGED mut
       ELSE apc' = [apc EXCEPT ![a] = "tested"] /\ mut' = a
    /\ UNCHANGED <<running, active, tasks, workerVars, submitVars, ctlVars, waits, result>>

WaitSleep(a) ==
    /\ apc[a] = "tested"
    /\ apc' = [apc EXCEPT ![a] = "asleep"]
    /\ mut' = NoOne
    /\ UNCHANGED <<running, active, tasks, workerVars, submitVars, ctlVars, waits, result>>

-----------------------------------------------------------------------------
SubmitContinue(s) == CallerRunsTask(s) \/ SubmitPush(s) \/ SubmitNotify(s)

WorkerStep(w) ==
    \/ WorkerTest(w)
    \/ WorkerSleep(w)
    \/ WorkerActivate(w)
    \/ WorkerRun(w)
    \/ WorkerDeactivate(w)
    \/ WorkerNotify(w)

ControlContinue ==
    StopSwap \/ StopCancel \/ StopNotify \/ ShutdownNotify \/ Join

WaitContinue(a) == WaitTest(a) \/ WaitSleep(a)

Next ==
    \/ \E s \in Submitters : Submit(s) \/ SubmitContinue(s)
    \/ \E w \in Workers : WorkerStep(w) \/ WorkerSpurious(w)
    \/ Start \/ Stop \/ Shutdown \/ ControlContinue
    \/ \E a \in Waiters : WaitAll(a) \/ WaitContinue(a)

Spec == Init /\ [][Next]_vars

\* A thread that is inside a call, or inside worker_loop(), is scheduled, and a
\* task returns.  mut_ is handed on: a thread that finds it free again and
\* again gets it.  Nobody has to call anything, and no wakeup is spurious.
Fairness ==
    /\ \A s \in Submitters : WF_vars(SubmitContinue(s))
    /\ \A w \in Workers : SF_vars(WorkerStep(w))
    /\ SF_vars(ControlContinue)
    /\ \A a \in Waiters : SF_vars(WaitContinue(a))

FairSpec == Spec /\ Fairness

-----------------------------------------------------------------------------
(* Properties.                                                             *)

\* A promise is set once: a second set_value() would throw.  The pop of a worker,
\* the swap of stop(), the rejections and caller_runs never settle a task twice.
PromiseSetOnce ==
    [][\A t \in Tasks : result[t] # "unset" => result'[t] = result[t]]_vars

\* The future that submit() returns becomes ready, whether the task is run, cancelled
\* or rejected.
FuturesBecomeReady ==
    \A s \in Submitters : \A n \in 1..MaxSubmits :
       submits[s] >= n ~> result[<<s, n>>] # "unset"

\* stop() returns: no worker sleeps through it.
StopReturns == ctl = "stopSwap" ~> ctl = "idle"

\* The test calls shutdown() after its tasks and goes on: shutdown() returns.
ShutdownReturns == ctl = "shutNotify" ~> ctl = "idle"
=============================================================================
