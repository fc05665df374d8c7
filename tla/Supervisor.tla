----------------------------- MODULE Supervisor -----------------------------
(* app::Bootstrap as the supervisor of its workers: processes it forks      *)
(* (mode "process") or threads that run an event loop each ("thread").  It  *)
(* starts them, polls them in wait(), restarts the ones that fail within    *)
(* the limits of a restart window and of a circuit breaker, and shuts them  *)
(* down.  A poll is one step: a worker that fails during a poll fails       *)
(* before or after it.  Time is counted in polls, every sleep of 50 ms is a *)
(* tick, and is relative: a deadline is the ticks that are left, the start  *)
(* of a window the ticks since then, up to the length of the window.        *)
EXTENDS Integers, Sequences, FiniteSets, SequencesExt, TLC

CONSTANTS
    Workers,        \* the workers, one per WorkerPlan
    SupEnvs,        \* configurations: [mode, restart, max, window, threshold]
    Backoff,        \* worker_restart_backoff_ms
    RetryBackoff,   \* the 1000 ms before a failed start is tried again
    FailureWindow,  \* supervisor_failure_window_ms
    CircuitBackoff, \* supervisor_circuit_backoff_ms
    MaxFailures     \* bound: workers that fail, and starts that fail

VARIABLES
    sup_env,    \* the configuration, see SupEnvs
    proc,       \* each worker: "none", "up", "crashed" or "exited", and of a thread
                \* "late", "quitting" (late, in its loop), "ending", "failing"
    boot,       \* the supervisor's own state, see Fresh and SupInit
    main,       \* where the thread that owns the Bootstrap is
    fails       \* bookkeeping: failures so far

sup_vars == <<sup_env, proc, boot, main, fails>>
-----------------------------------------------------------------------------
\* WorkerProcessInfo, or InProcessWorker, of a worker that is not started.
Fresh == [running |-> FALSE, pending |-> FALSE, suppressed |-> FALSE, due |-> 0,
          age |-> 0, attempts |-> 0, normal |-> FALSE, failed |-> FALSE,
          stopping |-> FALSE]

SupInit ==
    /\ sup_env \in SupEnvs
    /\ proc = [w \in Workers |-> "none"]
    /\ boot = [w |-> [x \in Workers |-> Fresh], order |-> <<>>, open |-> FALSE,
               reset |-> 0, age |-> FailureWindow + 1, failures |-> 0, detected |-> FALSE,
               shutdown |-> FALSE, state |-> "starting"]
    /\ main = "run"
    /\ fails = 0

Threads == sup_env.mode = "thread"
Alive(w) == proc[w] \in {"up", "late", "quitting", "ending", "failing"}
Set(b, w, fields) == [b EXCEPT !.w[w] = fields @@ @]
\* A loop over the vector of workers: op takes the state and a worker.
Each(op(_, _), b) ==
    FoldLeft(op, b, b.order)
-----------------------------------------------------------------------------
(* What a poll makes of a failed worker.                                    *)

\* The supervisor's failure window rolls over, or counts one more.
CountFailure(b) ==
    IF b.age > FailureWindow
    THEN [b EXCEPT !.age = 0, !.failures = 1]
    ELSE [b EXCEPT !.failures = @ + 1]

\* The circuit opens: every restart that is pending waits for its reset.
OpenCircuit(b) ==
    LET held(r) == IF r.pending THEN [r EXCEPT !.suppressed = TRUE,
                                               !.due = CircuitBackoff]
                                ELSE r
    IN  [b EXCEPT !.open = TRUE, !.reset = CircuitBackoff, !.state = "degraded",
                  !.w = [w \in Workers |-> held(b.w[w])]]

\* Mutant: a restart that is suppressed is not pending.
Forgotten(r) ==
    [r EXCEPT !.suppressed = TRUE, !.due = sup_env.window - r.age]
\* Too many restarts: the next one waits for the end of the window.
PutOff(r) ==
    [r EXCEPT !.pending = TRUE, !.suppressed = TRUE,
              !.due = sup_env.window - r.age]

\* The worker's own restart window, and the restart it allows.
ScheduleRestart(b, w) ==
    LET r == IF sup_env.window > 0 /\ b.w[w].age > sup_env.window
             THEN [b.w[w] EXCEPT !.age = 0, !.attempts = 0] ELSE b.w[w]
    IN  CASE r.attempts < sup_env.max ->
               [b EXCEPT !.w[w] = [r EXCEPT !.attempts = @ + 1,
                                            !.pending = TRUE,
                                            !.suppressed = FALSE,
                                            !.due = Backoff],
                         !.state = "recovering"]
          [] r.attempts >= sup_env.max /\ sup_env.window > 0 ->
               [b EXCEPT !.w[w] = PutOff(r), !.state = "degraded"]
          [] OTHER -> [b EXCEPT !.w[w] = r, !.detected = TRUE,
                                !.state = "degraded"]

TooMany(b) == sup_env.threshold > 0 /\ b.failures >= sup_env.threshold

\* reap_worker_processes(): waitpid() has a status for a worker that is gone.
\* The worker whose exit opens the circuit is not made pending.
Reap(b, w) ==
    LET gone == Set(b, w, [running |-> FALSE, pending |-> FALSE,
                           suppressed |-> FALSE, normal |-> proc[w] = "exited"])
        counted == CountFailure(gone)
    IN  CASE ~b.w[w].running \/ Alive(w) -> b
          [] OTHER -> CASE proc[w] = "exited" \/ b.shutdown -> gone
                        [] TooMany(counted) -> OpenCircuit(counted)
                        [] ~sup_env.restart -> counted
                        [] OTHER -> ScheduleRestart(counted, w)

\* The worker that opens the circuit of a "thread" supervisor waits with the
\* others, if workers are restarted at all.
Held(b, w) ==
    IF sup_env.restart
    THEN Set(OpenCircuit(b), w, [pending |-> TRUE, suppressed |-> TRUE,
                                 due |-> CircuitBackoff])
    ELSE [OpenCircuit(b) EXCEPT !.detected = TRUE]

\* update_in_process_worker_failures(): the part for one worker.
Update(b, w) ==
    LET counted == CountFailure(b)
    IN  CASE b.w[w].stopping \/ ~b.w[w].failed \/ b.w[w].pending -> b
          [] OTHER -> CASE TooMany(counted) -> Held(counted, w)
                        [] ~sup_env.restart ->
                             [counted EXCEPT !.detected = TRUE,
                                             !.state = "degraded"]
                        [] OTHER -> ScheduleRestart(counted, w)
-----------------------------------------------------------------------------
(* The circuit, and the restarts that are due.                              *)

\* Mutant: only a new failure is kept back, not a restart that is due.
NeverHolds(b) ==
    FALSE
\* The circuit is open and its backoff is not over.
CircuitHolds(b) ==
    b.open /\ b.reset > 0

\* The circuit closes again; what was suppressed by it no longer is.
CloseCircuit(b) ==
    IF ~b.open THEN b
    ELSE [b EXCEPT !.open = FALSE, !.age = 0,
                   !.failures = 0, !.state = "recovering",
                   !.w = [w \in Workers |-> [b.w[w] EXCEPT
                              !.suppressed = @ /\ ~b.w[w].pending]]]

Due(b, w) == b.w[w].pending /\ b.w[w].due = 0

\* A suppressed worker starts a new window.
Unsuppress(b, w) ==
    IF b.w[w].suppressed
    THEN Set(b, w, [age |-> 0, attempts |-> 0, suppressed |-> FALSE])
    ELSE b

Recovering(b) == \E w \in Workers : b.w[w].pending

AfterRestart(b) ==
    IF b.detected THEN b
    ELSE [b EXCEPT !.state = IF Recovering(b) THEN "recovering" ELSE "running"]

\* start_worker_process(): fork() works or not.
Started(b, w) ==
    Set(b, w, [running |-> TRUE, pending |-> FALSE, suppressed |-> FALSE,
               normal |-> FALSE, due |-> 0, failed |-> FALSE,
               stopping |-> FALSE])

NotStarted(b, w) ==
    [Set(b, w, [pending |-> TRUE, suppressed |-> FALSE,
                due |-> RetryBackoff]) EXCEPT !.state = "degraded"]

\* start_due_worker_restarts(): every worker that is due, in order.
StartDue(b, refused) ==
    LET one(c, w) == CASE ~Due(c, w) -> c
                       [] w \in refused -> NotStarted(Unsuppress(c, w), w)
                       [] OTHER -> AfterRestart(Started(Unsuppress(c, w), w))
    IN  IF CircuitHolds(b) THEN b ELSE Each(one, CloseCircuit(b))

\* The tail of poll_workers(): SIGTERM to the rest once a worker has failed
\* for good.
FailFast(b) ==
    IF b.detected /\ ~b.shutdown /\ \E w \in Workers : b.w[w].running
    THEN [b EXCEPT !.shutdown = TRUE, !.state = "degraded"] ELSE b

\* The workers that are due, in the order of the vector: a poll restarts the
\* first.
DueInOrder(b) ==
    SelectSeq(b.order, LAMBDA w : Due(b, w))

\* A restarted worker is a new object at the end of the vector: it keeps its
\* counters.  It came up, its start failed, or it was not ready in 10 s.
Replace(b, w, outcome) ==
    LET u == Unsuppress(b, w)
        n == [u EXCEPT !.order = Append(SelectSeq(@, LAMBDA x : x # w), w),
                       !.w[w] = [Fresh EXCEPT !.attempts = u.w[w].attempts,
                                              !.age = u.w[w].age]]
    IN  CASE outcome = "up" -> AfterRestart(Started(n, w))
          [] outcome = "failed" -> NotStarted(Set(n, w, [failed |-> TRUE]), w)
          [] outcome = "late" -> NotStarted(Set(n, w, [stopping |-> TRUE]), w)
-----------------------------------------------------------------------------
(* The workers.                                                             *)

MayFail == fails < MaxFailures

\* A worker process dies, or leaves on its own; SIGTERM only sets a flag in it
\* that nobody reads.
ProcessEnds(w) ==
    /\ ~Threads /\ proc[w] = "up"
    /\ \/ proc' = [proc EXCEPT ![w] = "crashed"] /\ MayFail /\ fails' = fails + 1
       \/ proc' = [proc EXCEPT ![w] = "exited"] /\ UNCHANGED fails
    /\ UNCHANGED <<sup_env, boot, main>>

\* A thread that was not ready in 10 s starts after all, though it has been told to
\* stop, or fails.
LateStarts(w) ==
    /\ Threads /\ proc[w] = "late"
    /\ \/ /\ proc' = [proc EXCEPT ![w] = "quitting"]
          /\ boot' = Set(boot, w, [running |-> TRUE])
       \/ /\ proc' = [proc EXCEPT ![w] = "exited"]
          /\ boot' = Set(boot, w, [failed |-> TRUE])
    /\ UNCHANGED <<sup_env, main, fails>>

\* A worker thread's event loop returns: running is cleared, stopping is tested ...
RunReturns(w) ==
    LET told == boot.w[w].stopping
    IN  /\ Threads /\ proc[w] \in {"up", "quitting"}
        /\ told \/ MayFail
        /\ fails' = IF told THEN fails ELSE fails + 1
        /\ proc' = [proc EXCEPT ![w] = IF told THEN "ending" ELSE "failing"]
        /\ boot' = Set(boot, w, [running |-> FALSE])
        /\ UNCHANGED <<sup_env, main>>

\* ... and if it was not told to stop, it stops its application and only then
\* says that it failed.
ThreadEnds(w) ==
    /\ Threads /\ proc[w] \in {"ending", "failing"}
    /\ IF proc[w] = "ending"
       THEN /\ proc' = [proc EXCEPT ![w] = "exited"]
            /\ UNCHANGED boot
       ELSE /\ proc' = [proc EXCEPT ![w] = "crashed"]
            /\ boot' = Set(boot, w, [failed |-> TRUE])
    /\ UNCHANGED <<sup_env, main, fails>>
-----------------------------------------------------------------------------
(* run(): the workers are started one after the other.                      *)

Outcomes == IF Threads THEN {"up", "failed", "late"} ELSE {"up", "failed"}
\* What is left of a worker that did not come up: a late one goes on.
ProcAfter(outcome) == CASE outcome = "up" -> "up"
                        [] outcome = "failed" -> "none"
                        [] outcome = "late" -> "late"

StartWorker(w, outcome) ==
    /\ main = "run" /\ w \notin Range(boot.order)
    /\ outcome # "up" => MayFail
    /\ fails' = IF outcome = "up" THEN fails ELSE fails + 1
    /\ proc' = [proc EXCEPT ![w] = ProcAfter(outcome)]
    /\ LET b == [boot EXCEPT !.order = Append(@, w)] IN
       boot' = CASE outcome = "up" -> Started(b, w)
                 [] outcome = "late" -> Set(b, w, [stopping |-> TRUE])
                 [] OTHER -> IF Threads THEN Set(b, w, [failed |-> TRUE])
                                        ELSE boot
    /\ main' = IF outcome = "up" THEN "run" ELSE "stop"
    /\ UNCHANGED sup_env

RunDone ==
    /\ main = "run" /\ Range(boot.order) = Workers
    /\ boot' = [boot EXCEPT !.state = "running"]
    /\ main' = "check"
    /\ UNCHANGED <<sup_env, proc, fails>>
-----------------------------------------------------------------------------
(* wait(): poll the workers until none is left or one has failed.           *)

\* has_running_workers()
Running(b) ==
    \E w \in Workers : b.w[w].running

WaitCheck ==
    /\ main = "check"
    /\ main' = IF Running(boot) \/ Recovering(boot) THEN "poll" ELSE "returned"
    /\ UNCHANGED <<sup_env, proc, boot, fails>>

PollProcesses ==
    /\ main = "poll" /\ ~Threads
    /\ \E reaped \in {Each(Reap, boot)} :
       \E refused \in SUBSET {w \in Workers : Due(reaped, w)} :
          LET b == StartDue(reaped, refused)
              up == {w \in Workers : ~reaped.w[w].running /\ b.w[w].running}
          IN  /\ refused # {} => MayFail /\ ~CircuitHolds(reaped)
              /\ fails' = fails + Cardinality(refused)
              /\ proc' = [w \in Workers |-> IF w \in up THEN "up" ELSE proc[w]]
              /\ boot' = FailFast(b)
    /\ main' = "look"
    /\ UNCHANGED sup_env

PollThreads ==
    /\ main = "poll" /\ Threads
    /\ \E b \in {Each(Update, CloseCircuit(boot))} :
       LET due == DueInOrder(b)
       IN  IF CircuitHolds(boot) THEN UNCHANGED <<boot, proc, fails>>
           ELSE IF CircuitHolds(b) \/ due = <<>>
           THEN boot' = b /\ UNCHANGED <<proc, fails>>
           ELSE /\ ~Alive(due[1])          \* joined before it is replaced
                /\ \E outcome \in Outcomes :
                      /\ outcome # "up" => MayFail
                      /\ fails' = IF outcome = "up" THEN fails ELSE fails + 1
                      /\ boot' = Replace(b, due[1], outcome)
                      /\ proc' = [proc EXCEPT ![due[1]] = ProcAfter(outcome)]
    /\ main' = "look"
    /\ UNCHANGED sup_env

HasFailed ==
    \/ boot.detected
    \/ Threads /\ \E w \in Workers : /\ boot.w[w].failed
                                     /\ ~boot.w[w].stopping
                                     /\ ~boot.w[w].pending

Look ==
    /\ main = "look"
    /\ main' = IF HasFailed THEN "returned" ELSE "sleep"
    /\ UNCHANGED <<sup_env, proc, boot, fails>>

Less(n) ==
    IF n = 0 THEN 0 ELSE n - 1
More(n, limit) == IF n > limit THEN n ELSE n + 1

Tick(b) ==
    [b EXCEPT !.reset = Less(@), !.age = More(@, FailureWindow),
              !.w = [w \in Workers |->
                  [b.w[w] EXCEPT !.due = Less(@),
                                 !.age = More(@, sup_env.window)]]]

\* 50 ms pass; an application that polls on its own may leave its loop.
Sleep ==
    /\ main = "sleep"
    /\ main' = "check"
    /\ boot' = Tick(boot)
    /\ UNCHANGED <<sup_env, proc, fails>>

Leave ==
    /\ main \in {"sleep", "returned"}
    /\ main' = "stop"
    /\ UNCHANGED <<sup_env, proc, boot, fails>>
-----------------------------------------------------------------------------
(* shutdown(), at the latest in the destructor.                             *)

ShutdownBegins ==
    /\ main = "stop"
    /\ boot' = [boot EXCEPT !.shutdown = TRUE, !.state = "stopping",
                    !.w = [w \in Workers |->
                        [boot.w[w] EXCEPT !.stopping = @ \/ Threads]]]
    /\ main' = IF Threads THEN "joining" ELSE "reaping"
    /\ UNCHANGED <<sup_env, proc, fails>>

Reaped == Each(Reap, boot)

\* SIGTERM was sent; the workers are reaped until the deadline of 2 s.
ReapMore ==
    /\ main = "reaping" /\ Reaped # boot
    /\ boot' = Reaped
    /\ UNCHANGED <<sup_env, proc, main, fails>>

\* The deadline, or no worker is left: SIGKILL to the ones that are.
KillRest ==
    /\ main = "reaping"
    /\ proc' = [w \in Workers |-> IF boot.w[w].running /\ proc[w] = "up"
                                  THEN "crashed" ELSE proc[w]]
    /\ main' = "killed"
    /\ UNCHANGED <<sup_env, boot, fails>>

\* The blocking reap, until none is running.
ReapRest ==
    /\ main = "killed" /\ ~Running(Reaped)
    /\ boot' = [Reaped EXCEPT !.state = "stopped"]
    /\ main' = "stopped"
    /\ UNCHANGED <<sup_env, proc, fails>>

\* Mutant: only the threads whose loop is still running are joined.
JoinedIfRunning(w) ==
    ~boot.w[w].running
\* The thread of a worker, if it ever had one, is joined.
Joined(w) ==
    ~Alive(w)

JoinAll ==
    /\ main = "joining" /\ \A w \in Range(boot.order) : Joined(w)
    /\ boot' = [boot EXCEPT !.state = "stopped", !.order = <<>>]
    /\ main' = "stopped"
    /\ UNCHANGED <<sup_env, proc, fails>>
-----------------------------------------------------------------------------
Supervise ==
    \/ RunDone \/ WaitCheck \/ PollProcesses \/ PollThreads \/ Look \/ Sleep
    \/ ShutdownBegins \/ ReapMore \/ KillRest \/ ReapRest \/ JoinAll

SupNext ==
    \/ \E w \in Workers : \/ ProcessEnds(w)
                          \/ LateStarts(w)
                          \/ RunReturns(w)
                          \/ ThreadEnds(w)
                          \/ \E outcome \in Outcomes : StartWorker(w, outcome)
    \/ Supervise
    \/ Leave

SupSpec == SupInit /\ [][SupNext]_sup_vars

(* The thread that owns the Bootstrap runs, and a worker thread whose loop  *)
(* has returned, or that was told to stop, comes to its end; so does a late *)
(* start.                                                                   *)
SupFairness ==
    /\ WF_sup_vars(Supervise)
    /\ \A w \in Workers :
           /\ WF_sup_vars(LateStarts(w) \/ ThreadEnds(w))
           /\ WF_sup_vars(boot.w[w].stopping /\ RunReturns(w))

SupFairSpec == SupSpec /\ SupFairness
-----------------------------------------------------------------------------
(* A shutdown leaves no worker behind: when the supervisor says "stopped",  *)
(* every process has been reaped and every thread joined, the ones started  *)
(* before a failed start and the ones that came up late included.           *)
NoneLeftRunning ==
    main = "stopped" => \A w \in Workers : ~Alive(w) /\ ~boot.w[w].running

(* No worker is started before the backoff is over that began when the      *)
(* circuit last opened, also none that fails and is scheduled in between;   *)
(* nor once the supervisor has begun to stop the others.                    *)
NoStartWhenHeld ==
    [][\A w \in Workers : proc[w] # "up" /\ proc'[w] = "up" =>
           boot.reset = 0 /\ ~boot.shutdown]_sup_vars

\* A worker runs, or the supervisor has given up or is no longer polled.
UpAgain(w) ==
    \/ proc[w] = "up"
    \/ boot.detected
    \/ main \notin {"check", "poll", "look", "sleep"}

(* A worker that has crashed runs again: a restart that is put off by the   *)
(* backoff, by the restart window or by the circuit of a supervisor of      *)
(* threads is not forgotten.                                                *)
WorkersRecover ==
    \A w \in Workers :
        proc[w] = "crashed" /\ (Threads \/ sup_env.threshold = 0) ~> UpAgain(w)

(* The circuit breaker "can temporarily suppress all pending restarts       *)
(* before recovery resumes" (PROJECT_REFACTOR_STATUS.md:399).  The code     *)
(* does not keep it: the process whose exit opens the circuit stays down.   *)
RecoveryResumes ==
    \A w \in Workers : proc[w] = "crashed" ~> UpAgain(w)
=============================================================================
