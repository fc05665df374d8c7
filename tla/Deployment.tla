----------------------------- MODULE Deployment -----------------------------
(* From service definitions to running services: build_worker_plan() places *)
(* the instances of every service on workers, EndpointManager::build_plan() *)
(* decides who shares a listening port, and every worker, a thread with its *)
(* own event loop or a process, builds an Application from its instances,   *)
(* starts it, runs it and stops it.  Module Supervisor has the restarts.    *)
(*                                                                          *)
(* A service is "plain", or it is "loop": its stop() closes its server in   *)
(* the worker's event loop and waits for that, as HttpService does.         *)
EXTENDS Naturals, Sequences, FiniteSets, SequencesExt

CONSTANTS
    DepEnvs     \* [mode, count, defs, faults, exits, slow]: RunMode, worker_count,
                \* the definitions [placement, instances, endpoints, kind], may
                \* services fail, loops end on their own, starts take over 10 s?

VARIABLES
    dep_env,    \* the configuration, see DepEnvs
    plan,       \* worker_plans_: what each worker is to run
    wk,         \* the workers
    boss        \* the thread that owns the Bootstrap: [pc, at]

dep_vars == <<dep_env, plan, wk, boss>>

Defs == dep_env.defs
Threaded == dep_env.mode = "thread"
-----------------------------------------------------------------------------
(* build_worker_plan()                                                      *)

Instance(s, i, n) == [service |-> s, index |-> i, of |-> n]
Normalized(n) == IF n = 0 THEN 1 ELSE n

\* Mutant: the first worker is left out of the round.
SpreadFromSecond(s, w, n, count) ==
    SelectSeq([i \in 1..n |-> Instance(s, i - 1, n)], LAMBDA x : x.index % count = w)
\* The shards of service s that the round-robin gives to data worker w.
Spread(s, w, n, count) ==
    SelectSeq([i \in 1..n |-> Instance(s, i - 1, n)],
              LAMBDA x : x.index % count = w - 1)

\* The workers after service s has been placed on them.
Place(workers, s, count) ==
    LET d == Defs[s]
        n == Normalized(d.instances)
        give(shares(_)) == [w \in DOMAIN workers |->
            IF w > count THEN workers[w]
            ELSE [workers[w] EXCEPT !.instances = @ \o shares(w)]]
        first(w) == IF w = 1 THEN <<Instance(s, 0, 1)>> ELSE <<>>
        each(w) == <<Instance(s, w - 1, count)>>
        shards(w) == Spread(s, w, n, count)
    IN  CASE d.placement = "disabled" -> workers
          [] d.placement = "singleton" -> give(first)
          [] d.placement = "all_workers" -> give(each)
          [] d.placement = "sharded" -> give(shards)
          [] d.placement = "dedicated" ->
               workers \o [i \in 1..n |-> [dedicated |-> TRUE,
                                           instances |-> <<Instance(s, i - 1, n)>>]]

build_worker_plan ==
    LET count == Normalized(dep_env.count)
        place(workers, s) == Place(workers, s, count)
    IN  FoldLeft(place, [w \in 1..count |-> [dedicated |-> FALSE, instances |-> <<>>]],
                 [s \in DOMAIN Defs |-> s])
-----------------------------------------------------------------------------
(* EndpointManager::build_plan().  An endpoint is its normalised key [host, *)
(* port, protocol]; the host "any" is 0.0.0.0, and port 0 asks for any.     *)

Listening(s) == {e \in Defs[s].endpoints : e.protocol # "internal"}

Owners(workers, key) ==
    {<<w, x>> \in (DOMAIN workers) \X UNION {Range(workers[w].instances) : w \in DOMAIN workers} :
        x \in Range(workers[w].instances) /\ key \in Listening(x.service)}

\* Mutant: only instances on different workers share a port.
SharedByWorkers(owners) ==
    Cardinality({o[1] : o \in owners}) > 1
\* analyze_binding(): more than one worker or instance has the endpoint.
Replicated(owners) ==
    \/ Cardinality({o[1] : o \in owners}) > 1
    \/ Cardinality({<<o[2].service, o[2].index>> : o \in owners}) > 1

\* classify_binding()
Strategy(workers, key) ==
    LET owners == Owners(workers, key)
    IN  CASE key.port = 0 \/ ~Replicated(owners) -> "private_bind"
          [] OTHER -> IF Cardinality({o[2].service : o \in owners}) = 1
                      THEN "reuse_port" ELSE "conflict"

Keys == UNION {Listening(s) : s \in DOMAIN Defs}
Valid(workers) == \A key \in Keys : Strategy(workers, key) # "conflict"

\* service_instance_requires_reuse_port()
RequiresReusePort(x) ==
    \E key \in Keys : /\ Strategy(plan, key) = "reuse_port"
                      /\ \E o \in Owners(plan, key) : o[2] = x
-----------------------------------------------------------------------------
(* The Application of a worker.                                             *)

Idle == [step |-> "off", rest |-> <<>>, ok |-> TRUE]
\* A worker that is not started: the thread, its event loop, the flags of its
\* Application, its services, those to be started and whether one has thrown, was
\* the worker given up after 10 s, and who is in Application::stop().
NoWorker == [pc |-> "off", stopping |-> FALSE, loop |-> "none",
             initialized |-> FALSE, running |-> FALSE, svc |-> <<>>,
             todo |-> {}, threw |-> FALSE, late |-> FALSE, failed |-> FALSE,
             stop |-> [worker |-> Idle, boss |-> Idle]]

DepInit ==
    /\ dep_env \in DepEnvs
    /\ plan = <<>> /\ wk = <<>>
    /\ boss = [pc |-> "plan", at |-> 1]

Become(w, r) == wk' = [wk EXCEPT ![w] = r]
Mine(w) == plan[w].instances
Kind(w, k) == Defs[Mine(w)[k].service].kind
\* The services that hold their ports, one that would not stop included; a process
\* takes them along.
Holds(w, k) == /\ wk[w].svc[k] \in {"inited", "started", "threw", "refused"}
               /\ Threaded \/ wk[w].pc \notin {"ended", "killed"}
Endpoints(w, k) == Listening(Mine(w)[k].service)
\* Two endpoints want one socket address: every protocol but "udp" is on TCP.
Overlap(e, f) ==
    /\ e.port = f.port /\ e.port # 0
    /\ e.protocol = "udp" <=> f.protocol = "udp"
    /\ e.host = f.host \/ "any" \in {e.host, f.host}
\* The endpoints on which a bind() of service k would fail, with what is in the way:
\* an address that is held, and not both sockets have SO_REUSEPORT.
Blocked(w, k) ==
    {c \in Endpoints(w, k) \X Keys :
        /\ Overlap(c[1], c[2])
        /\ \E v \in DOMAIN wk : \E j \in DOMAIN wk[v].svc :
              /\ Holds(v, j) /\ c[2] \in Endpoints(v, j)
              /\ ~(RequiresReusePort(Mine(v)[j]) /\ RequiresReusePort(Mine(w)[k]))}
Bindable(w, k) == Blocked(w, k) = {}

All(w, states) == \A k \in DOMAIN wk[w].svc : wk[w].svc[k] \in states
First(w, state) == CHOOSE k \in DOMAIN wk[w].svc :
    wk[w].svc[k] = state /\ \A j \in 1..(k - 1) : wk[w].svc[j] # state

\* add_service_instance() of every instance: the second of a name is refused,
\* and so is a process without a service.
Build(w) ==
    LET names == {x.service : x \in Range(Mine(w))}
        good == /\ Cardinality(names) = Len(Mine(w))
                /\ Threaded \/ Mine(w) # <<>>
        ready == [wk[w] EXCEPT !.svc = [k \in DOMAIN Mine(w) |-> "new"], !.pc = "init"]
    IN  /\ wk[w].pc = "build"
        /\ \/ good /\ Become(w, ready)
           \/ (~good \/ dep_env.faults)
              /\ Become(w, [wk[w] EXCEPT !.pc = "ended", !.failed = TRUE])
        /\ UNCHANGED <<dep_env, plan, boss>>

\* Application::init(), one service: it binds its ports, or returns false.
InitOne(w) ==
    /\ wk[w].pc = "init" /\ ~All(w, {"inited"})
    /\ LET k == First(w, "new") IN
       \/ /\ Bindable(w, k)
          /\ Become(w, [wk[w] EXCEPT !.svc[k] = "inited"])
       \/ /\ ~Bindable(w, k) \/ dep_env.faults
          /\ Become(w, [wk[w] EXCEPT !.pc = "ended", !.failed = TRUE])
    /\ UNCHANGED <<dep_env, plan, boss>>

InitDone(w) ==
    /\ wk[w].pc = "init" /\ All(w, {"inited"})
    /\ Become(w, [wk[w] EXCEPT !.pc = "start", !.initialized = TRUE,
                               !.todo = DOMAIN wk[w].svc])
    /\ UNCHANGED <<dep_env, plan, boss>>

\* start_services_multi_thread() of a thread worker starts every service on a
\* thread of its own, also one that was stopped meanwhile;
\* start_services_single_thread() of a process goes by the order, and what a service
\* throws ends the process.
StartOne(w, k) ==
    LET r == [wk[w] EXCEPT !.todo = @ \ {k}]
    IN  /\ wk[w].pc = "start" /\ k \in wk[w].todo
        /\ Threaded \/ \A j \in wk[w].todo : k <= j
        /\ \/ Become(w, [r EXCEPT !.svc[k] = "started"])
           \/ /\ dep_env.faults
              /\ Become(w, IF Threaded
                           THEN [r EXCEPT !.svc[k] = "threw", !.threw = TRUE]
                           ELSE [r EXCEPT !.pc = "killed", !.failed = TRUE])
        /\ UNCHANGED <<dep_env, plan, boss>>

\* Mutant: an Application that is not running has nothing to stop.
StopIfRunning(r) ==
    IF r.running
    THEN [step |-> "next", ok |-> TRUE, rest |-> Reverse([k \in DOMAIN r.svc |-> k])]
    ELSE [Idle EXCEPT !.step = "done"]
\* Application::stop() is entered; it does nothing if nothing is initialised.
StopEntered(r) ==
    IF r.initialized \/ r.running
    THEN [step |-> "next", ok |-> TRUE, rest |-> Reverse([k \in DOMAIN r.svc |-> k])]
    ELSE [Idle EXCEPT !.step = "done"]

\* All services started: the loop runs, if only to find that it is to quit.  One has
\* thrown: all are stopped.
StartDone(w) ==
    /\ wk[w].pc = "start" /\ wk[w].todo = {}
    /\ Become(w, IF wk[w].threw
                 THEN [wk[w] EXCEPT !.stop.worker = StopEntered(wk[w]), !.pc = "undo"]
                 ELSE [wk[w] EXCEPT !.running = TRUE, !.pc = "up",
                                    !.loop = IF @ = "quit" THEN @ ELSE "on"])
    /\ UNCHANGED <<dep_env, plan, boss>>
-----------------------------------------------------------------------------
(* Application::stop(), by the worker itself or by the thread that owns the *)
(* Bootstrap, service by service in reverse order.                          *)

\* A "loop" service that is started is stopped by a callback in the worker's
\* loop; who waits until it has run.  stop() of a "plain" one may return false: the
\* service has not shut down.
StopOne(w, who) ==
    LET s == wk[w].stop[who]
        k == s.rest[1]
        waits == Threaded /\ Kind(w, k) = "loop" /\ wk[w].svc[k] = "started"
        returned(ok) == [wk[w] EXCEPT !.svc[k] = IF ok THEN "stopped" ELSE "refused",
                                      !.stop[who].step = "next",
                                      !.stop[who].rest = Tail(@),
                                      !.stop[who].ok = @ /\ ok]
    IN  /\ s.rest # <<>>
        /\ \/ /\ s.step = "next" /\ waits
              /\ Become(w, [wk[w] EXCEPT !.stop[who].step = "waiting"])
           \/ /\ s.step = "served" \/ (s.step = "next" /\ ~waits)
              /\ Become(w, returned(TRUE))
           \/ /\ s.step = "next" /\ ~waits /\ dep_env.faults
              /\ Kind(w, k) = "plain" /\ wk[w].svc[k] # "stopped"
              /\ Become(w, returned(FALSE))
        /\ UNCHANGED <<dep_env, plan, boss>>

\* The flags are cleared only if every service has stopped.
StopDone(w, who) ==
    /\ wk[w].stop[who].step = "next" /\ wk[w].stop[who].rest = <<>>
    /\ LET ok == wk[w].stop[who].ok IN
       Become(w, [wk[w] EXCEPT !.initialized = @ /\ ~ok, !.running = @ /\ ~ok,
                               !.stop[who] = [Idle EXCEPT !.step = "done"]])
    /\ UNCHANGED <<dep_env, plan, boss>>

\* What the callbacks in the queue of the loop have done.
Served(stop) ==
    [who \in DOMAIN stop |->
        IF stop[who].step = "waiting" THEN [stop[who] EXCEPT !.step = "served"]
                                      ELSE stop[who]]

\* The loop of a worker works off its queue.
RunQueue(w) ==
    /\ wk[w].loop = "on" /\ Served(wk[w].stop) # wk[w].stop
    /\ Become(w, [wk[w] EXCEPT !.stop = Served(@)])
    /\ UNCHANGED <<dep_env, plan, boss>>

\* run() returns: quit() was called, or the loop ended on its own; either way
\* after a last look at the queue.  A worker that was not told to stop stops
\* its Application.  In a process no service has a run() of its own, so the
\* process stops its Application at once.
LoopReturns(w) ==
    /\ wk[w].pc = "up"
    /\ ~Threaded \/ wk[w].loop = "quit" \/ dep_env.exits
    /\ LET r == [wk[w] EXCEPT !.loop = "off", !.stop = Served(@)] IN
       Become(w, IF r.stopping THEN [r EXCEPT !.pc = "ended"]
                 ELSE [r EXCEPT !.pc = "undo", !.stop.worker = StopEntered(r)])
    /\ UNCHANGED <<dep_env, plan, boss>>

\* The end of a worker that stopped its own Application: a thread has failed,
\* a process leaves with status 0.
Undone(w) ==
    /\ wk[w].pc = "undo" /\ wk[w].stop.worker.step = "done"
    /\ Become(w, [wk[w] EXCEPT !.pc = "ended", !.failed = Threaded])
    /\ UNCHANGED <<dep_env, plan, boss>>
-----------------------------------------------------------------------------
(* Bootstrap::run() and shutdown()                                          *)

\* prepare_worker_plan(): a plan with a conflict is refused.
Prepare ==
    /\ boss.pc = "plan"
    /\ \E workers \in {build_worker_plan} :
          IF Valid(workers)
          THEN /\ plan' = workers
               /\ wk' = [w \in DOMAIN workers |-> NoWorker]
               /\ boss' = [boss EXCEPT !.pc = "run"]
          ELSE boss' = [boss EXCEPT !.pc = "refused"] /\ UNCHANGED <<plan, wk>>
    /\ UNCHANGED dep_env

\* A thread is waited for until it is ready, a process is not.
LaunchWorker ==
    /\ boss.pc = "run" /\ boss.at <= Len(plan)
    /\ Become(boss.at, [wk[boss.at] EXCEPT !.pc = "build"])
    /\ boss' = IF Threaded THEN [boss EXCEPT !.pc = "ready"]
                           ELSE [boss EXCEPT !.at = @ + 1]
    /\ UNCHANGED <<dep_env, plan>>

Shut == [pc |-> "shutdown", at |-> 1]

WorkerReady ==
    LET r == wk[boss.at] IN
    /\ boss.pc = "ready" /\ (r.loop # "none" \/ r.pc = "ended")
    /\ boss' = IF r.loop # "none" THEN [pc |-> "run", at |-> boss.at + 1] ELSE Shut
    /\ UNCHANGED <<dep_env, plan, wk>>

\* The 10 s are over: a start is slow, or stuck in a stop() that waits for the loop.
\* The runtime is there by then, and told to stop; the thread goes on.
TimesOut ==
    LET r == wk[boss.at] IN
    /\ boss.pc = "ready" /\ r.loop = "none" /\ r.pc # "ended"
    /\ dep_env.slow \/ r.stop.worker.step = "waiting"
    /\ Become(boss.at, [r EXCEPT !.stopping = TRUE, !.loop = "quit", !.late = TRUE])
    /\ boss' = Shut
    /\ UNCHANGED <<dep_env, plan>>

BootDone ==
    /\ boss.pc = "run" /\ boss.at > Len(plan)
    /\ boss' = [boss EXCEPT !.pc = "up"]
    /\ UNCHANGED <<dep_env, plan, wk>>

Shutdown ==
    /\ boss.pc = "up"
    /\ boss' = Shut
    /\ UNCHANGED <<dep_env, plan, wk>>

\* in_process_workers_
Begun == {w \in DOMAIN wk : wk[w].pc # "off"}

\* The workers of in_process_workers_, one after the other: stopping is set,
\* the Application stopped ...
ShutWorker ==
    LET r == wk[boss.at] IN
    /\ Threaded /\ boss.pc = "shutdown" /\ boss.at \in Begun
    /\ Become(boss.at, [r EXCEPT !.stopping = TRUE, !.stop.boss = StopEntered(r)])
    /\ boss' = [boss EXCEPT !.pc = "stopping"]
    /\ UNCHANGED <<dep_env, plan>>

\* Mutant: the services are stopped, the loop is not.
StopsNoLoop(loop) ==
    loop
\* ... and the loop told to quit, which it remembers.
Quit(loop) ==
    IF loop = "off" THEN loop ELSE "quit"

ShutNext ==
    LET r == wk[boss.at] IN
    /\ boss.pc = "stopping" /\ r.stop.boss.step = "done"
    /\ Become(boss.at, [r EXCEPT !.loop = Quit(@)])
    /\ boss' = [pc |-> "shutdown", at |-> boss.at + 1]
    /\ UNCHANGED <<dep_env, plan>>

JoinWorkers ==
    /\ Threaded /\ boss.pc = "shutdown"
    /\ boss.at \notin Begun /\ \A w \in Begun : wk[w].pc = "ended"
    /\ boss' = [boss EXCEPT !.pc = "stopped"]
    /\ UNCHANGED <<dep_env, plan, wk>>

\* SIGTERM sets a flag of the worker that nobody reads; SIGKILL follows.
KillAll ==
    /\ ~Threaded /\ boss.pc = "shutdown"
    /\ wk' = [w \in DOMAIN wk |-> IF wk[w].pc = "ended" THEN wk[w]
                                   ELSE [wk[w] EXCEPT !.pc = "killed"]]
    /\ boss' = [boss EXCEPT !.pc = "stopped"]
    /\ UNCHANGED <<dep_env, plan>>
-----------------------------------------------------------------------------
WorkerStep(w) ==
    \/ Build(w) \/ InitOne(w) \/ InitDone(w) \/ StartDone(w)
    \/ \E k \in DOMAIN wk[w].svc : StartOne(w, k)
    \/ \E who \in {"worker", "boss"} : StopOne(w, who) \/ StopDone(w, who)
    \/ RunQueue(w) \/ Undone(w)
    \/ wk[w].loop = "quit" /\ LoopReturns(w)

BossStep ==
    \/ Prepare \/ LaunchWorker \/ WorkerReady \/ TimesOut \/ BootDone
    \/ ShutWorker \/ ShutNext \/ JoinWorkers \/ KillAll

\* What happens by itself.
DepStep == BossStep \/ \E w \in DOMAIN wk : WorkerStep(w)

DepNext == DepStep \/ Shutdown \/ \E w \in DOMAIN wk : LoopReturns(w)

DepSpec == DepInit /\ [][DepNext]_dep_vars

(* Every thread runs, and a loop that was told to quit ends.  A behaviour   *)
(* has finitely many steps, so one condition for all of them is enough.     *)
DepFairness == WF_dep_vars(DepStep)

DepFairSpec == DepSpec /\ DepFairness
-----------------------------------------------------------------------------
(* The plan has every instance of every service once and nothing else: one  *)
(* on the first worker, one per data worker, n over the data workers whose  *)
(* shares differ by at most one, or n on workers of their own.              *)
PlanIsExact ==
    plan # <<>> =>
    \A s \in DOMAIN Defs :
        LET count == Normalized(dep_env.count)
            n == Normalized(Defs[s].instances)
            on(w) == {k \in DOMAIN Mine(w) : Mine(w)[k].service = s}
            placed == UNION {{<<w, k>> : k \in on(w)} : w \in DOMAIN plan}
            total == CASE Defs[s].placement = "disabled" -> 0
                       [] Defs[s].placement = "singleton" -> 1
                       [] Defs[s].placement = "all_workers" -> count
                       [] OTHER -> n
        IN  /\ Cardinality(placed) = total
            /\ {Mine(p[1])[p[2]].index : p \in placed} = 0..(total - 1)
            /\ \A p \in placed : /\ Mine(p[1])[p[2]].of = total
                                 /\ plan[p[1]].dedicated
                                    <=> Defs[s].placement = "dedicated"
            /\ Defs[s].placement # "singleton" => \A v, w \in DOMAIN plan :
                   plan[v].dedicated = plan[w].dedicated
                   /\ (plan[v].dedicated => on(v) # {} /\ on(w) # {})
                   => Cardinality(on(v)) <= Cardinality(on(w)) + 1

(* The endpoint plan is right about who shares an endpoint: no service of a *)
(* plan that was accepted is kept from binding by one with the same key,    *)
(* whatever the order of the starts.  Different keys that overlap, such as  *)
(* "any" and a local host or two protocols over TCP, do get in each other's *)
(* way: the plan does not compare them.                                     *)
NoPortClash ==
    \A w \in DOMAIN wk : wk[w].pc = "init" /\ ~All(w, {"inited"}) =>
        \A c \in Blocked(w, First(w, "new")) : c[1] # c[2]

(* When shutdown() of a Bootstrap with thread workers has returned, every   *)
(* service that was started has been told to stop after that, also by a     *)
(* worker that failed on the way up or whose loop ended in the middle of    *)
(* the shutdown.  Not so one whose worker was given up after 10 s, which    *)
(* starts its services later and stops none.                                *)
StartedAreStopped ==
    Threaded /\ boss.pc = "stopped" =>
        \A w \in DOMAIN wk :
            wk[w].late \/ All(w, {"new", "inited", "stopped", "refused"})

(* shutdown() comes to its end, unless a service waits for a loop that does *)
(* not run any more, or does not run yet.                                   *)
ShutdownEnds ==
    boss.pc = "shutdown" ~>
        \/ boss.pc = "stopped"
        \/ \E w \in DOMAIN wk : /\ wk[w].pc # "up"
                                 /\ \E who \in {"worker", "boss"} :
                                        wk[w].stop[who].step = "waiting"
=============================================================================
