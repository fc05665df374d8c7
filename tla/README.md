# TLA+ models of server-lib

server-lib ("yuan") is a C++20 networking library: a reactor (`EventLoop`) over epoll,
poll, select, kqueue or IOCP, timers, a thread pool, coroutines, TCP/UDP/KCP connections,
and on top of these a set of protocols, client libraries, a plugin system, a multi-process
application frame and servers.  This directory holds TLA+ modules for the concurrent core,
the TLC configurations that check them on small instances, and TLAPS proofs.

Source paths below are relative to the root of the repository.  `PROJECT.json` maps every
definition to the lines it models and lists components, hazards, findings and theorems.

## How the parts interact

One thread runs `EventLoop::loop()`.  Each round it runs due timers, drains the callback
and the coroutine queue, asks the timer manager how long it may sleep, polls, and dispatches
events to `Channel`s, whose handlers are connections.  Other threads reach the loop only
through the two queues (`queue_in_loop`, `post_coroutine`), through `run_in_loop_sync`, and
through the wakeup pipe that ends a sleep.  Connections run on the loop thread; calls from
other threads are queued.  `ThreadPool` is independent of the loop.

Above the connections, coroutines await reads, writes and closes, and are resumed by the
loop or inside a notification.  `libs/rpc` matches responses to calls and resumes the
coroutine that awaits one; its callbacks come from any thread.  At the top, `Bootstrap`
places service instances on workers (threads with a loop each, or processes), starts an
`Application` in each, supervises and restarts them, and shuts them down.

| Module | Models | State and steps |
|---|---|---|
| `EventLoop` | `core/core/src/event/event_loop.cpp`: life cycle, queues, wakeup, synchronous calls | The program counter of the loop thread (`lpc`) and of each client (`cpc`); one action per critical section.  `setup_mutex_` is held across a wait, so it is a variable. |
| `LoopMailbox` | what a queue promises to those who post to it | Abstract specification: accept, serve in order, close when empty. |
| `ThreadPool` | `core/core/src/thread/thread_pool.cpp` | Workers, submitters, waiters and a controller.  A critical section that reads an atomic written without `mut_` and then acts on it is two steps. |
| `TimerContract` | what `after()` and `every()` promise | Abstract specification, shared by both backends. |
| `HeapTimer` | `HeapTimerManager`, `BasicTimer`, the poll timeout | The heap in push order; callbacks schedule and cancel inside `tick()`; the clock moves at any moment. |
| `WheelTimer` | `WheelTimerManager`, `Wheel`, `WheelTimerItem`, `WheelTimer` | Slots as sequences; `tick()` cascades and triggers click by click. |
| `ChannelRegistry` | `channels_`, generations, tombstones, `EpollPoller`, the kernel's interest list | Registration, update, close, poll, dispatch and deferral, with reuse of descriptors. |
| `ExternalFd` | `ExternalFdRegistration` and channel calls from other threads | Clients against a loop that starts, stops and starts again. |
| `TcpConnection` | `core/core/src/net/connection/tcp_connection.cpp`, the base class, `Channel::on_event()` | The loop thread is a stack of frames, because every notification runs user code that may call the connection again. |
| `StreamAwaiters` | `core/core/include/coroutine/stream_io_awaitable.h`, `awaiter_timeout_state.h`, the waiters of `Connection` | One connection on its loop; the loop's turn of timers, callbacks, coroutines and events; again a stack of frames, because all awaiters but the reader resume their coroutine inside the notification. |
| `RpcSession` | `libs/rpc/src`, `coroutine_rpc.h` | Both ends of a transport, pending calls, the registry of coroutines, the frame decoder.  A step is what a thread does under one lock, or one callback outside of the locks. |
| `Supervisor` | `core/app/src/bootstrap.cpp`: `run()`, `wait()`, `poll_workers()`, `shutdown()` | Worker processes or threads against polls.  A poll is one step; deadlines are relative, in polls of 50 ms. |
| `Deployment` | `worker_plan.cpp`, `endpoint_manager.cpp`, `application.cpp`, the worker threads of `bootstrap.cpp`, `HttpService::stop()` | From service definitions to running services and back; `stop()` by the worker and by the owner of the `Bootstrap` may run at once. |
| `EventLoopProofs`, `ThreadPoolProofs`, `HeapTimerProofs`, `ChannelRegistryProofs`, `ExternalFdProofs`, `TcpConnectionProofs`, `RpcSessionProofs` | theorems about the module each is named after | `TcpConnectionMethods` holds the lemmas of `TcpConnectionProofs` about single methods of the connection. |

The `MC*` modules add the sets and symmetries TLC needs and nothing else.  `MCCoroutines`
(`StreamAwaiters`, `RpcSession`, `ExternalFd`), `MCSupervisorTimer` (`Supervisor`, `HeapTimer`)
and `MCConnectionDeployment` (`TcpConnection`, `Deployment`) put several specifications into
one run: the initial state chooses one of them, which then moves alone, under its own
fairness.  The parts of such a run have nothing to do with each other.

`EventLoop` and `ChannelRegistry` split one class: the first sees other channels as the
event "io", the second has no other threads.  `ExternalFd` puts a small part of both
together, because its hazards lie between them.  `Supervisor` and `Deployment` split `Bootstrap`: the
first sees a worker as up or gone and has the restarts, the second sees the services of the
workers and has no restarts.  `TcpConnection` relies on what
`EventLoop` shows of the callback queue (FIFO, served once) and has its own copy of the
edge-triggered registration of one channel; `StreamAwaiters` keeps of the connection what
the awaiters see, and of the output only whether there is any.

## Runs

| Run | Result | What it asks |
|---|---|---|
| `event_loop_safety` | holds | No sleep with work queued (`NoSleepOnWork`); no synchronous call stranded by a stop (`SyncCallsServed`); none run by its caller beside a running loop (`SetupExcludesLoop`); FIFO, exactly once (`FifoOnce`). |
| `event_loop_liveness` | holds | Both queues implement `LoopMailbox` (refinement, with fairness); `quit()` stops; synchronous calls return and waiters leave (`BlockingCallsReturn`). |
| `thread_pool` | holds | Every promise is set once, every future becomes ready, `stop()` returns. |
| `thread_pool_shutdown` | **violated** | `shutdown()` returns. |
| `wheel_timer` | holds | Lists exact, no timer overdue, `TimerContract` (refinement). |
| `channel_registry` | holds | The three registries agree, no edge is lost, no event reaches another channel. |
| `coroutines` | holds | `StreamAwaiters`: no suspended coroutine loses what resumes it, no code touches an awaiter that is gone, no coroutine stays suspended in an await that has a timeout or has completed (`AwaitsReturn`).  `RpcSession`: a call is resumed once, with its own answer; one with a timeout returns.  `ExternalFd`: of the channels that are destroyed, the loop still points to those that were registered and whose `close_channel()` was refused, and to no others (`LostOnlyIfRefused`); calls return. |
| `awaiter_timeout` | **violated** | A timeout and an event that come together resume a coroutine once. |
| `second_read` | **violated** | A second read is refused, and the first still completes. |
| `supervisor_timer` | holds | `Supervisor`: nothing left after a shutdown, no start while the circuit holds, no crashed worker forgotten (processes with the circuit excepted).  `HeapTimer`: heap and owner list agree (`HeapAgrees`); the poll ends in time; `TimerContract` (refinement); due timers fire. |
| `worker_circuit` | **violated** | The circuit breaker holds restarts back until recovery resumes. |
| `connection_deployment` | holds | `TcpConnection`: order and completeness of the output through `close()` and `shutdown_write()`; no output or input without an event to come (`EdgesBringBack`); the socket is released.  `Deployment`: the plan is exact, services with one endpoint key share it (`NoPortClash`), what was started in time is told to stop, `shutdown()` ends or waits for a loop that does not run. |

Every property of a passing run has a mutant: a plausible bug, defined next to the code it
changes (`\* Mutant: ...`), under which TLC finds the property violated.

### What the violated runs show

* `thread_pool_shutdown`: `shutdown()` notifies without taking `mut_`, which `stop()` does.
  A worker between its test and its sleep misses the notification and `join()` hangs.
* `awaiter_timeout`: the timer posts the handle and only sets `timed_out`; the pending read
  stays registered and `completed` unset.  An event before the coroutine runs posts the
  handle again, and the second resumption hits whatever the coroutine awaits by then.
* `second_read`: a read that finds another one registered is refused with `invalid_state`
  (`stream_io_awaitable.h:81`), but its `await_resume()` clears the pending read of the
  connection, which is the other one's (line 218).  The data that comes later is notified to
  nobody.  `docs/CORE_BASELINE_RESULTS.md:573` and `docs/CORE_REFACTOR_TASK_BREAKDOWN.md:163`
  say that the first waiter still completes.
* `worker_circuit`: the process whose exit opens the circuit is passed over before a restart
  was made pending (`bootstrap.cpp:1307-1321`); the thread is made pending first
  (`bootstrap.cpp:910`).  When the circuit closes, `start_due_worker_restarts()` has nothing
  to do for it.  The run has the default counts of `runtime_context.h`;
  `docs/PROJECT_REFACTOR_STATUS.md:399` says that recovery resumes.

### Where the passing instances stop short

Each of these is a behaviour of the same modules.  Where a row names an instance outside of
the passing run and a property, the property does not hold there; the instance can be had by
changing one line of a `.cfg` or of an `MC` module.  The other rows name what a passing
property leaves out, or what no property states.

| Module | Instance | What happens |
|---|---|---|
| `WheelTimer` | `Repeats <- Turn` | `KeepsContract`: a timer re-armed while slot 0 is emptied, with an interval of a turn of the first wheel or more, lands a slot of the higher wheel too early. |
| `ExternalFd` | any that lets `loop()` start after a call has begun | No other thread works on `channels_` while `loop()` runs (`event_loop.h:37`): `update_channel()` and `close_channel()` look at `loop_running_` and act later (`Mutate` after `LoopStart`).  No run states this. |
| `ChannelRegistry` | `TokenBits = 1` | `DataIsSignalled`: a generation that does not fit into the token (after 2^32 registrations in the code) never compares equal, and the events of its channel are dropped. |
| `TcpConnection` | `MaxInput` above `DrainMax` | `EdgesBringBack`: the loop of reads stops at `ET_DRAIN_MAX_BUFFER_SIZE` (4 MB) without having seen EAGAIN and without re-registering. |
| `StreamAwaiters` | `sync_errors`, or a flush with `others_close` | `AwaitersOutliveCallbacks`: a send that fails inside `await_suspend()` resumes the coroutine, and `await_suspend()` goes on in an awaiter that is gone; a flush waits on without output and is resumed by a close in the middle of its own `await_suspend()`. |
| `StreamAwaiters` | writes without a timeout | What a writer queues inside the notification of `on_write_event()` is sent by the second flush, which notifies nobody: only a timeout ends the wait. |
| `StreamAwaiters` | `Envs <- TwoReaders` | `NoneForgotten`, for the reason given under `second_read`. |
| `EventLoop` | `MaxLoopPosts` | It bounds the posts of callbacks, and is 0 in the liveness run.  `QuitStops` says nothing of a callback that posts itself again and again, for which the final drain (`event_loop.cpp:602-616`) has no limit. |
| `RpcSession` | `failures` with shared coroutine ids | `ResumedOnceWithOwnAnswer`: a failed send cancels twice, and the second cancel may meet another call with the same id. |
| `RpcSession` | `failures` with `slow_sends` | `ResumedOnceWithOwnAnswer`: when the deadline passes inside a send that then fails, `poll_timeouts()` resumes the coroutine and the failed send resumes it again. |
| `Supervisor` | any with threads | `wait()` may return at the first failure, although restarts are on: a thread that says "failed" after the poll is not pending yet when `has_failed_workers()` looks at it (`bootstrap.cpp:352`). |
| `Deployment` | mode "process" | A worker process leaves with status 0 as soon as its services are started, because no service overrides `Service::run()`. |
| `Deployment` | "loop" services and loops that end on their own | `shutdown()` hangs in `HttpService::stop()`; `ShutdownEnds` excepts just this. |
| `Deployment` | endpoints with different keys for one socket address (`Beside` in `MCDeployment`) | The plan compares host, port and protocol (`endpoint_manager.cpp:38`).  0.0.0.0 beside a local address, or two protocols over TCP on one port, pass it, and the second `bind()` fails.  `NoPortClash` speaks of equal keys only. |
| `Deployment` | a `stop()` that returns false | `shutdown_in_process_workers()` ignores it (`bootstrap.cpp:1083`) and ends the loop, although `service.h:27` says that a false result keeps loop and dependencies alive.  `StartedAreStopped` says that the service was told to stop, not that it did. |
| `Deployment` | `slow` starts | A worker given up after 10 s starts its services later, finds that it is to stop, and leaves without stopping them (`bootstrap.cpp:741`).  `StartedAreStopped` excepts these workers. |
| `Deployment` | more shards than data workers | The plan is exact (`PlanIsExact`) and cannot run: `add_service_instance()` refuses the second instance of a name. |

The traces are behaviours of the models; none has been reproduced on the compiled library.

### Bounds

| Run | Bounds | Why these |
|---|---|---|
| `event_loop_safety` | 2 clients, 1 call each, 2 posts by callbacks, 1 run, wakeup pipe | Two posts are needed for a callback to post while another is drained. |
| `event_loop_liveness` | 2 clients, 1 call each, 2 runs, no pipe | Re-entry of `loop()`, and only the bounded sleep to bring the loop round. |
| `thread_pool` | 2 workers, 2 submitters, 1 waiter, 2 starts, queue of 1, caller-runs | A full queue, a restart and an idle worker beside a busy one. |
| `wheel_timer` | 2 timers, wheels of 3 slots (1000 in the code), clock to 10 | Up to three wheels, so that timers cascade. |
| `channel_registry` | 3 channels, 2 descriptors, 3 generations | A descriptor reused twice.  Generations do not wrap within these bounds. |
| `coroutines` | a reader and a writer with 2 awaits each, 2 pieces of input; 2 RPC calls, own or shared ids; 2 clients and 2 runs of `loop()`, calls at any time | An await begun inside the notification that ended the one before; a late answer to an id that is in use again; a call that begins before a run of the loop and is marshalled in it or after it (three clients, tried apart from this run, give the same results with 187,000 states instead of 6,400). |
| `supervisor_timer` | 2 workers, 3 failures, backoffs of 1, 2 and 3 polls, 7 configurations; 2 timers, timeouts 1 and 3, clock to 4 | Three failures reach the threshold of the circuit, and let one worker fail again while the other is held back; a short timer can overtake a long one, and repeat. |
| `connection_deployment` | 2 calls of 2 or 7 bytes, send buffer of 2, output limit 4, 1 byte of input; 75 deployments of 1 or 2 services on 1 or 2 data workers | Full, partial and blocked sends, an overflow before and after a part was sent, and a close or FIN behind a write; every placement with another service beside it, shared, overlapping and free ports, more shards than workers, failing and slow starts. |
| `second_read`, `worker_circuit`, `awaiter_timeout`, `thread_pool_shutdown` | two readers and 1 piece of input; processes with the counts of `runtime_context.h`; a reader and a writer and 1 piece of input; one worker and one submission | Small instances in which the case happens. |

All passing runs but `wheel_timer` switch off the deadlock check, because these systems may come to
rest: clients use up their calls, the loop stops, the connection is closed.

### Fairness

* `EventLoop`: weak fairness of the loop thread and of clients in the middle of a call.  No
  client is made to call, and nobody is made to call `loop()` or `quit()`.
* `ThreadPool`: weak fairness of submitters inside a call, strong fairness of the workers, the
  controller and waiters, which compete for `mut_` again and again; this assumes a mutex that
  starves nobody, and that tasks return.
* `HeapTimer`: the loop thread runs and time passes.
* `ExternalFd`: threads go on, and the loop drains its queue in each round.
* `TcpConnection`: methods and user code return, each round of `loop()` dispatches events and
  runs callbacks, and the peer goes on reading.  The last is an assumption about the peer:
  `close()` with pending output has no timeout, so it does not end against a peer that
  neither reads nor resets.
* `StreamAwaiters`: the loop runs, and deadlines pass (strong, because timers are looked at
  in one phase of a turn only).  Nothing is assumed of the peer.
* `RpcSession`: threads go on, and `poll_timeouts()` keeps being called.  Nothing is assumed
  of the transport or the peer.
* `Supervisor`: the thread that owns the `Bootstrap` goes on, and a worker thread that was
  told to stop, or whose loop has returned, ends; one that was given up does come up or fail
  some day.  No worker has to fail or to stay up.
* `Deployment`: what can happen by itself does; nobody has to call `shutdown()`.

## Proofs

TLAPS proves these for every value of the constants that the named assumption of the module
allows: any set of threads, timers, channels or calls, and any bounds.  Where a theorem has a
hypothesis of its own, it is given.

* `TypeCorrect` (`EventLoop`): `Spec => []TypeOK`.  The invariant is split into Boolean flags
  and data, each preserved step by step.
* `SetupGate` (`EventLoop`): `Spec => []SetupExcludesLoop`.  The invariant itself is not
  inductive; `SetupInv` adds that a thread inside `run_in_loop_sync()` holds `setup_mutex_`,
  and that one working directly does so only while the loop is not running.  Only `EnterLoop`
  publishes `running`, and it needs the mutex free.
* `Fifo` (`EventLoop`): `Spec => []FifoOnce`.  `FifoInv` adds that a batch is in hand only
  while a queue is being drained, so that the step to the other queue drops nothing.
* `NoLostWakeup` (`EventLoop`): `Spec => []NoSleepOnWork`.  `WakeInv` says, from the test of
  the loop condition on, what the loop will not look at again before it polls: `quit_` and
  the resume request at once, a queue from its swap on.  All of that has a wakeup coming
  (`Covered`: an edge in the pipe, a wakeup event not yet handled, or a client about to
  write), or was posted by a callback, after which `processed_work` keeps the poll from
  blocking.  It also needs that an unread byte without an edge has been reported.
* `NoCallStranded` (`EventLoop`): `Spec => []SyncCallsServed`.  The property is inductive
  together with the types and `FifoInv`: no step that changes the queue at hand or
  publishes `stopped` is taken with a batch in hand.
* `PromisesOnce` (`ThreadPool`): `Spec => PromiseSetOnce`, for either policy and any size of
  the queue.  The property says nothing of where a task is; `IInv` does: a task is with its
  submitter, in `tasks_`, in the hand of a worker or in the queue that `stop()` swapped out,
  in one of them at most and only while its promise is unset.  `HeldTasksAreUnset` states
  that part, which says more than the run: a second `set_value()` with the same value is
  excluded too.  `mut_` makes each critical section one step; beyond that the proof uses
  neither `mut_` nor the program counters of the workers.
* `Lifetime` (`ExternalFd`): `Spec => []LostOnlyIfRefused`, for any clients, any number of runs
  of `loop()`, and calls before, between and after them.  `IInv` says for each stage of a
  client who is in `channels_` and what was refused until then, that the marshalled call and
  the stage belong together, and that at most one client waits in the queue, because it
  holds `setup_mutex_` meanwhile.
* `HeapAlwaysAgrees`, `PollAlwaysEndsInTime` (`HeapTimer`): `Spec => []HeapAgrees` and
  `Spec => []PollEndsInTime`.  `IInv` ties each timer's state to the containers: `timers_`
  owns it once while it exists; only a waiting or a cancelled timer is on `heap_`, once and
  under its own deadline; the timer whose callback runs is off the heap.  So the top's
  deadline bounds that of every waiting timer, which gives the second theorem.  `IInv` also
  shows that the branch of `tick()` for an entry whose deadline is not its timer's is never
  taken.
* `HeapKeepsContract` (`HeapTimer`): `Spec => KeepsContract`, the refinement of
  `TimerContract`.  `trigger()` maps to the firing, with what the timer will be after its
  callback (`Promise`); the return of the callback, pops of stale entries and polls are
  stuttering; `cancel()` is a cancel, or forgets a timer in its last callback;
  `cleanup_cancelled()` forgets.  It needs that a counted period is not over while the timer
  waits (`CountOK`).
* `RegistrationsAlwaysAgree`, `EventsAlwaysReachTheirChannel` (`ChannelRegistry`):
  `Spec => []RegistrationsAgree` and `Spec => EventsReachTheirChannel`, for any channels,
  descriptors and width of the tokens.  The second rests on `EventOK`: an event in flight
  carries at most the generation of its channel, and a later owner of the descriptor has a
  higher one.
* `DataIsAlwaysSignalled` (`ChannelRegistry`): `Spec => []DataIsSignalled`, assuming that
  the generations fit into a token (`TokensSuffice`: `MaxGeneration < 2^TokenBits`, with 32
  bits in the code).  When they do not, the filter of the loop drops the events of the
  channel, because it compares the token with all 64 bits of the generation.
* `StreamStaysInOrder`, `FinAlwaysFollowsOutput`, `ClosedStaysUnregistered`,
  `OutputIsBroughtBack` (`TcpConnection`): for every size of write, send buffer, output limit
  and number of calls.  `IInv` says of each kind of frame on the stack what holds while it
  is there, above all which frames still have to register write interest, send the FIN or
  finish the close; one lemma per method (`TcpConnectionMethods`) shows what the frames it
  leaves owe.  `OutputIsBroughtBack` is the half of `EdgesBringBack` about output.
* `EdgesAlwaysBringBack` (`TcpConnection`): `Spec /\ [][~StopsAtLimit]_vars => []EdgesBringBack`,
  for any amount of input.  `StopsAtLimit` is one step, the read that leaves at
  `ET_DRAIN_MAX_BUFFER_SIZE`; every other step of every method keeps unread input, and the
  end of the stream, under an edge to come.  So this step alone is to blame where the property
  fails (see above).
* `ResumedOnce` (`RpcSession`): `RpcSpec => []ResumedOnceWithOwnAnswer`, for any number of
  calls, assuming `SoundEnvs`: nothing fails, or no two calls share a coroutine id and no
  deadline passes inside a send.  `OwnerOK` says who is to resume each call: its own thread
  before it is pending or after its send failed, the map of pending calls, or the one thread
  that took it from the map, and never two of these.  `IdOK` and `FrameOK` keep the ids
  apart, so that a late frame completes its own call or none.  TLC refutes the property
  when either half of the assumption is dropped (see above).

What stays with TLC:

* Liveness and fairness, with them the refinement of `LoopMailbox`: beyond TLAPS here.
* `WheelTimer`: slots are powers of the wheel's size and its lists are filtered with
  `SelectSeq`, so its invariants rest on facts by induction over data.
* `StreamAwaiters`, `Supervisor`, `Deployment`: they filter and fold sequences (`SelectSeq`,
  `FoldLeft`) in most steps.  The provers know nothing of what these compute, and what they
  compute can only be shown by induction.
* The instances listed above, where the property fails.

## Abstractions

* `EventLoop`: callbacks are tokens that may post or quit.  Exceptions are left out.
* `ThreadPool`: one thread controls the pool.  What tasks do is left out.
* `WheelTimer`: time is counted in clicks worked off.
* `ChannelRegistry`: readable data is a flag, sockets are always writable, no hang-ups.
* `TcpConnection`: no TLS; epoll only; bytes are numbers; a reader takes the whole input;
  event waiters and handler are one piece of user code, so their order is not visible;
  `abort()` is called on the loop thread; `flush()` and `shutdown_write()` are not called
  while connecting; `connections_` of the loop is not part of it.
* `StreamAwaiters`: coroutines are sequences of awaits that end after a close; every event
  is level-triggered.
* `RpcSession`: a frame is a header and a body; a handler always answers; codecs, encryption
  and the typed client and server on top are left out.
* `Supervisor`: snapshots, state events and the legacy path for concrete services, which has
  the same control, are left out.
* `Deployment`: an endpoint is its normalised key; `bind()` knows two hosts, "any" and one
  address, and puts every protocol but "udp" on TCP.  A start may take more than 10 s where
  the configuration says so (`slow`), or when it is stuck.  A service is given a socket in
  `init()` and keeps it until its `stop()` has returned true or its process ends.

## Not modelled

`PROJECT.json` lists each part with its reason.  The repository has about 190,000 lines; the
modules cover the reactor, its timers and its pool, one path of a connection, the awaiters
on it, the RPC session and the application frame, which is a small share of the lines and
where threads, callbacks and time meet.  What remains falls into these groups.

* Variants of what is modelled: the poll, select and kqueue pollers (level-triggered, so the
  hazards of lost edges do not arise), IOCP, datagram, connect and accept awaitables.  They
  would need a module each of the size of the one that is there.
* The rest of the core: tasks and completion events, the runtime, connectors and acceptors,
  UDP and KCP, sharded listeners, buffers, TLS (calls into OpenSSL).
* Libraries: Redis and MySQL clients, logger, plugin system and host.
* Protocols: HTTP/1 and HTTP/2, WebSocket, MQTT, SSH, BitTorrent, FTP, SMB, SOCKS5 and
  Shadowsocks, RTSP to WebRTC, WebDAV.  Most of their code is parsing and formatting, which a
  model would leave out; their session states run on one loop thread.
* Servers: match, proxy, NAS.
* Nothing to model: socket wrappers, DNS encoding, script bindings, wiring of services,
  command line programs, third-party Lua.

`TcpConnection` and `ChannelRegistry` are not composed: they have 244,000 and 1.2 million
states on their own at these bounds.
