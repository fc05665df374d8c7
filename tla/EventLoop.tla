------------------------------ MODULE EventLoop ------------------------------
(***************************************************************************)
(* The reactor of core/core: the life cycle of EventLoop::loop(), its two  *)
(* cross-thread queues, the wakeup pipe, quit(), request_coroutine_resume, *)
(* run_in_loop_sync() and wait_until_stopped().                            *)
(*                                                                         *)
(* One thread calls loop(); the threads in Clients call the thread-safe    *)
(* methods.  A critical section of lifecycle_mutex_ or of spinlock_ never  *)
(* blocks inside, so it is one step; setup_mutex_ is held across a wait    *)
(* and is modelled by its owner.  Channels other than the wakeup pipe are  *)
(* in module ChannelRegistry: here they are the opaque event "io".         *)
(***************************************************************************)
EXTENDS Naturals, Sequences, FiniteSets

CONSTANTS
    Clients,        \* the foreign threads
    MaxOps,         \* bound: calls made by one client
    MaxLoopPosts,   \* bound: posts made by code running on the loop thread
    MaxRuns,        \* bound: calls of loop()
    HasWakeupFd,    \* did init_wakeup_fd() succeed?
    NoOne           \* nobody holds setup_mutex_

ASSUME EventLoopAssumption ==
    /\ MaxOps \in Nat
    /\ MaxLoopPosts \in Nat
    /\ MaxRuns \in Nat
    /\ HasWakeupFd \in BOOLEAN
    /\ NoOne \notin Clients

VARIABLES
    quit,           \* quit_
    resume,         \* resume_coroutine_requested_
    state,          \* state_ (loop_running_ is state = "running")
    setup,          \* owner of setup_mutex_
    pending,        \* pending_callbacks_ and pending_coroutines_
    pipe,           \* is a byte in the wakeup pipe?
    edge,           \* has epoll an unreported edge for the pipe?
    deferred,       \* deferred_events_
    lpc,            \* where the loop thread is
    phase,          \* 1: lines 476-530, 2: lines 588-599, 3: lines 602-616
    queue,          \* the queue that is being drained
    batch,          \* the swapped-out queue a drain works on
    processed,      \* processed_work
    active,         \* active_events
    dispatched,     \* dispatched_events > 0
    current,        \* the callback that is running on the loop thread
    return,         \* where the loop thread goes when the user code returns
    runs,           \* calls of loop() so far
    posts,          \* posts made on the loop thread so far
    cpc,            \* where each client is
    ops,            \* calls begun by each client
    future,         \* has the promise of the client's sync call been set?
    accepted,       \* history: what each queue accepted, in order
    ran             \* history: what each queue ran, in order

flagVars == <<quit, resume>>
lifeVars == <<state, setup>>
wakeupVars == <<pipe, edge>>
drainVars == <<phase, queue, batch, processed>>
eventVars == <<active, dispatched>>
bodyVars == <<current, return>>
countVars == <<runs, posts>>
loopVars == <<lpc, drainVars, eventVars, bodyVars, countVars>>
clientVars == <<cpc, ops>>
historyVars == <<accepted, ran>>
vars == <<flagVars, lifeVars, pending, wakeupVars, deferred, loopVars,
          clientVars, future, historyVars>>

Queues == {"callbacks", "coroutines"}
Events == {"wakeup", "io"}
TheLoop == "loop"

\* An item of a queue: who posted it, its number among the poster's calls, and
\* whether run_in_loop_sync() waits for it.
Items == [from : Clients \cup {TheLoop}, n : 0..(MaxOps + MaxLoopPosts),
          sync : BOOLEAN]
None == [from |-> TheLoop, n |-> 0, sync |-> FALSE]

Init ==
    /\ quit = FALSE
    /\ resume = FALSE
    /\ state = "created"
    /\ setup = NoOne
    /\ pending = [q \in Queues |-> <<>>]
    /\ pipe = FALSE
    /\ edge = FALSE
    /\ deferred = {}
    /\ lpc = "out"
    /\ phase = 1
    /\ queue = "callbacks"
    /\ batch = <<>>
    /\ processed = FALSE
    /\ active = {}
    /\ dispatched = FALSE
    /\ current = None
    /\ return = "out"
    /\ runs = 0
    /\ posts = 0
    /\ cpc = [c \in Clients |-> "idle"]
    /\ ops = [c \in Clients |-> 0]
    /\ future = [c \in Clients |-> FALSE]
    /\ accepted = [q \in Queues |-> <<>>]
    /\ ran = [q \in Queues |-> <<>>]

-----------------------------------------------------------------------------
(* The wakeup pipe and the queues.                                         *)

\* notify_wakeup_fd(): a full pipe (EAGAIN) still holds a byte.  The pipe is
\* registered edge-triggered: a write into an empty pipe is a new edge, one
\* into a non-empty pipe may or may not be reported as one.
Wakeup ==
    IF HasWakeupFd
    THEN /\ pipe' = TRUE
         /\ edge' \in IF pipe THEN {edge, TRUE} ELSE {TRUE}
    ELSE UNCHANGED wakeupVars

\* The push of queue_in_loop(), post_coroutine() and run_in_loop_sync().
Push(q, item) ==
    /\ pending' = [pending EXCEPT ![q] = Append(@, item)]
    /\ accepted' = [accepted EXCEPT ![q] = Append(@, item)]

\* Posts are refused only once the loop has stopped for good.
Refused == state = "stopped" /\ quit

\* Mutant: the gate is missing.
SetupFreeUngated == TRUE

\* setup_mutex_, the gate between setup operations and the startup transition.
SetupFree == setup = NoOne

-----------------------------------------------------------------------------
(* The clients.                                                            *)

Goto(c, pc) == cpc' = [cpc EXCEPT ![c] = pc]

Begin(c) ==
    /\ cpc[c] = "idle"
    /\ ops[c] < MaxOps
    /\ ops' = [ops EXCEPT ![c] = @ + 1]

ItemOf(c, sync) == [from |-> c, n |-> ops[c] + 1, sync |-> sync]

\* queue_in_loop() and post_coroutine() differ in the queue only.
Post(c, q) ==
    /\ Begin(c)
    /\ IF Refused
       THEN UNCHANGED <<cpc, pending, accepted>>
       ELSE Push(q, ItemOf(c, FALSE)) /\ Goto(c, "wakeup")
    /\ UNCHANGED <<flagVars, lifeVars, wakeupVars, deferred, loopVars, future,
                   ran>>

QueueInLoop(c) == Post(c, "callbacks")

PostCoroutine(c) == Post(c, "coroutines")

Quit(c) ==
    /\ Begin(c)
    /\ quit' = TRUE
    /\ Goto(c, "wakeup")
    /\ UNCHANGED <<resume, lifeVars, pending, wakeupVars, deferred, loopVars,
                   future, historyVars>>

RequestCoroutineResume(c) ==
    /\ Begin(c)
    /\ resume' = TRUE
    /\ Goto(c, "wakeup")
    /\ UNCHANGED <<quit, lifeVars, pending, wakeupVars, deferred, loopVars,
                   future, historyVars>>

\* The wakeup() that ends the four calls above.
WakeupLoop(c) ==
    /\ cpc[c] = "wakeup"
    /\ Wakeup
    /\ Goto(c, "idle")
    /\ UNCHANGED <<flagVars, lifeVars, pending, deferred, loopVars, ops,
                   future, historyVars>>

\* run_in_loop_sync(), lines 798-809: take setup_mutex_ and look at state_.
SyncLock(c) ==
    /\ Begin(c)
    /\ SetupFree
    /\ setup' = c
    /\ Goto(c, IF state \in {"created", "stopped"} THEN "direct" ELSE "syncPush")
    /\ UNCHANGED <<flagVars, state, pending, wakeupVars, deferred, loopVars,
                   future, historyVars>>

\* Lines 811-814: no loop runs, the client runs the operation itself.
SyncDirect(c) ==
    /\ cpc[c] = "direct"
    /\ setup' = NoOne
    /\ Goto(c, "idle")
    /\ UNCHANGED <<flagVars, state, pending, wakeupVars, deferred, loopVars,
                   ops, future, historyVars>>

\* Lines 823-841: queue the operation, unless the loop has stopped meanwhile.
SyncPush(c) ==
    /\ cpc[c] = "syncPush"
    /\ IF state = "running"
       THEN /\ Push("callbacks", [from |-> c, n |-> ops[c], sync |-> TRUE])
            /\ Goto(c, "syncWakeup")
            /\ UNCHANGED setup
       ELSE /\ setup' = NoOne
            /\ Goto(c, "idle")
            /\ UNCHANGED <<pending, accepted>>
    /\ UNCHANGED <<flagVars, state, wakeupVars, deferred, loopVars, ops, future,
                   ran>>

SyncWakeup(c) ==
    /\ cpc[c] = "syncWakeup"
    /\ Wakeup
    /\ Goto(c, "syncWait")
    /\ UNCHANGED <<flagVars, lifeVars, pending, deferred, loopVars, ops,
                   future, historyVars>>

\* future.get(), then the release of setup_mutex_.
SyncReturn(c) ==
    /\ cpc[c] = "syncWait"
    /\ future[c]
    /\ future' = [future EXCEPT ![c] = FALSE]
    /\ setup' = NoOne
    /\ Goto(c, "idle")
    /\ UNCHANGED <<flagVars, state, pending, wakeupVars, deferred, loopVars,
                   ops, historyVars>>

\* wait_until_stopped(0): the wait on lifecycle_cv_ re-tests state_ each time
\* it is notified.
WaitUntilStopped(c) ==
    /\ \/ Begin(c)
       \/ cpc[c] = "notified" /\ UNCHANGED ops
    /\ Goto(c, IF state \in {"created", "stopped"} THEN "idle" ELSE "cvWait")
    /\ UNCHANGED <<flagVars, lifeVars, pending, wakeupVars, deferred,
                   loopVars, future, historyVars>>

ClientStart(c) ==
    \/ QueueInLoop(c)
    \/ PostCoroutine(c)
    \/ Quit(c)
    \/ RequestCoroutineResume(c)
    \/ SyncLock(c)

ClientContinue(c) ==
    \/ WakeupLoop(c)
    \/ SyncDirect(c)
    \/ SyncPush(c)
    \/ SyncWakeup(c)
    \/ SyncReturn(c)

-----------------------------------------------------------------------------
(* The thread that calls loop().                                           *)

\* Lines 362-379: the startup transition, under setup_mutex_.
EnterLoop ==
    /\ lpc = "out"
    /\ runs < MaxRuns
    /\ SetupFree
    /\ resume' = (resume /\ state # "stopped")
    /\ state' = "running"
    /\ lpc' = "reset"
    /\ runs' = runs + 1
    /\ UNCHANGED <<quit, setup, pending, wakeupVars, deferred, drainVars,
                   eventVars, bodyVars, posts, clientVars, future,
                   historyVars>>

\* Line 380.
ResetResume ==
    /\ lpc = "reset"
    /\ resume' = FALSE
    /\ lpc' = "check"
    /\ UNCHANGED <<quit, lifeVars, pending, wakeupVars, deferred, drainVars,
                   eventVars, bodyVars, countVars, clientVars, future,
                   historyVars>>

\* Mutant: the loop condition forgets quit_.
ExitRequestedByResume == resume

ExitRequested == quit \/ resume

\* Line 475.
CheckExit ==
    /\ lpc = "check"
    /\ IF ExitRequested
       THEN lpc' = "swap" /\ phase' = 3
       ELSE lpc' = "timers" /\ phase' = 1
    /\ processed' = FALSE
    /\ queue' = "callbacks"
    /\ UNCHANGED <<flagVars, lifeVars, pending, wakeupVars, deferred, batch,
                   eventVars, bodyVars, countVars, clientVars, future,
                   historyVars>>

\* Lines 476-478 and 591-593: run_due_timers(), which runs user code when a
\* timer is due.
RunDueTimers ==
    /\ lpc = "timers"
    /\ LET next == IF phase = 1 THEN "swap" ELSE "check"
       IN  \/ lpc' = next /\ UNCHANGED return
           \/ lpc' = "body" /\ return' = next
    /\ queue' = "callbacks"
    /\ UNCHANGED <<flagVars, lifeVars, pending, wakeupVars, deferred, phase,
                   batch, processed, eventVars, current, countVars,
                   clientVars, future, historyVars>>

\* Where the loop thread goes when it has drained a queue.
AfterDrain ==
    IF queue = "callbacks" THEN "swap"
    ELSE CASE phase = 1 -> "poll"
           [] phase = 2 -> "timers"
           [] phase = 3 -> "stop"

\* Mutant: the queue is copied instead of swapped out.
AfterSwapCopied == pending

AfterSwap == [pending EXCEPT ![queue] = <<>>]

\* drain_callbacks() and drain_coroutines(), lines 383-393 and 414-424: swap
\* the queue out if its has_pending_ flag says that it is not empty.
DrainSwap ==
    /\ lpc = "swap"
    /\ IF pending[queue] = <<>>
       THEN /\ lpc' = AfterDrain
            /\ queue' = "coroutines"
            /\ UNCHANGED <<pending, batch>>
       ELSE /\ lpc' = "run"
            /\ batch' = pending[queue]
            /\ pending' = AfterSwap
            /\ UNCHANGED queue
    /\ UNCHANGED <<flagVars, lifeVars, wakeupVars, deferred, phase, processed,
                   eventVars, bodyVars, countVars, clientVars, future,
                   historyVars>>

\* Lines 396-409 and 427-440: pop the front of the batch and call it.
DrainRun ==
    /\ lpc = "run"
    /\ IF batch = <<>>
       THEN /\ lpc' = AfterDrain
            /\ queue' = "coroutines"
            /\ UNCHANGED <<batch, processed, bodyVars, ran>>
       ELSE /\ current' = Head(batch)
            /\ batch' = Tail(batch)
            /\ ran' = [ran EXCEPT ![queue] = Append(@, Head(batch))]
            /\ processed' = TRUE
            /\ lpc' = "body"
            /\ return' = "run"
            /\ UNCHANGED queue
    /\ UNCHANGED <<flagVars, lifeVars, pending, wakeupVars, deferred, phase,
                   eventVars, countVars, clientVars, future, accepted>>

\* User code on the loop thread may post to its own loop (no wakeup is needed
\* there), quit it or ask for a coroutine resume.
BodyPost(q) ==
    /\ lpc = "body"
    /\ posts < MaxLoopPosts
    /\ posts' = posts + 1
    /\ Push(q, [from |-> TheLoop, n |-> posts + 1, sync |-> FALSE])
    /\ UNCHANGED <<flagVars, lifeVars, wakeupVars, deferred, lpc, drainVars,
                   eventVars, bodyVars, runs, clientVars, future, ran>>

BodyExit ==
    /\ lpc = "body"
    /\ \/ quit' = TRUE /\ UNCHANGED resume
       \/ resume' = TRUE /\ UNCHANGED quit
    /\ Wakeup
    /\ UNCHANGED <<lifeVars, pending, deferred, loopVars, clientVars, future,
                   historyVars>>

\* Mutant: the promise is set on one of the two ways out only.
PromiseSetForgotten(c) == future[c]

\* The callback of a sync call sets its promise when the operation returns and
\* when it throws.
PromiseSet(c) == future[c] \/ (current.sync /\ current.from = c)

\* The user code returns or throws.
BodyReturn ==
    /\ lpc = "body"
    /\ lpc' = return
    /\ future' = [c \in Clients |-> PromiseSet(c)]
    /\ current' = None
    /\ return' = "out"
    /\ UNCHANGED <<flagVars, lifeVars, pending, wakeupVars, deferred,
                   drainVars, eventVars, countVars, clientVars, historyVars>>

\* Mutant: the loop sleeps although this iteration has done some work.
PollAtOnceNever == FALSE

\* poll_timeout(): zero exactly when this iteration has done some work.
PollAtOnce == processed

\* Lines 485-491: deferred events are taken up without polling.
BeginPoll ==
    /\ lpc = "poll"
    /\ IF deferred # {}
       THEN active' = deferred /\ deferred' = {} /\ lpc' = "dispatch"
       ELSE /\ lpc' = IF PollAtOnce THEN "polling" ELSE "blocked"
            /\ UNCHANGED <<active, deferred>>
    /\ UNCHANGED <<flagVars, lifeVars, pending, wakeupVars, drainVars,
                   dispatched, bodyVars, countVars, clientVars, future, historyVars>>

\* Line 505.  Every timeout is finite, so that even a blocked poll returns with
\* nothing; epoll reports the pipe when it has an edge and is still readable.
PollReturns ==
    /\ lpc \in {"polling", "blocked"}
    /\ \E io \in SUBSET {"io"} :
          active' = io \cup (IF edge /\ pipe THEN {"wakeup"} ELSE {})
    /\ edge' = FALSE
    /\ lpc' = "dispatch"
    /\ UNCHANGED <<flagVars, lifeVars, pending, pipe, deferred, drainVars,
                   dispatched, bodyVars, countVars, clientVars, future,
                   historyVars>>

\* Lines 492-503: without any channel the loop sleeps and starts over.
DegradedSleep ==
    /\ lpc \in {"polling", "blocked"}
    /\ ~HasWakeupFd
    /\ lpc' = "check"
    /\ UNCHANGED <<flagVars, lifeVars, pending, wakeupVars, deferred,
                   drainVars, eventVars, bodyVars, countVars, clientVars,
                   future, historyVars>>

\* Lines 545-550: drain_wakeup_fd().
DispatchWakeup ==
    /\ lpc = "dispatch"
    /\ "wakeup" \in active
    /\ active' = active \ {"wakeup"}
    /\ pipe' = FALSE
    /\ processed' = TRUE
    /\ dispatched' = TRUE
    /\ UNCHANGED <<flagVars, lifeVars, pending, edge, deferred, lpc, phase,
                   queue, batch, bodyVars, countVars, clientVars, future,
                   historyVars>>

\* Lines 551-584: a stale event is skipped, a live one runs the handler.
DispatchIo ==
    /\ lpc = "dispatch"
    /\ "io" \in active
    /\ active' = active \ {"io"}
    /\ \/ UNCHANGED <<lpc, return, processed, dispatched>>
       \/ /\ lpc' = "body"
          /\ return' = "dispatch"
          /\ processed' = TRUE
          /\ dispatched' = TRUE
    /\ UNCHANGED <<flagVars, lifeVars, pending, wakeupVars, deferred, phase,
                   queue, batch, current, countVars, clientVars, future,
                   historyVars>>

\* Lines 536-542 when the dispatch budget is used up, and the end of the loop.
EndDispatch ==
    /\ lpc = "dispatch"
    /\ \/ active = {} /\ UNCHANGED <<active, deferred, processed>>
       \/ /\ active # {}
          /\ dispatched
          /\ deferred' = deferred \cup active
          /\ active' = {}
          /\ processed' = TRUE
    /\ dispatched' = FALSE
    /\ lpc' = "swap"
    /\ phase' = 2
    /\ queue' = "callbacks"
    /\ UNCHANGED <<flagVars, lifeVars, pending, wakeupVars, batch, bodyVars,
                   countVars, clientVars, future, historyVars>>

\* Mutants: the queues are not looked at again under lifecycle_mutex_, or only
\* one of them is.
NothingPendingUnchecked == TRUE
NothingPendingCallbacksOnly == pending["callbacks"] = <<>>

NothingPending == \A q \in Queues : pending[q] = <<>>

\* Mutant: the intermediate state of the enumeration is published.
FinalStateStopping == "stopping"

FinalState == "stopped"

\* Lines 605-615: publish `stopped' when both queues are empty, else drain again.
PublishStopped ==
    /\ lpc = "stop"
    /\ IF ~processed /\ NothingPending
       THEN state' = FinalState /\ lpc' = "notify"
       ELSE lpc' = "swap" /\ UNCHANGED state
    /\ processed' = FALSE
    /\ queue' = "callbacks"
    /\ UNCHANGED <<flagVars, setup, pending, wakeupVars, deferred, phase,
                   batch, eventVars, bodyVars, countVars, clientVars, future,
                   historyVars>>

AfterNotify(c) == IF cpc[c] = "cvWait" THEN "notified" ELSE cpc[c]

\* Line 618: notify_all().
NotifyStopped ==
    /\ lpc = "notify"
    /\ cpc' = [c \in Clients |-> AfterNotify(c)]
    /\ lpc' = "out"
    /\ UNCHANGED <<flagVars, lifeVars, pending, wakeupVars, deferred,
                   drainVars, eventVars, bodyVars, countVars, ops, future,
                   historyVars>>

\* The steps of loop() itself; user code that never returns would stop them.
LoopStep ==
    \/ ResetResume
    \/ CheckExit
    \/ RunDueTimers
    \/ DrainSwap
    \/ DrainRun
    \/ BodyReturn
    \/ BeginPoll
    \/ PollReturns
    \/ DegradedSleep
    \/ DispatchWakeup
    \/ DispatchIo
    \/ EndDispatch
    \/ PublishStopped
    \/ NotifyStopped

Next ==
    \/ EnterLoop
    \/ LoopStep
    \/ \E q \in Queues : BodyPost(q)
    \/ BodyExit
    \/ \E c \in Clients :
          ClientStart(c) \/ ClientContinue(c) \/ WaitUntilStopped(c)

Spec == Init /\ [][Next]_vars

\* loop() keeps running once entered, user code returns, and a thread inside a
\* call of the loop is scheduled; nobody has to call anything.
Fairness ==
    /\ WF_vars(LoopStep)
    /\ \A c \in Clients :
          /\ WF_vars(ClientContinue(c))
          /\ WF_vars(cpc[c] = "notified" /\ WaitUntilStopped(c))

FairSpec == Spec /\ Fairness

-----------------------------------------------------------------------------
(* Properties.                                                             *)

LoopPcs == {"out", "reset", "check", "timers", "swap", "run", "body", "poll",
            "polling", "blocked", "dispatch", "stop", "notify"}
ClientPcs == {"idle", "wakeup", "direct", "syncPush", "syncWakeup", "syncWait",
              "cvWait", "notified"}

\* The type invariant.
TypeOK ==
    /\ quit \in BOOLEAN
    /\ resume \in BOOLEAN
    /\ state \in {"created", "running", "stopped"}
    /\ setup \in Clients \cup {NoOne}
    /\ pending \in [Queues -> Seq(Items)]
    /\ pipe \in BOOLEAN
    /\ edge \in BOOLEAN
    /\ deferred \subseteq Events
    /\ lpc \in LoopPcs
    /\ phase \in 1..3
    /\ queue \in Queues
    /\ batch \in Seq(Items)
    /\ processed \in BOOLEAN
    /\ active \subseteq Events
    /\ dispatched \in BOOLEAN
    /\ current \in Items
    /\ return \in LoopPcs
    /\ runs \in 0..MaxRuns
    /\ posts \in 0..MaxLoopPosts
    /\ cpc \in [Clients -> ClientPcs]
    /\ ops \in [Clients -> 0..MaxOps]
    /\ future \in [Clients -> BOOLEAN]
    /\ accepted \in [Queues -> Seq(Items)]
    /\ ran \in [Queues -> Seq(Items)]

HasWork == quit \/ resume \/ \E q \in Queues : pending[q] # <<>>

WakeupOnItsWay == \E c \in Clients : cpc[c] \in {"wakeup", "syncWakeup"}

\* The header's "wake the loop as needed": the loop thread never sleeps in
\* poll() on queued work, a quit or a resume request unless the pipe is about to
\* wake it.  Posts made on the loop thread write no byte and rely on
\* processed_work instead.
NoSleepOnWork ==
    HasWakeupFd /\ lpc = "blocked" /\ HasWork => (pipe /\ edge) \/ WakeupOnItsWay

InSeq(x, s) == \E i \in 1..Len(s) : s[i] = x

SyncItem(c) == [from |-> c, n |-> ops[c], sync |-> TRUE]

\* run_in_loop_sync() blocks with setup_mutex_ held: the operation it waits for
\* is always still ahead of a running loop, so that no stop() can strand it.
SyncCallsServed ==
    \A c \in Clients :
       cpc[c] \in {"syncWakeup", "syncWait"} /\ ~future[c] =>
          /\ state = "running"
          /\ \/ InSeq(SyncItem(c), pending["callbacks"])
             \/ queue = "callbacks" /\ InSeq(SyncItem(c), batch)
             \/ lpc = "body" /\ current = SyncItem(c)

\* The startup gate of run_in_loop_sync(): an operation that a client runs
\* directly never overlaps with a running loop.
SetupExcludesLoop ==
    (\E c \in Clients : cpc[c] = "direct") => state # "running"

\* Each queue hands over what it accepted, each post once and in order, across
\* the swaps, the reposts of running callbacks and re-entries of loop().
FifoOnce ==
    \A q \in Queues :
       accepted[q] = ran[q] \o (IF q = queue THEN batch ELSE <<>>) \o pending[q]

CallbackQueue == INSTANCE LoopMailbox WITH
    open <- state = "running",
    accepted <- accepted["callbacks"],
    served <- ran["callbacks"]

CoroutineQueue == INSTANCE LoopMailbox WITH
    open <- state = "running",
    accepted <- accepted["coroutines"],
    served <- ran["coroutines"]

\* Both queues are mailboxes: what a queue accepted is served exactly once, in
\* order, before `stopped' is published, and a running loop keeps serving.
QueuesAreMailboxes == CallbackQueue!FairSpec /\ CoroutineQueue!FairSpec

\* quit() stops a running loop, whatever the threads post meanwhile.
QuitStops == (quit /\ state = "running") ~> state = "stopped"

\* Whoever waits for the loop returns: a run_in_loop_sync() that found it running,
\* and a wait_until_stopped() that does not sleep through the stop.
BlockingCallsReturn ==
    \A c \in Clients :
       /\ cpc[c] \in {"syncPush", "syncWakeup", "syncWait"} ~> cpc[c] = "idle"
       /\ (cpc[c] = "cvWait" /\ quit) ~> cpc[c] # "cvWait"
=============================================================================
