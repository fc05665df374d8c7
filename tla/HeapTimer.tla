------------------------------ MODULE HeapTimer ------------------------------
(***************************************************************************)
(* yuan::timer::HeapTimerManager and BasicTimer, driven by EventLoop::loop *)
(* on the loop thread: run_due_timers() -> tick(), poll_timeout() and the  *)
(* sleep that follows it, and the after(), every() and TimerHandle::cancel *)
(* calls that callbacks make, those of a firing timer included.            *)
(*                                                                         *)
(* The priority queue is the sequence of its entries in push order: the    *)
(* top is the first entry with the least deadline, which is what           *)
(* LaterDeadline computes from sequence_.  The clock moves at any moment,  *)
(* also in the middle of a tick.  Timers are named, a name is used once.   *)
(***************************************************************************)
EXTENDS Integers, Sequences, Functions

CONSTANTS
    Timers,         \* the timers a client may create
    Timeouts,       \* timeouts, in ms
    Repeats,        \* pairs <<interval, period>>: <<0, 0>> is after(), a
                    \* period below 0 has no limit
    IdleTimeout,    \* idle_timeout_ms
    Cap,            \* active_timeout_cap_ms
    StaleLimit,     \* the 64 of cleanup_cancelled
    MaxTime,        \* bound: the clock stops here
    NoTimer

ASSUME HeapTimerAssumption ==
    /\ Timeouts \subseteq Nat
    /\ Repeats \subseteq Nat \X Int
    /\ IdleTimeout \in Nat
    /\ Cap \in Nat \ {0}
    /\ StaleLimit \in Nat
    /\ MaxTime \in Nat
    /\ NoTimer \notin Timers

VARIABLES
    now,            \* steady_now_ms()
    heap,           \* heap_: entries [deadline, timer] in push order
    timers,         \* timers_: the objects alive, in creation order
    stale,          \* stale_timer_count_
    timer,          \* the BasicTimer of each name
    pc,             \* where the loop thread is
    tickNow,        \* tick()'s now; the time poll_timeout() looked at
    current,        \* the timer whose callback runs
    next,           \* tick()'s next_deadline
    wake            \* when the poll that follows poll_timeout() ends

loopVars == <<pc, tickNow, current, next, wake>>
vars == <<now, heap, timers, stale, timer, loopVars>>

NoObject == [state |-> "none", deadline |-> 0, interval |-> 0, period |-> 0,
             counter |-> 0, handle |-> FALSE]

Init ==
    /\ now = 0
    /\ heap = <<>>
    /\ timers = <<>>
    /\ stale = 0
    /\ timer = [t \in Timers |-> NoObject]
    /\ pc = "idle"
    /\ tickNow = 0
    /\ current = NoTimer
    /\ next = 0
    /\ wake = 0

-----------------------------------------------------------------------------
(* The heap.                                                               *)

\* LaterDeadline: does the entry at i come before the one at j?
Before(i, j) ==
    \/ heap[i].deadline < heap[j].deadline
    \/ heap[i].deadline = heap[j].deadline /\ i < j

Top == CHOOSE i \in DOMAIN heap : \A j \in DOMAIN heap \ {i} : Before(i, j)

TopTimer == heap[Top].timer

\* The heap after pop().
Popped == [i \in 1..(Len(heap) - 1) |-> heap[IF i < Top THEN i ELSE i + 1]]

EntryOf(t, deadline) == [deadline |-> deadline, timer |-> t]

Finished(t) == timer[t].state \in {"done", "cancal"}

\* The top is neither cancelled nor done, and its deadline is its timer's.
TopLive ==
    /\ heap # <<>>
    /\ ~Finished(TopTimer)
    /\ heap[Top].deadline = timer[TopTimer].deadline

\* Where the timers are that remove_if keeps.
Kept == {i \in DOMAIN timers : ~Finished(timers[i])}

\* Mutant: cleanup_cancelled rebuilds the heap before it erases from timers_.
RetainedAll(order) ==
    [i \in DOMAIN timers |-> EntryOf(timers[i], timer[timers[i]].deadline)]
Retained(order) ==
    [i \in DOMAIN order |->
        EntryOf(timers[order[i]], timer[timers[order[i]]].deadline)]

\* cleanup_cancelled once it has decided to clean: destroys the finished
\* timers (~BasicTimer clears the handle) and rebuilds the heap from the
\* others, which keep their order.
Cleanup ==
    /\ \E n \in 0..Len(timers) : \E order \in Bijection(1..n, Kept) :
          /\ \A i, j \in 1..n : i < j => order[i] < order[j]
          /\ timers' = [i \in 1..n |-> timers[order[i]]]
          /\ heap' = Retained(order)
    /\ stale' = 0
    /\ timer' = [t \in Timers |->
            IF Finished(t)
            THEN [NoObject EXCEPT !.state = "deleted"]
            ELSE timer[t]]

CleanupDue ==
    /\ timers # <<>>
    /\ stale >= StaleLimit
    /\ stale * 4 >= Len(timers)

-----------------------------------------------------------------------------
(* Calls that callbacks make on the loop thread.                           *)

InCallback == pc \in {"idle", "woken", "callback"}

\* after() and every(): schedule(timeout, interval, task, period).
Schedule(t, timeout, interval, period) ==
    /\ InCallback
    /\ timer[t].state = "none"
    /\ timer' = [timer EXCEPT ![t] =
            [state |-> "init", deadline |-> now + timeout, interval |-> interval,
             period |-> period, counter |-> 0, handle |-> TRUE]]
    /\ timers' = Append(timers, t)
    /\ heap' = Append(heap, EntryOf(t, now + timeout))
    /\ UNCHANGED <<now, stale, loopVars>>

\* TimerHandle::cancel(): reaches BasicTimer::cancel only while bound.
Cancel(t) ==
    /\ InCallback
    /\ timer[t].handle
    /\ timer' = [timer EXCEPT ![t].state = "cancal", ![t].handle = FALSE]
    /\ UNCHANGED <<now, heap, timers, stale, loopVars>>

-----------------------------------------------------------------------------
(* tick()                                                                  *)

TickBegin ==
    /\ pc \in {"idle", "woken"}
    /\ pc' = "tick"
    /\ tickNow' = now
    /\ UNCHANGED <<now, heap, timers, stale, timer, current, next, wake>>

\* The top is cancelled or done, or its deadline is not its timer's.
DropTop ==
    /\ pc = "tick"
    /\ heap # <<>>
    /\ ~TopLive
    /\ heap' = Popped
    /\ stale' = IF Finished(TopTimer) THEN stale + 1 ELSE stale
    /\ UNCHANGED <<now, timers, timer, loopVars>>

\* BasicTimer::next_deadline
NextDeadline(t) ==
    LET interval == IF timer[t].interval = 0 THEN 1 ELSE timer[t].interval
        at == timer[t].deadline + interval
    IN  IF at <= tickNow THEN tickNow + interval ELSE at

\* Mutant: a timer is due only after its deadline.
IsDueLate == heap[Top].deadline < tickNow
IsDue == heap[Top].deadline <= tickNow

\* Pops the top and calls trigger(), up to the call of on_timer().
Trigger ==
    /\ pc = "tick"
    /\ TopLive
    /\ IsDue
    /\ pc' = "callback"
    /\ current' = TopTimer
    /\ next' = NextDeadline(TopTimer)
    /\ heap' = Popped
    /\ timer' = [timer EXCEPT ![TopTimer].state = "processing"]
    /\ UNCHANGED <<now, timers, stale, tickNow, wake>>

\* Mutant: the firing that completes the period re-arms the timer.
PeriodOverLate(t) == timer[t].counter = timer[t].period
PeriodOver(t) == timer[t].counter + 1 = timer[t].period

\* BasicTimer after on_timer() has returned.
Triggered(t) ==
    IF timer[t].state = "cancal"
    THEN timer[t]
    ELSE IF timer[t].period = 0 \/ timer[t].interval = 0
    THEN [timer[t] EXCEPT !.state = "done", !.handle = FALSE]
    ELSE IF timer[t].period < 0
    THEN [timer[t] EXCEPT !.state = "init", !.counter = 0]
    ELSE IF PeriodOver(t)
    THEN [timer[t] EXCEPT !.state = "done", !.handle = FALSE, !.counter = @ + 1]
    ELSE [timer[t] EXCEPT !.state = "init", !.counter = @ + 1]

\* The rest of trigger(), and tick() up to the next look at the heap.
CallbackReturn ==
    /\ pc = "callback"
    /\ pc' = "tick"
    /\ LET after == Triggered(current) IN
       IF after.state = "init"
       THEN /\ timer' = [timer EXCEPT ![current] = [after EXCEPT !.deadline = next]]
            /\ heap' = Append(heap, EntryOf(current, next))
            /\ stale' = stale
       ELSE /\ timer' = [timer EXCEPT ![current] = after]
            /\ heap' = heap
            /\ stale' = stale + 1
    /\ current' = NoTimer
    /\ next' = 0
    /\ UNCHANGED <<now, timers, tickNow, wake>>

\* Nothing more is due: cleanup_cancelled(stale_timer_count_ != 0).
TickEnd ==
    /\ pc = "tick"
    /\ heap = <<>> \/ (TopLive /\ ~IsDue)
    /\ pc' = "idle"
    /\ IF stale # 0 \/ CleanupDue THEN Cleanup
                                  ELSE UNCHANGED <<heap, timers, stale, timer>>
    /\ tickNow' = 0
    /\ UNCHANGED <<now, current, next, wake>>

-----------------------------------------------------------------------------
(* get_poll_timeout_ms() and the poll.                                     *)

PollBegin ==
    /\ pc = "idle"
    /\ pc' = "poll"
    /\ IF CleanupDue THEN Cleanup ELSE UNCHANGED <<heap, timers, stale, timer>>
    /\ UNCHANGED <<now, tickNow, current, next, wake>>

PollDropTop ==
    /\ pc = "poll"
    /\ heap # <<>>
    /\ ~TopLive
    /\ heap' = Popped
    /\ stale' = stale + 1
    /\ UNCHANGED <<now, timers, timer, loopVars>>

Lesser(a, b) == IF a < b THEN a ELSE b

\* Mutant: the wait is not taken from the top but left at the cap.
PollWaitCap == Cap
PollWait ==
    LET deadline == heap[Top].deadline
    IN  Lesser(Cap, IF deadline > now THEN deadline - now ELSE 1)

PollSleep ==
    /\ pc = "poll"
    /\ heap = <<>> \/ TopLive
    /\ pc' = "sleep"
    /\ tickNow' = now
    /\ wake' = now + (IF heap = <<>> THEN IdleTimeout ELSE PollWait)
    /\ UNCHANGED <<now, heap, timers, stale, timer, current, next>>

\* The poll returns: an event came in, or the wait is over.
Wake ==
    /\ pc = "sleep"
    /\ pc' = "woken"
    /\ wake' = 0
    /\ tickNow' = 0
    /\ UNCHANGED <<now, heap, timers, stale, timer, current, next>>

\* steady_now_ms().  The poll does not outlast its timeout.
Advance ==
    /\ now < MaxTime
    /\ pc = "sleep" => now < wake
    /\ now' = now + 1
    /\ UNCHANGED <<heap, timers, stale, timer, loopVars>>

-----------------------------------------------------------------------------
Client(t) ==
    \/ \E timeout \in Timeouts, repeat \in Repeats :
            Schedule(t, timeout, repeat[1], repeat[2])
    \/ Cancel(t)

LoopStep ==
    \/ TickBegin
    \/ DropTop
    \/ Trigger
    \/ CallbackReturn
    \/ TickEnd
    \/ PollBegin
    \/ PollDropTop
    \/ PollSleep
    \/ now \in {wake, MaxTime} /\ Wake

Next == Advance \/ Wake \/ LoopStep \/ \E t \in Timers : Client(t)

Spec == Init /\ [][Next]_vars

\* The loop thread runs, and time passes; a poll that reaches the end of the
\* clock returns.
FairSpec == Spec /\ WF_vars(LoopStep) /\ WF_vars(Advance)

-----------------------------------------------------------------------------
(* Properties.                                                             *)

\* The raw pointers of heap_ and timers_ agree: whatever is on the heap, and the
\* timer being triggered, is still owned by timers_, and a timer that waits for
\* its deadline is on the heap exactly once under that deadline, or tick() would
\* forget it or fire it twice.
HeapAgrees ==
    /\ \A i \in DOMAIN heap : heap[i].timer \in Range(timers)
    /\ current # NoTimer => current \in Range(timers)
    /\ \A t \in Range(timers) : timer[t].state # "deleted"
    /\ \A t \in Timers : timer[t].state = "init" =>
          \E i \in DOMAIN heap :
             /\ heap[i] = EntryOf(t, timer[t].deadline)
             /\ \A j \in DOMAIN heap : heap[j].timer = t => j = i

\* The wait that get_poll_timeout_ms() hands to the poll ends before any
\* waiting timer is overdue (1 ms later when one already is).
PollEndsInTime ==
    pc = "sleep" =>
        \A t \in Timers : timer[t].state = "init" =>
            wake <= timer[t].deadline \/ wake <= tickNow + 1

\* What the contract calls a timer's due time and the firings it has left.
Recurring(t) == timer[t].interval > 0 /\ timer[t].period # 0
Left(t) ==
    IF ~Recurring(t) THEN 1
    ELSE IF timer[t].period < 0 THEN -1
    ELSE timer[t].period - timer[t].counter
Firing(t) == timer[t].state = "processing"

Promise(t) ==
    IF timer[t].state = "none" THEN [status |-> "unused"]
    ELSE IF timer[t].state \in {"cancal", "deleted"} THEN [status |-> "gone"]
    ELSE IF timer[t].state = "done" \/ (Firing(t) /\ Left(t) = 1)
    THEN [status |-> "fired"]
    ELSE [status |-> "armed",
          due |-> IF Firing(t) THEN next ELSE timer[t].deadline,
          every |-> timer[t].interval,
          left |-> IF Firing(t) /\ Left(t) > 0 THEN Left(t) - 1 ELSE Left(t)]

Contract == INSTANCE TimerContract WITH
    timer <- [t \in Timers |-> Promise(t)]

\* The heap backend keeps the contract of after(), every() and cancel().
KeepsContract == Contract!Spec

\* A waiting timer whose deadline the clock passes is fired or cancelled: the
\* loop neither sleeps for ever nor loses it.
DueTimersFire ==
    \A t \in Timers :
        timer[t].state = "init" /\ timer[t].deadline <= now
            ~> timer[t].state # "init"
=============================================================================
