------------------------------ MODULE WheelTimer ------------------------------
(***************************************************************************)
(* yuan::timer::WheelTimerManager with its Wheels, WheelTimerItems and     *)
(* WheelTimers: after(), every(), TimerHandle::cancel() and tick() with    *)
(* callbacks that schedule and cancel timers.                              *)
(*                                                                         *)
(* A WheelTimerItem is the sequence of its linked timers, head first.      *)
(* Time is counted in the clicks that tick() has worked off: get_passed_   *)
(* time() hands out the milliseconds since the last tick.  count_, 1000 in *)
(* the code, is the constant Count.  Timers are named, a name is used once *)
(***************************************************************************)
EXTENDS Integers, Sequences, SequencesExt, FiniteSetsExt

CONSTANTS
    Timers,         \* the timers a client may create
    Timeouts,       \* timeouts, in ms, of calls between two ticks
    CallbackTimeouts, \* timeouts, in ms, of calls from a timer's callback
    Repeats,        \* pairs <<interval, period>>: <<0, 0>> is after(), a
                    \* period below 0 has no limit
    Count,          \* count_: slots of a wheel
    MaxWheels,      \* bound: wheels, enough for the longest timeout
    MaxElapsed,     \* bound: milliseconds between two ticks
    MaxTime,        \* bound: clicks worked off
    NoTimer

ASSUME WheelTimerAssumption ==
    /\ Timeouts \cup CallbackTimeouts \subseteq Nat
    /\ Repeats \subseteq Nat \X Int
    /\ Count \in Nat \ {0, 1}
    /\ MaxWheels \in Nat \ {0}
    /\ MaxElapsed \in Nat
    /\ MaxTime \in Nat
    /\ NoTimer \notin Timers
    /\ \A r \in Timeouts \cup CallbackTimeouts \cup {repeat[1] : repeat \in Repeats} :
            r < Count ^ MaxWheels - Count ^ (MaxWheels - 1)

VARIABLES
    wheels,         \* wheels_: [cursor, items] each
    helper,         \* helper_item_: the item that tick() is emptying
    timer,          \* the WheelTimer of each name
    pc,             \* where the loop thread is
    level,          \* tick()'s i
    count,          \* tick()'s wheel_count
    clicks,         \* clicks of this tick that are left, the current included
    current,        \* the timer whose callback runs
    elapsed,        \* milliseconds that get_passed_time() has not handed out
    clock,          \* clicks begun since the start
    due             \* history: the click at which each timer is to fire

tickVars == <<helper, pc, level, count, clicks, current>>
vars == <<wheels, timer, tickVars, elapsed, clock, due>>

NoObject == [state |-> "none", remain |-> 0, interval |-> 0, period |-> 0,
             counter |-> 0, handle |-> FALSE]

NewWheel == [cursor |-> 0, items |-> [slot \in 0..(Count - 1) |-> <<>>]]

Init ==
    /\ wheels = <<>>
    /\ helper = <<>>
    /\ timer = [t \in Timers |-> NoObject]
    /\ pc = "idle"
    /\ level = 1
    /\ count = 0
    /\ clicks = 0
    /\ current = NoTimer
    /\ elapsed = 0
    /\ clock = 0
    /\ due = [t \in Timers |-> 0]

-----------------------------------------------------------------------------
(* place_timer                                                             *)

\* Wheel::time_unit() and Wheel::get_passed_time() of the i-th wheel; a wheel
\* that place_timer has yet to create has passed nothing.
Unit(i) == Count ^ (i - 1)
Passed(i) == IF i <= Len(wheels) THEN wheels[i].cursor * Unit(i) ELSE 0

\* Mutant: what the lower wheels have passed is not added.
CarriedPlain(remain, i) == remain
\* remain_ when place_timer looks at the i-th wheel.
Carried(remain, i) ==
    remain + SumFunctionOnSet([j \in 1..MaxWheels |-> Passed(j)], 1..(i - 1))

\* The wheel that takes the timer.
LevelOf(remain) ==
    CHOOSE i \in 1..MaxWheels :
        /\ Carried(remain, i) < Unit(i + 1)
        /\ \A j \in 1..(i - 1) : Carried(remain, j) >= Unit(j + 1)

WheelsUpTo(i) ==
    [j \in 1..(IF i > Len(wheels) THEN i ELSE Len(wheels)) |->
        IF j <= Len(wheels) THEN wheels[j] ELSE NewWheel]

\* Mutant: a timer may be put on the slot under the cursor.
SlotCurrent(wheel, idx) == (wheel.cursor + idx) % Count
\* Wheel::place_timer
Slot(wheel, idx) ==
    (wheel.cursor + (IF idx % Count = 0 THEN 1 ELSE idx)) % Count

\* The wheels after place_timer(t), with t.remain_ = remain.
Placed(t, remain) ==
    LET i == LevelOf(remain)
        slot == Slot(WheelsUpTo(i)[i], Carried(remain, i) \div Unit(i))
    IN  [WheelsUpTo(i) EXCEPT ![i].items[slot] = <<t>> \o @]

\* t.remain_ after place_timer(t).
RemainPlaced(remain) == Carried(remain, LevelOf(remain))

-----------------------------------------------------------------------------
(* Calls that callbacks make on the loop thread.                           *)

InCallback == pc \in {"idle", "callback"}

\* after() and every(): schedule(timeout, interval, task, period).
Schedule(t, timeout, interval, period) ==
    /\ InCallback
    /\ timer[t].state = "none"
    /\ timer' = [timer EXCEPT ![t] =
            [state |-> "init", remain |-> RemainPlaced(timeout),
             interval |-> interval, period |-> period, counter |-> 0,
             handle |-> TRUE]]
    /\ wheels' = Placed(t, timeout)
    /\ due' = [due EXCEPT ![t] = clock + (IF timeout = 0 THEN 1 ELSE timeout)]
    /\ UNCHANGED <<tickVars, elapsed, clock>>

\* Mutant: cancel() leaves the timer linked into its item.
UnlinkedNot(s, t) == s
\* WheelTimerItem::on_delete
Unlinked(s, t) == SelectSeq(s, LAMBDA u : u # t)

\* TimerHandle::cancel(): reaches WheelTimer::cancel only while bound, and
\* unlinks the timer from its item.
Cancel(t) ==
    /\ InCallback
    /\ timer[t].handle
    /\ timer' = [timer EXCEPT ![t].state = "cancal", ![t].handle = FALSE]
    /\ wheels' = [i \in DOMAIN wheels |-> [wheels[i] EXCEPT
            !.items = [slot \in DOMAIN @ |-> Unlinked(@[slot], t)]]]
    /\ helper' = Unlinked(helper, t)
    /\ UNCHANGED <<pc, level, count, clicks, current, elapsed, clock, due>>

-----------------------------------------------------------------------------
(* tick()                                                                  *)

\* cleanup_finished_timers, which get_poll_timeout_ms() calls as well:
\* ~WheelTimer clears the handle.  The item that a timer was popped from last
\* no longer links it.
Cleaned ==
    [t \in Timers |->
        IF timer[t].state \in {"done", "cancal"}
        THEN [NoObject EXCEPT !.state = "deleted"]
        ELSE timer[t]]

\* get_passed_time(), and the first click if there is one.
TickBegin ==
    /\ pc = "idle"
    /\ IF elapsed = 0
       THEN /\ timer' = Cleaned
            /\ UNCHANGED <<tickVars, clock>>
       ELSE /\ pc' = "wheel"
            /\ clicks' = elapsed
            /\ level' = 1
            /\ count' = Len(wheels)
            /\ clock' = clock + 1
            /\ UNCHANGED <<helper, timer, current>>
    /\ elapsed' = 0
    /\ UNCHANGED <<wheels, due>>

\* The next click, or the end of tick().
ClickEnd ==
    /\ level' = 1
    /\ clicks' = clicks - 1
    /\ IF clicks = 1
       THEN /\ pc' = "idle"
            /\ count' = 0
            /\ clock' = clock
            /\ timer' = Cleaned
       ELSE /\ pc' = "wheel"
            /\ count' = Len(wheels)
            /\ clock' = clock + 1
            /\ timer' = timer

\* Wheel::tick: moves the cursor and takes the item under it.
Advanced(cursor) == (cursor + 1) % Count
WheelTick ==
    /\ pc = "wheel"
    /\ level <= count
    /\ LET cursor == Advanced(wheels[level].cursor) IN
       /\ helper' = wheels[level].items[cursor]
       /\ wheels' = [wheels EXCEPT ![level].cursor = cursor,
                                   ![level].items[cursor] = <<>>]
    /\ pc' = "drain"
    /\ UNCHANGED <<timer, level, count, clicks, current, elapsed, clock, due>>

\* No wheel is left to tick in this click.
WheelsDone ==
    /\ pc = "wheel"
    /\ level > count
    /\ ClickEnd
    /\ UNCHANGED <<wheels, helper, current, elapsed, due>>

Rest(t) == timer[t].remain % Unit(level)

\* A timer of a higher wheel with time left moves to a lower one.
Cascade ==
    /\ pc = "drain"
    /\ helper # <<>>
    /\ LET t == Head(helper) IN
       /\ Rest(t) >= 1
       /\ wheels' = Placed(t, Rest(t))
       /\ timer' = [timer EXCEPT ![t].remain = RemainPlaced(Rest(t))]
    /\ helper' = Tail(helper)
    /\ UNCHANGED <<pc, level, count, clicks, current, elapsed, clock, due>>

\* trigger(), up to the call of on_timer().
Trigger ==
    /\ pc = "drain"
    /\ helper # <<>>
    /\ Rest(Head(helper)) < 1
    /\ pc' = "callback"
    /\ current' = Head(helper)
    /\ timer' = [timer EXCEPT ![Head(helper)].state = "processing",
                              ![Head(helper)].remain = 0]
    /\ helper' = Tail(helper)
    /\ UNCHANGED <<wheels, level, count, clicks, elapsed, clock, due>>

PeriodOver(t) == timer[t].counter + 1 = timer[t].period

\* WheelTimer after on_timer() has returned.
Triggered(t) ==
    IF timer[t].state = "cancal"
    THEN timer[t]
    ELSE IF timer[t].period = 0 \/ timer[t].interval = 0
    THEN [timer[t] EXCEPT !.state = "done", !.handle = FALSE]
    ELSE IF timer[t].period < 0
    THEN [timer[t] EXCEPT !.state = "init", !.counter = 0]
    ELSE IF PeriodOver(t)
    THEN [timer[t] EXCEPT !.state = "done", !.handle = FALSE, !.counter = @ + 1]
    ELSE [timer[t] EXCEPT !.state = "init", !.counter = @ + 1]

\* The rest of trigger(), and place_timer for a timer that is ready again.
CallbackReturn ==
    /\ pc = "callback"
    /\ pc' = "drain"
    /\ LET after == Triggered(current)
           interval == timer[current].interval IN
       IF after.state = "init"
       THEN /\ timer' = [timer EXCEPT ![current] =
                    [after EXCEPT !.remain = RemainPlaced(interval)]]
            /\ wheels' = Placed(current, interval)
            /\ due' = [due EXCEPT ![current] = clock + interval]
       ELSE /\ timer' = [timer EXCEPT ![current] = after]
            /\ UNCHANGED <<wheels, due>>
    /\ current' = NoTimer
    /\ UNCHANGED <<helper, level, count, clicks, elapsed, clock>>

\* The item is empty: the next wheel ticks only when this one came round.
DrainEnd ==
    /\ pc = "drain"
    /\ helper = <<>>
    /\ IF wheels[level].cursor # 0
       THEN ClickEnd
       ELSE /\ level' = level + 1
            /\ pc' = "wheel"
            /\ UNCHANGED <<timer, count, clicks, clock>>
    /\ UNCHANGED <<wheels, helper, current, elapsed, due>>

\* steady_now_ms(): time passes.
Elapse ==
    /\ elapsed < MaxElapsed
    /\ clock + clicks + elapsed < MaxTime
    /\ elapsed' = elapsed + 1
    /\ UNCHANGED <<wheels, timer, tickVars, clock, due>>

-----------------------------------------------------------------------------
Client(t) ==
    \/ \E timeout \in IF pc = "callback" THEN CallbackTimeouts ELSE Timeouts,
          repeat \in Repeats :
            Schedule(t, timeout, repeat[1], repeat[2])
    \/ Cancel(t)

LoopStep ==
    \/ TickBegin
    \/ WheelTick
    \/ WheelsDone
    \/ Cascade
    \/ Trigger
    \/ CallbackReturn
    \/ DrainEnd

Next == Elapse \/ LoopStep \/ \E t \in Timers : Client(t)

Spec == Init /\ [][Next]_vars

-----------------------------------------------------------------------------
(* Properties.                                                             *)

\* How often t is linked: into the items of the wheels, and into helper.
Links(t) ==
    LET In(s) == {i \in DOMAIN s : s[i] = t}
    IN  {<<0, 0, k>> : k \in In(helper)}
        \cup UNION {{<<i, slot, k>> : k \in In(wheels[i].items[slot])} :
                        i \in DOMAIN wheels, slot \in 0..(Count - 1)}

\* The intrusive lists link exactly the timers that wait, each once: a timer
\* that is cancelled or destroyed is on no list that a later tick() pops.
LinkedOnce ==
    \A t \in Timers :
        IF timer[t].state = "init"
        THEN \E link \in Links(t) : Links(t) = {link}
        ELSE Links(t) = {}

\* Once tick() has worked off its clicks, no timer that waits is overdue.
NothingOverdue ==
    pc = "idle" => \A t \in Timers : timer[t].state = "init" => due[t] > clock

\* What the contract calls a timer's due time and the firings it has left.
Recurring(t) == timer[t].interval > 0 /\ timer[t].period # 0
Left(t) ==
    IF ~Recurring(t) THEN 1
    ELSE IF timer[t].period < 0 THEN -1
    ELSE timer[t].period - timer[t].counter
Firing(t) == timer[t].state = "processing"

Contract == INSTANCE TimerContract WITH
    now <- clock,
    timer <- [t \in Timers |->
        IF timer[t].state = "none" THEN [status |-> "unused"]
        ELSE IF timer[t].state \in {"cancal", "deleted"} THEN [status |-> "gone"]
        ELSE IF timer[t].state = "done" \/ (Firing(t) /\ Left(t) = 1)
        THEN [status |-> "fired"]
        ELSE [status |-> "armed",
              due |-> IF Firing(t) THEN clock + timer[t].interval ELSE due[t],
              every |-> timer[t].interval,
              left |-> IF Firing(t) /\ Left(t) > 0 THEN Left(t) - 1 ELSE Left(t)]]

\* The wheel backend keeps the contract of after(), every() and cancel().
KeepsContract == Contract!Spec
=============================================================================
