---------------------------- MODULE TimerContract ----------------------------
(***************************************************************************)
(* What TimerManager::after() and TimerManager::every() promise, whatever  *)
(* the backend: a timer fires only once its due time is reached, its next  *)
(* due time lies at least one interval later, it fires no more often than  *)
(* it was asked to, and never after it was cancelled.                      *)
(***************************************************************************)
EXTENDS Integers

CONSTANT Timers     \* the timer objects

VARIABLES
    now,        \* the manager's clock
    timer       \* [status, due, every, left] of each; left < 0: no limit

vars == <<now, timer>>

Others(t) == \A u \in Timers \ {t} : timer'[u] = timer[u]

Init ==
    /\ now \in Nat
    /\ \A t \in Timers : timer[t].status = "unused"

Advance ==
    /\ now' > now
    /\ UNCHANGED timer

Arm(t) ==
    /\ timer[t].status = "unused"
    /\ timer'[t].status = "armed"
    /\ timer'[t].due >= now
    /\ timer'[t].left # 0
    /\ Others(t)
    /\ UNCHANGED now

Fire(t) ==
    /\ timer[t].status = "armed"
    /\ timer[t].due <= now
    /\ IF timer[t].left = 1
       THEN timer'[t].status = "fired"
       ELSE /\ timer'[t].status = "armed"
            /\ timer'[t].due >= timer[t].due + timer[t].every
            /\ timer'[t].every = timer[t].every
            /\ timer'[t].left =
                  IF timer[t].left < 0 THEN timer[t].left ELSE timer[t].left - 1
    /\ Others(t)
    /\ UNCHANGED now

Cancel(t) ==
    /\ timer[t].status = "armed"
    /\ timer'[t].status = "gone"
    /\ Others(t)
    /\ UNCHANGED now

\* Timers that have fired for the last time are forgotten.
Forget ==
    /\ \A t \in Timers :
          \/ timer'[t] = timer[t]
          \/ timer[t].status = "fired" /\ timer'[t].status = "gone"
    /\ UNCHANGED now

Next == Advance \/ Forget \/ \E t \in Timers : Arm(t) \/ Fire(t) \/ Cancel(t)

Spec == Init /\ [][Next]_vars
=============================================================================
