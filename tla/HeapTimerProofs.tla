--------------------------- MODULE HeapTimerProofs ---------------------------
(***************************************************************************)
(* Proofs that heap_ and timers_ of HeapTimerManager agree, that the poll  *)
(* ends in time, and that the manager implements TimerContract, for every  *)
(* set of timers, timeout, interval, period, cap and stale limit.  The     *)
(* invariant ties each timer's state to the two containers: timers_ owns   *)
(* it once while it exists (TimersOK, TimerOK); only a waiting or a        *)
(* cancelled timer is on the heap, once, under its own deadline (HeapOK);  *)
(* and the timer whose callback runs is off the heap (CurrentOK).          *)
(***************************************************************************)
EXTENDS HeapTimer, WellFoundedInduction, TLAPS

USE DEF vars, loopVars

Object == [state : {"none", "init", "processing", "done", "cancal", "deleted"},
           deadline : Nat, interval : Nat, period : Int, counter : Nat,
           handle : BOOLEAN]
Entry == [deadline : Nat, timer : Timers]

TypeOK ==
    /\ now \in Nat /\ tickNow \in Nat /\ tickNow <= now /\ next \in Nat /\ wake \in Nat
    /\ heap \in Seq(Entry)
    /\ timers \in Seq(Timers)
    /\ timer \in [Timers -> Object]
    /\ current \in Timers \cup {NoTimer}

\* timers_ owns t.
Owned(t) == \E i \in DOMAIN timers : timers[i] = t

\* t has an entry on the heap.
Queued(t) == \E i \in DOMAIN heap : heap[i].timer = t

\* A period that is counted down is not over.
CountOK(o) == o.interval > 0 /\ o.period > 0 => o.counter < o.period

\* A timer's state against the two containers and the running callback.
TimerOK(t) ==
    /\ Owned(t) <=> timer[t].state \notin {"none", "deleted"}
    /\ timer[t].state = "processing" => t = current
    /\ timer[t].state = "init" => Queued(t)
    /\ timer[t].state \in {"init", "processing"} => CountOK(timer[t])
    /\ timer[t].handle => timer[t].state \in {"init", "processing"}

\* timers_ owns a timer once.
TimersOK == \A i, j \in DOMAIN timers : timers[i] = timers[j] => i = j

\* Only waiting and cancelled timers are on the heap, once, under their deadline.
HeapOK ==
    /\ \A i, j \in DOMAIN heap : heap[i].timer = heap[j].timer => i = j
    /\ \A i \in DOMAIN heap :
        /\ timer[heap[i].timer].state \in {"init", "cancal"}
        /\ heap[i].deadline = timer[heap[i].timer].deadline

\* The timer whose callback runs is off the heap.
CurrentOK ==
    /\ pc = "callback" <=> current # NoTimer
    /\ current # NoTimer =>
        timer[current].state \in {"processing", "cancal"} /\ ~Queued(current)

\* The inductive invariant.
IInv ==
    /\ TypeOK /\ TimersOK /\ HeapOK /\ CurrentOK
    /\ \A t \in Timers : TimerOK(t)
    /\ PollEndsInTime
-----------------------------------------------------------------------------
(* Sequences.                                                              *)

\* A set of naturals has a least element.
LEMMA Least ==
    ASSUME NEW T, T \subseteq Nat, T # {}
    PROVE  \E x \in T : \A y \in T : x <= y
<1>1. PICK x \in T : \A y \in T : ~(<<y, x>> \in OpToRel(<, Nat))
  BY Zenon, WFMin, NatLessThanWellFounded
<1>2. ASSUME NEW y \in T
      PROVE  ~(y < x)
  <2>1. <<y, x>> \in Nat \X Nat /\ <<y, x>>[1] = y /\ <<y, x>>[2] = x
    OBVIOUS
  <2> QED
    BY <1>1, <2>1 DEF OpToRel
<1> QED
  BY SMT, <1>2

\* A sequence that is not empty has elements.
LEMMA Elements ==
    ASSUME NEW S, NEW s \in Seq(S)
    PROVE  /\ DOMAIN s \subseteq Nat /\ \A i \in DOMAIN s : s[i] \in S
           /\ s # <<>> <=> DOMAIN s # {}
<1>1. DOMAIN s \subseteq Nat /\ \A i \in DOMAIN s : s[i] \in S
  BY SMT
<1>2. s # <<>> => Len(s) \in Nat \ {0}
  BY SMT
<1>3. Len(s) \in Nat \ {0} => 1 \in DOMAIN s
  BY SMT
<1>4. DOMAIN <<>> = {}
  BY SMT
<1> QED
  BY <1>1, <1>2, <1>3, <1>4

\* A function on 1..n is a sequence.
LEMMA FunctionIsSequence ==
    ASSUME NEW S, NEW n \in Nat, NEW s \in [1..n -> S]
    PROVE  s \in Seq(S)
BY SMT

\* top() is an entry that no other comes before.
LEMMA TopIsFirst ==
    ASSUME TypeOK, heap # <<>>
    PROVE  /\ Top \in DOMAIN heap /\ heap[Top] \in Entry
           /\ \A j \in DOMAIN heap : heap[Top].deadline <= heap[j].deadline
<1> DEFINE D == {heap[i].deadline : i \in DOMAIN heap}
<1>1. /\ DOMAIN heap \subseteq Nat /\ DOMAIN heap # {}
      /\ \A i \in DOMAIN heap : heap[i] \in Entry /\ heap[i].deadline \in Nat
  <2>0. heap \in Seq(Entry)
    BY DEF TypeOK
  <2>1. DOMAIN heap \subseteq Nat /\ DOMAIN heap # {} /\ \A i \in DOMAIN heap : heap[i] \in Entry
    BY <2>0, Elements
  <2>2. \A e \in Entry : e.deadline \in Nat
    BY SMT DEF Entry
  <2> QED
    BY <2>1, <2>2
<1>2. D \subseteq Nat /\ D # {}
  BY <1>1
<1>3. PICK d \in D : \A e \in D : d <= e
  BY Zenon, <1>2, Least
<1> DEFINE I == {i \in DOMAIN heap : heap[i].deadline = d}
<1>4. I \subseteq Nat /\ I # {}
  BY Zenon, <1>1
<1>5. PICK i \in I : \A j \in I : i <= j
  BY Zenon, <1>4, Least
<1>6. /\ i \in DOMAIN heap /\ heap[i].deadline = d
      /\ \A j \in DOMAIN heap : heap[j].deadline = d => i <= j
      /\ \A j \in DOMAIN heap : d <= heap[j].deadline
  BY <1>3, <1>5
<1>7. \A j \in DOMAIN heap \ {i} : Before(i, j)
  BY SMTT(60), <1>1, <1>2, <1>6 DEF Before
<1>8. Top \in DOMAIN heap /\ \A j \in DOMAIN heap \ {Top} : Before(Top, j)
  BY <1>6, <1>7 DEF Top
<1>9. \A j \in DOMAIN heap : heap[Top].deadline <= heap[j].deadline
  BY SMTT(60), <1>1, <1>8 DEF Before
<1> QED
  BY <1>1, <1>8, <1>9

\* pop() takes the top off the heap.
LEMMA PopsTop ==
    ASSUME TypeOK, heap # <<>>, NEW r, r = Popped
    PROVE  /\ r \in Seq(Entry)
           /\ \E place \in [DOMAIN r -> DOMAIN heap \ {Top}] :
                 /\ \A j \in DOMAIN r : r[j] = heap[place[j]]
                 /\ \A j, k \in DOMAIN r : place[j] = place[k] => j = k
                 /\ \A k \in DOMAIN heap \ {Top} : \E j \in DOMAIN r : place[j] = k
<1>0. PICK n \in Nat : n = Len(heap) /\ DOMAIN heap = 1..n
  BY SMT DEF TypeOK
<1>1. PICK i \in 1..n : n = Len(heap) /\ i = Top
  BY <1>0, TopIsFirst
<1>2. DOMAIN heap = 1..n /\ \A j \in 1..n : heap[j] \in Entry
  BY SMT, <1>1 DEF TypeOK
<1> DEFINE place == [j \in 1..(n - 1) |-> IF j < i THEN j ELSE j + 1]
<1>3. r = [j \in 1..(n - 1) |-> heap[IF j < i THEN j ELSE j + 1]]
  BY <1>1 DEF Popped
<1>4. \A j \in 1..(n - 1) : place[j] \in 1..n /\ place[j] # i
  BY SMT
<1>5. DOMAIN r = 1..(n - 1) /\ \A j \in 1..(n - 1) : r[j] = heap[place[j]]
  BY <1>3
<1>6. \A j, k \in 1..(n - 1) : place[j] = place[k] => j = k
  BY SMT
<1>7. ASSUME NEW k \in (1..n) \ {i}
      PROVE  \E j \in 1..(n - 1) : place[j] = k
  <2>1. CASE k < i
    <3>1. k \in 1..(n - 1) /\ place[k] = k
      BY SMT, <2>1
    <3> QED
      BY <3>1
  <2>2. CASE k > i
    <3>1. k - 1 \in 1..(n - 1) /\ place[k - 1] = k
      BY SMT, <2>2
    <3> QED
      BY <3>1
  <2>3. k < i \/ k > i
    BY SMT
  <2> QED
    BY <2>1, <2>2, <2>3
<1>8. place \in [1..(n - 1) -> (1..n) \ {i}]
  BY <1>4
<1>9. r \in Seq(Entry)
  <2>1. n - 1 \in Nat
    BY SMT
  <2>2. r \in [1..(n - 1) -> Entry]
    BY <1>2, <1>3, <1>4, <1>5
  <2> QED
    BY Zenon, <2>1, <2>2, FunctionIsSequence
<1> HIDE DEF place
<1>10. /\ place \in [DOMAIN r -> DOMAIN heap \ {Top}]
       /\ \A j \in DOMAIN r : r[j] = heap[place[j]]
       /\ \A j, k \in DOMAIN r : place[j] = place[k] => j = k
       /\ \A k \in DOMAIN heap \ {Top} : \E j \in DOMAIN r : place[j] = k
  BY Zenon, <1>1, <1>2, <1>5, <1>6, <1>7, <1>8
<1> QED
  BY <1>9, <1>10

\* push() adds one entry.
LEMMA Added ==
    ASSUME NEW S, NEW s \in Seq(S), NEW x \in S, NEW r, r = Append(s, x)
    PROVE  /\ r \in Seq(S)
           /\ \E n : /\ n \notin DOMAIN s /\ DOMAIN r = DOMAIN s \cup {n} /\ r[n] = x
                     /\ \A i \in DOMAIN s : r[i] = s[i]
<1>1. r \in Seq(S)
  BY SMT
<1> DEFINE n == Len(s) + 1
<1>2. n \notin DOMAIN s /\ DOMAIN r = DOMAIN s \cup {n} /\ r[n] = x
  BY SMT
<1>3. \A i \in DOMAIN s : r[i] = s[i]
  BY SMT
<1> QED
  BY <1>1, <1>2, <1>3
-----------------------------------------------------------------------------
(* What the operations on heap_, timers_ and a timer leave.                *)

\* A timer that was destroyed; one that was cancelled.
LEMMA ObjectFields ==
    /\ LET o == [NoObject EXCEPT !.state = "deleted"]
       IN  o \in Object /\ o.state = "deleted" /\ o.handle = FALSE
    /\ \A p \in Object :
          LET o == [p EXCEPT !.state = "cancal", !.handle = FALSE]
          IN  o \in Object /\ o.state = "cancal" /\ ~o.handle /\ o.deadline = p.deadline
<1>1. [NoObject EXCEPT !.state = "deleted"] \in Object
  <2>1. NoObject \in Object
    BY SMT DEF NoObject, Object
  <2>2. \A p \in Object : [p EXCEPT !.state = "deleted"] \in Object
    BY Zenon DEF Object
  <2> QED
    BY Zenon, <2>1, <2>2
<1>2. /\ [NoObject EXCEPT !.state = "deleted"].state = "deleted"
      /\ [NoObject EXCEPT !.state = "deleted"].handle = FALSE
  BY Zenon DEF NoObject
<1>3. \A p \in Object :
          LET o == [p EXCEPT !.state = "cancal", !.handle = FALSE]
          IN  o \in Object /\ o.state = "cancal" /\ ~o.handle /\ o.deadline = p.deadline
  BY Zenon DEF Object
<1> QED
  BY Zenon, <1>1, <1>2, <1>3

\* One timer changes.
LEMMA OneTimer ==
    ASSUME TypeOK, NEW t \in Timers, NEW o \in Object, timer' = [timer EXCEPT ![t] = o]
    PROVE  /\ timer' \in [Timers -> Object] /\ timer'[t] = o
           /\ \A u \in Timers : u # t => timer'[u] = timer[u]
BY DEF TypeOK

\* A timer that nothing is done to.
LEMMA TimerKept ==
    ASSUME NEW t, TimerOK(t), timer'[t] = timer[t], Owned(t)' <=> Owned(t),
           timer[t].state = "processing" => current' = current,
           timer[t].state = "init" /\ Queued(t) => Queued(t)'
    PROVE  TimerOK(t)'
BY DEF TimerOK

\* heap_ and timers_ are left alone.
LEMMA ListsKept ==
    ASSUME heap' = heap, timers' = timers
    PROVE  \A t : (Queued(t)' <=> Queued(t)) /\ (Owned(t)' <=> Owned(t))
BY DEF Queued, Owned

\* push()
LEMMA Pushes ==
    ASSUME TypeOK, HeapOK, NEW t \in Timers, NEW d \in Nat, ~Queued(t),
           heap' = Append(heap, EntryOf(t, d)),
           timer'[t].state = "init", timer'[t].deadline = d,
           \A u \in Timers : u # t => timer'[u] = timer[u]
    PROVE  /\ heap' \in Seq(Entry) /\ HeapOK' /\ Queued(t)'
           /\ \A u : u # t => (Queued(u)' <=> Queued(u))
<1>1. PICK x : x = EntryOf(t, d)
  BY Zenon
<1>2. x \in Entry /\ x.timer = t /\ x.deadline = d
  BY SMT, <1>1 DEF EntryOf, Entry
<1>3. heap \in Seq(Entry) /\ heap' = Append(heap, x)
  BY <1>1 DEF TypeOK
<1>4. PICK r : r = Append(heap, x)
  BY Zenon
<1>5. heap' = r /\ r \in Seq(Entry)
      /\ \E n : /\ n \notin DOMAIN heap /\ DOMAIN r = DOMAIN heap \cup {n} /\ r[n] = x
                /\ \A i \in DOMAIN heap : r[i] = heap[i]
  BY <1>2, <1>3, <1>4, Added
<1>6. PICK n : /\ n \notin DOMAIN heap /\ DOMAIN r = DOMAIN heap \cup {n} /\ r[n] = x
               /\ \A i \in DOMAIN heap : r[i] = heap[i]
  BY <1>5
<1>7. \A i \in DOMAIN heap : heap[i].timer \in Timers /\ heap[i].timer # t
  <2>1. \A e \in Entry : e.timer \in Timers
    BY SMT DEF Entry
  <2> QED
    BY <1>3, <2>1, Elements DEF Queued
<1>8. \A i \in DOMAIN r : (i = n /\ r[i] = x) \/ (i \in DOMAIN heap /\ r[i] = heap[i])
  BY <1>6
<1>9. HeapOK'
  <2>1. ASSUME NEW i \in DOMAIN r, NEW j \in DOMAIN r, r[i].timer = r[j].timer
        PROVE  i = j
    BY <1>2, <1>7, <1>8, <2>1 DEF HeapOK
  <2>2. ASSUME NEW i \in DOMAIN r
        PROVE  /\ timer'[r[i].timer].state \in {"init", "cancal"}
               /\ r[i].deadline = timer'[r[i].timer].deadline
    BY <1>2, <1>7, <1>8 DEF HeapOK
  <2> QED
    BY <1>5, <2>1, <2>2 DEF HeapOK
<1>10. Queued(t)' /\ \A u : u # t => (Queued(u)' <=> Queued(u))
  BY <1>2, <1>5, <1>6, <1>8 DEF Queued
<1> QED
  BY <1>5, <1>9, <1>10

\* pop(): the top's timer is no longer on the heap, the others are.
LEMMA Pops ==
    ASSUME TypeOK, HeapOK, heap # <<>>, heap' = Popped, NEW x, x = TopTimer,
           \A u \in Timers : u # x => timer'[u] = timer[u]
    PROVE  /\ heap' \in Seq(Entry) /\ HeapOK' /\ ~Queued(x)' /\ x \in Timers
           /\ timer[x].state \in {"init", "cancal"}
           /\ heap[Top].deadline = timer[x].deadline
           /\ \A u : u # x => (Queued(u)' <=> Queued(u))
<1>1. PICK r : r = Popped
  BY Zenon
<1>2. PICK place \in [DOMAIN r -> DOMAIN heap \ {Top}] :
         /\ \A j \in DOMAIN r : r[j] = heap[place[j]]
         /\ \A j, k \in DOMAIN r : place[j] = place[k] => j = k
         /\ \A k \in DOMAIN heap \ {Top} : \E j \in DOMAIN r : place[j] = k
  BY <1>1, PopsTop
<1>3. r \in Seq(Entry) /\ heap' = r
  BY <1>1, PopsTop
<1>4. \A i \in DOMAIN heap : heap[i].timer \in Timers
  <2>1. \A e \in Entry : e.timer \in Timers
    BY SMT DEF Entry
  <2>2. heap \in Seq(Entry)
    BY DEF TypeOK
  <2> QED
    BY <2>1, <2>2, Elements
<1>5. Top \in DOMAIN heap /\ x = heap[Top].timer /\ x \in Timers
  BY <1>4, TopIsFirst DEF TopTimer
<1>6. /\ timer[x].state \in {"init", "cancal"}
      /\ heap[Top].deadline = timer[x].deadline
  BY <1>5 DEF HeapOK
<1>7. \A i \in DOMAIN heap : i # Top => heap[i].timer # x
  BY <1>5 DEF HeapOK
<1>8. \A j \in DOMAIN r : place[j] \in DOMAIN heap /\ place[j] # Top /\ r[j] = heap[place[j]]
  BY <1>2
<1>9. HeapOK'
  <2>1. ASSUME NEW i \in DOMAIN r, NEW j \in DOMAIN r, r[i].timer = r[j].timer
        PROVE  i = j
    BY <1>2, <1>8, <2>1 DEF HeapOK
  <2>2. ASSUME NEW i \in DOMAIN r
        PROVE  /\ timer'[r[i].timer].state \in {"init", "cancal"}
               /\ r[i].deadline = timer'[r[i].timer].deadline
    BY <1>4, <1>7, <1>8 DEF HeapOK
  <2> QED
    BY <1>3, <2>1, <2>2 DEF HeapOK
<1>10. ~Queued(x)'
  BY <1>3, <1>7, <1>8 DEF Queued
<1>11. ASSUME NEW u, u # x
       PROVE  Queued(u)' <=> Queued(u)
  <2>1. ASSUME Queued(u) PROVE Queued(u)'
    <3>1. PICK i \in DOMAIN heap : heap[i].timer = u
      BY <2>1 DEF Queued
    <3>2. PICK j \in DOMAIN r : place[j] = i
      BY <1>2, <1>5, <1>11, <3>1
    <3> QED
      BY <1>3, <1>8, <3>1, <3>2 DEF Queued
  <2>2. ASSUME Queued(u)' PROVE Queued(u)
    BY <1>3, <1>8, <2>2 DEF Queued
  <2> QED
    BY <2>1, <2>2
<1> QED
  BY <1>3, <1>5, <1>6, <1>9, <1>10, <1>11

\* cleanup_cancelled, outside of the callbacks.
LEMMA Cleans ==
    ASSUME TypeOK, TimersOK, HeapOK, \A t \in Timers : TimerOK(t), current = NoTimer,
           current' = current, Cleanup
    PROVE  /\ heap' \in Seq(Entry) /\ timers' \in Seq(Timers)
           /\ timer' \in [Timers -> Object]
           /\ TimersOK' /\ HeapOK' /\ \A t \in Timers : TimerOK(t)'
<1>0. /\ timers \in Seq(Timers) /\ timer \in [Timers -> Object]
      /\ \A i \in DOMAIN timers : timers[i] \in Timers
  BY Elements DEF TypeOK
<1>1. PICK n \in 0..Len(timers) : \E order \in Bijection(1..n, Kept) :
          /\ timers' = [i \in 1..n |-> timers[order[i]]]
          /\ heap' = Retained(order)
  BY DEF Cleanup
<1>2. PICK order \in Bijection(1..n, Kept) :
          /\ timers' = [i \in 1..n |-> timers[order[i]]]
          /\ heap' = Retained(order)
  BY <1>1
<1>3. n \in Nat
  BY SMT, <1>0
<1>4. /\ order \in [1..n -> Kept] /\ DOMAIN order = 1..n
      /\ \A i, j \in 1..n : order[i] = order[j] => i = j
      /\ \A k \in Kept : \E i \in 1..n : order[i] = k
  BY <1>2 DEF Bijection, Injection, Surjection, IsInjective
<1>5. PICK s : s = [i \in 1..n |-> timers[order[i]]]
  BY Zenon
<1>6. PICK h : h = Retained(order)
  BY Zenon
<1>7. /\ DOMAIN s = 1..n /\ DOMAIN h = 1..n /\ timers' = s /\ heap' = h
      /\ \A i \in 1..n : h[i] = EntryOf(s[i], timer[s[i]].deadline)
  BY <1>2, <1>4, <1>5, <1>6 DEF Retained
<1>8. \A t \in Timers : /\ Finished(t) => timer'[t] = [NoObject EXCEPT !.state = "deleted"]
                        /\ ~Finished(t) => timer'[t] = timer[t]
  BY DEF Cleanup
<1>9. ASSUME NEW i \in 1..n
      PROVE  /\ s[i] \in Timers /\ timer[s[i]].state = "init" /\ timer'[s[i]] = timer[s[i]]
             /\ h[i] \in Entry /\ h[i].timer = s[i] /\ h[i].deadline = timer[s[i]].deadline
  <2>1. order[i] \in Kept /\ s[i] = timers[order[i]]
    BY <1>4, <1>5
  <2>2. s[i] \in Timers /\ ~Finished(s[i]) /\ Owned(s[i])
    BY <1>0, <2>1 DEF Kept, Owned
  <2>3. timer[s[i]] \in Object
    BY <1>0, <2>2
  <2>4. timer[s[i]].deadline \in Nat /\ timer[s[i]].state
              \in {"none", "init", "processing", "done", "cancal", "deleted"}
    BY SMTT(60), <2>3 DEF Object
  <2>5. timer[s[i]].state = "init"
    BY <2>2, <2>4, HeapTimerAssumption DEF TimerOK, Finished
  <2>6. \A t \in Timers, d \in Nat : EntryOf(t, d) \in Entry /\ EntryOf(t, d).timer = t
                                     /\ EntryOf(t, d).deadline = d
    BY SMT DEF EntryOf, Entry
  <2> QED
    BY <1>7, <1>8, <2>2, <2>4, <2>5, <2>6
<1>10. heap' \in Seq(Entry) /\ timers' \in Seq(Timers)
  <2>1. h \in [1..n -> Entry] /\ s \in [1..n -> Timers]
    <3>1. h = [i \in 1..n |-> h[i]] /\ s = [i \in 1..n |-> s[i]]
      BY <1>5, <1>6, <1>4 DEF Retained
    <3> QED
      BY <1>9, <3>1
  <2>2. h \in Seq(Entry) /\ s \in Seq(Timers)
    BY Zenon, <1>3, <2>1, FunctionIsSequence
  <2> QED
    BY <1>7, <2>2
<1>11. timer' \in [Timers -> Object]
  <2>1. [NoObject EXCEPT !.state = "deleted"] \in Object
    BY Zenon, ObjectFields
  <2>2. \A t \in Timers : timer'[t] \in Object
    BY <1>0, <1>8, <2>1
  <2>3. timer' = [t \in Timers |-> timer'[t]]
    BY DEF Cleanup
  <2> QED
    BY <2>2, <2>3
<1>12. \A i, j \in 1..n : s[i] = s[j] => i = j
  <2>1. \A i \in 1..n : order[i] \in DOMAIN timers /\ s[i] = timers[order[i]]
    BY <1>4, <1>5 DEF Kept
  <2> QED
    BY <1>4, <2>1 DEF TimersOK
<1>13. TimersOK' /\ HeapOK'
  <2>1. TimersOK'
    BY <1>7, <1>12 DEF TimersOK
  <2>2. \A i, j \in 1..n : h[i].timer = h[j].timer => i = j
    BY <1>9, <1>12
  <2>3. \A i \in 1..n : /\ timer'[h[i].timer].state \in {"init", "cancal"}
                        /\ h[i].deadline = timer'[h[i].timer].deadline
    BY <1>9
  <2> QED
    BY <1>7, <2>1, <2>2, <2>3 DEF HeapOK
<1>14. ASSUME NEW t \in Timers
       PROVE  TimerOK(t)'
  <2>1. TimerOK(t)
    BY SMTT(60)
  <2>2. CASE Finished(t)
    <3>1. timer'[t].state = "deleted" /\ timer'[t].handle = FALSE
      <4>1. [NoObject EXCEPT !.state = "deleted"].state = "deleted"
            /\ [NoObject EXCEPT !.state = "deleted"].handle = FALSE
        BY Zenon, ObjectFields
      <4> QED
        BY Zenon, <1>8, <2>2, <4>1
    <3>2. ~Owned(t)'
      BY <1>7, <1>9, <2>2 DEF Owned, Finished
    <3> QED
      BY <3>1, <3>2 DEF TimerOK
  <2>3. CASE ~Finished(t)
    <3>1. Owned(t) <=> \E i \in 1..n : s[i] = t
      <4>1. \A k \in DOMAIN timers : timers[k] = t => \E i \in 1..n : s[i] = t
        <5> SUFFICES ASSUME NEW k \in DOMAIN timers, timers[k] = t
                     PROVE  \E i \in 1..n : s[i] = t
          OBVIOUS
        <5>1. k \in Kept
          BY <2>3 DEF Kept
        <5>2. PICK i \in 1..n : order[i] = k
          BY <1>4, <5>1
        <5> QED
          BY <1>5, <5>2
      <4>2. \A i \in 1..n : s[i] = t => Owned(t)
        BY SMTT(30), <1>4, <1>5 DEF Kept, Owned
      <4> QED
        BY <4>1, <4>2 DEF Owned
    <3>2. (Owned(t)' <=> Owned(t)) /\ (Queued(t)' <=> Owned(t))
      BY SMTT(60), <1>7, <1>9, <3>1 DEF Owned, Queued
    <3>3. timer[t].state = "init" => Owned(t)
      BY <2>1 DEF TimerOK
    <3> QED
      BY SMTT(60), <1>8, <2>1, <2>3, <3>2, <3>3, TimerKept
  <2> QED
    BY <2>2, <2>3
<1> QED
  BY <1>10, <1>11, <1>13, <1>14

\* The entries of the heap are timers'.
LEMMA HeapTimers ==
    ASSUME TypeOK
    PROVE  \A i \in DOMAIN heap : heap[i].timer \in Timers
<1>1. \A e \in Entry : e.timer \in Timers
  BY SMT DEF Entry
<1>2. heap \in Seq(Entry)
  BY DEF TypeOK
<1> QED
  BY Zenon, <1>1, <1>2, Elements

\* A timer that is triggered, and one that is armed again.
LEMMA TriggerFields ==
    \A p \in Object :
        /\ LET o == [p EXCEPT !.state = "processing"]
           IN  /\ o \in Object /\ o.state = "processing" /\ o.handle = p.handle
               /\ CountOK(p) => CountOK(o)
        /\ \A d \in Nat :
              LET o == [p EXCEPT !.deadline = d]
              IN  /\ o \in Object /\ o.state = p.state /\ o.deadline = d
                  /\ CountOK(p) => CountOK(o)
BY Zenon DEF Object, CountOK
-----------------------------------------------------------------------------
(* Init and the actions.                                                   *)

\* A manager without timers.
LEMMA InitIInv ==
    ASSUME Init
    PROVE  IInv
<1>1. DOMAIN heap = {} /\ DOMAIN timers = {} /\ heap \in Seq(Entry) /\ timers \in Seq(Timers)
  BY SMT DEF Init
<1>2. NoObject \in Object /\ NoObject.state = "none" /\ NoObject.handle = FALSE
  BY SMT DEF NoObject, Object
<1>3. \A t \in Timers : timer[t] = NoObject
  BY DEF Init
<1>4. TypeOK
  BY <1>1, <1>2 DEF Init, TypeOK
<1>5. TimersOK /\ HeapOK /\ CurrentOK /\ PollEndsInTime
  BY <1>1 DEF Init, TimersOK, HeapOK, CurrentOK, PollEndsInTime
<1>6. ASSUME NEW t \in Timers PROVE TimerOK(t)
  BY <1>1, <1>2, <1>3 DEF TimerOK, Owned
<1> QED
  BY <1>4, <1>5, <1>6 DEF IInv

\* after() and every(): the new timer is owned and queued once.
LEMMA ScheduleStep ==
    ASSUME IInv, NEW t \in Timers, NEW timeout \in Timeouts, NEW repeat \in Repeats,
           Schedule(t, timeout, repeat[1], repeat[2])
    PROVE  IInv'
<1>0. TypeOK /\ TimersOK /\ HeapOK /\ CurrentOK /\ \A u \in Timers : TimerOK(u)
  BY DEF IInv
<1>1. timeout \in Nat /\ repeat[1] \in Nat /\ repeat[2] \in Int /\ now + timeout \in Nat
  <2>1. timeout \in Nat /\ repeat \in Nat \X Int
    BY HeapTimerAssumption
  <2> QED
    BY SMT, <1>0, <2>1 DEF TypeOK
<1>2. PICK d \in Nat : d = now + timeout
  BY <1>1
<1>3. PICK o : o = [state |-> "init", deadline |-> d, interval |-> repeat[1],
                    period |-> repeat[2], counter |-> 0, handle |-> TRUE]
  BY Zenon
<1>4. o \in Object /\ o.state = "init" /\ o.deadline = d /\ CountOK(o)
  BY SMT, <1>1, <1>3 DEF Object, CountOK
<1>5. /\ timer[t].state = "none" /\ timer' = [timer EXCEPT ![t] = o]
      /\ timers' = Append(timers, t) /\ heap' = Append(heap, EntryOf(t, d))
      /\ UNCHANGED <<now, stale, loopVars>> /\ pc # "sleep"
  BY <1>2, <1>3 DEF Schedule, InCallback
<1>6. /\ timer' \in [Timers -> Object] /\ timer'[t] = o
      /\ \A u \in Timers : u # t => timer'[u] = timer[u]
  BY Zenon, <1>0, <1>4, <1>5, OneTimer
<1>7. ~Owned(t) /\ ~Queued(t)
  <2>1. ~Owned(t)
    BY Zenon, <1>0, <1>5 DEF TimerOK
  <2>2. ~Queued(t)
    BY Zenon, <1>0, <1>5 DEF Queued, HeapOK
  <2> QED
    BY Zenon, <2>1, <2>2
<1>8. /\ heap' \in Seq(Entry) /\ HeapOK' /\ Queued(t)'
      /\ \A u : u # t => (Queued(u)' <=> Queued(u))
  BY Zenon, <1>0, <1>2, <1>4, <1>5, <1>6, <1>7, Pushes
<1>9. PICK s : s = Append(timers, t)
  BY Zenon
<1>10. s \in Seq(Timers) /\ timers' = s
       /\ \E n : /\ n \notin DOMAIN timers /\ DOMAIN s = DOMAIN timers \cup {n} /\ s[n] = t
                 /\ \A i \in DOMAIN timers : s[i] = timers[i]
  <2>1. timers \in Seq(Timers)
    BY <1>0 DEF TypeOK
  <2>2. timers' = s
    BY Zenon, <1>5, <1>9
  <2> QED
    BY SMTT(20), <1>9, <2>1, <2>2, Added
<1>11. PICK n : /\ n \notin DOMAIN timers /\ DOMAIN s = DOMAIN timers \cup {n} /\ s[n] = t
                /\ \A i \in DOMAIN timers : s[i] = timers[i]
  BY <1>10
<1>12. Owned(t)' /\ \A u : u # t => (Owned(u)' <=> Owned(u))
  BY <1>10, <1>11 DEF Owned
<1>13. \A i \in DOMAIN timers : timers[i] # t
  BY <1>7 DEF Owned
<1>14. TimersOK'
  BY <1>0, <1>10, <1>11, <1>13 DEF TimersOK
<1>15. ASSUME NEW u \in Timers
       PROVE  TimerOK(u)'
  <2>1. CASE u = t
    BY SMTT(30), <1>4, <1>6, <1>8, <1>12, <2>1 DEF TimerOK
  <2>2. CASE u # t
    BY SMTT(30), <1>0, <1>5, <1>6, <1>8, <1>12, <2>2, TimerKept
  <2> QED
    BY SMTT(60), <2>1, <2>2
<1>16. CurrentOK'
  <2>1. current # NoTimer => current \in Timers /\ current # t
    BY SMTT(30), <1>0, <1>5 DEF CurrentOK, TypeOK
  <2> QED
    BY SMTT(60), <1>0, <1>5, <1>6, <1>8, <2>1 DEF CurrentOK
<1>17. TypeOK' /\ PollEndsInTime'
  BY ZenonT(60), <1>0, <1>5, <1>6, <1>8, <1>10 DEF TypeOK, PollEndsInTime
<1> QED
  BY <1>8, <1>14, <1>15, <1>16, <1>17 DEF IInv

\* TimerHandle::cancel(): the entry stays on the heap, under the same deadline.
LEMMA CancelStep ==
    ASSUME IInv, NEW t \in Timers, Cancel(t)
    PROVE  IInv'
<1>0. TypeOK /\ TimersOK /\ HeapOK /\ CurrentOK /\ \A u \in Timers : TimerOK(u)
  BY DEF IInv
<1>1. PICK o : o = [timer[t] EXCEPT !.state = "cancal", !.handle = FALSE]
  BY Zenon
<1>2. /\ timer[t].handle /\ timer' = [timer EXCEPT ![t] = o]
      /\ UNCHANGED <<now, heap, timers, stale, loopVars>> /\ pc # "sleep"
  BY Zenon, <1>0, <1>1 DEF Cancel, InCallback, TypeOK
<1>3. o \in Object /\ o.state = "cancal" /\ ~o.handle /\ o.deadline = timer[t].deadline
  <2>1. timer[t] \in Object
    BY Zenon, <1>0 DEF TypeOK
  <2> QED
    BY Zenon, <1>1, <2>1, ObjectFields
<1>4. /\ timer' \in [Timers -> Object] /\ timer'[t] = o
      /\ \A u \in Timers : u # t => timer'[u] = timer[u]
  BY Zenon, <1>0, <1>2, <1>3, OneTimer
<1>5. \A u : (Queued(u)' <=> Queued(u)) /\ (Owned(u)' <=> Owned(u))
  BY <1>2, ListsKept
<1>6. ASSUME NEW u \in Timers
      PROVE  TimerOK(u)'
  <2>1. CASE u = t
    BY <1>0, <1>2, <1>3, <1>4, <1>5, <2>1 DEF TimerOK
  <2>2. CASE u # t
    BY SMTT(30), <1>0, <1>2, <1>4, <1>5, <2>2, TimerKept
  <2> QED
    BY SMTT(60), <2>1, <2>2
<1>7. HeapOK'
  <2>1. \A i \in DOMAIN heap : heap[i].timer \in Timers
    BY SMTT(60), <1>0, HeapTimers
  <2> QED
    BY ZenonT(60), <1>0, <1>2, <1>3, <1>4, <2>1 DEF HeapOK
<1>8. CurrentOK'
  BY SMTT(60), <1>0, <1>2, <1>3, <1>4, <1>5 DEF CurrentOK, TypeOK
<1>9. TypeOK' /\ PollEndsInTime' /\ TimersOK'
  BY <1>0, <1>2, <1>4 DEF TypeOK, PollEndsInTime, TimersOK
<1> QED
  BY <1>6, <1>7, <1>8, <1>9 DEF IInv

\* A step of the loop thread that only moves the clock, or itself.
LEMMA MovesOn ==
    ASSUME IInv, UNCHANGED <<heap, timers, timer, current, next>>,
           now' \in Nat, tickNow' \in Nat, tickNow' <= now', wake' \in Nat,
           pc' = "callback" <=> pc = "callback", PollEndsInTime'
    PROVE  IInv'
<1>1. \A u : (Queued(u)' <=> Queued(u)) /\ (Owned(u)' <=> Owned(u))
  BY ListsKept
<1>2. \A t \in Timers : TimerOK(t)'
  BY Zenon, <1>1, TimerKept DEF IInv
<1>3. TypeOK'
  BY SMTT(60) DEF IInv, TypeOK
<1>4. TimersOK' /\ HeapOK'
  BY DEF IInv, TimersOK, HeapOK
<1>5. CurrentOK'
  BY <1>1 DEF IInv, CurrentOK
<1> QED
  BY <1>2, <1>3, <1>4, <1>5 DEF IInv

\* tick() looks at the clock.
LEMMA TickBeginStep ==
    ASSUME IInv, TickBegin
    PROVE  IInv'
<1>1. now' \in Nat /\ tickNow' \in Nat /\ tickNow' <= now' /\ wake' \in Nat
  BY SMT DEF IInv, TypeOK, TickBegin
<1>2. PollEndsInTime' /\ (pc' = "callback" <=> pc = "callback")
  BY DEF PollEndsInTime, TickBegin
<1> QED
  BY <1>1, <1>2, MovesOn DEF TickBegin

\* The poll returns.
LEMMA WakeStep ==
    ASSUME IInv, Wake
    PROVE  IInv'
<1>1. now' \in Nat /\ tickNow' \in Nat /\ tickNow' <= now' /\ wake' \in Nat
  BY SMT DEF IInv, TypeOK, Wake
<1>2. PollEndsInTime' /\ (pc' = "callback" <=> pc = "callback")
  BY DEF PollEndsInTime, Wake
<1> QED
  BY <1>1, <1>2, MovesOn DEF Wake

\* Time passes.
LEMMA AdvanceStep ==
    ASSUME IInv, Advance
    PROVE  IInv'
<1>1. now' \in Nat /\ tickNow' \in Nat /\ tickNow' <= now' /\ wake' \in Nat
  BY SMT DEF IInv, TypeOK, Advance
<1>2. PollEndsInTime' /\ (pc' = "callback" <=> pc = "callback")
  BY DEF IInv, PollEndsInTime, Advance
<1> QED
  BY <1>1, <1>2, MovesOn DEF Advance

\* get_poll_timeout_ms(): the top's deadline bounds that of every waiting timer.
LEMMA PollSleepStep ==
    ASSUME IInv, PollSleep
    PROVE  IInv'
<1>0. TypeOK /\ HeapOK /\ \A u \in Timers : TimerOK(u)
  BY DEF IInv
<1>1. now \in Nat /\ now' = now /\ tickNow' = now /\ pc = "poll" /\ timer' = timer
  BY <1>0 DEF PollSleep, TypeOK
<1>2. CASE heap = <<>>
  <2>1. wake' \in Nat
    BY SMT, <1>1, <1>2, HeapTimerAssumption DEF PollSleep
  <2>2. \A t \in Timers : timer[t].state # "init"
    <3>1. DOMAIN heap = {}
      BY SMT, <1>2
    <3> QED
      BY <1>0, <3>1 DEF TimerOK, Queued
  <2>3. PollEndsInTime'
    BY <1>1, <2>2 DEF PollEndsInTime
  <2>4. tickNow' <= now'
    BY SMT, <1>1
  <2> QED
    BY <1>1, <2>1, <2>3, <2>4, MovesOn DEF PollSleep
<1>3. CASE heap # <<>>
  <2>1. PICK d : d = heap[Top].deadline
    OBVIOUS
  <2>2. d \in Nat /\ \A j \in DOMAIN heap : d <= heap[j].deadline
    <3>1. \A e \in Entry : e.deadline \in Nat
      BY SMT DEF Entry
    <3> QED
      BY <1>0, <1>3, <2>1, <3>1, TopIsFirst
  <2>3. wake' = now + Lesser(Cap, IF d > now THEN d - now ELSE 1)
    BY <1>3, <2>1 DEF PollSleep, PollWait
  <2>4. wake' \in Nat /\ (wake' <= d \/ wake' <= now + 1)
    BY SMTT(60), <1>1, <2>2, <2>3, HeapTimerAssumption DEF Lesser
  <2>5. ASSUME NEW t \in Timers, timer[t].state = "init"
        PROVE  wake' <= timer[t].deadline \/ wake' <= tickNow' + 1
    <3>1. PICK i \in DOMAIN heap : heap[i].timer = t
      BY <1>0, <2>5 DEF TimerOK, Queued
    <3>2. heap[i].deadline = timer[t].deadline /\ d <= timer[t].deadline
      BY <1>0, <2>2, <3>1 DEF HeapOK
    <3>3. timer[t].deadline \in Nat
      BY SMT, <1>0 DEF TypeOK, Object
    <3> QED
      BY SMTT(30), <1>1, <2>2, <2>4, <3>2, <3>3
  <2>6. PollEndsInTime'
    BY SMTT(30), <1>1, <2>5 DEF PollEndsInTime
  <2>7. tickNow' <= now'
    BY SMT, <1>1
  <2> QED
    BY <1>1, <2>4, <2>6, <2>7, MovesOn DEF PollSleep
<1> QED
  BY <1>2, <1>3

\* Entries of timers that are cancelled or done leave the heap.
LEMMA DropStep ==
    ASSUME IInv, heap # <<>>, ~TopLive, heap' = Popped, pc \in {"tick", "poll"},
           UNCHANGED <<now, timers, timer, loopVars>>
    PROVE  IInv'
<1>0. TypeOK /\ TimersOK /\ HeapOK /\ CurrentOK /\ \A u \in Timers : TimerOK(u)
  BY DEF IInv
<1>1. PICK x : x = TopTimer
  BY Zenon
<1>2. \A u \in Timers : u # x => timer'[u] = timer[u]
  BY Zenon
<1>3. /\ heap' \in Seq(Entry) /\ HeapOK' /\ ~Queued(x)' /\ x \in Timers
      /\ timer[x].state \in {"init", "cancal"}
      /\ heap[Top].deadline = timer[x].deadline
      /\ \A u : u # x => (Queued(u)' <=> Queued(u))
  BY Zenon, <1>0, <1>1, <1>2, Pops
<1>4. timer[x].state # "init"
  BY Zenon, <1>1, <1>3 DEF TopLive, Finished
<1>5. \A u : Owned(u)' <=> Owned(u)
  BY DEF Owned
<1>6. ASSUME NEW u \in Timers
      PROVE  TimerOK(u)'
  <2>1. timer[u].state = "init" /\ Queued(u) => Queued(u)'
    BY Zenon, <1>3, <1>4
  <2>2. TimerOK(u) /\ timer'[u] = timer[u] /\ current' = current
    BY Zenon, <1>0
  <2> QED
    BY Zenon, <1>5, <2>1, <2>2, TimerKept
<1>7. CurrentOK'
  BY SMTT(60), <1>0 DEF CurrentOK
<1>8. TypeOK' /\ PollEndsInTime' /\ TimersOK'
  BY SMTT(30), <1>0, <1>3 DEF TypeOK, PollEndsInTime, TimersOK
<1> QED
  BY <1>3, <1>6, <1>7, <1>8 DEF IInv

\* tick() takes a due timer off the heap and triggers it.
LEMMA TriggerStep ==
    ASSUME IInv, Trigger
    PROVE  IInv'
<1>0. TypeOK /\ TimersOK /\ HeapOK /\ CurrentOK /\ \A u \in Timers : TimerOK(u)
  BY DEF IInv
<1>1. PICK x : x = TopTimer
  BY Zenon
<1>2. PICK o : o = [timer[x] EXCEPT !.state = "processing"]
  BY Zenon
<1>3. /\ heap # <<>> /\ heap' = Popped /\ x \in Timers /\ timer[x] \in Object
      /\ ~Finished(x) /\ pc = "tick" /\ pc' = "callback" /\ current' = x
  <2>1. heap # <<>> /\ heap' = Popped /\ ~Finished(x)
        /\ pc = "tick" /\ pc' = "callback" /\ current' = x
    BY Zenon, <1>1 DEF Trigger, TopLive
  <2>2. x \in Timers
    BY Zenon, <1>0, <1>1, <2>1, HeapTimers, TopIsFirst DEF TopTimer
  <2> QED
    BY Zenon, <1>0, <2>1, <2>2 DEF TypeOK
<1>4. timer' = [timer EXCEPT ![x] = o] /\ UNCHANGED <<now, timers, stale, tickNow, wake>>
  BY Zenon, <1>1, <1>2 DEF Trigger
<1>5. /\ o \in Object /\ o.state = "processing" /\ o.handle = timer[x].handle
      /\ CountOK(timer[x]) => CountOK(o)
  BY Zenon, <1>2, <1>3, TriggerFields
<1>6. /\ timer' \in [Timers -> Object] /\ timer'[x] = o
      /\ \A u \in Timers : u # x => timer'[u] = timer[u]
  BY Zenon, <1>0, <1>3, <1>4, <1>5, OneTimer
<1>7. /\ heap' \in Seq(Entry) /\ HeapOK' /\ ~Queued(x)'
      /\ timer[x].state = "init"
      /\ \A u : u # x => (Queued(u)' <=> Queued(u))
  BY Zenon, <1>0, <1>1, <1>3, <1>6, Pops DEF Finished
<1>8. \A u : Owned(u)' <=> Owned(u)
  BY Zenon, <1>4 DEF Owned
<1>9. current = NoTimer
  BY Zenon, <1>0, <1>3 DEF CurrentOK
<1>10. ASSUME NEW u \in Timers
       PROVE  TimerOK(u)'
  <2>1. TimerOK(u)
    BY Zenon, <1>0
  <2>2. CASE u = x
    BY Zenon, <1>3, <1>5, <1>6, <1>7, <1>8, <2>1, <2>2 DEF TimerOK
  <2>3. CASE u # x
    <3>1. timer[u].state # "processing"
      BY Zenon, <1>9, <2>1, HeapTimerAssumption DEF TimerOK
    <3> QED
      BY Zenon, <1>6, <1>7, <1>8, <2>1, <2>3, <3>1, TimerKept
  <2> QED
    BY <2>2, <2>3
<1>11. CurrentOK'
  <2>1. x # NoTimer
    BY <1>3, HeapTimerAssumption
  <2> QED
    BY ZenonT(60), <1>3, <1>5, <1>6, <1>7, <2>1 DEF CurrentOK
<1>12. next' \in Nat
  <2>1. timer[x].deadline \in Nat /\ timer[x].interval \in Nat /\ tickNow \in Nat
    BY SMT, <1>0, <1>3 DEF TypeOK, Object
  <2>2. next' = NextDeadline(x)
    BY Zenon, <1>1 DEF Trigger
  <2>3. NextDeadline(x) \in Nat
    BY SMT, <2>1 DEF NextDeadline
  <2> QED
    BY Zenon, <2>2, <2>3
<1>13. TypeOK' /\ PollEndsInTime' /\ TimersOK'
  BY Zenon, <1>0, <1>3, <1>4, <1>6, <1>7, <1>12 DEF TypeOK, PollEndsInTime, TimersOK
<1> QED
  BY Zenon, <1>7, <1>10, <1>11, <1>13 DEF IInv

\* What is left of a timer after its callback.
LEMMA TriggeredFields ==
    ASSUME NEW t, timer[t] \in Object, timer[t].state \in {"processing", "cancal"},
           timer[t].state = "processing" => CountOK(timer[t]),
           timer[t].handle => timer[t].state = "processing",
           NEW o, o = Triggered(t)
    PROVE  /\ o \in Object /\ o.state \in {"init", "done", "cancal"}
           /\ o.state = "init" => CountOK(o)
           /\ o.state # "init" => o.handle = FALSE
<1>1. PICK p \in Object : p = timer[t]
  BY Zenon
<1>2. o = IF p.state = "cancal" THEN p
          ELSE IF p.period = 0 \/ p.interval = 0
          THEN [p EXCEPT !.state = "done", !.handle = FALSE]
          ELSE IF p.period < 0 THEN [p EXCEPT !.state = "init", !.counter = 0]
          ELSE IF p.counter + 1 = p.period
          THEN [p EXCEPT !.state = "done", !.handle = FALSE, !.counter = p.counter + 1]
          ELSE [p EXCEPT !.state = "init", !.counter = p.counter + 1]
  BY Zenon, <1>1 DEF Triggered, PeriodOver
<1>3. /\ p.interval \in Nat /\ p.period \in Int /\ p.counter \in Nat /\ p.handle \in BOOLEAN
      /\ p.counter + 1 \in Nat /\ 0 \in Nat
      /\ p.state = "cancal" \/ p.state = "processing"
  BY SMT, <1>1 DEF Object
<1>4. /\ [p EXCEPT !.state = "done", !.handle = FALSE] \in Object
      /\ [p EXCEPT !.state = "done", !.handle = FALSE].state = "done"
      /\ [p EXCEPT !.state = "done", !.handle = FALSE].handle = FALSE
  BY Zenon DEF Object
<1>5. \A c \in Nat : /\ [p EXCEPT !.state = "done", !.handle = FALSE, !.counter = c] \in Object
                     /\ [p EXCEPT !.state = "done", !.handle = FALSE, !.counter = c].state = "done"
                     /\ [p EXCEPT !.state = "done", !.handle = FALSE, !.counter = c].handle = FALSE
  BY Zenon DEF Object
<1>6. ASSUME NEW c \in Nat, o = [p EXCEPT !.state = "init", !.counter = c]
      PROVE  /\ o \in Object /\ o.state = "init" /\ o.counter = c
             /\ o.interval = p.interval /\ o.period = p.period
  BY ZenonT(60), <1>6 DEF Object
<1>7. CASE p.state = "cancal"
  BY <1>1, <1>2, <1>3, <1>7
<1>8. CASE p.state # "cancal" /\ (p.period = 0 \/ p.interval = 0)
  BY Zenon, <1>2, <1>3, <1>4, <1>8
<1>9. CASE p.state # "cancal" /\ ~(p.period = 0 \/ p.interval = 0) /\ p.period < 0
  <2>1. o = [p EXCEPT !.state = "init", !.counter = 0]
    BY Zenon, <1>2, <1>9
  <2>2. o \in Object /\ o.state = "init" /\ o.period = p.period
    BY Zenon, <1>3, <1>6, <2>1
  <2>3. CountOK(o)
    BY SMT, <1>3, <1>9, <2>2 DEF CountOK
  <2> QED
    BY Zenon, <2>2, <2>3
<1>10. CASE p.state # "cancal" /\ ~(p.period = 0 \/ p.interval = 0) /\ ~(p.period < 0)
            /\ p.counter + 1 = p.period
  BY Zenon, <1>2, <1>3, <1>5, <1>10
<1>11. CASE p.state # "cancal" /\ ~(p.period = 0 \/ p.interval = 0) /\ ~(p.period < 0)
            /\ p.counter + 1 # p.period
  <2>0. PICK k \in Nat : k = p.counter + 1
    BY Zenon, <1>3
  <2>1. o = [p EXCEPT !.state = "init", !.counter = k]
    BY Zenon, <1>2, <1>11, <2>0
  <2>2. o \in Object /\ o.state = "init" /\ o.period = p.period /\ o.counter = p.counter + 1
    BY ZenonT(60), <1>6, <2>0, <2>1
  <2>3. p.counter < p.period
    BY SMTT(60), <1>1, <1>3, <1>11 DEF CountOK
  <2>4. CountOK(o)
    <3>1. p.counter \in Nat /\ p.period \in Int
      BY Zenon, <1>3
    <3>2. p.counter + 1 < p.period
      BY SMTT(60), <1>11, <2>3, <3>1
    <3> QED
      BY Zenon, <2>2, <3>2 DEF CountOK
  <2> QED
    BY Zenon, <2>2, <2>4
<1> QED
  BY ZenonT(60), <1>7, <1>8, <1>9, <1>10, <1>11

\* trigger() returns: the timer is back on the heap under its new deadline, or over.
LEMMA CallbackReturnStep ==
    ASSUME IInv, CallbackReturn
    PROVE  IInv'
<1>0. TypeOK /\ TimersOK /\ HeapOK /\ CurrentOK /\ \A u \in Timers : TimerOK(u)
  BY DEF IInv
<1>1. PICK c : c = current
  BY Zenon
<1>2. /\ c \in Timers /\ timer[c] \in Object /\ timer[c].state \in {"processing", "cancal"}
      /\ ~Queued(c) /\ TimerOK(c) /\ next \in Nat
  <2>1. c \in Timers /\ timer[c].state \in {"processing", "cancal"} /\ ~Queued(c)
    BY Zenon, <1>0, <1>1 DEF CallbackReturn, CurrentOK, TypeOK
  <2> QED
    BY Zenon, <1>0, <2>1 DEF TypeOK
<1>3. PICK a : a = Triggered(c)
  BY Zenon
<1>4. /\ a \in Object /\ a.state \in {"init", "done", "cancal"}
      /\ a.state = "init" => CountOK(a)
      /\ a.state # "init" => a.handle = FALSE
  <2>1. /\ timer[c].state = "processing" => CountOK(timer[c])
        /\ timer[c].handle => timer[c].state = "processing"
    BY Zenon, <1>2 DEF TimerOK
  <2> QED
    BY Zenon, <1>2, <1>3, <2>1, TriggeredFields
<1>5. /\ current' = NoTimer /\ next' = 0 /\ pc' = "tick" /\ timers' = timers
      /\ UNCHANGED <<now, tickNow, wake>>
  BY Zenon DEF CallbackReturn
<1>6. \A u : Owned(u)' <=> Owned(u)
  BY Zenon, <1>5 DEF Owned
<1>7. CurrentOK' /\ PollEndsInTime' /\ TimersOK'
  BY Zenon, <1>0, <1>5 DEF CurrentOK, PollEndsInTime, TimersOK
<1>8. Owned(c)
  BY Zenon, <1>2 DEF TimerOK
<1>9. \A u \in Timers : u # c => timer[u].state # "processing"
  BY Zenon, <1>0, <1>1 DEF TimerOK
<1>10. CASE a.state = "init"
  <2>1. PICK o : o = [a EXCEPT !.deadline = next]
    BY Zenon
  <2>2. timer' = [timer EXCEPT ![c] = o] /\ heap' = Append(heap, EntryOf(c, next))
    BY Zenon, <1>1, <1>3, <1>10, <2>1 DEF CallbackReturn
  <2>3. o \in Object /\ o.state = "init" /\ o.deadline = next /\ CountOK(o)
    BY ZenonT(60), <1>2, <1>4, <1>10, <2>1, TriggerFields
  <2>4. /\ timer' \in [Timers -> Object] /\ timer'[c] = o
        /\ \A u \in Timers : u # c => timer'[u] = timer[u]
    BY Zenon, <1>0, <1>2, <2>2, <2>3, OneTimer
  <2>5. /\ heap' \in Seq(Entry) /\ HeapOK' /\ Queued(c)'
        /\ \A u : u # c => (Queued(u)' <=> Queued(u))
    BY Zenon, <1>0, <1>2, <2>2, <2>3, <2>4, Pushes
  <2>6. ASSUME NEW u \in Timers
        PROVE  TimerOK(u)'
    <3>1. CASE u = c
      BY Zenon, <1>6, <1>8, <2>3, <2>4, <2>5, <3>1 DEF TimerOK
    <3>2. CASE u # c
      BY ZenonT(60), <1>0, <1>6, <1>9, <2>4, <2>5, <3>2, TimerKept
    <3> QED
      BY <3>1, <3>2
  <2>7. TypeOK'
    BY SMT, <1>0, <1>5, <2>4, <2>5 DEF TypeOK
  <2> QED
    BY Zenon, <1>7, <2>5, <2>6, <2>7 DEF IInv
<1>11. CASE a.state # "init"
  <2>1. timer' = [timer EXCEPT ![c] = a] /\ heap' = heap
    BY Zenon, <1>1, <1>3, <1>11 DEF CallbackReturn
  <2>2. /\ timer' \in [Timers -> Object] /\ timer'[c] = a
        /\ \A u \in Timers : u # c => timer'[u] = timer[u]
    BY Zenon, <1>0, <1>2, <1>4, <2>1, OneTimer
  <2>3. \A u : Queued(u)' <=> Queued(u)
    BY Zenon, <2>1 DEF Queued
  <2>4. HeapOK'
    <3>1. \A i \in DOMAIN heap : heap[i].timer \in Timers /\ heap[i].timer # c
      BY Zenon, <1>0, <1>2, HeapTimers DEF Queued
    <3> QED
      BY Zenon, <1>0, <2>1, <2>2, <3>1 DEF HeapOK
  <2>5. ASSUME NEW u \in Timers
        PROVE  TimerOK(u)'
    <3>1. CASE u = c
      BY Zenon, <1>4, <1>6, <1>8, <1>11, <2>2, <3>1 DEF TimerOK
    <3>2. CASE u # c
      BY ZenonT(60), <1>0, <1>6, <1>9, <2>2, <2>3, <3>2, TimerKept
    <3> QED
      BY <3>1, <3>2
  <2>6. TypeOK'
    BY SMTT(60), <1>0, <1>5, <2>1, <2>2 DEF TypeOK
  <2> QED
    BY Zenon, <1>7, <2>4, <2>5, <2>6 DEF IInv
<1> QED
  BY <1>10, <1>11

\* TickEnd and PollBegin: timers are cleaned up, or not.
LEMMA CleanupStep ==
    ASSUME IInv, pc \in {"tick", "idle"}, pc' \in {"idle", "poll"},
           Cleanup \/ UNCHANGED <<heap, timers, stale, timer>>,
           UNCHANGED <<now, current, next, wake>>, tickNow' \in {0, tickNow}
    PROVE  IInv'
<1>0. TypeOK /\ TimersOK /\ HeapOK /\ CurrentOK /\ \A u \in Timers : TimerOK(u)
  BY DEF IInv
<1>1. now' \in Nat /\ tickNow' \in Nat /\ tickNow' <= now' /\ wake' \in Nat
  BY SMT, <1>0 DEF TypeOK
<1>2. PollEndsInTime' /\ CurrentOK' /\ current = NoTimer
  BY Zenon, <1>0 DEF PollEndsInTime, CurrentOK
<1>3. CASE Cleanup
  <2>1. /\ heap' \in Seq(Entry) /\ timers' \in Seq(Timers)
        /\ timer' \in [Timers -> Object]
        /\ TimersOK' /\ HeapOK' /\ \A t \in Timers : TimerOK(t)'
    BY Zenon, <1>0, <1>2, <1>3, Cleans
  <2>2. TypeOK'
    BY Zenon, <1>0, <1>1, <2>1 DEF TypeOK
  <2> QED
    BY Zenon, <1>2, <2>1, <2>2 DEF IInv
<1>4. CASE UNCHANGED <<heap, timers, stale, timer>>
  BY Zenon, <1>1, <1>2, <1>4, MovesOn
<1> QED
  BY SMTT(60), <1>3, <1>4

\* Every step keeps the invariant.
LEMMA NextIInv ==
    ASSUME IInv, [Next]_vars
    PROVE  IInv'
<1>1. CASE TickBegin
  BY SMTT(60), <1>1, TickBeginStep
<1>2. CASE DropTop
  BY SMTT(60), <1>2, DropStep DEF DropTop
<1>3. CASE Trigger
  BY SMTT(60), <1>3, TriggerStep
<1>4. CASE CallbackReturn
  BY SMTT(60), <1>4, CallbackReturnStep
<1>5. CASE TickEnd
  BY Zenon, <1>5, CleanupStep DEF TickEnd
<1>6. CASE PollBegin
  BY Zenon, <1>6, CleanupStep DEF PollBegin
<1>7. CASE PollDropTop
  BY SMTT(60), <1>7, DropStep DEF PollDropTop
<1>8. CASE PollSleep
  BY SMTT(60), <1>8, PollSleepStep
<1>9. CASE Wake
  BY SMTT(60), <1>9, WakeStep
<1>10. CASE Advance
  BY SMTT(60), <1>10, AdvanceStep
<1>11. ASSUME NEW t \in Timers, Client(t)
       PROVE  IInv'
  BY Zenon, <1>11, ScheduleStep, CancelStep DEF Client
<1>12. CASE UNCHANGED vars
  <2>1. now' \in Nat /\ tickNow' \in Nat /\ tickNow' <= now' /\ wake' \in Nat
        /\ PollEndsInTime' /\ (pc' = "callback" <=> pc = "callback")
    BY SMTT(60), <1>12 DEF IInv, TypeOK, PollEndsInTime
  <2> QED
    BY ZenonT(60), <1>12, <2>1, MovesOn
<1> QED
  BY ZenonT(60), <1>1, <1>2, <1>3, <1>4, <1>5, <1>6, <1>7, <1>8, <1>9, <1>10, <1>11, <1>12
     DEF Next, LoopStep
-----------------------------------------------------------------------------
(* The contract.                                                           *)

\* What the contract says of a timer, given the next_deadline of tick().
LeftOf(o) ==
    IF ~(o.interval > 0 /\ o.period # 0) THEN 1
    ELSE IF o.period < 0 THEN -1 ELSE o.period - o.counter

PromiseOf(o, n) ==
    IF o.state = "none" THEN [status |-> "unused"]
    ELSE IF o.state \in {"cancal", "deleted"} THEN [status |-> "gone"]
    ELSE IF o.state = "done" \/ (o.state = "processing" /\ LeftOf(o) = 1)
    THEN [status |-> "fired"]
    ELSE [status |-> "armed",
          due |-> IF o.state = "processing" THEN n ELSE o.deadline,
          every |-> o.interval,
          left |-> IF o.state = "processing" /\ LeftOf(o) > 0 THEN LeftOf(o) - 1
                                                              ELSE LeftOf(o)]

\* The refinement mapping, in terms of the timer's own object.
LEMMA PromiseIs ==
    ASSUME NEW t
    PROVE  /\ Promise(t) = PromiseOf(timer[t], next)
           /\ Promise(t)' = PromiseOf(timer'[t], next')
<1>1. Promise(t) = PromiseOf(timer[t], next)
  BY Zenon DEF Promise, PromiseOf, Left, LeftOf, Recurring, Firing
<1>2. Promise(t)' = PromiseOf(timer'[t], next')
  BY Zenon DEF Promise, PromiseOf, Left, LeftOf, Recurring, Firing
<1> QED
  BY Zenon, <1>1, <1>2

\* Only a firing timer's promise depends on tick().
LEMMA PromiseKept ==
    ASSUME NEW t, timer'[t] = timer[t], timer[t].state = "processing" => next' = next
    PROVE  Promise(t)' = Promise(t)
<1>1. CASE timer[t].state = "processing"
  BY Zenon, <1>1, PromiseIs
<1>2. CASE timer[t].state # "processing"
  BY ZenonT(60), <1>2 DEF Promise, Left, Recurring, Firing
<1> QED
  BY <1>1, <1>2

\* A timer that waits.
LEMMA Armed ==
    ASSUME NEW o \in Object, o.state = "init", CountOK(o), NEW n
    PROVE  /\ PromiseOf(o, n).status = "armed" /\ PromiseOf(o, n).due = o.deadline
           /\ PromiseOf(o, n).every = o.interval /\ PromiseOf(o, n).left = LeftOf(o)
           /\ LeftOf(o) \in Int /\ LeftOf(o) # 0
<1>1. PromiseOf(o, n) = [status |-> "armed", due |-> o.deadline, every |-> o.interval,
                         left |-> LeftOf(o)]
  BY Zenon DEF PromiseOf
<1>2. o.interval \in Nat /\ o.period \in Int /\ o.counter \in Nat
  BY SMTT(60) DEF Object
<1>3. LeftOf(o) \in Int /\ LeftOf(o) # 0
  BY SMT, <1>2 DEF LeftOf, CountOK
<1> QED
  BY SMTT(20), <1>1, <1>3

\* A timer whose callback runs.
LEMMA Fires ==
    ASSUME NEW o \in Object, o.state = "processing", NEW n
    PROVE  /\ LeftOf(o) = 1 => PromiseOf(o, n).status = "fired"
           /\ LeftOf(o) # 1 =>
                 PromiseOf(o, n) = [status |-> "armed", due |-> n, every |-> o.interval,
                                    left |-> IF LeftOf(o) > 0 THEN LeftOf(o) - 1
                                                              ELSE LeftOf(o)]
BY Zenon DEF PromiseOf

\* after() and every() arm a timer of the contract.
LEMMA ArmRefines ==
    ASSUME IInv, NEW t \in Timers, NEW timeout \in Timeouts, NEW repeat \in Repeats,
           Schedule(t, timeout, repeat[1], repeat[2])
    PROVE  Contract!Arm(t)
<1>1. timeout \in Nat /\ repeat[1] \in Nat /\ repeat[2] \in Int /\ now \in Nat
      /\ timer \in [Timers -> Object]
  <2>1. timeout \in Nat /\ repeat \in Nat \X Int
    BY HeapTimerAssumption
  <2> QED
    BY SMTT(60), <2>1 DEF IInv, TypeOK
<1>2. PICK o : o = [state |-> "init", deadline |-> now + timeout, interval |-> repeat[1],
                    period |-> repeat[2], counter |-> 0, handle |-> TRUE]
  BY ZenonT(60)
<1>3. o \in Object /\ o.state = "init" /\ o.deadline >= now /\ CountOK(o)
  BY SMT, <1>1, <1>2 DEF Object, CountOK
<1>4. /\ timer[t].state = "none" /\ timer'[t] = o /\ next' = next /\ now' = now
      /\ \A u \in Timers : u # t => timer'[u] = timer[u]
  BY Zenon, <1>1, <1>2 DEF Schedule
<1>5. Promise(t).status = "unused"
  BY Zenon, <1>4 DEF Promise
<1>6. Promise(t)'.status = "armed" /\ Promise(t)'.due >= now /\ Promise(t)'.left # 0
  <2>1. Promise(t)' = PromiseOf(o, next')
    BY Zenon, <1>4, PromiseIs
  <2>2. /\ PromiseOf(o, next').status = "armed" /\ PromiseOf(o, next').due = o.deadline
        /\ PromiseOf(o, next').left = LeftOf(o) /\ LeftOf(o) # 0
    BY Zenon, <1>3, Armed
  <2> QED
    BY Zenon, <1>3, <2>1, <2>2
<1>7. \A u \in Timers \ {t} : Promise(u)' = Promise(u)
  BY Zenon, <1>4, PromiseKept
<1> QED
  BY ZenonT(60), <1>4, <1>5, <1>6, <1>7 DEF Contract!Arm, Contract!Others

\* The trigger of a timer is its firing: the callback starts once it is due.
LEMMA FireRefines ==
    ASSUME IInv, Trigger
    PROVE  \E t \in Timers : Contract!Fire(t)
<1>0. TypeOK /\ HeapOK /\ \A u \in Timers : TimerOK(u)
  BY DEF IInv
<1>1. PICK x : x = TopTimer
  BY Zenon
<1>2. PICK p : p = timer[x]
  BY Zenon
<1>3. PICK o : o = [p EXCEPT !.state = "processing"]
  BY Zenon
<1>4. /\ heap # <<>> /\ heap' = Popped /\ ~Finished(x) /\ now' = now
      /\ heap[Top].deadline = p.deadline /\ p.deadline <= tickNow
      /\ timer' = [timer EXCEPT ![x] = o] /\ next' = NextDeadline(x)
  BY Zenon, <1>1, <1>2, <1>3 DEF Trigger, TopLive, IsDue
<1>5. x \in Timers
  BY Zenon, <1>0, <1>1, <1>4, HeapTimers, TopIsFirst DEF TopTimer
<1>6. p \in Object /\ p.deadline \in Nat /\ p.interval \in Nat /\ p.period \in Int
      /\ p.counter \in Nat /\ tickNow \in Nat /\ now \in Nat /\ tickNow <= now
  <2>1. p \in Object
    BY Zenon, <1>0, <1>2, <1>5 DEF TypeOK
  <2> QED
    BY SMTT(60), <1>0, <2>1 DEF TypeOK, Object
<1>7. o \in Object /\ o.state = "processing" /\ o.interval = p.interval
      /\ o.period = p.period /\ o.counter = p.counter
  BY Zenon, <1>3, <1>6 DEF Object
<1>8. /\ timer'[x] = o /\ \A u \in Timers : u # x => timer'[u] = timer[u]
  BY Zenon, <1>0, <1>4, <1>5, <1>7, OneTimer
<1>9. p.state = "init"
  BY ZenonT(60), <1>0, <1>1, <1>2, <1>4, <1>8, Pops DEF Finished
<1>10. CountOK(p)
  BY Zenon, <1>0, <1>2, <1>5, <1>9 DEF TimerOK
<1>11. LeftOf(o) = LeftOf(p) /\ LeftOf(p) \in Int /\ LeftOf(p) # 0
  BY Zenon, <1>6, <1>7, <1>9, <1>10, Armed DEF LeftOf
<1>12. /\ Promise(x).status = "armed" /\ Promise(x).due = p.deadline
       /\ Promise(x).every = p.interval /\ Promise(x).left = LeftOf(p)
  <2>1. Promise(x) = PromiseOf(p, next)
    BY Zenon, <1>2, PromiseIs
  <2> QED
    BY ZenonT(60), <1>6, <1>9, <1>10, <2>1, Armed
<1>13. Promise(x)' = PromiseOf(o, next')
  BY Zenon, <1>8, PromiseIs
<1>14. next' >= p.deadline + p.interval
  <2>1. NextDeadline(x) >= p.deadline + p.interval
    BY SMTT(60), <1>2, <1>4, <1>6 DEF NextDeadline
  <2> QED
    BY ZenonT(60), <1>4, <2>1
<1>15. IF LeftOf(p) = 1
       THEN Promise(x)'.status = "fired"
       ELSE /\ Promise(x)'.status = "armed"
            /\ Promise(x)'.due >= p.deadline + p.interval
            /\ Promise(x)'.every = p.interval
            /\ Promise(x)'.left = IF LeftOf(p) < 0 THEN LeftOf(p) ELSE LeftOf(p) - 1
  <2>1. CASE LeftOf(p) = 1
    BY Zenon, <1>7, <1>11, <1>13, <2>1, Fires
  <2>2. CASE LeftOf(p) # 1
    <3>1. Promise(x)' = [status |-> "armed", due |-> next', every |-> p.interval,
                         left |-> IF LeftOf(p) > 0 THEN LeftOf(p) - 1 ELSE LeftOf(p)]
      BY ZenonT(60), <1>7, <1>11, <1>13, <2>2, Fires
    <3>2. (IF LeftOf(p) > 0 THEN LeftOf(p) - 1 ELSE LeftOf(p))
              = IF LeftOf(p) < 0 THEN LeftOf(p) ELSE LeftOf(p) - 1
      BY SMT, <1>11
    <3> QED
      BY SMTT(60), <1>14, <2>2, <3>1, <3>2
  <2> QED
    BY Zenon, <2>1, <2>2
<1>16. \A u \in Timers \ {x} : Promise(u)' = Promise(u)
  <2>1. current = NoTimer
    BY Zenon DEF IInv, CurrentOK, Trigger
  <2>2. \A u \in Timers : timer[u].state # "processing"
    BY Zenon, <1>0, <2>1, HeapTimerAssumption DEF TimerOK
  <2> QED
    BY Zenon, <1>8, <2>2, PromiseKept
<1>17. p.deadline <= now
  BY SMTT(60), <1>4, <1>6
<1>18. Contract!Fire(x)
  BY Zenon, <1>4, <1>5, <1>12, <1>15, <1>16, <1>17 DEF Contract!Fire, Contract!Others
<1> QED
  BY Zenon, <1>5, <1>18

\* cancel() cancels an armed timer, or forgets one in its last callback.
LEMMA CancelRefines ==
    ASSUME IInv, NEW t \in Timers, Cancel(t)
    PROVE  Contract!Cancel(t) \/ Contract!Forget
<1>0. TypeOK /\ TimerOK(t)
  BY DEF IInv
<1>1. PICK o : o = [timer[t] EXCEPT !.state = "cancal", !.handle = FALSE]
  BY Zenon
<1>2. timer[t].handle /\ timer' = [timer EXCEPT ![t] = o] /\ now' = now /\ next' = next
  BY Zenon, <1>0, <1>1 DEF Cancel, TypeOK
<1>3. timer[t] \in Object
  BY Zenon, <1>0 DEF TypeOK
<1>4. o \in Object /\ o.state = "cancal"
  BY Zenon, <1>1, <1>3, ObjectFields
<1>5. timer'[t] = o /\ \A u \in Timers : u # t => timer'[u] = timer[u]
  BY Zenon, <1>0, <1>2, <1>4, OneTimer
<1>6. Promise(t)'.status = "gone"
  BY Zenon, <1>4, <1>5 DEF Promise
<1>7. \A u \in Timers \ {t} : Promise(u)' = Promise(u)
  BY Zenon, <1>2, <1>5, PromiseKept
<1>8. Promise(t).status = "armed" \/ Promise(t).status = "fired"
  <2>0. PICK p \in Object : p = timer[t] /\ Promise(t) = PromiseOf(p, next)
    BY Zenon, <1>3, PromiseIs
  <2>1. CASE p.state = "init"
    <3>1. CountOK(p)
      BY Zenon, <1>0, <2>0, <2>1 DEF TimerOK
    <3>2. PromiseOf(p, next).status = "armed"
      BY Zenon, <2>1, <3>1, Armed
    <3> QED
      BY Zenon, <2>0, <3>2
  <2>2. CASE p.state = "processing"
    <3>1. CASE LeftOf(p) = 1
      BY Zenon, <2>0, <2>2, <3>1, Fires
    <3>2. CASE LeftOf(p) # 1
      <4>1. Promise(t) = [status |-> "armed", due |-> next, every |-> p.interval,
                          left |-> IF LeftOf(p) > 0 THEN LeftOf(p) - 1 ELSE LeftOf(p)]
        BY Zenon, <2>0, <2>2, <3>2, Fires
      <4> QED
        BY SMT, <4>1
    <3> QED
      BY Zenon, <3>1, <3>2
  <2> QED
    BY Zenon, <1>0, <1>2, <2>0, <2>1, <2>2 DEF TimerOK
<1>9. CASE Promise(t).status = "armed"
  BY Zenon, <1>2, <1>6, <1>7, <1>9 DEF Contract!Cancel, Contract!Others
<1>10. CASE Promise(t).status = "fired"
  BY Zenon, <1>2, <1>6, <1>7, <1>10 DEF Contract!Forget
<1> QED
  BY Zenon, <1>8, <1>9, <1>10

\* cleanup_cancelled() forgets timers that have fired for the last time.
LEMMA ForgetRefines ==
    ASSUME IInv, pc \in {"tick", "idle"}, UNCHANGED <<now, next>>,
           Cleanup \/ UNCHANGED <<heap, timers, stale, timer>>
    PROVE  Contract!Forget
<1>1. ASSUME NEW t \in Timers
      PROVE  \/ Promise(t)' = Promise(t)
             \/ Promise(t).status = "fired" /\ Promise(t)'.status = "gone"
  <2>1. CASE timer'[t] = timer[t]
    BY Zenon, <2>1, PromiseKept
  <2>2. CASE Finished(t) /\ Cleanup
    <3>1. timer'[t] = [NoObject EXCEPT !.state = "deleted"]
      BY Zenon, <2>2 DEF Cleanup
    <3>2. Promise(t)' = [status |-> "gone"]
      BY Zenon, <3>1, ObjectFields DEF Promise
    <3>3. CASE timer[t].state = "cancal"
      BY Zenon, <3>2, <3>3 DEF Promise
    <3>4. CASE timer[t].state = "done"
      BY Zenon, <3>2, <3>4 DEF Promise
    <3> QED
      BY Zenon, <2>2, <3>3, <3>4 DEF Finished
  <2> QED
    BY Zenon, <2>1, <2>2 DEF Cleanup
<1> QED
  BY Zenon, <1>1 DEF Contract!Forget

\* What a timer that is not cancelled in its callback is left as.
LEMMA PromiseReturns ==
    ASSUME NEW p \in Object, p.state = "processing", CountOK(p), NEW n \in Nat, NEW m
    PROVE  /\ p.period = 0 \/ p.interval = 0 \/ (p.period > 0 /\ p.counter + 1 = p.period)
                => PromiseOf(p, n) = [status |-> "fired"]
           /\ \A q \in Object :
                /\ q.state = "init" /\ q.interval = p.interval /\ q.period = p.period
                /\ q.deadline = n /\ p.period # 0 /\ p.interval # 0
                /\ \/ p.period < 0
                   \/ p.counter + 1 # p.period /\ q.counter = p.counter + 1
                => PromiseOf(q, m) = PromiseOf(p, n)
<1>1. p.interval \in Nat /\ p.period \in Int /\ p.counter \in Nat
  BY SMT DEF Object
<1>2. ASSUME p.period = 0 \/ p.interval = 0 \/ (p.period > 0 /\ p.counter + 1 = p.period)
      PROVE  PromiseOf(p, n) = [status |-> "fired"]
  <2>1. LeftOf(p) = 1
    BY SMT, <1>1, <1>2 DEF LeftOf
  <2> QED
    BY Zenon, <2>1 DEF PromiseOf
<1>3. ASSUME NEW q \in Object,
             q.state = "init" /\ q.interval = p.interval /\ q.period = p.period,
             q.deadline = n /\ p.period # 0 /\ p.interval # 0,
             p.period < 0 \/ (p.counter + 1 # p.period /\ q.counter = p.counter + 1)
      PROVE  PromiseOf(q, m) = PromiseOf(p, n)
  <2>1. /\ LeftOf(p) # 1
        /\ LeftOf(q) = IF LeftOf(p) > 0 THEN LeftOf(p) - 1 ELSE LeftOf(p)
    BY SMT, <1>1, <1>3 DEF LeftOf, CountOK
  <2>2. PromiseOf(q, m) = [status |-> "armed", due |-> n, every |-> p.interval,
                           left |-> LeftOf(q)]
    BY Zenon, <1>3 DEF PromiseOf
  <2>3. PromiseOf(p, n) = [status |-> "armed", due |-> n, every |-> p.interval,
                           left |-> IF LeftOf(p) > 0 THEN LeftOf(p) - 1 ELSE LeftOf(p)]
    BY Zenon, <2>1, Fires
  <2> QED
    BY Zenon, <2>1, <2>2, <2>3
<1> QED
  BY Zenon, <1>2, <1>3

\* The contract sees nothing when a callback returns: trigger() announced it.
LEMMA ReturnRefines ==
    ASSUME IInv, CallbackReturn
    PROVE  \A u \in Timers : Promise(u)' = Promise(u)
<1>0. TypeOK /\ \A u \in Timers : TimerOK(u)
  BY DEF IInv
<1>1. PICK c : c = current
  BY Zenon
<1>2. PICK p : p = timer[c]
  BY Zenon
<1>3. PICK a : a = Triggered(c)
  BY Zenon
<1>4. PICK o : o = IF a.state = "init" THEN [a EXCEPT !.deadline = next] ELSE a
  BY Zenon
<1>5. c \in Timers /\ p \in Object /\ p.state \in {"processing", "cancal"} /\ next \in Nat
  BY Zenon, <1>0, <1>1, <1>2 DEF IInv, TypeOK, CurrentOK, CallbackReturn
<1>6. timer' = [timer EXCEPT ![c] = o]
  BY Zenon, <1>1, <1>3, <1>4 DEF CallbackReturn
<1>7. timer'[c] = o /\ \A u \in Timers : u # c => timer'[u] = timer[u]
  BY Zenon, <1>0, <1>5, <1>6 DEF TypeOK
<1>8. a = IF p.state = "cancal" THEN p
          ELSE IF p.period = 0 \/ p.interval = 0
          THEN [p EXCEPT !.state = "done", !.handle = FALSE]
          ELSE IF p.period < 0 THEN [p EXCEPT !.state = "init", !.counter = 0]
          ELSE IF p.counter + 1 = p.period
          THEN [p EXCEPT !.state = "done", !.handle = FALSE, !.counter = p.counter + 1]
          ELSE [p EXCEPT !.state = "init", !.counter = p.counter + 1]
  BY Zenon, <1>2, <1>3 DEF Triggered, PeriodOver
<1>9. p.period \in Int /\ p.counter \in Nat /\ p.counter + 1 \in Nat /\ 0 \in Nat
  BY SMT, <1>5 DEF Object
<1>10. PromiseOf(o, next') = PromiseOf(p, next)
  <2>1. CASE p.state = "cancal"
    <3>1. o = p
      BY Zenon, <1>4, <1>8, <2>1
    <3> QED
      BY Zenon, <2>1, <3>1 DEF PromiseOf
  <2>2. CASE p.state = "processing"
    <3>0. CountOK(p)
      BY Zenon, <1>0, <1>2, <1>5, <2>2 DEF TimerOK
    <3>1. CASE p.period = 0 \/ p.interval = 0 \/ (p.period > 0 /\ p.counter + 1 = p.period)
      <4>1. ~(p.period < 0) \/ p.period = 0 \/ p.interval = 0
        BY SMT, <1>9, <3>1
      <4>2. \A k \in Nat :
               [p EXCEPT !.state = "done", !.handle = FALSE, !.counter = k].state = "done"
        BY Zenon, <1>5 DEF Object
      <4>3. [p EXCEPT !.state = "done", !.handle = FALSE].state = "done"
        BY Zenon, <1>5 DEF Object
      <4>4. a.state = "done"
        BY Zenon, <1>8, <1>9, <2>2, <3>1, <4>1, <4>2, <4>3
      <4>5. o.state = "done"
        BY Zenon, <1>4, <4>4
      <4>6. PromiseOf(o, next') = [status |-> "fired"]
        BY Zenon, <4>5 DEF PromiseOf
      <4> QED
        BY Zenon, <1>5, <2>2, <3>0, <3>1, <4>6, PromiseReturns
    <3>2. CASE /\ p.period # 0 /\ p.interval # 0
               /\ p.period < 0 \/ p.counter + 1 # p.period
      <4>1. PICK k \in Nat : /\ a = [p EXCEPT !.state = "init", !.counter = k]
                             /\ p.period < 0 \/ (p.counter + 1 # p.period /\ k = p.counter + 1)
        BY Zenon, <1>8, <1>9, <2>2, <3>2
      <4>2. a \in Object /\ a.state = "init" /\ a.interval = p.interval
            /\ a.period = p.period /\ a.counter = k
        BY Zenon, <1>5, <4>1 DEF Object
      <4>3. o = [a EXCEPT !.deadline = next]
        BY Zenon, <1>4, <4>2
      <4>4. o \in Object /\ o.state = "init" /\ o.interval = p.interval
            /\ o.period = p.period /\ o.counter = k /\ o.deadline = next
        BY Zenon, <1>5, <4>2, <4>3 DEF Object
      <4> QED
        BY ZenonT(60), <1>5, <2>2, <3>0, <3>2, <4>1, <4>4, PromiseReturns
    <3>3. p.period < 0 \/ p.period = 0 \/ p.period > 0
      BY SMT, <1>9
    <3> QED
      BY Zenon, <3>1, <3>2, <3>3
  <2> QED
    BY Zenon, <1>5, <2>1, <2>2
<1>11. Promise(c)' = Promise(c)
  BY Zenon, <1>2, <1>7, <1>10, PromiseIs
<1>12. ASSUME NEW u \in Timers, u # c
       PROVE  Promise(u)' = Promise(u)
  <2>1. timer[u].state # "processing"
    BY Zenon, <1>0, <1>1, <1>12 DEF TimerOK
  <2> QED
    BY Zenon, <1>7, <1>12, <2>1, PromiseKept
<1> QED
  BY Zenon, <1>11, <1>12

\* Every step of the manager is a step of the contract or changes nothing in it.
LEMMA NextRefines ==
    ASSUME IInv, [Next]_vars
    PROVE  [Contract!Next]_(Contract!vars)
<1>1. ASSUME now' = now, \A u \in Timers : Promise(u)' = Promise(u)
      PROVE  UNCHANGED Contract!vars
  BY Zenon, <1>1 DEF Contract!vars
<1>2. ASSUME now' = now, UNCHANGED <<timer, next>>
      PROVE  UNCHANGED Contract!vars
  BY Zenon, <1>1, <1>2, PromiseKept
<1>3. CASE Advance
  <2>1. now' > now
    BY SMT, <1>3 DEF Advance, IInv, TypeOK
  <2>2. \A u \in Timers : Promise(u)' = Promise(u)
    BY Zenon, <1>3, PromiseKept DEF Advance
  <2> QED
    BY Zenon, <2>1, <2>2 DEF Contract!Next, Contract!Advance
<1>4. CASE TickBegin \/ DropTop \/ PollDropTop \/ PollSleep \/ Wake \/ UNCHANGED vars
  BY Zenon, <1>2, <1>4 DEF TickBegin, DropTop, PollDropTop, PollSleep, Wake
<1>5. CASE Trigger
  BY Zenon, <1>5, FireRefines DEF Contract!Next
<1>6. CASE CallbackReturn
  BY Zenon, <1>1, <1>6, ReturnRefines DEF CallbackReturn
<1>7. CASE TickEnd
  BY Zenon, <1>7, ForgetRefines DEF TickEnd, Contract!Next
<1>8. CASE PollBegin
  BY Zenon, <1>8, ForgetRefines DEF PollBegin, Contract!Next
<1>9. ASSUME NEW t \in Timers, Client(t)
      PROVE  Contract!Next
  BY Zenon, <1>9, ArmRefines, CancelRefines DEF Client, Contract!Next
<1> QED
  BY Zenon, <1>3, <1>4, <1>5, <1>6, <1>7, <1>8, <1>9 DEF Next, LoopStep

-----------------------------------------------------------------------------
(* The theorems.                                                           *)

\* The invariant holds throughout.
LEMMA InvariantHolds == Spec => []IInv
<1>1. Init => IInv
  BY SMTT(60), InitIInv
<1>2. IInv /\ [Next]_vars => IInv'
  BY NextIInv
<1> QED
  BY <1>1, <1>2, PTL DEF Spec

\* Whatever is on heap_, and the timer being triggered, is owned by timers_, and
\* a timer that waits for its deadline is on heap_ exactly once under it,
\* whatever the callbacks schedule and cancel and however often
\* cleanup_cancelled() rebuilds the two.
THEOREM HeapAlwaysAgrees == Spec => []HeapAgrees
<1>1. ASSUME IInv
      PROVE  HeapAgrees
  <2>0. TypeOK /\ HeapOK /\ CurrentOK /\ \A t \in Timers : TimerOK(t)
    BY <1>1 DEF IInv
  <2>1. \A t : Owned(t) <=> t \in Range(timers)
    BY Zenon DEF Owned, Range
  <2>2. \A i \in DOMAIN heap : heap[i].timer \in Range(timers)
    BY Zenon, <2>0, <2>1, HeapTimers DEF HeapOK, TimerOK
  <2>3. current # NoTimer => current \in Range(timers)
    BY Zenon, <2>0, <2>1 DEF TypeOK, CurrentOK, TimerOK
  <2>4. \A t \in Range(timers) : timer[t].state # "deleted"
    <3>0. timers \in Seq(Timers)
      BY SMTT(60), <2>0 DEF TypeOK
    <3>1. Range(timers) \subseteq Timers
      BY SMT, <3>0 DEF Range
    <3> QED
      BY Zenon, <2>0, <2>1, <3>1 DEF TimerOK
  <2>5. ASSUME NEW t \in Timers, timer[t].state = "init"
        PROVE  \E i \in DOMAIN heap :
                  /\ heap[i] = EntryOf(t, timer[t].deadline)
                  /\ \A j \in DOMAIN heap : heap[j].timer = t => j = i
    <3>1. PICK i \in DOMAIN heap : heap[i].timer = t
      BY Zenon, <2>0, <2>5 DEF TimerOK, Queued
    <3>2. heap[i].deadline = timer[t].deadline
      BY Zenon, <2>0, <3>1 DEF HeapOK
    <3>3. heap[i] \in Entry
      BY SMTT(60), <2>0 DEF TypeOK
    <3>4. heap[i] = EntryOf(t, timer[t].deadline)
      BY SMT, <3>1, <3>2, <3>3 DEF Entry, EntryOf
    <3> QED
      BY Zenon, <2>0, <3>1, <3>4 DEF HeapOK
  <2> QED
    BY Zenon, <2>2, <2>3, <2>4, <2>5 DEF HeapAgrees
<1>2. IInv => HeapAgrees
  BY <1>1
<1> QED
  BY <1>2, InvariantHolds, PTL

\* The wait that get_poll_timeout_ms() hands to the poll ends before any waiting
\* timer is overdue, for every cap and idle timeout.
THEOREM PollAlwaysEndsInTime == Spec => []PollEndsInTime
<1>1. IInv => PollEndsInTime
  BY DEF IInv
<1> QED
  BY <1>1, InvariantHolds, PTL

\* HeapTimerManager implements the contract of after(), every() and cancel(): a
\* timer fires only when it is due, at least an interval after it fired before,
\* no more often than asked, and never after it was cancelled.
THEOREM HeapKeepsContract == Spec => KeepsContract
<1>1. Init => Contract!Init
  <2> SUFFICES ASSUME Init
               PROVE  Contract!Init
    BY SMTT(60)
  <2>1. NoObject.state = "none" /\ now \in Nat
    BY SMT DEF NoObject, Init
  <2>2. \A t \in Timers : Promise(t).status = "unused"
    BY Zenon, <2>1 DEF Init, Promise
  <2> QED
    BY Zenon, <2>1, <2>2 DEF Contract!Init
<1>2. IInv /\ [Next]_vars => [Contract!Next]_(Contract!vars)
  BY NextRefines
<1> QED
  BY <1>1, <1>2, InvariantHolds, PTL DEF Spec, KeepsContract, Contract!Spec
=============================================================================
