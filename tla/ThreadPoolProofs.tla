-------------------------- MODULE ThreadPoolProofs --------------------------
(***************************************************************************)
(* A promise of ThreadPool is set once, for any numbers of workers,        *)
(* submitters, waiters, tasks and restarts, any size of the queue and      *)
(* either policy.  The argument needs neither mut_ nor the program         *)
(* counters of the workers: a task is in one place at a time (with its     *)
(* submitter, in tasks_, in the hand of a worker, or in the queue stop()   *)
(* has swapped out), and whoever settles it takes it out of its place.     *)
(***************************************************************************)
EXTENDS ThreadPool, TLAPS

USE DEF poolVars, workerVars, submitVars, ctlVars, waitVars

Results == {"unset", "done", "rejected", "cancelled"}
Owing == {"callerRuns", "admitted"}

Types ==
    /\ tasks \in Seq(Tasks)
    /\ cancelled \in Seq(Tasks)
    /\ hand \in [Workers -> Tasks \cup {NoTask}]
    /\ submits \in [Submitters -> 0..MaxSubmits]
    /\ spc \in [Submitters -> {"idle", "notify"} \cup Owing]
    /\ result \in [Tasks -> Results]

\* A task that its submitter has handed over, and that nobody has settled.
Pending(t) ==
    /\ result[t] = "unset"
    /\ t[2] <= submits[t[1]]
    /\ spc[t[1]] \in Owing => t[2] < submits[t[1]]

Unsettled ==
    /\ \A i \in 1..Len(tasks) : Pending(tasks[i])
    /\ \A i \in 1..Len(cancelled) : Pending(cancelled[i])
    /\ \A w \in Workers : hand[w] # NoTask => Pending(hand[w])
    /\ \A s \in Submitters : spc[s] \in Owing =>
          submits[s] > 0 /\ result[<<s, submits[s]>>] = "unset"
    /\ \A t \in Tasks : t[2] > submits[t[1]] => result[t] = "unset"

InOnePlace ==
    /\ \A i, j \in 1..Len(tasks) : tasks[i] = tasks[j] => i = j
    /\ \A i, j \in 1..Len(cancelled) : cancelled[i] = cancelled[j] => i = j
    /\ \A i \in 1..Len(tasks), j \in 1..Len(cancelled) : tasks[i] # cancelled[j]
    /\ \A w \in Workers : hand[w] # NoTask =>
          /\ \A i \in 1..Len(tasks) : tasks[i] # hand[w]
          /\ \A i \in 1..Len(cancelled) : cancelled[i] # hand[w]
          /\ \A v \in Workers : hand[v] = hand[w] => v = w

IInv == Types /\ Unsettled /\ InOnePlace

\* What the steps of the threads have to say about promises.
Settled == \A t \in Tasks : result[t] # "unset" => result'[t] = result[t]

-----------------------------------------------------------------------------
\* A task is a submitter and a number, and NoTask is none.
LEMMA TaskParts ==
    /\ \A t \in Tasks : t[1] \in Submitters /\ t[2] \in 1..MaxSubmits /\ t = <<t[1], t[2]>>
    /\ \A s \in Submitters, n \in 1..MaxSubmits :
          <<s, n>> \in Tasks /\ <<s, n>>[1] = s /\ <<s, n>>[2] = n
    /\ NoTask \notin Tasks
BY SMTT(60) DEF Tasks, NoTask

\* A step that leaves the tasks where they are.
LEMMA KeepsPlaces ==
    ASSUME IInv, UNCHANGED <<tasks, cancelled, hand, submits, spc, result>>
    PROVE  IInv' /\ Settled
BY SMTT(60) DEF IInv, Types, Unsettled, InOnePlace, Pending, Settled

\* Lines 90-108: the task is new, and is either refused or owed by its submitter.
LEMMA SubmitKeeps ==
    ASSUME IInv, NEW s \in Submitters, Submit(s)
    PROVE  IInv' /\ Settled
<1> USE DEF IInv
<1>0. /\ submits[s] \in Nat /\ submits[s] < MaxSubmits /\ MaxSubmits \in Nat
      /\ spc[s] = "idle"
  BY ThreadPoolAssumption, SMTT(60) DEF Submit, Types
<1> PICK n \in 1..MaxSubmits : n = submits[s] + 1
  BY <1>0
<1> PICK u \in Tasks : u = <<s, n>> /\ u[1] = s /\ u[2] = n
  BY TaskParts, ZenonT(60)
<1>1. result[u] = "unset"
  BY <1>0, SMTT(60) DEF Unsettled
<1>2. UNCHANGED <<tasks, cancelled, hand>> /\ submits' = [submits EXCEPT ![s] = @ + 1]
  BY DEF Submit
<1>3. \/ spc' = spc /\ result' = [result EXCEPT ![u] = "rejected"]
      \/ \E l \in Owing : spc' = [spc EXCEPT ![s] = l] /\ result' = result
  BY DEF Submit, Settle, Owing
<1>4. submits'[s] = u[2] /\ \A x \in Submitters : x # s => submits'[x] = submits[x]
  BY <1>2 DEF Types
<1>5. Types'
  <2>1. submits' \in [Submitters -> 0..MaxSubmits]
    <3>1. submits[s] + 1 \in 0..MaxSubmits
      BY <1>0
    <3> QED
      BY <1>2, <3>1, ZenonT(60) DEF Types
  <2>2. result' \in [Tasks -> Results]
    BY <1>3, ZenonT(60) DEF Types, Results
  <2>3. spc' \in [Submitters -> {"idle", "notify"} \cup Owing]
    BY <1>3, ZenonT(60) DEF Types
  <2> QED
    BY <1>2, <2>1, <2>2, <2>3 DEF Types
<1>6. \A t \in Tasks : Pending(t) => Pending(t)' /\ t # u
  BY <1>0, <1>2, <1>3, <1>4, TaskParts, SMTT(60) DEF Types, Pending, Owing
<1>7. Unsettled'
  <2>1. \A x \in Submitters : spc'[x] \in Owing =>
            submits'[x] > 0 /\ result'[<<x, submits'[x]>>] = "unset"
    <3> SUFFICES ASSUME NEW x \in Submitters, spc'[x] \in Owing
                 PROVE  submits'[x] > 0 /\ result'[<<x, submits'[x]>>] = "unset"
      OBVIOUS
    <3>1. CASE x = s
      <4>1. result' = result
        BY <1>0, <1>3, <3>1, SMTT(60) DEF Owing
      <4>2. submits'[x] = submits[s] + 1 /\ <<x, submits'[x]>> = u
        BY <1>4, <3>1
      <4> QED
        BY <1>0, <1>1, <4>1, <4>2
    <3>2. CASE x # s
      <4>1. spc'[x] = spc[x] /\ submits'[x] = submits[x]
        BY <1>3, <1>4, <3>2, SMTT(60) DEF Types
      <4>2. submits[x] > 0 /\ result[<<x, submits[x]>>] = "unset"
        BY <4>1 DEF Unsettled
      <4>3. <<x, submits[x]>> # u
        BY <3>2, TaskParts
      <4>4. <<x, submits[x]>> \in Tasks
        BY <4>2, ThreadPoolAssumption, TaskParts, SMTT(60) DEF Types
      <4> QED
        BY <1>3, <4>1, <4>2, <4>3, <4>4, SMTT(60) DEF Types
    <3> QED
      BY <3>1, <3>2
  <2>2. \A t \in Tasks : t[2] > submits'[t[1]] => result'[t] = "unset"
    BY <1>0, <1>2, <1>3, <1>4, TaskParts, SMTT(60) DEF Types, Unsettled
  <2> QED
    BY <1>2, <1>6, <2>1, <2>2, TaskParts, SMTT(60) DEF Types, Unsettled
<1>8. InOnePlace'
  BY <1>2, SMTT(60) DEF InOnePlace
<1>9. Settled
  <2>1. CASE result' = result
    BY <2>1 DEF Settled
  <2>2. CASE result' = [result EXCEPT ![u] = "rejected"]
    BY <1>1, <2>2, ZenonT(60) DEF Types, Settled
  <2> QED
    BY <1>3, <2>1, <2>2
<1> QED
  BY <1>5, <1>7, <1>8, <1>9

\* A task is settled by who owes it.
LEMMA SettleOne ==
    ASSUME Types, NEW u \in Tasks, result[u] = "unset", NEW r \in Results,
           result' = [result EXCEPT ![u] = r]
    PROVE  /\ result' \in [Tasks -> Results]
           /\ \A t \in Tasks : t # u => result'[t] = result[t]
           /\ Settled
<1>1. result \in [Tasks -> Results]
  BY DEF Types
<1>2. result' \in [Tasks -> Results] /\ \A t \in Tasks : t # u => result'[t] = result[t]
  BY <1>1, ZenonT(60)
<1> QED
  BY <1>2, ZenonT(60) DEF Settled

\* Where an operation on a queue leaves its elements.
LEMMA QueueSteps ==
    ASSUME NEW q \in Seq(Tasks)
    PROVE  /\ \A u \in Tasks :
                 /\ Append(q, u) \in Seq(Tasks)
                 /\ Len(Append(q, u)) = Len(q) + 1
                 /\ Append(q, u)[Len(q) + 1] = u
                 /\ \A i \in 1..Len(q) : Append(q, u)[i] = q[i]
           /\ Len(q) \in Nat
           /\ \A i \in 1..Len(q) : q[i] \in Tasks
           /\ q # <<>> => /\ Len(q) > 0
                          /\ Head(q) = q[1]
                          /\ Tail(q) \in Seq(Tasks)
                          /\ Len(Tail(q)) = Len(q) - 1
                          /\ \A i \in 1..(Len(q) - 1) : Tail(q)[i] = q[i + 1]
BY SMTT(60)

\* The task that a submitter owes is in no other place.
LEMMA OwedTask ==
    ASSUME IInv, NEW s \in Submitters, spc[s] \in Owing
    PROVE  /\ TaskOf(s) \in Tasks
           /\ TaskOf(s)[1] = s /\ TaskOf(s)[2] = submits[s]
           /\ result[TaskOf(s)] = "unset"
           /\ \A t \in Tasks : Pending(t) => t # TaskOf(s)
<1>1. submits[s] \in 1..MaxSubmits /\ result[<<s, submits[s]>>] = "unset"
  BY ThreadPoolAssumption, SMTT(60) DEF IInv, Types, Unsettled
<1>2. TaskOf(s) \in Tasks /\ TaskOf(s)[1] = s /\ TaskOf(s)[2] = submits[s]
  BY <1>1, TaskParts, ZenonT(60) DEF TaskOf
<1>3. \A t \in Tasks : Pending(t) => t # TaskOf(s)
  BY <1>1, <1>2, SMTT(60) DEF Pending
<1> QED
  BY <1>1, <1>2, <1>3 DEF TaskOf

\* Line 101: the caller runs its task.
LEMMA CallerRunsKeeps ==
    ASSUME IInv, NEW s \in Submitters, CallerRunsTask(s)
    PROVE  IInv' /\ Settled
<1> DEFINE u == TaskOf(s)
<1>0. spc[s] \in Owing
  BY DEF CallerRunsTask, Owing
<1>1. /\ u \in Tasks /\ u[1] = s /\ u[2] = submits[s] /\ result[u] = "unset"
      /\ \A t \in Tasks : Pending(t) => t # u
  BY <1>0, OwedTask
<1>2. /\ UNCHANGED <<tasks, cancelled, hand, submits>>
      /\ spc' = [spc EXCEPT ![s] = "idle"]
      /\ result' = [result EXCEPT ![u] = "done"]
  BY DEF CallerRunsTask, Settle
<1> HIDE DEF u
<1>3. /\ result' \in [Tasks -> Results] /\ Settled
      /\ \A t \in Tasks : t # u => result'[t] = result[t]
  <2>1. Types /\ "done" \in Results
    BY DEF IInv, Results
  <2> QED
    BY <1>1, <1>2, <2>1, SettleOne, ZenonT(60)
<1>4. Types'
  BY <1>2, <1>3, SMTT(60) DEF IInv, Types
<1>5. \A t \in Tasks : Pending(t) => Pending(t)'
  BY <1>1, <1>2, <1>3, TaskParts, SMTT(60) DEF IInv, Types, Pending, Owing
<1>6. Unsettled'
  <2>1. \A x \in Submitters : spc'[x] \in Owing =>
            submits'[x] > 0 /\ result'[<<x, submits'[x]>>] = "unset"
    <3> SUFFICES ASSUME NEW x \in Submitters, spc'[x] \in Owing
                 PROVE  submits[x] > 0 /\ result'[<<x, submits[x]>>] = "unset"
      BY <1>2
    <3>1. x # s /\ spc[x] \in Owing
      BY <1>2, SMTT(60) DEF IInv, Types, Owing
    <3>2. /\ TaskOf(x) \in Tasks /\ TaskOf(x)[1] = x /\ result[TaskOf(x)] = "unset"
      BY <3>1, OwedTask
    <3>3. TaskOf(x) # u
      BY <1>1, <3>1, <3>2
    <3> QED
      BY <1>3, <3>1, <3>2, <3>3 DEF IInv, Unsettled, TaskOf
  <2>2. \A t \in Tasks : t[2] > submits'[t[1]] => result'[t] = "unset"
    BY <1>1, <1>2, <1>3, TaskParts, SMTT(60) DEF IInv, Types, Unsettled
  <2> QED
    BY <1>2, <1>5, <2>1, <2>2, SMTT(60) DEF IInv, Types, Unsettled
<1>7. InOnePlace'
  BY <1>2, SMTT(60) DEF IInv, InOnePlace
<1> QED
  BY <1>3, <1>4, <1>6, <1>7 DEF IInv

\* Lines 109-110: the task goes from its submitter to the end of tasks_.
LEMMA SubmitPushKeeps ==
    ASSUME IInv, NEW s \in Submitters, SubmitPush(s)
    PROVE  IInv' /\ Settled
<1>0. spc[s] \in Owing
  BY DEF SubmitPush, Owing
<1> PICK u \in Tasks : u = TaskOf(s)
  BY <1>0, OwedTask
<1>1. /\ u[1] = s /\ u[2] = submits[s] /\ result[u] = "unset"
      /\ \A t \in Tasks : Pending(t) => t # u
  BY <1>0, OwedTask
<1>2. /\ UNCHANGED <<cancelled, hand, submits, result>>
      /\ tasks' = Append(tasks, u)
      /\ spc' = [spc EXCEPT ![s] = "notify"]
  BY DEF SubmitPush
<1>3. /\ tasks' \in Seq(Tasks) /\ Len(tasks') = Len(tasks) + 1 /\ Len(tasks) \in Nat
      /\ tasks'[Len(tasks) + 1] = u
      /\ \A i \in 1..Len(tasks) : tasks'[i] = tasks[i] /\ tasks[i] \in Tasks
  BY <1>1, <1>2, QueueSteps DEF IInv, Types
<1>4. Types'
  BY <1>2, <1>3, SMTT(60) DEF IInv, Types
<1>5. Pending(u)' /\ \A t \in Tasks : Pending(t) => Pending(t)'
  BY <1>1, <1>2, TaskParts, SMTT(60) DEF IInv, Types, Pending, Owing
<1>6. Unsettled'
  <2>1. \A i \in 1..Len(tasks') : Pending(tasks[i])'
    BY <1>3, <1>5, SMTT(60) DEF IInv, Unsettled
  <2>2. \A x \in Submitters : spc'[x] \in Owing => spc[x] \in Owing
    BY <1>2, SMTT(60) DEF IInv, Types, Owing
  <2> QED
    BY <1>2, <1>5, <2>1, <2>2, QueueSteps, SMTT(60) DEF IInv, Types, Unsettled
<1>7. InOnePlace'
  <2>1. \A i \in 1..Len(tasks) : tasks[i] # u
    BY SMTT(60), <1>1, <1>3 DEF IInv, Unsettled
  <2>2. \A i \in 1..Len(cancelled) : cancelled[i] # u
    BY SMTT(60), <1>1, QueueSteps DEF IInv, Unsettled, Types
  <2>3. \A w \in Workers : hand[w] # u
    BY <1>1, TaskParts DEF IInv, Unsettled, Types
  <2> QED
    BY <1>2, <1>3, <2>1, <2>2, <2>3, SMTT(60) DEF IInv, InOnePlace
<1> QED
  BY <1>2, <1>4, <1>6, <1>7 DEF IInv, Settled

\* Line 112: only the program counter of the submitter.
LEMMA SubmitNotifyKeeps ==
    ASSUME IInv, NEW s \in Submitters, SubmitNotify(s)
    PROVE  IInv' /\ Settled
<1>1. /\ UNCHANGED <<tasks, cancelled, hand, submits, result>>
      /\ spc[s] = "notify" /\ spc' = [spc EXCEPT ![s] = "idle"]
  BY DEF SubmitNotify
<1>2. Types' /\ InOnePlace'
  <2>1. spc' \in [Submitters -> {"idle", "notify"} \cup Owing]
    BY <1>1, ZenonT(60) DEF IInv, Types
  <2>2. Types'
    BY <1>1, <2>1 DEF IInv, Types
  <2>3. InOnePlace'
    BY <1>1, SMTT(60) DEF IInv, InOnePlace
  <2> QED
    BY <2>2, <2>3
<1>3. \A x \in Submitters : spc'[x] \in Owing <=> spc[x] \in Owing
  BY <1>1, SMTT(60) DEF IInv, Types, Owing
<1>4. \A t \in Tasks : Pending(t) => Pending(t)'
  BY <1>1, <1>3, TaskParts, SMTT(60) DEF Pending
<1>5. Unsettled'
  BY <1>1, <1>3, <1>4, QueueSteps, SMTT(60) DEF IInv, Types, Unsettled
<1> QED
  BY <1>1, <1>2, <1>5 DEF IInv, Settled

\* Lines 111-121: a task goes from the head of tasks_ to the hand of a worker.
LEMMA WorkerTestKeeps ==
    ASSUME IInv, NEW w \in Workers, WorkerTest(w)
    PROVE  IInv' /\ Settled
<1>1. CASE UNCHANGED <<tasks, hand>>
  BY <1>1, KeepsPlaces DEF WorkerTest
<1>2. CASE MayPop /\ hand' = [hand EXCEPT ![w] = Head(tasks)] /\ tasks' = Tail(tasks)
  <2>1. UNCHANGED <<cancelled, submits, spc, result>>
    BY DEF WorkerTest
  <2>2. /\ Len(tasks) \in Nat /\ Len(tasks) > 0 /\ tasks[1] \in Tasks
        /\ tasks' \in Seq(Tasks) /\ Len(tasks') = Len(tasks) - 1
        /\ \A i \in 1..(Len(tasks) - 1) : tasks'[i] = tasks[i + 1]
        /\ hand' = [hand EXCEPT ![w] = tasks[1]]
    BY <1>2, QueueSteps, SMTT(60) DEF IInv, Types, MayPop
  <2>3. Types'
    BY <2>1, <2>2, SMTT(60) DEF IInv, Types
  <2>4. \A t \in Tasks : Pending(t) => Pending(t)'
    BY <2>1 DEF Pending
  <2>5. Pending(tasks[1]) /\ tasks[1] # NoTask
    <3>1. 1 \in 1..Len(tasks)
      BY <2>2, SMTT(60)
    <3> QED
      BY <2>2, <3>1, TaskParts, ZenonT(60) DEF IInv, Unsettled
  <2>6. Unsettled'
    <3>1. \A i \in 1..Len(tasks') : Pending(tasks[i])'
      <4>1. \A i \in 1..Len(tasks') : i + 1 \in 1..Len(tasks) /\ tasks'[i] = tasks[i + 1]
        BY <2>2, SMTT(60)
      <4>2. \A i \in 1..Len(tasks) : tasks[i] \in Tasks /\ Pending(tasks[i])
        BY QueueSteps, SMTT(60) DEF IInv, Types, Unsettled
      <4> QED
        BY <2>4, <4>1, <4>2, ZenonT(60)
    <3>2. \A v \in Workers : hand'[v] # NoTask => Pending(hand[v])'
      BY <2>2, <2>4, <2>5, SMTT(60) DEF IInv, Types, Unsettled
    <3> QED
      BY <2>1, <2>4, <3>1, <3>2, QueueSteps, SMTT(60) DEF IInv, Types, Unsettled
  <2>7. InOnePlace'
    <3>0. \A i, j \in 1..Len(tasks) : tasks[i] = tasks[j] => i = j
      BY ZenonT(60) DEF IInv, InOnePlace
    <3>1. \A i \in 1..Len(tasks') : i + 1 \in 1..Len(tasks) /\ tasks'[i] = tasks[i + 1]
      BY <2>2, SMTT(60)
    <3>2. \A i \in 1..Len(tasks') : tasks'[i] # tasks[1]
      <4>1. 1 \in 1..Len(tasks) /\ \A i \in 1..Len(tasks') : i + 1 # 1
        BY <2>2, SMTT(60)
      <4> QED
        BY <3>0, <3>1, <4>1, ZenonT(60)
    <3>3. \A i, j \in 1..Len(tasks') : tasks'[i] = tasks'[j] => i = j
      <4>1. \A i, j \in 1..Len(tasks') : i + 1 = j + 1 => i = j
        OBVIOUS
      <4> QED
        BY <3>0, <3>1, <4>1, ZenonT(60)
    <3>4. \A i \in 1..Len(tasks'), j \in 1..Len(cancelled) : tasks'[i] # cancelled[j]
      BY <3>1, ZenonT(60) DEF IInv, InOnePlace
    <3>5. \A j \in 1..Len(cancelled) : cancelled[j] # tasks[1]
      BY <2>2, SMTT(60) DEF IInv, InOnePlace
    <3>6. \A v \in Workers : hand[v] # tasks[1]
      BY <2>2, <2>5, SMTT(60) DEF IInv, InOnePlace
    <3>7. hand'[w] = tasks[1] /\ \A v \in Workers : v # w => hand'[v] = hand[v]
      BY <2>2, ZenonT(60) DEF IInv, Types
    <3>8. ASSUME NEW v \in Workers, hand'[v] # NoTask
          PROVE  /\ \A i \in 1..Len(tasks') : tasks'[i] # hand'[v]
                 /\ \A i \in 1..Len(cancelled) : cancelled[i] # hand'[v]
                 /\ \A x \in Workers : hand'[x] = hand'[v] => x = v
      <4>1. CASE v = w
        BY <3>2, <3>5, <3>6, <3>7, <4>1, ZenonT(60)
      <4>2. CASE v # w
        <5>1. hand'[v] = hand[v] /\ hand[v] # NoTask
          BY <3>7, <3>8, <4>2
        <5>2. /\ \A i \in 1..Len(tasks) : tasks[i] # hand[v]
              /\ \A i \in 1..Len(cancelled) : cancelled[i] # hand[v]
              /\ \A x \in Workers : hand[x] = hand[v] => x = v
          BY <5>1, ZenonT(60) DEF IInv, InOnePlace
        <5> QED
          BY <3>1, <3>6, <3>7, <5>1, <5>2, ZenonT(60)
      <4> QED
        BY <4>1, <4>2
    <3> QED
      <4>1. UNCHANGED cancelled
        BY <2>1
      <4>2. \A i, j \in 1..Len(cancelled) : cancelled[i] = cancelled[j] => i = j
        BY ZenonT(60) DEF IInv, InOnePlace
      <4> QED
        BY <3>3, <3>4, <3>8, <4>1, <4>2, ZenonT(60) DEF InOnePlace
  <2> QED
    BY <2>1, <2>3, <2>6, <2>7 DEF IInv, Settled
<1> QED
  BY <1>1, <1>2 DEF WorkerTest

\* Lines 126-137: a worker settles the task in its hand.
LEMMA WorkerRunKeeps ==
    ASSUME IInv, NEW w \in Workers, WorkerRun(w)
    PROVE  IInv' /\ Settled
<1>1. /\ UNCHANGED <<tasks, cancelled, submits, spc>>
      /\ hand' = [hand EXCEPT ![w] = NoTask]
      /\ result' = [result EXCEPT ![hand[w]] = "done"]
  BY DEF WorkerRun, Settle
<1>2. hand' \in [Workers -> Tasks \cup {NoTask}]
  BY <1>1, ZenonT(60) DEF IInv, Types
<1>3. InOnePlace'
  <2>1. \A v \in Workers : hand'[v] # NoTask => hand'[v] = hand[v]
    BY <1>1, ZenonT(60) DEF IInv, Types
  <2>2. /\ \A v \in Workers : hand[v] # NoTask =>
              /\ \A i \in 1..Len(tasks) : tasks[i] # hand[v]
              /\ \A i \in 1..Len(cancelled) : cancelled[i] # hand[v]
              /\ \A x \in Workers : hand[x] = hand[v] => x = v
    BY DEF IInv, InOnePlace
  <2>3. \A v \in Workers : hand'[v] # NoTask =>
              /\ \A i \in 1..Len(tasks) : tasks[i] # hand'[v]
              /\ \A i \in 1..Len(cancelled) : cancelled[i] # hand'[v]
              /\ \A x \in Workers : hand'[x] = hand'[v] => x = v
    BY <2>1, <2>2, ZenonT(60)
  <2>4. UNCHANGED <<tasks, cancelled>>
    BY <1>1
  <2> QED
    BY <2>3, <2>4, SMTT(60) DEF IInv, InOnePlace
<1>4. CASE hand[w] = NoTask
  <2>1. result' = result /\ hand' = hand
    BY <1>1, <1>4, TaskParts, SMTT(60) DEF IInv, Types
  <2> QED
    BY <1>1, <2>1, KeepsPlaces
<1>5. CASE hand[w] # NoTask
  <2>1. hand[w] \in Tasks /\ Pending(hand[w])
    BY <1>5 DEF IInv, Types, Unsettled
  <2>2. /\ result' \in [Tasks -> Results] /\ Settled
        /\ \A t \in Tasks : t # hand[w] => result'[t] = result[t]
    <3>1. Types /\ result[hand[w]] = "unset" /\ "done" \in Results
      BY <2>1 DEF IInv, Results, Pending
    <3> QED
      BY <1>1, <2>1, <3>1, SettleOne, ZenonT(60)
  <2>3. Types'
    BY <1>1, <1>2, <2>2 DEF IInv, Types
  <2>4. \A t \in Tasks : Pending(t) /\ t # hand[w] => Pending(t)'
    <3>1. UNCHANGED <<submits, spc>>
      BY <1>1
    <3> QED
      BY <2>2, <3>1, ZenonT(60) DEF Pending
  <2>5. Unsettled'
    <3>1. \A i \in 1..Len(tasks) : tasks[i] \in Tasks /\ tasks[i] # hand[w]
      <4>1. \A i \in 1..Len(tasks) : tasks[i] \in Tasks
        BY QueueSteps DEF IInv, Types
      <4> QED
        BY <1>5, <4>1, ZenonT(60) DEF IInv, InOnePlace
    <3>2. \A i \in 1..Len(cancelled) : cancelled[i] \in Tasks /\ cancelled[i] # hand[w]
      <4>1. \A i \in 1..Len(cancelled) : cancelled[i] \in Tasks
        BY SMTT(60), QueueSteps DEF IInv, Types
      <4> QED
        BY <1>5, <4>1, ZenonT(60) DEF IInv, InOnePlace
    <3>3. \A v \in Workers : hand'[v] # NoTask => hand'[v] = hand[v] /\ hand[v] # hand[w]
      BY <1>1, <1>5, SMTT(60) DEF IInv, Types, InOnePlace
    <3>4. \A x \in Submitters : spc'[x] \in Owing =>
              submits'[x] > 0 /\ result'[<<x, submits'[x]>>] = "unset"
      <4>1. UNCHANGED <<submits, spc>>
        BY <1>1
      <4>2. \A x \in Submitters : spc[x] \in Owing => submits[x] > 0
        BY ZenonT(60) DEF IInv, Unsettled
      <4>3. \A x \in Submitters : spc[x] \in Owing => result'[TaskOf(x)] = "unset"
        BY <2>1, <2>2, OwedTask, ZenonT(60)
      <4> QED
        BY <4>1, <4>2, <4>3, ZenonT(60) DEF TaskOf
    <3>5. \A t \in Tasks : t[2] > submits'[t[1]] => result'[t] = "unset"
      BY <1>1, <2>1, <2>2, TaskParts, SMTT(60) DEF IInv, Types, Unsettled, Pending
    <3>6. UNCHANGED <<tasks, cancelled, submits, spc>>
      BY <1>1
    <3>7. \A v \in Workers : hand[v] # NoTask => hand[v] \in Tasks
      BY ZenonT(60) DEF IInv, Types
    <3>8. \A v \in Workers : hand'[v] # NoTask => Pending(hand[v])'
      BY <2>4, <3>3, <3>7, ZenonT(60) DEF IInv, Unsettled
    <3> QED
      BY <2>4, <3>1, <3>2, <3>4, <3>5, <3>6, <3>8, ZenonT(60) DEF IInv, Unsettled
  <2> QED
    BY <1>3, <2>2, <2>3, <2>5 DEF IInv
<1> QED
  BY <1>4, <1>5

\* Lines 50-54: the whole of tasks_ goes to the local queue of stop().
LEMMA StopSwapKeeps ==
    ASSUME IInv, StopSwap
    PROVE  IInv' /\ Settled
<1>1. UNCHANGED <<hand, submits, spc, result>> /\ cancelled' = tasks /\ tasks' = <<>>
  BY DEF StopSwap, QueueAfterStop
<1>2. tasks' \in Seq(Tasks) /\ Len(tasks') = 0 /\ 1..Len(tasks') = {}
  BY <1>1, SMTT(60)
<1>3. Types'
  BY <1>1, <1>2 DEF IInv, Types
<1>4. \A t : Pending(t) => Pending(t)'
  BY <1>1 DEF Pending
<1>5. Unsettled'
  BY <1>1, <1>2, <1>4, ZenonT(60) DEF IInv, Unsettled
<1>6. InOnePlace'
  <2>1. /\ \A i, j \in 1..Len(tasks) : tasks[i] = tasks[j] => i = j
        /\ \A w \in Workers : hand[w] # NoTask =>
              /\ \A i \in 1..Len(tasks) : tasks[i] # hand[w]
              /\ \A v \in Workers : hand[v] = hand[w] => v = w
    BY DEF IInv, InOnePlace
  <2>2. \A i : i \notin 1..Len(tasks')
    BY <1>2
  <2>3. UNCHANGED hand /\ cancelled' = tasks
    BY <1>1
  <2> QED
    BY <2>1, <2>2, <2>3, SMTT(60) DEF InOnePlace
<1> QED
  BY <1>1, <1>3, <1>5, <1>6 DEF IInv, Settled

\* Lines 55-57: stop() settles the head of its queue.
LEMMA StopCancelKeeps ==
    ASSUME IInv, StopCancel
    PROVE  IInv' /\ Settled
<1>0. UNCHANGED <<tasks, hand, submits, spc>>
  BY DEF StopCancel
<1>1. CASE cancelled = <<>>
  BY <1>0, <1>1, KeepsPlaces DEF StopCancel
<1>2. CASE cancelled # <<>>
  <2> PICK u \in Tasks : u = cancelled[1]
    BY <1>2, QueueSteps DEF IInv, Types
  <2>1. /\ Len(cancelled) \in Nat /\ Len(cancelled) > 0
        /\ cancelled' \in Seq(Tasks) /\ Len(cancelled') = Len(cancelled) - 1
        /\ \A i \in 1..(Len(cancelled) - 1) : cancelled'[i] = cancelled[i + 1]
        /\ result' = [result EXCEPT ![u] = "cancelled"]
    <3>1. /\ cancelled \in Seq(Tasks)
          /\ cancelled' = Tail(cancelled)
          /\ result' = [result EXCEPT ![Head(cancelled)] = "cancelled"]
      BY <1>2 DEF IInv, Types, StopCancel, Settle
    <3>2. /\ Len(cancelled) \in Nat /\ Len(cancelled) > 0 /\ Head(cancelled) = u
          /\ Tail(cancelled) \in Seq(Tasks) /\ Len(Tail(cancelled)) = Len(cancelled) - 1
          /\ \A i \in 1..(Len(cancelled) - 1) : Tail(cancelled)[i] = cancelled[i + 1]
      BY <1>2, <3>1, QueueSteps
    <3> QED
      BY <3>1, <3>2, ZenonT(60)
  <2>2. 1 \in 1..Len(cancelled)
    BY <2>1
  <2>3. Pending(u) /\ u # NoTask
    BY <2>2, TaskParts, ZenonT(60) DEF IInv, Unsettled
  <2>4. /\ result' \in [Tasks -> Results] /\ Settled
        /\ \A t \in Tasks : t # u => result'[t] = result[t]
    <3>1. Types /\ result[u] = "unset" /\ "cancelled" \in Results
      BY <2>3 DEF IInv, Results, Pending
    <3> QED
      BY <2>1, <3>1, SettleOne, ZenonT(60)
  <2>5. Types'
    BY <1>0, <2>1, <2>4 DEF IInv, Types
  <2>6. \A i \in 1..Len(cancelled') : i + 1 \in 1..Len(cancelled) /\ i + 1 # 1
                                       /\ cancelled'[i] = cancelled[i + 1]
    BY <2>1, SMTT(60)
  <2>7. \A t \in Tasks : Pending(t) /\ t # u => Pending(t)'
    BY <1>0, <2>4 DEF Pending
  <2>8. Unsettled'
    <3>1. \A i \in 1..Len(tasks) : tasks[i] \in Tasks /\ tasks[i] # u
      <4>1. \A i \in 1..Len(tasks) : tasks[i] \in Tasks
        BY QueueSteps DEF IInv, Types
      <4>2. \A i \in 1..Len(tasks), j \in 1..Len(cancelled) : tasks[i] # cancelled[j]
        BY DEF IInv, InOnePlace
      <4> QED
        BY <2>2, <4>1, <4>2, ZenonT(60)
    <3>2. \A i \in 1..Len(cancelled') : cancelled'[i] \in Tasks /\ cancelled'[i] # u
      <4>1. \A i \in 1..Len(cancelled) : cancelled[i] \in Tasks
        BY QueueSteps DEF IInv, Types
      <4> QED
        BY <2>2, <2>6, <4>1, ZenonT(60) DEF IInv, InOnePlace
    <3>3. \A v \in Workers : hand[v] # NoTask => hand[v] \in Tasks /\ hand[v] # u
      BY <2>2, ZenonT(60) DEF IInv, Types, InOnePlace
    <3>4. \A x \in Submitters : spc[x] \in Owing =>
              submits[x] > 0 /\ result'[<<x, submits[x]>>] = "unset"
      BY SMTT(60), <2>3, <2>4, OwedTask DEF IInv, Unsettled, TaskOf
    <3>5. \A t \in Tasks : t[2] > submits[t[1]] => result'[t] = "unset"
      BY <2>3, <2>4, TaskParts, SMTT(60) DEF IInv, Types, Unsettled, Pending
    <3>6. \A i \in 1..Len(cancelled') : Pending(cancelled[i])'
      BY <2>6, <2>7, <3>2, ZenonT(60) DEF IInv, Unsettled
    <3> QED
      BY <1>0, <2>7, <3>1, <3>3, <3>4, <3>5, <3>6, ZenonT(60) DEF IInv, Unsettled
  <2>9. InOnePlace'
    <3>1. \A i, j \in 1..Len(cancelled') : cancelled'[i] = cancelled'[j] => i = j
      <4>1. \A i, j \in 1..Len(cancelled) : cancelled[i] = cancelled[j] => i = j
        BY DEF IInv, InOnePlace
      <4>2. \A i, j \in 1..Len(cancelled') : i + 1 = j + 1 => i = j
        OBVIOUS
      <4> QED
        BY <2>6, <4>1, <4>2, ZenonT(60)
    <3>2. /\ \A i, j \in 1..Len(tasks) : tasks[i] = tasks[j] => i = j
          /\ \A i \in 1..Len(tasks), j \in 1..Len(cancelled) : tasks[i] # cancelled[j]
          /\ \A w \in Workers : hand[w] # NoTask =>
                /\ \A i \in 1..Len(tasks) : tasks[i] # hand[w]
                /\ \A i \in 1..Len(cancelled) : cancelled[i] # hand[w]
                /\ \A v \in Workers : hand[v] = hand[w] => v = w
      BY DEF IInv, InOnePlace
    <3>3. /\ \A i \in 1..Len(tasks), j \in 1..Len(cancelled') : tasks[i] # cancelled'[j]
          /\ \A w \in Workers : hand[w] # NoTask =>
                \A i \in 1..Len(cancelled') : cancelled'[i] # hand[w]
      BY <2>6, <3>2, ZenonT(60)
    <3> QED
      BY <1>0, <3>1, <3>2, <3>3, SMTT(60) DEF InOnePlace
  <2> QED
    BY <2>4, <2>5, <2>8, <2>9 DEF IInv
<1> QED
  BY <1>1, <1>2

\* The other steps move nothing but program counters, running_, active_count_
\* and mut_.
LEMMA StepKeeps ==
    ASSUME IInv, Next
    PROVE  IInv' /\ Settled
<1>1. CASE \E s \in Submitters : Submit(s) \/ SubmitContinue(s)
  BY <1>1, SubmitKeeps, CallerRunsKeeps, SubmitPushKeeps, SubmitNotifyKeeps DEF SubmitContinue
<1>2. CASE \E w \in Workers : WorkerStep(w) \/ WorkerSpurious(w)
  <2> PICK w \in Workers : WorkerStep(w) \/ WorkerSpurious(w)
    BY <1>2
  <2>1. CASE WorkerTest(w)
    BY <2>1, WorkerTestKeeps
  <2>2. CASE WorkerRun(w)
    BY <2>2, WorkerRunKeeps
  <2>3. CASE \/ WorkerSleep(w) \/ WorkerSpurious(w) \/ WorkerActivate(w)
             \/ WorkerDeactivate(w) \/ WorkerNotify(w)
    BY <2>3, KeepsPlaces DEF WorkerSleep, WorkerSpurious, WorkerActivate,
       WorkerDeactivate, WorkerNotify
  <2> QED
    BY <2>1, <2>2, <2>3 DEF WorkerStep
<1>3. CASE Start \/ Stop \/ Shutdown \/ StopNotify \/ ShutdownNotify \/ Join
  BY <1>3, KeepsPlaces DEF Start, Stop, Shutdown, Halt, StopNotify, ShutdownNotify, Join
<1>4. CASE \E a \in Waiters : WaitAll(a) \/ WaitContinue(a)
  BY <1>4, KeepsPlaces DEF WaitAll, WaitContinue, WaitTest, WaitSleep
<1> QED
  BY <1>1, <1>2, <1>3, <1>4, StopSwapKeeps, StopCancelKeeps DEF Next, ControlContinue

\* Before the first call no promise is set and every place is empty.
LEMMA InitIInv == Init => IInv
<1> SUFFICES ASSUME Init PROVE IInv
  OBVIOUS
<1>1. Types
  BY ThreadPoolAssumption, SMTT(60) DEF Init, Types, Results, Owing
<1>2. Unsettled
  BY SMTT(60) DEF Init, Unsettled, Owing
<1>3. InOnePlace
  BY SMTT(60) DEF Init, InOnePlace
<1> QED
  BY <1>1, <1>2, <1>3 DEF IInv

-----------------------------------------------------------------------------
\* A promise is set once: a value in a promise of submit() never changes, whatever
\* the workers, submit(), stop() and shutdown() do.
THEOREM PromisesOnce == Spec => PromiseSetOnce
<1>1. IInv /\ UNCHANGED vars => IInv'
  BY KeepsPlaces DEF vars
<1>2. IInv /\ [Next]_vars => IInv'
  BY <1>1, StepKeeps
<1>3. IInv /\ [Next]_vars => [\A t \in Tasks : result[t] # "unset" => result'[t] = result[t]]_vars
  BY StepKeeps DEF Settled
<1> QED
  BY <1>2, <1>3, InitIInv, PTL DEF Spec, PromiseSetOnce

\* The pop of a worker and the swap of stop() never get a task whose promise is
\* already set, or that somebody else holds: set_value() does not throw.
THEOREM HeldTasksAreUnset == Spec => [](Unsettled /\ InOnePlace)
<1>1. IInv /\ [Next]_vars => IInv'
  BY StepKeeps, KeepsPlaces DEF vars
<1>2. IInv => Unsettled /\ InOnePlace
  BY DEF IInv
<1> QED
  BY <1>1, <1>2, InitIInv, PTL DEF Spec

=============================================================================
