---------------------------- MODULE EventLoopProofs ----------------------------
(***************************************************************************)
(* Theorems about EventLoop, for any set of clients and any bounds: the    *)
(* types, the startup gate of run_in_loop_sync(), the order in which the   *)
(* queues hand over what was posted, and that nobody waits in vain: the    *)
(* loop thread does not sleep on work, no synchronous call is stranded.    *)
(*                                                                         *)
(* The types are proved in two halves, because the backends differ: Zenon  *)
(* takes the Boolean flags, SMT the queues, sets, counters and labels.     *)
(***************************************************************************)
EXTENDS EventLoop, SequenceTheorems, TLAPS

USE Zenon

FlagTypes ==
    /\ quit \in BOOLEAN
    /\ resume \in BOOLEAN
    /\ pipe \in BOOLEAN
    /\ edge \in BOOLEAN
    /\ processed \in BOOLEAN
    /\ dispatched \in BOOLEAN
    /\ future \in [Clients -> BOOLEAN]

DataTypes ==
    /\ state \in {"created", "running", "stopped"}
    /\ setup \in Clients \cup {NoOne}
    /\ pending \in [Queues -> Seq(Items)]
    /\ deferred \subseteq Events
    /\ lpc \in LoopPcs
    /\ phase \in 1..3
    /\ queue \in Queues
    /\ batch \in Seq(Items)
    /\ active \subseteq Events
    /\ current \in Items
    /\ return \in LoopPcs
    /\ runs \in 0..MaxRuns
    /\ posts \in 0..MaxLoopPosts
    /\ cpc \in [Clients -> ClientPcs]
    /\ ops \in [Clients -> 0..MaxOps]
    /\ accepted \in [Queues -> Seq(Items)]
    /\ ran \in [Queues -> Seq(Items)]

\* The two halves make up the type invariant.
LEMMA TypesSplit == TypeOK <=> FlagTypes /\ DataTypes
BY DEF TypeOK, FlagTypes, DataTypes

USE DEF Queues, Events, TheLoop, flagVars, lifeVars, wakeupVars, drainVars,
        eventVars, bodyVars, countVars, loopVars, clientVars, historyVars

\* The placeholder for "no callback is running" is an item.
LEMMA NoneIsItem == None \in Items
BY SMT, EventLoopAssumption DEF Items, None

\* What the three kinds of posts push into a queue is an item.
LEMMA PostedIsItem ==
    ASSUME DataTypes
    PROVE  /\ \A c \in Clients : ops[c] < MaxOps => ItemOf(c, FALSE) \in Items
           /\ \A c \in Clients : SyncItem(c) \in Items
           /\ posts < MaxLoopPosts =>
                [from |-> TheLoop, n |-> posts + 1, sync |-> FALSE] \in Items
<1>0. ops \in [Clients -> 0..MaxOps] /\ posts \in 0..MaxLoopPosts
  BY DEF DataTypes
<1> USE EventLoopAssumption
<1>1. ASSUME NEW c \in Clients, ops[c] < MaxOps
      PROVE  ItemOf(c, FALSE) \in Items
  <2>1. ops[c] + 1 \in 0..(MaxOps + MaxLoopPosts)
    BY SMT, <1>0, <1>1
  <2> QED
    BY <2>1 DEF ItemOf, Items
<1>2. ASSUME NEW c \in Clients
      PROVE  SyncItem(c) \in Items
  <2>1. ops[c] \in 0..(MaxOps + MaxLoopPosts)
    BY SMT, <1>0, <1>2
  <2> QED
    BY <2>1 DEF SyncItem, Items
<1>3. ASSUME posts < MaxLoopPosts
      PROVE  [from |-> TheLoop, n |-> posts + 1, sync |-> FALSE] \in Items
  <2>1. posts + 1 \in 0..(MaxOps + MaxLoopPosts)
    BY SMT, <1>0, <1>3
  <2> QED
    BY <2>1 DEF Items
<1> QED
  BY <1>1, <1>2, <1>3

\* A push keeps the type of the queues and of their history.
LEMMA PushTypes ==
    ASSUME DataTypes, NEW q \in Queues, NEW item \in Items, Push(q, item)
    PROVE  /\ pending' \in [Queues -> Seq(Items)]
           /\ accepted' \in [Queues -> Seq(Items)]
BY SMTT(60) DEF DataTypes, Push

\* Beginning a call and moving on in one keep the types of the clients.
LEMMA ClientMoveTypes ==
    ASSUME DataTypes, NEW c \in Clients
    PROVE  /\ Begin(c) => ops' \in [Clients -> 0..MaxOps]
           /\ \A pc \in ClientPcs : Goto(c, pc) => cpc' \in [Clients -> ClientPcs]
<1>1. ops \in [Clients -> 0..MaxOps] /\ cpc \in [Clients -> ClientPcs]
  BY DEF DataTypes
<1> QED
  BY SMT, <1>1, EventLoopAssumption DEF Begin, Goto

\* The initial state is well typed.
LEMMA InitTypes == Init => FlagTypes /\ DataTypes
<1> SUFFICES ASSUME Init PROVE FlagTypes /\ DataTypes
  OBVIOUS
<1>1. FlagTypes
  BY DEF Init, FlagTypes
<1>2. DataTypes
  BY SMT, NoneIsItem, EventLoopAssumption DEF Init, DataTypes, LoopPcs, ClientPcs
<1> QED
  BY <1>1, <1>2

\* The steps of the clients keep the flags typed.
LEMMA ClientFlagTypes ==
    ASSUME FlagTypes, NEW c \in Clients,
           ClientStart(c) \/ ClientContinue(c) \/ WaitUntilStopped(c)
    PROVE  FlagTypes'
<1>1. CASE \E q \in Queues : Post(c, q)
  BY <1>1 DEF FlagTypes, Post, Begin, Push
<1>2. CASE Quit(c)
  BY <1>2 DEF FlagTypes, Quit, Begin
<1>3. CASE RequestCoroutineResume(c)
  BY <1>3 DEF FlagTypes, RequestCoroutineResume, Begin
<1>4. CASE WakeupLoop(c)
  BY <1>4 DEF FlagTypes, WakeupLoop, Wakeup
<1>5. CASE SyncLock(c)
  BY <1>5 DEF FlagTypes, SyncLock, Begin
<1>6. CASE SyncDirect(c)
  BY <1>6 DEF FlagTypes, SyncDirect
<1>7. CASE SyncPush(c)
  BY <1>7 DEF FlagTypes, SyncPush, Push
<1>8. CASE SyncWakeup(c)
  BY <1>8 DEF FlagTypes, SyncWakeup, Wakeup
<1>9. CASE SyncReturn(c)
  BY <1>9 DEF FlagTypes, SyncReturn
<1>10. CASE WaitUntilStopped(c)
  BY <1>10 DEF FlagTypes, WaitUntilStopped, Begin
<1> QED
  BY <1>1, <1>2, <1>3, <1>4, <1>5, <1>6, <1>7, <1>8, <1>9, <1>10
  DEF ClientStart, ClientContinue, QueueInLoop, PostCoroutine

\* The steps of the loop thread keep the flags typed.
LEMMA LoopFlagTypes ==
    ASSUME FlagTypes,
           EnterLoop \/ LoopStep \/ (\E q \in Queues : BodyPost(q)) \/ BodyExit
    PROVE  FlagTypes'
<1>1. CASE EnterLoop
  BY <1>1 DEF FlagTypes, EnterLoop
<1>2. CASE ResetResume
  BY <1>2 DEF FlagTypes, ResetResume
<1>3. CASE CheckExit
  BY <1>3 DEF FlagTypes, CheckExit
<1>4. CASE RunDueTimers
  BY <1>4 DEF FlagTypes, RunDueTimers
<1>5. CASE DrainSwap
  BY <1>5 DEF FlagTypes, DrainSwap
<1>6. CASE DrainRun
  BY <1>6 DEF FlagTypes, DrainRun
<1>7. CASE BodyReturn
  <2>1. ASSUME NEW c \in Clients PROVE PromiseSet(c) \in BOOLEAN
    BY DEF PromiseSet
  <2> QED
    BY <1>7, <2>1 DEF FlagTypes, BodyReturn
<1>8. CASE BeginPoll
  BY <1>8 DEF FlagTypes, BeginPoll
<1>9. CASE PollReturns
  BY <1>9 DEF FlagTypes, PollReturns
<1>10. CASE DegradedSleep
  BY <1>10 DEF FlagTypes, DegradedSleep
<1>11. CASE DispatchWakeup
  BY <1>11 DEF FlagTypes, DispatchWakeup
<1>12. CASE DispatchIo
  BY <1>12 DEF FlagTypes, DispatchIo
<1>13. CASE EndDispatch
  BY <1>13 DEF FlagTypes, EndDispatch
<1>14. CASE PublishStopped
  BY <1>14 DEF FlagTypes, PublishStopped
<1>15. CASE NotifyStopped
  BY <1>15 DEF FlagTypes, NotifyStopped
<1>16. CASE \E q \in Queues : BodyPost(q)
  BY <1>16 DEF FlagTypes, BodyPost, Push
<1>17. CASE BodyExit
  BY <1>17 DEF FlagTypes, BodyExit, Wakeup
<1> QED
  BY SMTT(60), <1>1, <1>2, <1>3, <1>4, <1>5, <1>6, <1>7, <1>8, <1>9, <1>10, <1>11,
     <1>12, <1>13, <1>14, <1>15, <1>16, <1>17 DEF LoopStep

\* The steps of the clients keep everything else typed.
LEMMA ClientDataTypes ==
    ASSUME DataTypes, NEW c \in Clients,
           ClientStart(c) \/ ClientContinue(c) \/ WaitUntilStopped(c)
    PROVE  DataTypes'
<1> USE EventLoopAssumption DEF ClientPcs
<1>1. CASE \E q \in Queues : Post(c, q)
  <2>1. PICK q \in Queues : Post(c, q)
    BY <1>1
  <2>2. CASE Refused
    BY SMTT(60), <2>1, <2>2 DEF DataTypes, Post, Begin
  <2>3. CASE ~Refused
    <3>1. ItemOf(c, FALSE) \in Items
      BY <2>1, PostedIsItem DEF Post, Begin
    <3>2. pending' \in [Queues -> Seq(Items)] /\ accepted' \in [Queues -> Seq(Items)]
      BY <2>1, <2>3, <3>1, PushTypes DEF Post
    <3>3. cpc' \in [Clients -> ClientPcs] /\ ops' \in [Clients -> 0..MaxOps]
      BY <2>1, <2>3, ClientMoveTypes DEF Post
    <3> QED
      BY <2>1, <3>2, <3>3 DEF DataTypes, Post
  <2> QED
    BY <2>2, <2>3
<1>2. CASE Quit(c)
  BY <1>2, SMTT(60) DEF DataTypes, Quit, Begin, Goto
<1>3. CASE RequestCoroutineResume(c)
  BY <1>3, SMTT(60) DEF DataTypes, RequestCoroutineResume, Begin, Goto
<1>4. CASE WakeupLoop(c)
  BY <1>4 DEF DataTypes, WakeupLoop, Goto
<1>5. CASE SyncLock(c)
  BY <1>5, SMTT(60) DEF DataTypes, SyncLock, Begin, Goto
<1>6. CASE SyncDirect(c)
  BY <1>6 DEF DataTypes, SyncDirect, Goto
<1>7. CASE SyncPush(c)
  <2>1. CASE state = "running"
    <3>1. Push("callbacks", SyncItem(c))
      BY <1>7, <2>1 DEF SyncPush, SyncItem
    <3>2. pending' \in [Queues -> Seq(Items)] /\ accepted' \in [Queues -> Seq(Items)]
      BY <3>1, PostedIsItem, PushTypes
    <3> QED
      BY <1>7, <2>1, <3>2 DEF DataTypes, SyncPush, Goto
  <2>2. CASE state # "running"
    BY <1>7, <2>2 DEF DataTypes, SyncPush, Goto
  <2> QED
    BY <2>1, <2>2
<1>8. CASE SyncWakeup(c)
  BY <1>8 DEF DataTypes, SyncWakeup, Goto
<1>9. CASE SyncReturn(c)
  BY <1>9 DEF DataTypes, SyncReturn, Goto
<1>10. CASE WaitUntilStopped(c)
  <2>1. cpc' \in [Clients -> ClientPcs]
    BY <1>10 DEF DataTypes, WaitUntilStopped, Goto
  <2>2. ops' \in [Clients -> 0..MaxOps]
    BY <1>10, ClientMoveTypes DEF DataTypes, WaitUntilStopped
  <2> QED
    BY <1>10, <2>1, <2>2 DEF DataTypes, WaitUntilStopped
<1> QED
  BY <1>1, <1>2, <1>3, <1>4, <1>5, <1>6, <1>7, <1>8, <1>9, <1>10
  DEF ClientStart, ClientContinue, QueueInLoop, PostCoroutine

\* The steps of the loop thread keep everything else typed.
LEMMA LoopDataTypes ==
    ASSUME DataTypes,
           EnterLoop \/ LoopStep \/ (\E q \in Queues : BodyPost(q)) \/ BodyExit
    PROVE  DataTypes'
<1> USE EventLoopAssumption DEF LoopPcs, ClientPcs
<1>1. CASE EnterLoop
  BY SMTT(60), <1>1 DEF DataTypes, EnterLoop
<1>2. CASE ResetResume
  BY SMTT(60), <1>2 DEF DataTypes, ResetResume
<1>3. CASE CheckExit
  BY SMTT(60), <1>3 DEF DataTypes, CheckExit
<1>4. CASE RunDueTimers
  BY ZenonT(60), <1>4 DEF DataTypes, RunDueTimers
<1>5. CASE DrainSwap
  <2>1. CASE pending[queue] = <<>>
    <3>1. lpc' \in LoopPcs /\ phase' \in 1..3 /\ queue' \in Queues
      BY SMT, <1>5, <2>1 DEF DataTypes, DrainSwap, AfterDrain
    <3>2. UNCHANGED <<state, setup, pending, deferred, batch, active, current,
                      return, runs, posts, cpc, ops, accepted, ran>>
      BY <1>5, <2>1 DEF DrainSwap
    <3> QED
      BY <3>1, <3>2 DEF DataTypes
  <2>2. CASE pending[queue] # <<>>
    <3>1. pending' \in [Queues -> Seq(Items)] /\ batch' \in Seq(Items)
      <4>1. pending' = [pending EXCEPT ![queue] = <<>>] /\ batch' = pending[queue]
        BY <1>5, <2>2 DEF DrainSwap, AfterSwap
      <4>2. pending \in [Queues -> Seq(Items)] /\ queue \in Queues
        BY DEF DataTypes
      <4> QED
        BY SMT, <4>1, <4>2
    <3> QED
      BY SMTT(60), <1>5, <2>2, <3>1 DEF DataTypes, DrainSwap
  <2> QED
    BY <2>1, <2>2
<1>6. CASE DrainRun
  <2>1. CASE batch = <<>>
    <3>1. lpc' \in LoopPcs /\ phase' \in 1..3 /\ queue' \in Queues
      BY SMT, <1>6, <2>1 DEF DataTypes, DrainRun, AfterDrain
    <3>2. UNCHANGED <<state, setup, pending, deferred, batch, active, current,
                      return, runs, posts, cpc, ops, accepted, ran>>
      BY <1>6, <2>1 DEF DrainRun
    <3> QED
      BY <3>1, <3>2 DEF DataTypes
  <2>2. CASE batch # <<>>
    <3>1. Head(batch) \in Items /\ Tail(batch) \in Seq(Items)
      BY SMT, <2>2 DEF DataTypes
    <3>2. ran' \in [Queues -> Seq(Items)]
      <4>1. ran' = [ran EXCEPT ![queue] = Append(@, Head(batch))]
        BY <1>6, <2>2 DEF DrainRun
      <4>2. ran \in [Queues -> Seq(Items)] /\ queue \in Queues
        BY DEF DataTypes
      <4> QED
        BY SMTT(60), <3>1, <4>1, <4>2
    <3>3. lpc' = "body" /\ return' = "run" /\ current' \in Items /\ batch' \in Seq(Items)
          /\ queue' = queue
      BY <1>6, <2>2, <3>1 DEF DrainRun
    <3> QED
      BY <1>6, <3>2, <3>3 DEF DataTypes, DrainRun
  <2> QED
    BY <2>1, <2>2
<1>7. CASE BodyReturn
  BY SMTT(60), <1>7, NoneIsItem DEF DataTypes, BodyReturn
<1>8. CASE BeginPoll
  BY ZenonT(60), <1>8 DEF DataTypes, BeginPoll
<1>9. CASE PollReturns
  BY SMTT(60), <1>9 DEF DataTypes, PollReturns
<1>10. CASE DegradedSleep
  BY SMTT(60), <1>10 DEF DataTypes, DegradedSleep
<1>11. CASE DispatchWakeup
  BY SMTT(60), <1>11 DEF DataTypes, DispatchWakeup
<1>12. CASE DispatchIo
  BY SMTT(60), <1>12 DEF DataTypes, DispatchIo
<1>13. CASE EndDispatch
  <2>1. deferred' \subseteq Events /\ active' \subseteq Events
    BY <1>13 DEF DataTypes, EndDispatch
  <2>2. lpc' = "swap" /\ phase' = 2 /\ queue' = "callbacks"
    BY <1>13 DEF EndDispatch
  <2>3. lpc' \in LoopPcs /\ phase' \in 1..3 /\ queue' \in Queues
    BY SMT, <2>2
  <2>4. UNCHANGED <<state, setup, pending, batch, current, return, runs, posts,
                    cpc, ops, accepted, ran>>
    BY <1>13 DEF EndDispatch
  <2> HIDE DEF LoopPcs, ClientPcs, Queues, Events
  <2> QED
    BY <2>1, <2>3, <2>4 DEF DataTypes
<1>14. CASE PublishStopped
  BY <1>14 DEF DataTypes, PublishStopped, FinalState
<1>15. CASE NotifyStopped
  BY SMTT(60), <1>15 DEF DataTypes, NotifyStopped, AfterNotify
<1>16. CASE \E q \in Queues : BodyPost(q)
  <2>1. PICK q \in Queues : BodyPost(q)
    BY <1>16
  <2>2. [from |-> TheLoop, n |-> posts + 1, sync |-> FALSE] \in Items
    BY <2>1, PostedIsItem DEF BodyPost
  <2>3. pending' \in [Queues -> Seq(Items)] /\ accepted' \in [Queues -> Seq(Items)]
    BY <2>1, <2>2, PushTypes DEF BodyPost
  <2>4. posts' \in 0..MaxLoopPosts
    <3>1. posts < MaxLoopPosts /\ posts' = posts + 1
      BY <2>1 DEF BodyPost
    <3> QED
      BY SMTT(60), <3>1 DEF DataTypes
  <2>5. UNCHANGED <<state, setup, deferred, lpc, phase, queue, batch, active,
                    current, return, runs, cpc, ops, ran>>
    BY <2>1 DEF BodyPost
  <2> HIDE DEF LoopPcs, ClientPcs, Queues, Events
  <2> QED
    BY <2>3, <2>4, <2>5 DEF DataTypes
<1>17. CASE BodyExit
  BY SMTT(60), <1>17 DEF DataTypes, BodyExit
<1> QED
  BY SMTT(30), <1>1, <1>2, <1>3, <1>4, <1>5, <1>6, <1>7, <1>8, <1>9, <1>10, <1>11,
     <1>12, <1>13, <1>14, <1>15, <1>16, <1>17 DEF LoopStep

\* The state of the loop, its queues and its callers stays well typed, for any
\* number of clients and any bounds.
THEOREM TypeCorrect == Spec => []TypeOK
<1>1. FlagTypes /\ DataTypes /\ [Next]_vars => FlagTypes' /\ DataTypes'
  <2> SUFFICES ASSUME FlagTypes, DataTypes, [Next]_vars
               PROVE  FlagTypes' /\ DataTypes'
    OBVIOUS
  <2>1. CASE Next
    BY <2>1, ClientFlagTypes, LoopFlagTypes, ClientDataTypes, LoopDataTypes DEF Next
  <2>2. CASE UNCHANGED vars
    <3>1. FlagTypes'
      BY <2>2 DEF FlagTypes, vars
    <3>2. DataTypes'
      BY <2>2 DEF DataTypes, vars
    <3> QED
      BY <3>1, <3>2
  <2> QED
    BY <2>1, <2>2
<1> QED
  BY <1>1, InitTypes, TypesSplit, PTL DEF Spec
-----------------------------------------------------------------------------
(* The startup gate.  SetupExcludesLoop says nothing of who holds          *)
(* setup_mutex_; with that it is inductive.                                *)

InSync == {"direct", "syncPush", "syncWakeup", "syncWait"}

SetupInv ==
    /\ \A c \in Clients : cpc[c] \in InSync => setup = c
    /\ \A c \in Clients : cpc[c] = "direct" => state # "running"

\* The steps of the clients keep the gate.
LEMMA ClientSetupInv ==
    ASSUME DataTypes, SetupInv, NEW c \in Clients,
           ClientStart(c) \/ ClientContinue(c) \/ WaitUntilStopped(c)
    PROVE  SetupInv'
<1> USE EventLoopAssumption DEF InSync
<1>0. cpc \in [Clients -> ClientPcs]
  BY DEF DataTypes
<1>1. CASE \E q \in Queues : Post(c, q)
  BY <1>0, <1>1 DEF SetupInv, Post, Begin, Goto
<1>2. CASE Quit(c)
  BY <1>0, <1>2 DEF SetupInv, Quit, Begin, Goto
<1>3. CASE RequestCoroutineResume(c)
  BY <1>0, <1>3 DEF SetupInv, RequestCoroutineResume, Begin, Goto
<1>4. CASE WakeupLoop(c)
  BY <1>0, <1>4 DEF SetupInv, WakeupLoop, Goto
<1>5. CASE SyncLock(c)
  BY <1>0, <1>5 DEF SetupInv, SyncLock, SetupFree, Begin, Goto
<1>6. CASE SyncDirect(c)
  BY <1>0, <1>6 DEF SetupInv, SyncDirect, Goto
<1>7. CASE SyncPush(c)
  BY <1>0, <1>7 DEF SetupInv, SyncPush, Goto
<1>8. CASE SyncWakeup(c)
  BY <1>0, <1>8 DEF SetupInv, SyncWakeup, Goto
<1>9. CASE SyncReturn(c)
  BY <1>0, <1>9 DEF SetupInv, SyncReturn, Goto
<1>10. CASE WaitUntilStopped(c)
  BY <1>0, <1>10 DEF SetupInv, WaitUntilStopped, Begin, Goto
<1> QED
  BY ZenonT(60), <1>1, <1>2, <1>3, <1>4, <1>5, <1>6, <1>7, <1>8, <1>9, <1>10
  DEF ClientStart, ClientContinue, QueueInLoop, PostCoroutine

\* The steps of the loop thread keep the gate: only EnterLoop publishes
\* "running", and it does so with setup_mutex_ free.
LEMMA LoopSetupInv ==
    ASSUME DataTypes, SetupInv,
           EnterLoop \/ LoopStep \/ (\E q \in Queues : BodyPost(q)) \/ BodyExit
    PROVE  SetupInv'
<1> USE DEF InSync
<1>1. CASE EnterLoop
  BY <1>1, EventLoopAssumption DEF SetupInv, EnterLoop, SetupFree
<1>2. CASE PublishStopped
  <2>1. state' # "running" \/ state' = state
    BY <1>2 DEF PublishStopped, FinalState
  <2>2. UNCHANGED <<cpc, setup>>
    BY <1>2 DEF PublishStopped
  <2> QED
    BY <2>1, <2>2 DEF SetupInv
<1>3. CASE NotifyStopped
  <2>1. \A c \in Clients : cpc'[c] \in InSync => cpc'[c] = cpc[c]
    BY <1>3 DEF NotifyStopped, AfterNotify
  <2>2. UNCHANGED <<state, setup>>
    BY <1>3 DEF NotifyStopped
  <2> QED
    BY <2>1, <2>2 DEF SetupInv
<1>4. CASE UNCHANGED <<state, setup, cpc>>
  BY <1>4 DEF SetupInv
<1>5. \/ EnterLoop \/ PublishStopped \/ NotifyStopped
      \/ UNCHANGED <<state, setup, cpc>>
  BY ZenonT(60) DEF LoopStep, ResetResume, CheckExit, RunDueTimers, DrainSwap, DrainRun,
         BodyReturn, BeginPoll, PollReturns, DegradedSleep, DispatchWakeup,
         DispatchIo, EndDispatch, BodyPost, BodyExit
<1> QED
  BY <1>1, <1>2, <1>3, <1>4, <1>5

\* An operation that run_in_loop_sync() runs on the caller's thread never
\* overlaps with a running loop.
THEOREM SetupGate == Spec => []SetupExcludesLoop
<1>1. Init => SetupInv
  BY DEF Init, SetupInv, InSync
<1>2. TypeOK /\ SetupInv /\ [Next]_vars => SetupInv'
  <2> SUFFICES ASSUME TypeOK, SetupInv, [Next]_vars PROVE SetupInv'
    OBVIOUS
  <2>0. DataTypes
    BY TypesSplit
  <2>1. CASE Next
    BY <2>0, <2>1, ClientSetupInv, LoopSetupInv DEF Next
  <2>2. CASE UNCHANGED vars
    BY <2>2 DEF SetupInv, vars
  <2> QED
    BY <2>1, <2>2
<1>3. SetupInv => SetupExcludesLoop
  BY DEF SetupInv, SetupExcludesLoop
<1> QED
  BY <1>1, <1>2, <1>3, TypeCorrect, PTL DEF Spec

-----------------------------------------------------------------------------
(* First in, first out.                                                    *)

\* Only a drain has a batch in hand; whoever changes `queue' has none.
BatchInDrain ==
    batch # <<>> => lpc = "run" \/ (lpc = "body" /\ return = "run")

FifoInv == FifoOnce /\ BatchInDrain

InHand(q) == IF q = queue THEN batch ELSE <<>>

\* A push at the end of the last of three sequences.
LEMMA AppendToThird ==
    ASSUME NEW r \in Seq(Items), NEW b \in Seq(Items), NEW p \in Seq(Items),
           NEW x \in Items
    PROVE  Append(r \o b \o p, x) = r \o b \o Append(p, x)
<1>1. r \o b \in Seq(Items) /\ (r \o b) \o p \in Seq(Items) /\ <<x>> \in Seq(Items)
  BY SMT, ConcatProperties
<1>2. Append((r \o b) \o p, x) = ((r \o b) \o p) \o <<x>>
  BY <1>1, AppendIsConcat
<1>3. Append(p, x) = p \o <<x>>
  BY AppendIsConcat
<1>4. ((r \o b) \o p) \o <<x>> = (r \o b) \o (p \o <<x>>)
  BY <1>1, ConcatAssociative, SMTT(60)
<1> QED
  BY <1>2, <1>3, <1>4

\* The head of the batch moves to the end of what ran.
LEMMA HeadMoves ==
    ASSUME NEW S, NEW r \in Seq(S), NEW b \in Seq(S), b # <<>>
    PROVE  r \o b = Append(r, Head(b)) \o Tail(b)
<1>1. Head(b) \in S /\ Tail(b) \in Seq(S) /\ <<Head(b)>> \in Seq(S)
  BY SMT, HeadTailProperties
<1>2. Append(r, Head(b)) = r \o <<Head(b)>>
  BY <1>1, AppendIsConcat
<1>3. b = <<Head(b)>> \o Tail(b)
  BY SMT, <1>1
<1>4. (r \o <<Head(b)>>) \o Tail(b) = r \o (<<Head(b)>> \o Tail(b))
  BY SMTT(60), <1>1, ConcatAssociative
<1> QED
  BY <1>2, <1>3, <1>4

\* A push keeps the order.
LEMMA PushFifo ==
    ASSUME DataTypes, FifoInv, NEW q \in Queues, NEW item \in Items,
           Push(q, item), UNCHANGED <<ran, batch, queue>>
    PROVE  FifoOnce'
<1>0. /\ pending \in [Queues -> Seq(Items)]
      /\ accepted \in [Queues -> Seq(Items)]
      /\ ran \in [Queues -> Seq(Items)]
      /\ batch \in Seq(Items)
  BY DEF DataTypes
<1> SUFFICES ASSUME NEW p \in Queues
             PROVE  accepted'[p] = ran[p] \o InHand(p) \o pending'[p]
  BY DEF FifoOnce, InHand
<1>1. accepted[p] = ran[p] \o InHand(p) \o pending[p]
  BY DEF FifoInv, FifoOnce, InHand
<1>2. InHand(p) \in Seq(Items) /\ ran[p] \in Seq(Items) /\ pending[p] \in Seq(Items)
  BY SMT, <1>0 DEF InHand
<1>3. CASE p = q
  <2>1. accepted'[p] = Append(accepted[p], item) /\ pending'[p] = Append(pending[p], item)
    BY <1>0, <1>3 DEF Push
  <2>a. \A r, b, p1 \in Seq(Items) : Append(r \o b \o p1, item) = r \o b \o Append(p1, item)
    BY AppendToThird, ZenonT(60)
  <2>2. Append(ran[p] \o InHand(p) \o pending[p], item)
          = ran[p] \o InHand(p) \o Append(pending[p], item)
    BY <1>2, <2>a, ZenonT(60)
  <2> QED
    BY <1>1, <2>1, <2>2
<1>4. CASE p # q
  <2>1. accepted'[p] = accepted[p] /\ pending'[p] = pending[p]
    BY <1>0, <1>4 DEF Push
  <2> QED
    BY <1>1, <2>1
<1> QED
  BY <1>3, <1>4

\* A step that leaves the queues alone and has no batch in hand may change
\* `queue'.
LEMMA QueueChangeFifo ==
    ASSUME FifoInv, batch = <<>>, UNCHANGED <<accepted, ran, batch, pending>>
    PROVE  FifoOnce'
BY DEF FifoInv, FifoOnce

\* The swap moves the whole queue into the batch.
LEMMA DrainSwapFifo ==
    ASSUME DataTypes, FifoInv, DrainSwap
    PROVE  FifoInv'
<1>0. /\ pending \in [Queues -> Seq(Items)]
      /\ ran \in [Queues -> Seq(Items)]
      /\ queue \in Queues
  BY DEF DataTypes
<1>1. batch = <<>> /\ lpc = "swap"
  BY DEF FifoInv, BatchInDrain, DrainSwap
<1>2. CASE pending[queue] = <<>>
  <2>1. UNCHANGED <<accepted, ran, batch, pending>>
    BY <1>2 DEF DrainSwap
  <2> QED
    BY <1>1, <2>1, QueueChangeFifo DEF FifoInv, BatchInDrain
<1>3. CASE pending[queue] # <<>>
  <2>1. /\ UNCHANGED <<accepted, ran, queue>>
        /\ lpc' = "run"
        /\ batch' = pending[queue]
        /\ pending' = [pending EXCEPT ![queue] = <<>>]
    BY <1>3 DEF DrainSwap, AfterSwap
  <2>2. ASSUME NEW q \in Queues
        PROVE  accepted[q] = ran[q] \o (IF q = queue THEN batch' ELSE <<>>) \o pending'[q]
    <3>1. accepted[q] = ran[q] \o (IF q = queue THEN <<>> ELSE <<>>) \o pending[q]
      BY <1>1 DEF FifoInv, FifoOnce
    <3>2. ran[q] \in Seq(Items) /\ pending[q] \in Seq(Items)
      BY <1>0
    <3>3. accepted[q] = ran[q] \o pending[q]
      BY <3>1, <3>2, ConcatEmptySeq
    <3>4. CASE q = queue
      <4>1. batch' = pending[q] /\ pending'[q] = <<>>
        BY <1>0, <2>1, <3>4
      <4>2. ran[q] \o pending[q] \in Seq(Items)
        BY <3>2, ConcatProperties
      <4>3. ran[q] \o pending[q] \o <<>> = ran[q] \o pending[q]
        BY <4>2, ConcatEmptySeq
      <4> QED
        BY <3>3, <3>4, <4>1, <4>3
    <3>5. CASE q # queue
      <4>1. pending'[q] = pending[q]
        BY <1>0, <2>1, <3>5
      <4> QED
        BY <3>1, <3>5, <4>1
    <3> QED
      BY <3>4, <3>5
  <2> QED
    BY <2>1, <2>2 DEF FifoInv, FifoOnce, BatchInDrain
<1> QED
  BY <1>2, <1>3

\* The run of a batch moves its head to the end of what ran.
LEMMA DrainRunFifo ==
    ASSUME DataTypes, FifoInv, DrainRun
    PROVE  FifoInv'
<1>0. /\ pending \in [Queues -> Seq(Items)]
      /\ ran \in [Queues -> Seq(Items)]
      /\ batch \in Seq(Items)
      /\ queue \in Queues
  BY DEF DataTypes
<1>1. CASE batch = <<>>
  <2>1. UNCHANGED <<accepted, ran, batch, pending>>
    BY <1>1 DEF DrainRun
  <2> QED
    BY <1>1, <2>1, QueueChangeFifo DEF FifoInv, BatchInDrain
<1>2. CASE batch # <<>>
  <2>1. /\ UNCHANGED <<accepted, pending, queue>>
        /\ batch' = Tail(batch)
        /\ ran' = [ran EXCEPT ![queue] = Append(@, Head(batch))]
        /\ lpc' = "body" /\ return' = "run"
    BY <1>2 DEF DrainRun
  <2>2. ASSUME NEW q \in Queues
        PROVE  accepted[q] = ran'[q] \o (IF q = queue THEN batch' ELSE <<>>) \o pending[q]
    <3>1. accepted[q] = ran[q] \o (IF q = queue THEN batch ELSE <<>>) \o pending[q]
      BY DEF FifoInv, FifoOnce
    <3>2. CASE q = queue
      <4>1. ran'[q] = Append(ran[q], Head(batch))
        BY <1>0, <2>1, <3>2
      <4>a. \A r, b \in Seq(Items) : b # <<>> => r \o b = Append(r, Head(b)) \o Tail(b)
        BY HeadMoves
      <4>b. ran[q] \in Seq(Items) /\ batch \in Seq(Items)
        BY <1>0
      <4>2. ran[q] \o batch = Append(ran[q], Head(batch)) \o Tail(batch)
        BY <1>2, <4>a, <4>b
      <4> QED
        BY <2>1, <3>1, <3>2, <4>1, <4>2
    <3>3. CASE q # queue
      <4>1. ran'[q] = ran[q]
        BY <1>0, <2>1, <3>3
      <4> QED
        BY <3>1, <3>3, <4>1
    <3> QED
      BY <3>2, <3>3
  <2> QED
    BY <2>1, <2>2 DEF FifoInv, FifoOnce, BatchInDrain
<1> QED
  BY <1>1, <1>2

\* The steps of the clients keep the order.
LEMMA ClientFifo ==
    ASSUME DataTypes, FifoInv, NEW c \in Clients,
           ClientStart(c) \/ ClientContinue(c) \/ WaitUntilStopped(c)
    PROVE  FifoInv'
<1>0. UNCHANGED <<ran, batch, queue, lpc, return>>
  BY DEF ClientStart, ClientContinue, QueueInLoop, PostCoroutine, Post, Quit,
         RequestCoroutineResume, WakeupLoop, SyncLock, SyncDirect, SyncPush,
         SyncWakeup, SyncReturn, WaitUntilStopped
<1>1. \/ UNCHANGED <<pending, accepted>>
      \/ \E q \in Queues, item \in Items : Push(q, item)
  <2>1. ASSUME NEW q \in Queues, Post(c, q)
        PROVE  \/ UNCHANGED <<pending, accepted>>
               \/ \E item \in Items : Push(q, item)
    <3>1. ItemOf(c, FALSE) \in Items
      BY <2>1, PostedIsItem DEF Post, Begin
    <3> QED
      BY <2>1, <3>1 DEF Post
  <2>2. ASSUME SyncPush(c)
        PROVE  \/ UNCHANGED <<pending, accepted>>
               \/ \E item \in Items : Push("callbacks", item)
    <3>1. SyncItem(c) \in Items
      BY PostedIsItem
    <3> QED
      BY <2>2, <3>1 DEF SyncPush, SyncItem
  <2>3. \/ UNCHANGED <<pending, accepted>>
        \/ \E q \in Queues : Post(c, q)
        \/ SyncPush(c)
    BY DEF ClientStart, ClientContinue, QueueInLoop, PostCoroutine, Quit,
           RequestCoroutineResume, WakeupLoop, SyncLock, SyncDirect,
           SyncWakeup, SyncReturn, WaitUntilStopped
  <2> QED
    BY <2>1, <2>2, <2>3
<1>2. BatchInDrain'
  BY <1>0 DEF FifoInv, BatchInDrain
<1>3. FifoOnce'
  <2>1. CASE UNCHANGED <<pending, accepted>>
    BY <1>0, <2>1 DEF FifoInv, FifoOnce
  <2>2. CASE \E q \in Queues, item \in Items : Push(q, item)
    BY <1>0, <2>2, PushFifo
  <2> QED
    BY <1>1, <2>1, <2>2
<1> QED
  BY <1>2, <1>3 DEF FifoInv

\* The steps of the loop thread keep the order.
LEMMA LoopFifo ==
    ASSUME DataTypes, FifoInv,
           EnterLoop \/ LoopStep \/ (\E q \in Queues : BodyPost(q)) \/ BodyExit
    PROVE  FifoInv'
<1>1. CASE DrainSwap
  BY <1>1, DrainSwapFifo
<1>2. CASE DrainRun
  BY <1>2, DrainRunFifo
<1>3. CASE \E q \in Queues : BodyPost(q)
  <2>1. PICK q \in Queues : BodyPost(q)
    BY <1>3
  <2>2. [from |-> TheLoop, n |-> posts + 1, sync |-> FALSE] \in Items
    BY <2>1, PostedIsItem DEF BodyPost
  <2>3. UNCHANGED <<ran, batch, queue, lpc, return>>
    BY <2>1 DEF BodyPost
  <2>4. FifoOnce'
    BY <2>1, <2>2, <2>3, PushFifo DEF BodyPost
  <2> QED
    BY <2>3, <2>4 DEF FifoInv, BatchInDrain
<1>4. CASE BodyReturn
  BY <1>4 DEF FifoInv, FifoOnce, BatchInDrain, BodyReturn
<1>5. CASE BodyExit
  BY <1>5 DEF FifoInv, FifoOnce, BatchInDrain, BodyExit
<1>6. CASE UNCHANGED <<accepted, ran, batch, pending>> /\ lpc \notin {"run", "body"}
  <2>1. batch = <<>>
    BY <1>6 DEF FifoInv, BatchInDrain
  <2> QED
    BY <1>6, <2>1, QueueChangeFifo DEF FifoInv, BatchInDrain
<1>7. \/ DrainSwap \/ DrainRun \/ (\E q \in Queues : BodyPost(q))
      \/ BodyReturn \/ BodyExit
      \/ UNCHANGED <<accepted, ran, batch, pending>> /\ lpc \notin {"run", "body"}
  BY DEF EnterLoop, LoopStep, ResetResume, CheckExit, RunDueTimers, BeginPoll,
         PollReturns, DegradedSleep, DispatchWakeup, DispatchIo, EndDispatch,
         PublishStopped, NotifyStopped
<1> QED
  BY <1>1, <1>2, <1>3, <1>4, <1>5, <1>6, <1>7

\* The invariant from which FifoOnce follows, with what makes it inductive.
LEMMA FifoInductive == Spec => []FifoInv
<1>1. Init => FifoInv
  <2> SUFFICES ASSUME Init PROVE FifoInv
    OBVIOUS
  <2>1. \A q \in Queues : accepted[q] = <<>> /\ ran[q] = <<>> /\ pending[q] = <<>>
    BY DEF Init
  <2>2. batch = <<>>
    BY DEF Init
  <2>3. <<>> \o <<>> \o <<>> = <<>>
    BY SMTT(60)
  <2> QED
    BY <2>1, <2>2, <2>3 DEF FifoInv, FifoOnce, BatchInDrain
<1>2. TypeOK /\ FifoInv /\ [Next]_vars => FifoInv'
  <2> SUFFICES ASSUME TypeOK, FifoInv, [Next]_vars PROVE FifoInv'
    OBVIOUS
  <2>0. DataTypes
    BY TypesSplit
  <2>1. CASE Next
    BY <2>0, <2>1, ClientFifo, LoopFifo DEF Next
  <2>2. CASE UNCHANGED vars
    BY <2>2 DEF FifoInv, FifoOnce, BatchInDrain, vars
  <2> QED
    BY <2>1, <2>2
<1> QED
  BY <1>1, <1>2, TypeCorrect, PTL DEF Spec

\* Each queue hands over what it accepted, once and in the order of the posts.
THEOREM Fifo == Spec => []FifoOnce
<1>1. FifoInv => FifoOnce
  BY DEF FifoInv
<1> QED
  BY <1>1, FifoInductive, PTL
-----------------------------------------------------------------------------
(* The loop does not sleep on work.                                        *)

\* Somebody will end the poll, or the loop has yet to handle who did.
Covered ==
    \/ pipe /\ edge
    \/ "wakeup" \in active \cup deferred
    \/ WakeupOnItsWay

\* An unread byte without an edge has been reported.
PipeInv == pipe => edge \/ "wakeup" \in active \cup deferred

\* The loop is inside a drain, its callbacks included.
Draining == lpc = "run" \/ (lpc = "body" /\ return = "run")

\* Events are at hand only while they are dispatched, and when poll() is called
\* none is left over.
EventsInDispatch ==
    /\ active # {} => lpc = "dispatch" \/ (lpc = "body" /\ return = "dispatch")
    /\ lpc \in {"polling", "blocked"} => deferred = {}

\* The loop has seen quit_ unset and has not begun to poll.
BeforePoll ==
    /\ phase = 1
    /\ \/ lpc \in {"timers", "swap", "run", "poll"}
       \/ lpc = "body" /\ return # "dispatch"

\* The queue q has been swapped out for the last time before the poll.
Swapped(q) ==
    /\ phase = 1
    /\ \/ lpc = "poll"
       \/ Draining /\ (q = "callbacks" \/ queue = "coroutines")
       \/ lpc = "swap" /\ q = "callbacks" /\ queue = "coroutines"

\* What the loop will not look at again before the poll has a wakeup coming, or
\* was posted by a callback, which makes the poll return at once.
WorkCovered ==
    /\ BeforePoll /\ (quit \/ resume) => Covered
    /\ \A q \in Queues : Swapped(q) /\ pending[q] # <<>> => processed \/ Covered
    /\ lpc = "blocked" /\ HasWork => Covered

\* Where the phases lead, and where user code is called from; a callback that a
\* drain runs counts as work.
Places ==
    /\ lpc = "poll" => phase = 1
    /\ lpc = "stop" => phase = 3
    /\ lpc = "body" => \/ return \in {"check", "dispatch"}
                       \/ return = "swap" /\ queue = "callbacks"
                       \/ return = "run" /\ processed

WakeInv == PipeInv /\ EventsInDispatch /\ Places /\ WorkCovered

\* Who writes into the pipe is noticed.
LEMMA WakeupCovers ==
    ASSUME HasWakeupFd, FlagTypes, PipeInv, Wakeup, UNCHANGED <<active, deferred>>
    PROVE  PipeInv' /\ Covered'
<1>0. pipe' = TRUE /\ edge' \in IF pipe THEN {edge, TRUE} ELSE {TRUE}
  BY DEF Wakeup
<1>1. CASE edge' = TRUE
  BY <1>0, <1>1 DEF PipeInv, Covered
<1>2. CASE edge' # TRUE
  <2>1. pipe = TRUE /\ edge' = edge
    BY <1>0, <1>2
  <2>2. "wakeup" \in active \cup deferred
    BY <1>2, <2>1 DEF PipeInv, FlagTypes
  <2>3. "wakeup" \in (active \cup deferred)'
    BY <2>2
  <2> QED
    BY <2>3 DEF PipeInv, Covered
<1> QED
  BY <1>1, <1>2

\* A step that leaves the loop thread where it is, and either has its wakeup
\* coming or brings no work.
LEMMA CoveredStep ==
    ASSUME WakeInv, PipeInv',
           UNCHANGED <<lpc, phase, queue, processed, active, deferred, return>>,
           Covered' \/ (UNCHANGED <<quit, resume, pending>> /\ (Covered => Covered'))
    PROVE  WakeInv'
<1>1. EventsInDispatch' /\ Places'
  BY DEF WakeInv, EventsInDispatch, Places
<1>2. CASE Covered'
  BY <1>1, <1>2 DEF WakeInv, WorkCovered
<1>3. CASE UNCHANGED <<quit, resume, pending>> /\ ~Covered
  <2>1. ~(BeforePoll /\ (quit \/ resume)) /\ ~(lpc = "blocked" /\ HasWork)
    BY <1>3 DEF WakeInv, WorkCovered
  <2>2. ~(BeforePoll /\ (quit \/ resume))' /\ ~(lpc = "blocked" /\ HasWork)'
    BY <1>3, <2>1 DEF BeforePoll, HasWork
  <2>3. \A q \in Queues : Swapped(q) /\ pending[q] # <<>> => processed
    BY <1>3 DEF WakeInv, WorkCovered
  <2>4. \A q \in Queues : Swapped(q)' /\ pending'[q] # <<>> => processed'
    BY <1>3, <2>3 DEF Swapped, Draining
  <2> QED
    BY <1>1, <2>2, <2>4 DEF WakeInv, WorkCovered
<1> QED
  BY <1>2, <1>3

\* The clients write into the pipe after they have posted.
LEMMA ClientWakeInv ==
    ASSUME HasWakeupFd, FlagTypes, DataTypes, WakeInv, NEW c \in Clients,
           ClientStart(c) \/ ClientContinue(c) \/ WaitUntilStopped(c)
    PROVE  WakeInv'
<1>0. UNCHANGED <<lpc, phase, queue, processed, active, deferred, return>>
  BY DEF ClientStart, ClientContinue, QueueInLoop, PostCoroutine, Post, Quit,
     RequestCoroutineResume, WakeupLoop, SyncLock, SyncDirect, SyncPush, SyncWakeup,
     SyncReturn, WaitUntilStopped
<1>a. cpc \in [Clients -> ClientPcs]
  BY DEF DataTypes
<1>1. CASE WakeupLoop(c) \/ SyncWakeup(c)
  <2>1. Wakeup
    BY <1>1 DEF WakeupLoop, SyncWakeup
  <2>2. PipeInv' /\ Covered'
    BY <1>0, <2>1, WakeupCovers DEF WakeInv
  <2> QED
    BY <1>0, <2>2, CoveredStep
<1>2. CASE UNCHANGED wakeupVars /\ cpc'[c] \in {"wakeup", "syncWakeup"}
  <2>1. Covered'
    BY <1>2 DEF Covered, WakeupOnItsWay
  <2>2. PipeInv'
    BY <1>0, <1>2 DEF WakeInv, PipeInv
  <2> QED
    BY <1>0, <2>1, <2>2, CoveredStep
<1>3. CASE /\ UNCHANGED wakeupVars /\ UNCHANGED <<quit, resume, pending>>
           /\ \A d \in Clients : cpc[d] \in {"wakeup", "syncWakeup"} => cpc'[d] = cpc[d]
  <2>1. Covered => Covered'
    BY <1>0, <1>3 DEF Covered, WakeupOnItsWay
  <2>2. PipeInv'
    BY <1>0, <1>3 DEF WakeInv, PipeInv
  <2> QED
    BY ZenonT(60), <1>0, <1>3, <2>1, <2>2, CoveredStep
<1>4. CASE \E q \in Queues : Post(c, q)
  BY <1>a, <1>2, <1>3, <1>4 DEF Post, Goto
<1>5. CASE Quit(c) \/ RequestCoroutineResume(c)
  BY ZenonT(60), <1>a, <1>2, <1>5 DEF Quit, RequestCoroutineResume, Goto
<1>6. CASE SyncLock(c) \/ SyncDirect(c) \/ SyncReturn(c)
  BY ZenonT(60), <1>a, <1>3, <1>6 DEF SyncLock, Begin, SyncDirect, SyncReturn, Goto
<1>7. CASE SyncPush(c)
  BY ZenonT(60), <1>a, <1>2, <1>3, <1>7 DEF SyncPush, Goto
<1>8. CASE WaitUntilStopped(c)
  BY ZenonT(60), <1>a, <1>3, <1>8 DEF WaitUntilStopped, Begin, Goto
<1> QED
  BY ZenonT(60), <1>1, <1>4, <1>5, <1>6, <1>7, <1>8
  DEF ClientStart, ClientContinue, QueueInLoop, PostCoroutine

\* At these places the loop owes nobody a wakeup: it looks at the flags and the
\* queues before it polls again.
LEMMA NothingOwed ==
    ASSUME PipeInv', EventsInDispatch', Places', ~BeforePoll',
           lpc' \notin {"poll", "blocked"}, phase' = 1 => lpc' \notin {"swap", "run"} /\ ~Draining'
    PROVE  WakeInv'
BY DEF WakeInv, WorkCovered, Swapped

\* The bookkeeping of the steps of the loop thread.
LEMMA LoopPlaces ==
    ASSUME FlagTypes, DataTypes, EventsInDispatch, Places,
           EnterLoop \/ LoopStep \/ (\E q \in Queues : BodyPost(q)) \/ BodyExit
    PROVE  EventsInDispatch' /\ Places'
<1>0. phase \in 1..3 /\ queue \in Queues /\ processed \in BOOLEAN
  BY DEF FlagTypes, DataTypes
<1> USE DEF EventsInDispatch, Places
<1>1. CASE EnterLoop
  BY <1>1 DEF EnterLoop
<1>2. CASE ResetResume
  BY <1>2 DEF ResetResume
<1>3. CASE CheckExit
  BY <1>3 DEF CheckExit
<1>4. CASE RunDueTimers
  BY <1>4 DEF RunDueTimers
<1>5. CASE DrainSwap
  BY <1>0, <1>5, SMTT(60) DEF DrainSwap, AfterDrain
<1>6. CASE DrainRun
  BY <1>0, <1>6, SMTT(60) DEF DrainRun, AfterDrain
<1>7. CASE BodyReturn
  BY <1>7 DEF BodyReturn
<1>8. CASE BeginPoll
  BY <1>8 DEF BeginPoll
<1>9. CASE PollReturns \/ DegradedSleep
  BY <1>9 DEF PollReturns, DegradedSleep
<1>10. CASE DispatchWakeup
  BY <1>10 DEF DispatchWakeup
<1>11. CASE DispatchIo
  BY <1>11 DEF DispatchIo
<1>12. CASE EndDispatch
  BY <1>12 DEF EndDispatch
<1>13. CASE PublishStopped
  BY <1>13 DEF PublishStopped
<1>14. CASE NotifyStopped
  BY ZenonT(60), <1>14 DEF NotifyStopped
<1>15. CASE \E q \in Queues : BodyPost(q)
  BY <1>15, SMTT(60) DEF BodyPost
<1>16. CASE BodyExit
  BY <1>16 DEF BodyExit
<1> QED
  BY ZenonT(60), <1>1, <1>2, <1>3, <1>4, <1>5, <1>6, <1>7, <1>8, <1>9, <1>10, <1>11,
     <1>12, <1>13,
     <1>14, <1>15, <1>16, ZenonT(60) DEF LoopStep

\* The bytes in the pipe stay noticed when the loop thread moves.
LEMMA LoopPipe ==
    ASSUME HasWakeupFd, FlagTypes, DataTypes, EventsInDispatch, PipeInv,
           EnterLoop \/ LoopStep \/ (\E q \in Queues : BodyPost(q)) \/ BodyExit
    PROVE  PipeInv'
<1>1. CASE UNCHANGED <<pipe, edge, active, deferred>>
  BY <1>1 DEF PipeInv
<1>2. CASE BodyExit
  <2>1. Wakeup /\ UNCHANGED <<active, deferred>>
    BY <1>2 DEF BodyExit
  <2> QED
    BY <2>1, WakeupCovers
<1>3. CASE BeginPoll /\ deferred # {}
  <2>1. active = {} /\ active' = deferred /\ UNCHANGED <<pipe, edge>>
    BY <1>3 DEF BeginPoll, EventsInDispatch
  <2> QED
    BY <2>1 DEF PipeInv
<1>4. CASE PollReturns
  <2>1. active = {} /\ deferred = {} /\ UNCHANGED pipe
    BY <1>4 DEF PollReturns, EventsInDispatch
  <2>2. pipe => edge
    BY <2>1 DEF PipeInv
  <2>3. pipe => "wakeup" \in active'
    BY <1>4, <2>2 DEF PollReturns
  <2> QED
    BY <2>1, <2>3 DEF PipeInv
<1>5. CASE DispatchWakeup
  BY <1>5 DEF DispatchWakeup, PipeInv
<1>6. CASE DispatchIo
  <2>1. active' = active \ {"io"} /\ UNCHANGED <<pipe, edge, deferred>>
    BY <1>6 DEF DispatchIo
  <2>2. "wakeup" \in active => "wakeup" \in active'
    BY <2>1
  <2> QED
    BY <2>1, <2>2 DEF PipeInv
<1>7. CASE EndDispatch
  <2>1. active \cup deferred = (active \cup deferred)' /\ UNCHANGED <<pipe, edge>>
    BY ZenonT(60), <1>7 DEF EndDispatch
  <2> QED
    BY <2>1 DEF PipeInv
<1>8. \/ BodyExit \/ PollReturns \/ DispatchWakeup \/ DispatchIo \/ EndDispatch
      \/ (BeginPoll /\ deferred # {}) \/ UNCHANGED <<pipe, edge, active, deferred>>
  BY ZenonT(60)
     DEF EnterLoop, LoopStep, ResetResume, CheckExit, RunDueTimers, DrainSwap,
     DrainRun, BodyReturn, BeginPoll, DegradedSleep, PublishStopped, NotifyStopped, BodyPost
<1> QED
  BY ZenonT(60), <1>1, <1>2, <1>3, <1>4, <1>5, <1>6, <1>7, <1>8

\* A step of the loop thread that neither writes the pipe nor takes an event, and
\* leaves to the poll only what was left to it before.
LEMMA OwedBefore ==
    ASSUME WakeInv, PipeInv', EventsInDispatch', Places',
           UNCHANGED <<quit, resume, pipe, edge, active, deferred, cpc>>,
           BeforePoll' => BeforePoll, lpc' # "blocked",
           \A q \in Queues : Swapped(q)' /\ pending'[q] # <<>> =>
               processed' \/ (Swapped(q) /\ pending[q] # <<>> /\ (processed => processed'))
    PROVE  WakeInv'
<1>1. Covered <=> Covered'
  BY DEF Covered, WakeupOnItsWay
<1>2. BeforePoll' /\ (quit' \/ resume') => Covered'
  BY <1>1 DEF WakeInv, WorkCovered
<1>3. \A q \in Queues : Swapped(q)' /\ pending'[q] # <<>> => processed' \/ Covered'
  BY <1>1 DEF WakeInv, WorkCovered
<1> QED
  BY <1>2, <1>3 DEF WakeInv, WorkCovered

\* The drains leave to the poll what was posted behind them.
LEMMA DrainWakeInv ==
    ASSUME FlagTypes, DataTypes, WakeInv, PipeInv', EventsInDispatch', Places',
           DrainSwap \/ DrainRun
    PROVE  WakeInv'
<1>0. /\ phase \in 1..3 /\ queue \in Queues /\ processed \in BOOLEAN
      /\ pending \in [Queues -> Seq(Items)]
  BY DEF FlagTypes, DataTypes
<1>1. /\ UNCHANGED <<quit, resume, pipe, edge, active, deferred, cpc, phase>>
      /\ lpc \in {"swap", "run"}
  BY DEF DrainSwap, DrainRun
<1>2. lpc' # "blocked"
  BY <1>0, SMTT(60) DEF DrainSwap, DrainRun, AfterDrain
<1>3. BeforePoll' => BeforePoll
  BY <1>1 DEF BeforePoll
<1>4. ASSUME NEW q \in Queues, Swapped(q)', pending'[q] # <<>>
      PROVE  processed' \/ (Swapped(q) /\ pending[q] # <<>> /\ (processed => processed'))
  <2>1. CASE DrainSwap
    BY <1>0, <1>4, <2>1 DEF DrainSwap, AfterDrain, AfterSwap, Swapped, Draining
  <2>2. CASE DrainRun /\ batch = <<>>
    BY <1>0, <1>4, <2>2 DEF DrainRun, AfterDrain, Swapped, Draining
  <2>3. CASE DrainRun /\ batch # <<>>
    BY <2>3 DEF DrainRun
  <2> QED
    BY <2>1, <2>2, <2>3
<1> QED
  BY <1>1, <1>2, <1>3, <1>4, OwedBefore

\* The invariant survives every step of the loop thread.
LEMMA LoopWakeInv ==
    ASSUME HasWakeupFd, FlagTypes, DataTypes, WakeInv,
           EnterLoop \/ LoopStep \/ (\E q \in Queues : BodyPost(q)) \/ BodyExit
    PROVE  WakeInv'
<1>0. PipeInv' /\ EventsInDispatch' /\ Places'
  BY LoopPipe, LoopPlaces DEF WakeInv
<1>a. Places /\ phase \in 1..3 /\ queue \in Queues /\ processed \in BOOLEAN
  BY DEF FlagTypes, DataTypes, WakeInv
<1>1. CASE EnterLoop \/ ResetResume \/ PollReturns \/ DispatchWakeup \/ DispatchIo
           \/ EndDispatch \/ NotifyStopped \/ PublishStopped \/ (CheckExit /\ ExitRequested)
           \/ (BeginPoll /\ (deferred # {} \/ processed))
  <2>1. ASSUME EnterLoop \/ ResetResume \/ PollReturns \/ NotifyStopped
        PROVE  lpc' \in {"reset", "check", "dispatch", "out"}
    BY <2>1 DEF EnterLoop, ResetResume, PollReturns, NotifyStopped
  <2>2. ASSUME DispatchWakeup \/ DispatchIo
        PROVE  lpc' = "dispatch" \/ (lpc' = "body" /\ return' = "dispatch")
    BY <2>2 DEF DispatchWakeup, DispatchIo
  <2>3. ASSUME EndDispatch \/ PublishStopped \/ (CheckExit /\ ExitRequested)
        PROVE  phase' \in {2, 3} /\ lpc' \in {"swap", "notify"}
    BY <2>3, <1>a DEF EndDispatch, PublishStopped, CheckExit, Places
  <2>4. ASSUME BeginPoll /\ (deferred # {} \/ processed)
        PROVE  lpc' \in {"dispatch", "polling"}
    BY <2>4 DEF BeginPoll, PollAtOnce
  <2>5. /\ ~BeforePoll' /\ lpc' \notin {"poll", "blocked"}
        /\ phase' = 1 => lpc' \notin {"swap", "run"} /\ ~Draining'
    BY <1>1, <2>1, <2>2, <2>3, <2>4, SMTT(60) DEF BeforePoll, Draining
  <2> QED
    BY <1>0, <2>5, NothingOwed
<1>2. CASE CheckExit /\ ~ExitRequested
  <2>1. ~quit' /\ ~resume' /\ lpc' = "timers"
    BY <1>2 DEF CheckExit, ExitRequested
  <2>2. \A q \in Queues : ~Swapped(q)'
    BY <2>1 DEF Swapped, Draining
  <2> QED
    BY <1>0, <2>1, <2>2 DEF WakeInv, WorkCovered
<1>3. CASE RunDueTimers \/ BodyReturn \/ (\E q \in Queues : BodyPost(q))
  <2>1. UNCHANGED <<quit, resume, pipe, edge, active, deferred, cpc>>
    BY <1>3 DEF RunDueTimers, BodyReturn, BodyPost
  <2>2. (BeforePoll' => BeforePoll) /\ lpc' # "blocked"
    BY <1>3, <1>a DEF RunDueTimers, BodyReturn, BodyPost, BeforePoll, Places
  <2>3. ASSUME NEW q \in Queues, Swapped(q)', pending'[q] # <<>>
        PROVE  processed' \/ (Swapped(q) /\ pending[q] # <<>> /\ (processed => processed'))
    BY <1>3, <1>a, <2>3
       DEF RunDueTimers, BodyReturn, BodyPost, Swapped, Draining, Places
  <2> QED
    BY ZenonT(60), <1>0, <2>1, <2>2, <2>3, OwedBefore
<1>4. CASE DrainSwap \/ DrainRun
  BY <1>0, <1>4, DrainWakeInv
<1>5. CASE BodyExit
  <2>1. Wakeup /\ UNCHANGED <<lpc, phase, queue, processed, active, deferred, return>>
    BY <1>5 DEF BodyExit
  <2>2. Covered'
    BY <2>1, WakeupCovers DEF WakeInv
  <2> QED
    BY <1>0, <2>1, <2>2, CoveredStep
<1>6. CASE BeginPoll /\ deferred = {} /\ ~processed
  <2>1. /\ lpc = "poll" /\ lpc' = "blocked"
        /\ UNCHANGED <<quit, resume, pending, pipe, edge, active, deferred, cpc>>
    BY <1>6 DEF BeginPoll, PollAtOnce
  <2>2. HasWork' => Covered
    <3>1. BeforePoll /\ \A q \in Queues : Swapped(q)
      BY <1>a, <2>1 DEF BeforePoll, Swapped, Places
    <3>2. (quit \/ resume => Covered) /\ \A q \in Queues : pending[q] # <<>> => Covered
      BY <1>6, <3>1 DEF WakeInv, WorkCovered
    <3> QED
      BY <2>1, <3>2 DEF HasWork
  <2>3. Covered => Covered'
    BY <2>1 DEF Covered, WakeupOnItsWay
  <2>4. ~BeforePoll' /\ \A q \in Queues : ~Swapped(q)'
    BY <2>1 DEF BeforePoll, Swapped, Draining
  <2> QED
    BY <1>0, <2>2, <2>3, <2>4 DEF WakeInv, WorkCovered
<1>7. ~DegradedSleep
  BY DEF DegradedSleep
<1> QED
  BY ZenonT(60), <1>1, <1>2, <1>3, <1>4, <1>5, <1>6, <1>7 DEF LoopStep

LEMMA InitWakeInv == Init => WakeInv
BY DEF Init, WakeInv, PipeInv, EventsInDispatch, Places, WorkCovered, BeforePoll,
   Swapped, Draining

\* NoSleepOnWork holds for any clients and bounds: whoever posts, quits or asks
\* for a resume before the loop blocks in poll() ends that poll.
THEOREM NoLostWakeup == Spec => []NoSleepOnWork
<1> DEFINE Inv == HasWakeupFd => WakeInv
<1>1. Init => Inv
  BY InitWakeInv
<1>2. TypeOK /\ Inv /\ [Next]_vars => Inv'
  <2> SUFFICES ASSUME TypeOK, HasWakeupFd, WakeInv, [Next]_vars PROVE WakeInv'
    OBVIOUS
  <2>0. FlagTypes /\ DataTypes
    BY TypesSplit
  <2>1. CASE Next
    BY <2>0, <2>1, ClientWakeInv, LoopWakeInv DEF Next
  <2>2. CASE UNCHANGED vars
    BY <2>2, ZenonT(120)
       DEF vars, WakeInv, PipeInv, EventsInDispatch, Places, WorkCovered,
       BeforePoll, Swapped, Draining, Covered, WakeupOnItsWay, HasWork
  <2> QED
    BY <2>1, <2>2
<1>3. Inv => NoSleepOnWork
  <2> SUFFICES ASSUME WakeInv, lpc = "blocked", HasWork
               PROVE  (pipe /\ edge) \/ WakeupOnItsWay
    BY DEF NoSleepOnWork
  <2>1. Covered
    BY DEF WakeInv, WorkCovered
  <2>2. active = {} /\ deferred = {}
    BY DEF WakeInv, EventsInDispatch
  <2> QED
    BY <2>1, <2>2 DEF Covered
<1> QED
  BY <1>1, <1>2, <1>3, TypeCorrect, PTL DEF Spec

-----------------------------------------------------------------------------
(* No call of run_in_loop_sync() is stranded.                              *)

Waiting(c) == cpc[c] \in {"syncWakeup", "syncWait"} /\ ~future[c]

\* Where the operation of a waiting client is.
Ahead(c) ==
    \/ InSeq(SyncItem(c), pending["callbacks"])
    \/ queue = "callbacks" /\ InSeq(SyncItem(c), batch)
    \/ lpc = "body" /\ current = SyncItem(c)

LEMMA ServedIs ==
    SyncCallsServed <=> \A c \in Clients : Waiting(c) => state = "running" /\ Ahead(c)
BY DEF SyncCallsServed, Waiting, Ahead

\* What is in a sequence stays in it when something is appended; so is what is.
LEMMA InAppended ==
    ASSUME NEW s \in Seq(Items), NEW y \in Items
    PROVE  /\ InSeq(y, Append(s, y))
           /\ \A x : InSeq(x, s) => InSeq(x, Append(s, y))
<1>1. /\ Len(s) \in Nat /\ Len(Append(s, y)) = Len(s) + 1
      /\ Append(s, y)[Len(s) + 1] = y
      /\ \A i \in 1..Len(s) : Append(s, y)[i] = s[i]
  BY SMTT(60)
<1>2. Len(s) + 1 \in 1..Len(Append(s, y)) /\ 1..Len(s) \subseteq 1..Len(Append(s, y))
  BY <1>1, SMTT(60)
<1> QED
  BY <1>1, <1>2 DEF InSeq

LEMMA InEmpty == \A x : ~InSeq(x, <<>>)
BY SMTT(60) DEF InSeq

\* Popping the front leaves the rest.
LEMMA InPopped ==
    ASSUME NEW s \in Seq(Items), s # <<>>, NEW x, InSeq(x, s)
    PROVE  x = Head(s) \/ InSeq(x, Tail(s))
<1>1. PICK i \in 1..Len(s) : s[i] = x
  BY DEF InSeq
<1>2. CASE i = 1
  BY <1>1, <1>2, SMTT(60)
<1>3. CASE i # 1
  <2>1. i - 1 \in 1..Len(Tail(s)) /\ Tail(s)[i - 1] = s[i]
    BY <1>1, <1>3, SMTT(60)
  <2> QED
    BY <1>1, <2>1 DEF InSeq
<1> QED
  BY <1>2, <1>3

\* A push takes nothing out of the queue.
LEMMA PushKeeps ==
    ASSUME DataTypes, NEW q \in Queues, NEW y \in Items, Push(q, y), NEW x,
           InSeq(x, pending["callbacks"])
    PROVE  InSeq(x, pending'["callbacks"])
<1>0. pending \in [Queues -> Seq(Items)] /\ pending' = [pending EXCEPT ![q] = Append(@, y)]
  BY DEF DataTypes, Push
<1>1. pending["callbacks"] \in Seq(Items)
  BY <1>0
<1>2. pending'["callbacks"] \in {pending["callbacks"], Append(pending["callbacks"], y)}
  BY <1>0
<1> QED
  BY <1>1, <1>2, InAppended

\* A client's own step puts its operation into the queue before it waits, and no
\* other client takes it out.
LEMMA ClientServed ==
    ASSUME FlagTypes, DataTypes, SyncCallsServed, NEW d \in Clients,
           ClientStart(d) \/ ClientContinue(d) \/ WaitUntilStopped(d)
    PROVE  SyncCallsServed'
<1> SUFFICES ASSUME NEW c \in Clients, Waiting(c)'
             PROVE  (state = "running" /\ Ahead(c))'
  BY DEF SyncCallsServed, Waiting, Ahead
<1>0. /\ cpc \in [Clients -> ClientPcs] /\ ops \in [Clients -> 0..MaxOps]
      /\ future \in [Clients -> BOOLEAN] /\ pending \in [Queues -> Seq(Items)]
  BY DEF FlagTypes, DataTypes
<1>1. UNCHANGED <<state, lpc, queue, batch, current>>
  BY DEF ClientStart, ClientContinue, QueueInLoop, PostCoroutine, Post, Quit,
     RequestCoroutineResume, WakeupLoop, SyncLock, SyncDirect, SyncPush, SyncWakeup,
     SyncReturn, WaitUntilStopped
<1>2. ASSUME Waiting(c), ops'[c] = ops[c],
             InSeq(SyncItem(c), pending["callbacks"]) => InSeq(SyncItem(c), pending'["callbacks"])
      PROVE  (state = "running" /\ Ahead(c))'
  <2>1. state = "running" /\ Ahead(c)
    BY <1>2, ServedIs
  <2>2. SyncItem(c)' = SyncItem(c)
    BY <1>2 DEF SyncItem
  <2> QED
    BY <1>1, <1>2, <2>1, <2>2 DEF Ahead
<1>3. ASSUME NEW pc \in ClientPcs \ {"syncWakeup", "syncWait"}, Goto(d, pc),
             ops' = [ops EXCEPT ![d] = @ + 1] \/ UNCHANGED ops,
             UNCHANGED future \/ future' = [future EXCEPT ![d] = FALSE]
      PROVE  Waiting(c) /\ ops'[c] = ops[c]
  <2>1. c # d
    BY <1>0, <1>3 DEF Goto, Waiting
  <2> QED
    BY <1>0, <1>3, <2>1 DEF Goto, Waiting
<1>4. CASE \E q \in Queues : Post(d, q)
  <2>1. PICK q \in Queues : Post(d, q)
    BY <1>4
  <2>2. CASE Refused
    <3>1. UNCHANGED <<cpc, future, pending>> /\ cpc[d] = "idle" /\ ops' = [ops EXCEPT ![d] = @ + 1]
      BY <2>1, <2>2 DEF Post, Begin
    <3>2. Waiting(c) /\ ops'[c] = ops[c]
      BY <1>0, <3>1 DEF Waiting
    <3> QED
      BY <1>2, <3>1, <3>2
  <2>3. CASE ~Refused
    <3>1. /\ Push(q, ItemOf(d, FALSE)) /\ Goto(d, "wakeup") /\ ops[d] < MaxOps
          /\ ops' = [ops EXCEPT ![d] = @ + 1] /\ UNCHANGED future
      BY <2>1, <2>3 DEF Post, Begin
    <3>2. Waiting(c) /\ ops'[c] = ops[c]
      BY <1>3, <3>1 DEF ClientPcs
    <3>3. ItemOf(d, FALSE) \in Items
      BY <3>1, PostedIsItem
    <3> QED
      BY <1>2, <3>1, <3>2, <3>3, PushKeeps
  <2> QED
    BY <2>2, <2>3
<1>5. CASE Quit(d) \/ RequestCoroutineResume(d) \/ WakeupLoop(d) \/ SyncLock(d)
           \/ SyncDirect(d) \/ SyncReturn(d) \/ WaitUntilStopped(d)
           \/ (SyncPush(d) /\ state # "running")
  <2>a. \/ Goto(d, "idle") \/ Goto(d, "wakeup")
        \/ Goto(d, IF state \in {"created", "stopped"} THEN "direct" ELSE "syncPush")
        \/ Goto(d, IF state \in {"created", "stopped"} THEN "idle" ELSE "cvWait")
    BY <1>5 DEF Quit, RequestCoroutineResume, WakeupLoop, SyncLock, SyncDirect,
       SyncReturn, WaitUntilStopped, SyncPush
  <2>1. PICK pc \in ClientPcs \ {"syncWakeup", "syncWait"} : Goto(d, pc)
    BY <2>a DEF ClientPcs
  <2>2. /\ ops' = [ops EXCEPT ![d] = @ + 1] \/ UNCHANGED ops
        /\ UNCHANGED future \/ future' = [future EXCEPT ![d] = FALSE]
        /\ UNCHANGED pending
    BY <1>5 DEF Quit, RequestCoroutineResume, WakeupLoop, SyncLock, SyncDirect,
       SyncReturn, WaitUntilStopped, SyncPush, Begin
  <2> QED
    BY ZenonT(60), <1>2, <1>3, <2>1, <2>2
<1>6. CASE SyncWakeup(d)
  <2>1. cpc[d] = "syncWakeup" /\ Goto(d, "syncWait") /\ UNCHANGED <<ops, future, pending>>
    BY <1>6 DEF SyncWakeup
  <2>2. Waiting(c) /\ ops'[c] = ops[c]
    BY <1>0, <2>1 DEF Goto, Waiting
  <2> QED
    BY <1>2, <2>1, <2>2
<1>7. CASE SyncPush(d) /\ state = "running"
  <2>1. /\ Push("callbacks", SyncItem(d)) /\ Goto(d, "syncWakeup")
        /\ UNCHANGED <<ops, future, state>>
    BY <1>7 DEF SyncPush, SyncItem
  <2>2. SyncItem(d) \in Items
    BY PostedIsItem
  <2>3. CASE c = d
    <3>1. pending'["callbacks"] = Append(pending["callbacks"], SyncItem(d))
      BY <1>0, <2>1 DEF Push
    <3>2. InSeq(SyncItem(d), pending'["callbacks"])
      BY <1>0, <2>2, <3>1, InAppended
    <3>3. SyncItem(d)' = SyncItem(d)
      BY <2>1 DEF SyncItem
    <3> QED
      BY <1>7, <2>1, <2>3, <3>2, <3>3 DEF Ahead
  <2>4. CASE c # d
    <3>1. Waiting(c) /\ ops'[c] = ops[c]
      BY <1>0, <2>1, <2>4 DEF Goto, Waiting
    <3> QED
      BY <1>2, <2>1, <2>2, <3>1, PushKeeps
  <2> QED
    BY <2>3, <2>4
<1> QED
  BY <1>4, <1>5, <1>6, <1>7 DEF ClientStart, ClientContinue, QueueInLoop, PostCoroutine

\* The loop takes an operation out of the queue only to run it, and publishes
\* `stopped' only when none is left.
LEMMA LoopServed ==
    ASSUME FlagTypes, DataTypes, BatchInDrain, SyncCallsServed,
           EnterLoop \/ LoopStep \/ (\E q \in Queues : BodyPost(q)) \/ BodyExit
    PROVE  SyncCallsServed'
<1> SUFFICES ASSUME NEW c \in Clients, Waiting(c)'
             PROVE  (state = "running" /\ Ahead(c))'
  BY DEF SyncCallsServed, Waiting, Ahead
<1>0. /\ cpc \in [Clients -> ClientPcs] /\ future \in [Clients -> BOOLEAN]
      /\ pending \in [Queues -> Seq(Items)] /\ batch \in Seq(Items) /\ queue \in Queues
  BY DEF FlagTypes, DataTypes
<1>1. SyncItem(c)' = SyncItem(c)
  <2>1. UNCHANGED ops
    BY DEF EnterLoop, LoopStep, ResetResume, CheckExit, RunDueTimers, DrainSwap,
       DrainRun, BodyReturn, BeginPoll, PollReturns, DegradedSleep, DispatchWakeup, DispatchIo,
       EndDispatch, PublishStopped, NotifyStopped, BodyPost, BodyExit
  <2> QED
    BY <2>1 DEF SyncItem
<1>2. Waiting(c)
  <2>1. CASE UNCHANGED <<cpc, future>>
    BY <2>1 DEF Waiting
  <2>2. CASE BodyReturn
    BY <1>0, <2>2 DEF BodyReturn, PromiseSet, Waiting
  <2>3. CASE NotifyStopped
    BY ZenonT(60), <1>0, <2>3 DEF NotifyStopped, AfterNotify, Waiting
  <2>4. BodyReturn \/ NotifyStopped \/ UNCHANGED <<cpc, future>>
    BY DEF EnterLoop, LoopStep, ResetResume, CheckExit, RunDueTimers, DrainSwap,
       DrainRun, BeginPoll, PollReturns, DegradedSleep, DispatchWakeup, DispatchIo,
       EndDispatch, PublishStopped, BodyPost, BodyExit
  <2> QED
    BY <2>1, <2>2, <2>3, <2>4
<1>3. state = "running" /\ Ahead(c)
  BY <1>2, ServedIs
<1>4. ASSUME lpc # "body", ~(lpc = "run"), UNCHANGED <<pending, batch>>
      PROVE  Ahead(c)'
  <2>1. batch = <<>>
    BY <1>4 DEF BatchInDrain
  <2>2. InSeq(SyncItem(c), pending["callbacks"])
    BY <1>3, <1>4, <2>1, InEmpty DEF Ahead
  <2> QED
    BY <1>1, <1>4, <2>2 DEF Ahead
<1>5. CASE \/ ResetResume \/ CheckExit \/ RunDueTimers \/ BeginPoll \/ PollReturns
           \/ DegradedSleep \/ DispatchWakeup \/ DispatchIo \/ EndDispatch \/ NotifyStopped
           \/ EnterLoop
  <2>1. /\ lpc # "body" /\ lpc # "run" /\ UNCHANGED <<pending, batch>>
        /\ state' = "running" \/ UNCHANGED state
    BY <1>5 DEF EnterLoop, ResetResume, CheckExit, RunDueTimers, BeginPoll,
       PollReturns, DegradedSleep, DispatchWakeup, DispatchIo, EndDispatch, NotifyStopped
  <2> QED
    BY <1>3, <1>4, <2>1
<1>6. CASE PublishStopped
  <2>1. lpc = "stop" /\ UNCHANGED <<pending, batch>>
    BY <1>6 DEF PublishStopped
  <2>2. Ahead(c)'
    BY <1>4, <2>1
  <2>3. InSeq(SyncItem(c), pending["callbacks"])
    <3>1. batch = <<>>
      BY <2>1 DEF BatchInDrain
    <3> QED
      BY <1>3, <2>1, <3>1, InEmpty DEF Ahead
  <2>4. pending["callbacks"] # <<>>
    BY <2>3, InEmpty
  <2>5. UNCHANGED state
    BY <1>6, <2>4 DEF PublishStopped, NothingPending
  <2> QED
    BY <1>3, <2>2, <2>5
<1>7. CASE DrainSwap
  <2>1. lpc = "swap" /\ UNCHANGED state
    BY <1>7 DEF DrainSwap
  <2>2. CASE pending[queue] = <<>> \/ queue # "callbacks"
    <3>1. batch = <<>>
      BY <2>1 DEF BatchInDrain
    <3>2. InSeq(SyncItem(c), pending["callbacks"])
      BY <1>3, <2>1, <3>1, InEmpty DEF Ahead
    <3>3. pending'["callbacks"] = pending["callbacks"]
      BY <1>0, <1>7, <2>2 DEF DrainSwap, AfterSwap
    <3> QED
      BY <1>1, <1>3, <2>1, <3>2, <3>3 DEF Ahead
  <2>3. CASE pending[queue] # <<>> /\ queue = "callbacks"
    <3>1. batch = <<>> /\ batch' = pending["callbacks"] /\ queue' = "callbacks"
      BY <1>7, <2>1, <2>3 DEF DrainSwap, BatchInDrain
    <3>2. InSeq(SyncItem(c), pending["callbacks"])
      BY <1>3, <2>1, <3>1, InEmpty DEF Ahead
    <3> QED
      BY <1>1, <1>3, <2>1, <3>1, <3>2 DEF Ahead
  <2> QED
    BY <2>2, <2>3
<1>8. CASE DrainRun
  <2>1. lpc = "run" /\ UNCHANGED <<state, pending>>
    BY <1>8 DEF DrainRun
  <2>2. CASE InSeq(SyncItem(c), pending["callbacks"])
    BY <1>1, <1>3, <2>1, <2>2 DEF Ahead
  <2>3. CASE queue = "callbacks" /\ InSeq(SyncItem(c), batch)
    <3>1. batch # <<>>
      BY <2>3, InEmpty
    <3>2. current' = Head(batch) /\ batch' = Tail(batch) /\ lpc' = "body" /\ UNCHANGED queue
      BY <1>8, <3>1 DEF DrainRun
    <3>3. SyncItem(c) = Head(batch) \/ InSeq(SyncItem(c), Tail(batch))
      BY <1>0, <2>3, <3>1, InPopped
    <3> QED
      BY <1>1, <1>3, <2>1, <2>3, <3>2, <3>3 DEF Ahead
  <2> QED
    BY <1>3, <2>1, <2>2, <2>3 DEF Ahead
<1>9. CASE BodyReturn
  <2>1. UNCHANGED <<state, pending, batch, queue>> /\ future' = [e \in Clients |-> PromiseSet(e)]
    BY <1>9 DEF BodyReturn
  <2>2. current # SyncItem(c)
    <3>1. ~future'[c]
      BY DEF Waiting
    <3>2. ~PromiseSet(c)
      BY <2>1, <3>1
    <3> QED
      BY <3>2, SMTT(60) DEF PromiseSet, SyncItem
  <2> QED
    BY <1>1, <1>3, <2>1, <2>2 DEF Ahead
<1>10. CASE \E q \in Queues : BodyPost(q)
  <2>1. PICK q \in Queues : BodyPost(q)
    BY <1>10
  <2>2. /\ posts < MaxLoopPosts /\ Push(q, [from |-> TheLoop, n |-> posts + 1, sync |-> FALSE])
        /\ UNCHANGED <<state, batch, queue, current, lpc>>
    BY <2>1 DEF BodyPost
  <2>3. [from |-> TheLoop, n |-> posts + 1, sync |-> FALSE] \in Items
    BY <2>2, PostedIsItem
  <2>4. InSeq(SyncItem(c), pending["callbacks"]) => InSeq(SyncItem(c), pending'["callbacks"])
    BY <2>2, <2>3, PushKeeps
  <2> QED
    BY <1>1, <1>3, <2>2, <2>4 DEF Ahead
<1>11. CASE BodyExit
  <2>1. UNCHANGED <<state, pending, batch, queue, current, lpc>>
    BY <1>11 DEF BodyExit
  <2> QED
    BY <1>1, <1>3, <2>1 DEF Ahead
<1> QED
  BY ZenonT(60), <1>5, <1>6, <1>7, <1>8, <1>9, <1>10, <1>11 DEF LoopStep

\* SyncCallsServed holds for any clients and bounds: the operation that a caller
\* of run_in_loop_sync() blocks on is still ahead of a running loop.
THEOREM NoCallStranded == Spec => []SyncCallsServed
<1>1. Init => SyncCallsServed
  BY DEF Init, SyncCallsServed
<1>2. TypeOK /\ FifoInv /\ SyncCallsServed /\ [Next]_vars => SyncCallsServed'
  <2> SUFFICES ASSUME TypeOK, FifoInv, SyncCallsServed, [Next]_vars PROVE SyncCallsServed'
    OBVIOUS
  <2>0. FlagTypes /\ DataTypes /\ BatchInDrain
    BY TypesSplit DEF FifoInv
  <2>1. CASE Next
    BY <2>0, <2>1, ClientServed, LoopServed DEF Next
  <2>2. CASE UNCHANGED vars
    BY <2>2 DEF vars, SyncCallsServed, SyncItem
  <2> QED
    BY <2>1, <2>2
<1> QED
  BY <1>1, <1>2, FifoInductive, TypeCorrect, PTL DEF Spec

=============================================================================
