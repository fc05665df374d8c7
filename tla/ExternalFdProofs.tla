-------------------------- MODULE ExternalFdProofs --------------------------
(***************************************************************************)
(* Which channels of ExternalFdRegistrations are destroyed while channels_ *)
(* points to them, for any set of client threads, any number of runs of    *)
(* loop() and calls before, between and after them.                        *)
(***************************************************************************)
EXTENDS ExternalFd, TLAPS

USE DEF loopVars, lockVars, regVars

Pcs == {"idle", "direct", "mutate", "finish", "syncLock", "syncPush", "wait",
        "syncTrue", "syncFalse", "dropped", "waitStopped"}

\* The labels of run_in_loop_sync() behind its lock.
HoldsSetup == {"syncPush", "wait", "syncTrue", "syncFalse"}

Types ==
    /\ running \in BOOLEAN
    /\ runs \in Nat
    /\ registered \in [Clients -> BOOLEAN]
    /\ status \in [Clients -> {"pending", "registered", "closing", "closed"}]
    /\ active \in [Clients -> BOOLEAN]
    /\ freed \in [Clients -> BOOLEAN]
    /\ op \in [Clients -> {"none", "construct", "close"}]
    /\ call \in [Clients -> {"none", "operation", "channel"}]
    /\ pc \in [Clients -> Pcs]
    /\ refused \in [Clients -> SUBSET {"construct", "close"}]

\* At most one client waits, because setup_mutex_ is held meanwhile.
OneWaits ==
    /\ queue = <<>> \/ \E c \in Clients : queue = <<c>> /\ pc[c] = "wait"
    /\ \A c \in Clients : pc[c] \in HoldsSetup => setup = c

\* How the label of a client, its operation and the marshalled call belong together.
Stages ==
    \A c \in Clients :
        /\ active[c] => op[c] = "construct" /\ ~freed[c]
        /\ pc[c] # "idle" => op[c] # "none" /\ ~freed[c]
        /\ pc[c] \in {"direct", "dropped", "waitStopped"} => call[c] = "operation"
        /\ pc[c] \in {"mutate", "finish"} => call[c] = "channel"
        /\ pc[c] \in {"syncLock", "syncPush", "wait", "syncTrue", "syncFalse"}
              => call[c] \in {"operation", "channel"}
        /\ pc[c] = "dropped" => op[c] = "construct"
        /\ pc[c] = "waitStopped" => op[c] = "close"
        /\ op[c] = "construct" /\ pc[c] # "idle" => active[c]
        /\ op[c] = "none" => ~freed[c]

\* The channel is in channels_ once its registration was made.
Kept(c) == registered[c] <=> refused[c] = {}

\* Who is in channels_ at each stage, and what was refused until then.
Agreement ==
    \A c \in Clients :
        /\ "close" \in refused[c] => op[c] = "close" /\ pc[c] \in {"finish", "idle"}
        /\ op[c] = "none" =>
              ~registered[c] /\ refused[c] = {} /\ status[c] = "pending"
        /\ op[c] = "construct" =>
              /\ pc[c] \notin {"idle", "syncTrue", "finish"} =>
                    ~registered[c] /\ refused[c] = {} /\ status[c] = "pending"
              /\ pc[c] = "syncTrue" =>
                    /\ registered[c] /\ refused[c] = {}
                    /\ call[c] = "operation" => status[c] = "registered"
              /\ pc[c] = "finish" => Kept(c)
              /\ pc[c] = "idle" /\ active[c] => Kept(c) /\ status[c] = "registered"
              /\ pc[c] = "idle" /\ ~active[c] => ~registered[c]
        /\ op[c] = "close" =>
              /\ pc[c] \notin {"idle", "syncTrue", "finish"} =>
                    /\ Kept(c)
                    /\ call[c] = "operation" => status[c] = "registered"
              /\ pc[c] = "syncTrue" => ~registered[c]
              /\ pc[c] \in {"finish", "idle"} => (registered[c] <=> refused[c] = {"close"})

IInv == Types /\ OneWaits /\ Stages /\ Agreement

-----------------------------------------------------------------------------
\* Before the first registration nothing is in channels_.
LEMMA InitIInv == Init => IInv
<1> SUFFICES ASSUME Init PROVE IInv
  OBVIOUS
<1>1. Types
  BY ZenonT(60) DEF Init, Types, Pcs
<1>2. OneWaits
  BY SMTT(60) DEF Init, OneWaits, HoldsSetup
<1>3. Stages /\ Agreement
  BY SMTT(60) DEF Init, Stages, Agreement, Kept
<1> QED
  BY <1>1, <1>2, <1>3 DEF IInv

\* Every step keeps the invariant: the client that takes it moves from one of its
\* stages to the next, and the stages of the others do not change.
LEMMA StepIInv ==
    ASSUME IInv, Next
    PROVE  IInv'
<1> USE ExternalFdAssumption DEF IInv, Types, Pcs, OneWaits, Stages, Agreement,
       Kept, HoldsSetup
<1>1. CASE LoopStart
  <2>1. Types'
    BY <1>1, SMTT(60) DEF LoopStart
  <2>2. OneWaits'
    BY <1>1, SMTT(60) DEF LoopStart
  <2>3. Stages'
    BY <1>1, SMTT(60) DEF LoopStart
  <2>4. Agreement'
    BY <1>1, SMTT(60) DEF LoopStart
  <2> QED
    BY <2>1, <2>2, <2>3, <2>4
<1>2. CASE LoopStop
  <2>1. Types'
    BY <1>2, ZenonT(60) DEF LoopStop
  <2>2. OneWaits'
    BY <1>2, SMTT(60) DEF LoopStop
  <2>3. Stages'
    BY <1>2, SMTT(60) DEF LoopStop
  <2>4. Agreement'
    BY <1>2, SMTT(60) DEF LoopStop
  <2> QED
    BY <2>1, <2>2, <2>3, <2>4
<1>3. CASE LoopRun
  <2> PICK c \in Clients : queue = <<c>> /\ pc[c] = "wait"
    BY <1>3 DEF LoopRun
  <2>1. Head(queue) = c /\ Tail(queue) = <<>>
    BY SMTT(60)
  <2>2. Types'
    BY <1>3, <2>1, SMTT(60) DEF LoopRun, Goto
  <2>3. OneWaits'
    BY <1>3, <2>1, SMTT(60) DEF LoopRun, Goto
  <2>4. Stages'
    BY <1>3, <2>1, SMTT(60) DEF LoopRun, Goto
  <2>5. Agreement'
    BY <1>3, <2>1, SMTT(60) DEF LoopRun, Goto
  <2> QED
    BY <2>2, <2>3, <2>4, <2>5
<1>4. ASSUME NEW c \in Clients, LoopClose(c) PROVE IInv'
  <2>1. Types'
    BY <1>4, SMTT(60) DEF LoopClose
  <2>2. OneWaits'
    BY <1>4, SMTT(60) DEF LoopClose
  <2>3. Stages'
    BY <1>4, SMTT(60) DEF LoopClose
  <2>4. Agreement'
    BY <1>4, SMTT(60) DEF LoopClose
  <2> QED
    BY <2>1, <2>2, <2>3, <2>4
<1>5. ASSUME NEW c \in Clients, Construct(c) PROVE IInv'
  <2>1. Types'
    BY <1>5, SMTT(60) DEF Construct, ByState, Goto
  <2>2. OneWaits'
    BY <1>5, SMTT(60) DEF Construct, ByState, Goto
  <2>3. Stages'
    BY <1>5, SMTT(60) DEF Construct, ByState, Goto
  <2>4. Agreement'
    BY <1>5, SMTT(60) DEF Construct, ByState, Goto
  <2> QED
    BY <2>1, <2>2, <2>3, <2>4
<1>6. ASSUME NEW c \in Clients, Close(c) PROVE IInv'
  <2>1. Types'
    BY <1>6, SMTT(60) DEF Close, ByState, Goto
  <2>2. OneWaits'
    BY <1>6, SMTT(60) DEF Close, ByState, Goto
  <2>3. Stages'
    BY <1>6, SMTT(60) DEF Close, ByState, Goto
  <2>4. Agreement'
    BY <1>6, SMTT(60) DEF Close, ByState, Goto
  <2> QED
    BY <2>1, <2>2, <2>3, <2>4
<1>7. ASSUME NEW c \in Clients, Direct(c) PROVE IInv'
  <2>1. Types'
    BY <1>7, SMTT(60) DEF Direct, Goto
  <2>2. OneWaits'
    BY <1>7, SMTT(60) DEF Direct, Goto
  <2>3. Stages'
    BY <1>7, SMTT(60) DEF Direct, Goto
  <2>4. Agreement'
    BY <1>7, SMTT(60) DEF Direct, Goto
  <2> QED
    BY <2>1, <2>2, <2>3, <2>4
<1>8. ASSUME NEW c \in Clients, Mutate(c) PROVE IInv'
  <2>1. Types'
    BY <1>8, SMTT(60) DEF Mutate, Goto
  <2>2. OneWaits'
    BY <1>8, SMTT(60) DEF Mutate, Goto
  <2>3. Stages'
    BY <1>8, SMTT(60) DEF Mutate, Goto
  <2>4. Agreement'
    BY <1>8, SMTT(60) DEF Mutate, Goto
  <2> QED
    BY <2>1, <2>2, <2>3, <2>4
<1>9. ASSUME NEW c \in Clients, Finish(c) PROVE IInv'
  <2>1. Types'
    BY <1>9, SMTT(60) DEF Finish, Goto, Released
  <2>2. OneWaits'
    BY <1>9, SMTT(60) DEF Finish, Goto, Released
  <2>3. Stages'
    BY <1>9, SMTT(60) DEF Finish, Goto, Released
  <2>4. Agreement'
    BY <1>9, SMTT(60) DEF Finish, Goto, Released
  <2> QED
    BY <2>1, <2>2, <2>3, <2>4
<1>10. ASSUME NEW c \in Clients, SyncLock(c) PROVE IInv'
  <2>1. Types'
    BY <1>10, SMTT(60) DEF SyncLock, SetupFree, Goto
  <2>2. OneWaits'
    BY <1>10, SMTT(60) DEF SyncLock, SetupFree, Goto
  <2>3. Stages'
    BY <1>10, SMTT(60) DEF SyncLock, SetupFree, Goto
  <2>4. Agreement'
    BY <1>10, SMTT(60) DEF SyncLock, SetupFree, Goto
  <2> QED
    BY <2>1, <2>2, <2>3, <2>4
<1>11. ASSUME NEW c \in Clients, SyncPush(c) PROVE IInv'
  <2>1. Types'
    BY <1>11, SMTT(60) DEF SyncPush, Pushed, Goto
  <2>2. OneWaits'
    <3>1. queue = <<>> /\ setup = c
      BY <1>11 DEF SyncPush
    <3>2. Append(queue, c) = <<c>>
      BY <3>1
    <3> QED
      BY <1>11, <3>1, <3>2, SMTT(60) DEF SyncPush, Pushed, Goto
  <2>3. Stages'
    BY <1>11, SMTT(60) DEF SyncPush, Pushed, Goto
  <2>4. Agreement'
    BY <1>11, SMTT(60) DEF SyncPush, Pushed, Goto
  <2> QED
    BY <2>1, <2>2, <2>3, <2>4
<1>12. ASSUME NEW c \in Clients, SyncTrue(c) PROVE IInv'
  <2>1. Types'
    BY <1>12, SMTT(60) DEF SyncTrue, Goto, Released
  <2>2. OneWaits'
    BY <1>12, SMTT(60) DEF SyncTrue, Goto, Released
  <2>3. Stages'
    BY <1>12, SMTT(60) DEF SyncTrue, Goto, Released
  <2>4. Agreement'
    BY <1>12, SMTT(60) DEF SyncTrue, Goto, Released
  <2> QED
    BY <2>1, <2>2, <2>3, <2>4
<1>13. ASSUME NEW c \in Clients, SyncFalse(c) PROVE IInv'
  <2>1. Types'
    BY <1>13, SMTT(60) DEF SyncFalse, AfterFalse, Goto, Released
  <2>2. OneWaits'
    BY <1>13, SMTT(60) DEF SyncFalse, AfterFalse, Goto, Released
  <2>3. Stages'
    BY <1>13, SMTT(60) DEF SyncFalse, AfterFalse, Goto, Released
  <2>4. CASE call[c] = "channel" /\ op[c] = "construct"
    BY <1>13, <2>1, <2>2, <2>3, <2>4, SMTT(60) DEF SyncFalse, AfterFalse, Goto
  <2>5. CASE call[c] = "channel" /\ op[c] = "close"
    BY <1>13, <2>1, <2>2, <2>3, <2>5, SMTT(60) DEF SyncFalse, AfterFalse, Goto
  <2>6. CASE call[c] = "operation"
    BY <1>13, <2>1, <2>2, <2>3, <2>6, SMTT(60) DEF SyncFalse, AfterFalse, Goto
  <2> QED
    BY <1>13, <2>4, <2>5, <2>6 DEF SyncFalse
<1>14. ASSUME NEW c \in Clients, Dropped(c) PROVE IInv'
  <2>1. Types'
    BY <1>14, SMTT(60) DEF Dropped, Goto
  <2>2. OneWaits'
    BY <1>14, SMTT(60) DEF Dropped, Goto
  <2>3. Stages'
    BY <1>14, SMTT(60) DEF Dropped, Goto
  <2>4. Agreement'
    BY <1>14, SMTT(60) DEF Dropped, Goto
  <2> QED
    BY <2>1, <2>2, <2>3, <2>4
<1>15. ASSUME NEW c \in Clients, WaitUntilStopped(c) PROVE IInv'
  <2>1. Types'
    BY <1>15, SMTT(60) DEF WaitUntilStopped, Goto
  <2>2. OneWaits'
    BY <1>15, SMTT(60) DEF WaitUntilStopped, Goto
  <2>3. Stages'
    BY <1>15, SMTT(60) DEF WaitUntilStopped, Goto
  <2>4. Agreement'
    BY <1>15, SMTT(60) DEF WaitUntilStopped, Goto
  <2> QED
    BY <2>1, <2>2, <2>3, <2>4
<1> QED
  BY ZenonT(60), <1>1, <1>2, <1>3, <1>4, <1>5, <1>6, <1>7, <1>8, <1>9, <1>10, <1>11, <1>12,
     <1>13, <1>14, <1>15
  DEF Next, LoopStep, ClientStep

\* close(), a handler's close() and a constructor that gives up destroy a Channel that
\* channels_ points to exactly if close_channel() was refused by run_in_loop_sync(), for
\* any clients, whenever they call and however often loop() is entered again.
THEOREM Lifetime == Spec => []LostOnlyIfRefused
<1>1. IInv /\ [Next]_vars => IInv'
  <2> SUFFICES ASSUME IInv, [Next]_vars PROVE IInv'
    OBVIOUS
  <2>1. CASE Next
    BY <2>1, StepIInv
  <2>2. CASE UNCHANGED vars
    BY <2>2, SMTT(60) DEF IInv, Types, OneWaits, Stages, Agreement, Kept, vars
  <2> QED
    BY <2>1, <2>2
<1>2. IInv => LostOnlyIfRefused
  BY SMTT(60) DEF IInv, Types, Stages, Agreement, Kept, LostOnlyIfRefused
<1> QED
  BY InitIInv, <1>1, <1>2, PTL DEF Spec
=============================================================================
