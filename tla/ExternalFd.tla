----------------------------- MODULE ExternalFd -----------------------------
(***************************************************************************)
(* EventLoop::ExternalFdRegistration, used by threads other than the loop  *)
(* thread while the loop starts and stops: the constructor and close(),    *)
(* update_channel() and close_channel() with their choice between working  *)
(* directly and marshalling through run_in_loop_sync(), and                *)
(* wait_until_stopped().  One registration per client thread.  The loop is *)
(* reduced to its lifecycle and its callback queue (module EventLoop has   *)
(* the rest); channels_, the poller and the kernel to "is the channel of   *)
(* this registration in channels_" (module ChannelRegistry has the rest).  *)
(***************************************************************************)
EXTENDS Naturals, Sequences

CONSTANTS
    Clients,    \* threads other than the loop thread
    MaxRuns,    \* bound: calls of loop()
    EarlyCalls, \* may clients register before loop() is called?
    NoOne

ASSUME ExternalFdAssumption ==
    /\ MaxRuns \in Nat \ {0}
    /\ EarlyCalls \in BOOLEAN
    /\ NoOne \notin Clients

VARIABLES
    running,    \* loop_running_, and state_ = running
    runs,       \* calls of loop() so far
    queue,      \* pending_callbacks_: the clients waiting in run_in_loop_sync
    setup,      \* holder of setup_mutex_
    registered, \* channels_ has the channel of the registration
    status,     \* ExternalFdRegistrationState::status
    active,     \* Impl::active
    freed,      \* Impl::state has been reset: the channel is destroyed
    op,         \* what the client does: the constructor or close()
    call,       \* the call marshalled: the operation or the channel call in it
    pc,
    refused     \* history: the operations whose channel call was refused

loopVars == <<running, runs>>
lockVars == <<queue, setup>>
regVars == <<registered, status, active, freed>>
vars == <<loopVars, lockVars, regVars, op, call, pc, refused>>

Init ==
    /\ running = FALSE
    /\ runs = 0
    /\ queue = <<>>
    /\ setup = NoOne
    /\ registered = [c \in Clients |-> FALSE]
    /\ status = [c \in Clients |-> "pending"]
    /\ active = [c \in Clients |-> FALSE]
    /\ freed = [c \in Clients |-> FALSE]
    /\ op = [c \in Clients |-> "none"]
    /\ call = [c \in Clients |-> "none"]
    /\ pc = [c \in Clients |-> "idle"]
    /\ refused = [c \in Clients |-> {}]

Goto(c, label) == pc' = [pc EXCEPT ![c] = label]

Released(c) == IF setup = c THEN NoOne ELSE setup

-----------------------------------------------------------------------------
(* The loop thread.                                                        *)

LoopStart ==
    /\ ~running
    /\ runs < MaxRuns
    /\ setup = NoOne
    /\ running' = TRUE
    /\ runs' = runs + 1
    /\ UNCHANGED <<lockVars, regVars, op, call, pc, refused>>

\* Mutant: the loop leaves without a last look at the queue.
LastLookNone == TRUE
LastLook == queue = <<>>

\* quit() or a coroutine resume has been asked for and all is drained.
LoopStop ==
    /\ running
    /\ LastLook
    /\ running' = FALSE
    /\ UNCHANGED <<runs, lockVars, regVars, op, call, pc, refused>>

\* register_on_loop(), close_on_loop() or the channel call within, on the loop
\* thread, by drain_callbacks().
LoopRun ==
    LET c == Head(queue) IN
    /\ running
    /\ queue # <<>>
    /\ queue' = Tail(queue)
    /\ registered' = [registered EXCEPT ![c] = op[c] = "construct"]
    /\ status' = IF call[c] = "operation"
                 THEN [status EXCEPT ![c] = IF op[c] = "construct"
                                            THEN "registered" ELSE "closed"]
                 ELSE status
    /\ Goto(c, "syncTrue")
    /\ UNCHANGED <<loopVars, setup, active, freed, op, call, refused>>

\* A handler on the loop thread calls close().
LoopClose(c) ==
    /\ running
    /\ active[c]
    /\ pc[c] = "idle"
    /\ active' = [active EXCEPT ![c] = FALSE]
    /\ registered' = [registered EXCEPT ![c] = FALSE]
    /\ status' = [status EXCEPT ![c] = "closed"]
    /\ freed' = [freed EXCEPT ![c] = TRUE]
    /\ UNCHANGED <<loopVars, lockVars, op, call, pc, refused>>

-----------------------------------------------------------------------------
(* The constructor and close() on a client thread.                         *)

\* is_running() decides between the direct way and run_in_loop_sync().
ByState(c) == Goto(c, IF running THEN "syncLock" ELSE "direct")

Construct(c) ==
    /\ pc[c] = "idle"
    /\ op[c] = "none"
    /\ EarlyCalls \/ runs > 0
    /\ op' = [op EXCEPT ![c] = "construct"]
    /\ call' = [call EXCEPT ![c] = "operation"]
    /\ active' = [active EXCEPT ![c] = TRUE]
    /\ ByState(c)
    /\ UNCHANGED <<loopVars, lockVars, registered, status, freed, refused>>

\* active.exchange(false) lets one caller through.
Close(c) ==
    /\ pc[c] = "idle"
    /\ active[c]
    /\ op' = [op EXCEPT ![c] = "close"]
    /\ call' = [call EXCEPT ![c] = "operation"]
    /\ active' = [active EXCEPT ![c] = FALSE]
    /\ ByState(c)
    /\ UNCHANGED <<loopVars, lockVars, registered, status, freed, refused>>

\* register_on_loop() or close_on_loop() on the client's own thread, up to the
\* check of loop_running_ in update_channel() or close_channel().
Direct(c) ==
    LET calls == op[c] = "construct" \/ status[c] = "registered" IN
    /\ pc[c] = "direct"
    /\ status' = IF op[c] = "close" THEN [status EXCEPT ![c] = "closing"] ELSE status
    /\ call' = [call EXCEPT ![c] = "channel"]
    /\ Goto(c, IF ~calls THEN "finish" ELSE IF running THEN "syncLock" ELSE "mutate")
    /\ UNCHANGED <<loopVars, lockVars, registered, active, freed, op, refused>>

\* update_channel() or close_channel() work on channels_ and the poller.
Mutate(c) ==
    /\ pc[c] = "mutate"
    /\ registered' = [registered EXCEPT ![c] = op[c] = "construct"]
    /\ Goto(c, "finish")
    /\ UNCHANGED <<loopVars, lockVars, status, active, freed, op, call, refused>>

\* The end of the operation: register_on_loop() or close_on_loop() sets its
\* status; close() resets the shared state; setup_mutex_ is released if the
\* operation ran inside run_in_loop_sync().
Finish(c) ==
    /\ pc[c] = "finish"
    /\ status' = [status EXCEPT ![c] = IF op[c] = "construct"
                                       THEN "registered" ELSE "closed"]
    /\ freed' = [freed EXCEPT ![c] = op[c] = "close"]
    /\ setup' = Released(c)
    /\ Goto(c, "idle")
    /\ UNCHANGED <<loopVars, queue, registered, active, op, call, refused>>

-----------------------------------------------------------------------------
(* run_in_loop_sync().                                                     *)

SetupFree == setup = NoOne

\* Without a loop the call is made here, under setup_mutex_.
SyncLock(c) ==
    /\ pc[c] = "syncLock"
    /\ SetupFree
    /\ setup' = c
    /\ Goto(c, IF running THEN "syncPush"
               ELSE IF call[c] = "operation" THEN "direct" ELSE "mutate")
    /\ UNCHANGED <<loopVars, queue, regVars, op, call, refused>>

Pushed(c) == Append(queue, c)

SyncPush(c) ==
    /\ pc[c] = "syncPush"
    /\ IF running
       THEN /\ queue' = Pushed(c)
            /\ Goto(c, "wait")
       ELSE /\ UNCHANGED queue
            /\ Goto(c, "syncFalse")
    /\ UNCHANGED <<loopVars, setup, regVars, op, call, refused>>

\* The promise was set: the constructor returns, close() resets the state.  The
\* channel calls go on.
SyncTrue(c) ==
    /\ pc[c] = "syncTrue"
    /\ setup' = Released(c)
    /\ freed' = [freed EXCEPT ![c] = call[c] = "operation" /\ op[c] = "close"]
    /\ Goto(c, IF call[c] = "operation" THEN "idle" ELSE "finish")
    /\ UNCHANGED <<loopVars, queue, registered, status, active, op, call, refused>>

\* Mutant: close() does not work the operation off itself.
AfterFalseNone(c) ==
    IF call[c] = "channel" THEN "finish" ELSE "dropped"
\* What follows when run_in_loop_sync() returns false.  The channel calls
\* ignore it.
AfterFalse(c) ==
    IF call[c] = "channel" THEN "finish"
    ELSE IF op[c] = "close" THEN "waitStopped" ELSE "dropped"

SyncFalse(c) ==
    /\ pc[c] = "syncFalse"
    /\ setup' = Released(c)
    /\ refused' = IF call[c] = "channel"
                  THEN [refused EXCEPT ![c] = @ \cup {op[c]}] ELSE refused
    /\ Goto(c, AfterFalse(c))
    /\ UNCHANGED <<loopVars, queue, regVars, op, call>>

\* The constructor gives up: nothing was registered.
Dropped(c) ==
    /\ pc[c] = "dropped"
    /\ active' = [active EXCEPT ![c] = FALSE]
    /\ status' = [status EXCEPT ![c] = "closed"]
    /\ freed' = [freed EXCEPT ![c] = TRUE]
    /\ Goto(c, "idle")
    /\ UNCHANGED <<loopVars, lockVars, registered, op, call, refused>>

WaitUntilStopped(c) ==
    /\ pc[c] = "waitStopped"
    /\ ~running
    /\ Goto(c, "direct")
    /\ UNCHANGED <<loopVars, lockVars, regVars, op, call, refused>>

-----------------------------------------------------------------------------
ClientStep(c) ==
    \/ Direct(c)
    \/ Mutate(c)
    \/ Finish(c)
    \/ SyncLock(c)
    \/ SyncPush(c)
    \/ SyncTrue(c)
    \/ SyncFalse(c)
    \/ Dropped(c)
    \/ WaitUntilStopped(c)

LoopStep ==
    \/ LoopStart
    \/ LoopStop
    \/ LoopRun
    \/ \E c \in Clients : LoopClose(c)

Next ==
    \/ LoopStep
    \/ \E c \in Clients : Construct(c) \/ Close(c) \/ ClientStep(c)

Spec == Init /\ [][Next]_vars

\* Threads go on; drain_callbacks() runs in every round of the loop.  Neither
\* calls of loop(), nor requests to stop, nor calls of close() are assumed.
FairSpec ==
    Spec /\ WF_vars(LoopRun) /\ \A c \in Clients : WF_vars(ClientStep(c))

-----------------------------------------------------------------------------
(* Properties.                                                             *)

\* Which channels are destroyed while channels_ still points to them, however the
\* calls fall before, between and after the runs of loop(): those that were put
\* there and whose close_channel() was refused by run_in_loop_sync(), because the
\* loop stopped in between; close_on_loop() does not learn of it.  No others.
LostOnlyIfRefused ==
    \A c \in Clients : freed[c] => (registered[c] <=> refused[c] = {"close"})

\* A constructor or a close() that has begun returns, wherever the loop stops; one
\* that waits in wait_until_stopped() may find the loop running again.
CallsReturn ==
    \A c \in Clients :
        pc[c] # "idle" ~> pc[c] = "idle" \/ (pc[c] = "waitStopped" /\ running)
=============================================================================
