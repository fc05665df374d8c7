---------------------------- MODULE MCCoroutines ----------------------------
(* Small instances of StreamAwaiters, RpcSession and ExternalFd: a behaviour*)
(* is one of one of them; the variables of the others keep their first      *)
(* values.                                                                  *)
EXTENDS MCStreamAwaiters, MCRpcSession, ExternalFd

VARIABLE part

all_vars == <<part, stream_vars, rpc_vars, vars>>

MCInit ==
    /\ part \in {"stream", "rpc", "fd"}
    /\ StreamInit /\ RpcInit /\ Init
    /\ part # "stream" =>
          /\ env = CHOOSE e \in Envs : TRUE
          /\ coroutines = CHOOSE s \in SetToSeqs({<<c, 0>> : c \in Coroutines}) : TRUE
    /\ part # "rpc" => rpc_env = CHOOSE e \in RpcEnvs : TRUE

\* The part that runs, and what its steps leave alone.
A == part = "stream" /\ UNCHANGED <<part, rpc_vars, vars>>
R == part = "rpc" /\ UNCHANGED <<part, stream_vars, vars>>
X == part = "fd" /\ UNCHANGED <<part, stream_vars, rpc_vars>>

MCNext ==
    \/ A /\ Callback
    \/ A /\ Resume
    \/ A /\ Body
    \/ A /\ Wrote
    \/ A /\ Closing
    \/ A /\ Flush
    \/ A /\ Drained
    \/ A /\ CloseConn
    \/ A /\ DoClose
    \/ A /\ ClearEventWaiters
    \/ A /\ NotifyRead
    \/ A /\ EndOfInput
    \/ A /\ FinishClosing
    \/ A /\ Written
    \/ A /\ AfterWritable
    \/ \E c \in Coroutines : A /\ Timeout(c)
    \/ A /\ OthersClose
    \/ A /\ ReadEvent
    \/ A /\ WriteEvent
    \/ A /\ DrainCoroutine
    \/ A /\ NextPhase
    \/ \E c \in Calls : \/ R /\ Suspend(c)
                        \/ R /\ Create(c)
                        \/ R /\ SendFrame(c)
                        \/ R /\ SendFails(c)
    \/ \E t \in Threads : \/ R /\ CompleteEntry(t)
                          \/ R /\ ResumeCoroutine(t)
    \/ \E s \in Sides : \/ R /\ DecodeEnds(s)
                        \/ \E n \in 1..4 : R /\ Receive(s, n)
    \/ R /\ HandleResponse
    \/ R /\ HandleRequest
    \/ R /\ Push
    \/ R /\ TransportCloses
    \/ R /\ PollTimeouts
    \/ X /\ LoopStart
    \/ X /\ LoopStop
    \/ X /\ LoopRun
    \/ \E c \in Clients :
          \/ X /\ LoopClose(c)
          \/ X /\ Construct(c)
          \/ X /\ Close(c)
          \/ X /\ Direct(c)
          \/ X /\ Mutate(c)
          \/ X /\ Finish(c)
          \/ X /\ SyncLock(c)
          \/ X /\ SyncPush(c)
          \/ X /\ SyncTrue(c)
          \/ X /\ SyncFalse(c)
          \/ X /\ Dropped(c)
          \/ X /\ WaitUntilStopped(c)

\* StreamFairness, RpcFairness and that of ExternalFd, of the part that runs.
MCFairness ==
    /\ WF_all_vars(A /\ (Step \/ DrainCoroutine \/ NextPhase))
    /\ \A c \in Coroutines : SF_all_vars(A /\ Timeout(c))
    /\ \A t \in Threads : WF_all_vars(R /\ ((t \in Calls /\ Await(t)) \/ Handlers(t)))
    /\ WF_all_vars(R /\ Expire(Timed))
    /\ WF_all_vars(X /\ LoopRun)
    /\ \A c \in Clients : WF_all_vars(X /\ ClientStep(c))

MCSpec == MCInit /\ [][MCNext]_all_vars /\ MCFairness
=============================================================================
