---------------------- MODULE MCConnectionDeployment ----------------------
(* Small instances of TcpConnection and of Deployment: a behaviour is one   *)
(* of the one or of the other, whose variables then keep their first values.*)
EXTENDS TcpConnection, MCDeployment

VARIABLE part

all_vars == <<part, vars, dep_vars>>

MCInit ==
    /\ part \in {"connection", "deployment"}
    /\ Init /\ DepInit
    /\ part # "connection" => conn.state = "connected"
    /\ part # "deployment" => dep_env = CHOOSE e \in DepEnvs : TRUE

\* The part that runs, and what its steps leave alone.
C == part = "connection" /\ UNCHANGED <<part, dep_vars>>
D == part = "deployment" /\ UNCHANGED <<part, vars>>

MCNext ==
    \/ C /\ Write
    \/ C /\ WriteAndFlush
    \/ C /\ WriteOwnedAndFlush
    \/ C /\ WriteRawAndFlush
    \/ C /\ Flush
    \/ C /\ Drained
    \/ C /\ ShutdownWrite
    \/ C /\ Close
    \/ C /\ Abort
    \/ C /\ DoClose
    \/ C /\ Closed
    \/ C /\ Cleanup
    \/ C /\ OnReadEvent
    \/ C /\ OnWriteEvent
    \/ C /\ Read
    \/ C /\ Readable
    \/ C /\ PeerClosed
    \/ C /\ AfterShutdown
    \/ C /\ Ready
    \/ C /\ Flushed
    \/ C /\ Notified
    \/ C /\ Written
    \/ C /\ UserReturns
    \/ C /\ UserCalls
    \/ C /\ TakeInput
    \/ C /\ OnEvent
    \/ C /\ RunQueued
    \/ C /\ Dispatch
    \/ C /\ Establish
    \/ C /\ PeerSend
    \/ C /\ PeerFin
    \/ C /\ PeerReset
    \/ C /\ PeerRead
    \/ \E w \in DOMAIN wk :
          \/ D /\ Build(w)
          \/ D /\ InitOne(w)
          \/ D /\ InitDone(w)
          \/ \E k \in DOMAIN wk[w].svc : D /\ StartOne(w, k)
          \/ D /\ StartDone(w)
          \/ D /\ RunQueue(w)
          \/ D /\ Undone(w)
          \/ \E who \in {"worker", "boss"} : D /\ StopOne(w, who)
          \/ \E who \in {"worker", "boss"} : D /\ StopDone(w, who)
          \/ D /\ LoopReturns(w)
    \/ D /\ Prepare
    \/ D /\ LaunchWorker
    \/ D /\ WorkerReady
    \/ D /\ TimesOut
    \/ D /\ BootDone
    \/ D /\ Shutdown
    \/ D /\ ShutWorker
    \/ D /\ ShutNext
    \/ D /\ JoinWorkers
    \/ D /\ KillAll

\* The fairness of TcpConnection and DepFairness, of the part that runs.
MCFairness ==
    /\ WF_all_vars(C /\ Methods)
    /\ WF_all_vars(C /\ OnEvent)
    /\ WF_all_vars(C /\ RunQueued)
    /\ WF_all_vars(C /\ PeerRead)
    /\ WF_all_vars(D /\ DepStep)

MCSpec == MCInit /\ [][MCNext]_all_vars /\ MCFairness
=============================================================================
