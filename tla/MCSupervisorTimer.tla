------------------------- MODULE MCSupervisorTimer -------------------------
(* Small instances of Supervisor and of HeapTimer: a behaviour is one of    *)
(* the one or of the other, whose variables then keep their first values.   *)
EXTENDS MCSupervisor, HeapTimer

\* after(), every(1) with two firings, and every(1), whose period is -1.
AllRepeats == {<<0, 0>>, <<1, 2>>, <<1, -1>>}

VARIABLE part

all_vars == <<part, sup_vars, vars>>

MCInit ==
    /\ part \in {"supervisor", "timer"}
    /\ SupInit /\ Init
    /\ part # "supervisor" => sup_env = CHOOSE e \in SupEnvs : TRUE

\* The part that runs, and what its steps leave alone.
S == part = "supervisor" /\ UNCHANGED <<part, vars>>
T == part = "timer" /\ UNCHANGED <<part, sup_vars>>

MCNext ==
    \/ \E w \in Workers :
          \/ S /\ ProcessEnds(w)
          \/ S /\ LateStarts(w)
          \/ S /\ RunReturns(w)
          \/ S /\ ThreadEnds(w)
          \/ \E outcome \in Outcomes : S /\ StartWorker(w, outcome)
    \/ S /\ RunDone
    \/ S /\ WaitCheck
    \/ S /\ PollProcesses
    \/ S /\ PollThreads
    \/ S /\ Look
    \/ S /\ Sleep
    \/ S /\ ShutdownBegins
    \/ S /\ ReapMore
    \/ S /\ KillRest
    \/ S /\ ReapRest
    \/ S /\ JoinAll
    \/ S /\ Leave
    \/ T /\ Advance
    \/ T /\ Wake
    \/ T /\ TickBegin
    \/ T /\ DropTop
    \/ T /\ Trigger
    \/ T /\ CallbackReturn
    \/ T /\ TickEnd
    \/ T /\ PollBegin
    \/ T /\ PollDropTop
    \/ T /\ PollSleep
    \/ \E t \in Timers : T /\ Client(t)

\* SupFairness and that of HeapTimer, of the part that runs.
MCFairness ==
    /\ WF_all_vars(S /\ Supervise)
    /\ \A w \in Workers : /\ WF_all_vars(S /\ (LateStarts(w) \/ ThreadEnds(w)))
                          /\ WF_all_vars(S /\ boot.w[w].stopping /\ RunReturns(w))
    /\ WF_all_vars(T /\ LoopStep)
    /\ WF_all_vars(T /\ Advance)

MCSpec == MCInit /\ [][MCNext]_all_vars /\ MCFairness
=============================================================================
