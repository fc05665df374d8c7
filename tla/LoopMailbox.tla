----------------------------- MODULE LoopMailbox -----------------------------
(***************************************************************************)
(* What a queue of EventLoop promises to the threads that post to it: the  *)
(* posts it accepts are served one at a time, each of them once, in the    *)
(* order of acceptance, only while the loop is open; the loop closes only  *)
(* when nothing is left to serve; and an open loop keeps serving.          *)
(***************************************************************************)
EXTENDS Naturals, Sequences

CONSTANT Items

VARIABLES
    open,       \* is a thread inside loop()?
    accepted,   \* the posts accepted so far
    served      \* the posts served so far

vars == <<open, accepted, served>>

Init ==
    /\ open = FALSE
    /\ accepted = <<>>
    /\ served = <<>>

Accept ==
    /\ \E item \in Items : accepted' = Append(accepted, item)
    /\ UNCHANGED <<open, served>>

Serve ==
    /\ open
    /\ Len(served) < Len(accepted)
    /\ served' = Append(served, accepted[Len(served) + 1])
    /\ UNCHANGED <<open, accepted>>

Open ==
    /\ ~open
    /\ open' = TRUE
    /\ UNCHANGED <<accepted, served>>

Close ==
    /\ open
    /\ served = accepted
    /\ open' = FALSE
    /\ UNCHANGED <<accepted, served>>

Next == Accept \/ Serve \/ Open \/ Close

Spec == Init /\ [][Next]_vars

FairSpec == Spec /\ WF_vars(Serve)
=============================================================================
