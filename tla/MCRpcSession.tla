---------------------------- MODULE MCRpcSession ----------------------------
EXTENDS RpcSession, TLC
CONSTANTS x, y
Own == (x :> 1) @@ (y :> 2)
Shared == (x :> 1) @@ (y :> 1)
\* Failures, with coroutine ids from next_id() and timeouts longer than a send;
\* or none, with ids the caller reuses and timeouts of any length.
MCRpcEnvs ==
    {[timed |-> t, co |-> Own, failures |-> TRUE, slow_sends |-> FALSE,
      bad_frames |-> TRUE] : t \in {{}, {x, y}}}
    \cup {[timed |-> {x}, co |-> Shared, failures |-> FALSE,
           slow_sends |-> TRUE, bad_frames |-> TRUE]}
=============================================================================
