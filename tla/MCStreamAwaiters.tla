-------------------------- MODULE MCStreamAwaiters --------------------------
(* StreamAwaiters for TLC: a reader and a writer, as in a protocol session. *)
EXTENDS StreamAwaiters

CONSTANTS r, w

MCCoroutines == {r, w}

\* One coroutine reads and one writes, with timeouts; a send never fails inside
\* an await_suspend(), and nobody else closes while a flush can be awaited.
MCEnvs ==
    {[uses |-> (r :> {"read"}) @@ (w :> {"write", "close"}), others_close |-> TRUE,
      sync_errors |-> FALSE, timeouts |-> TRUE],
     [uses |-> (r :> {"read"}) @@ (w :> {"write", "flush", "close"}), others_close |-> FALSE,
      sync_errors |-> FALSE, timeouts |-> TRUE]}

\* Two coroutines read, without timeouts.
TwoReaders ==
    {[uses |-> [c \in {r, w} |-> {"read"}], others_close |-> FALSE,
      sync_errors |-> FALSE, timeouts |-> FALSE]}
====
