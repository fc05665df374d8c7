---------------------------- MODULE MCSupervisor ----------------------------
(* Small instances of Supervisor.                                          *)
EXTENDS Supervisor

CONSTANTS w1, w2

Config(mode, restart, max, window, threshold) ==
    [mode |-> mode, restart |-> restart, max |-> max, window |-> window,
     threshold |-> threshold]

\* Processes with the circuit, and the counts of runtime_context.h.
CircuitEnvs == {Config("process", TRUE, 1, 2, 3)}

\* Threads and processes with and without the circuit, a recovery window and, of
\* threads, restarts at all.
MCSupEnvs ==
    {Config("thread", TRUE, 1, 2, 0), Config("thread", TRUE, 1, 2, 2),
     Config("thread", TRUE, 1, 0, 0), Config("thread", FALSE, 1, 2, 2),
     Config("process", TRUE, 1, 2, 0), Config("process", TRUE, 1, 0, 0)}
    \cup CircuitEnvs
=============================================================================
