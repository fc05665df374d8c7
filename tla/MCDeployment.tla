---------------------------- MODULE MCDeployment ----------------------------
(* Small instances of Deployment.                                          *)
EXTENDS Deployment

Endpoint(host, port, protocol) == [host |-> host, port |-> port, protocol |-> protocol]
Http(port) == Endpoint("any", port, "http")

Def(placement, instances, endpoints, kind) ==
    [placement |-> placement, instances |-> instances, endpoints |-> endpoints,
     kind |-> kind]

Deploy(mode, count, defs, faults, exits, slow) ==
    [mode |-> mode, count |-> count, defs |-> defs, faults |-> faults,
     exits |-> exits, slow |-> slow]

\* A service of every placement, with a second one that may want its endpoint.
Services ==
    {Def(p, n, {Http(80)}, "plain") :
        p \in {"singleton", "all_workers", "sharded", "dedicated"}, n \in {0, 2}}
Pairs == {<<d, e>> : d \in Services,
                     e \in {Def("disabled", 1, {Http(80)}, "plain"),
                            Def("singleton", 1, {Http(80)}, "plain"),
                            Def("dedicated", 1, {Http(81)}, "plain"),
                            Def("sharded", 2, {Http(80), Http(81)}, "plain")}}

\* A service on every worker, and one with another key for its port, for port 0 or
\* for no socket at all.
Beside(e) == <<Def("all_workers", 1, {Http(80), Http(0)}, "plain"), Def("singleton", 1, {e}, "plain")>>
OtherKeys == {Endpoint("local", 80, "http"), Endpoint("any", 80, "ws"),
              Endpoint("any", 80, "udp"), Http(0), Endpoint("any", 80, "internal")}

Web(kind) == <<Def("all_workers", 1, {Http(80)}, kind), Def("singleton", 1, {Http(81)}, kind)>>
Two(k1, k2) == <<Def("singleton", 1, {Http(80)}, k1), Def("singleton", 1, {Http(81)}, k2)>>
Shards == <<Def("sharded", 3, {Http(80)}, "plain")>>

\* Everything starts; more shards than workers; services that fail, loops that end
\* on their own, starts that take more than 10 s.
MCDepEnvs ==
    {Deploy(mode, 2, defs, FALSE, FALSE, FALSE) : mode \in {"thread", "process"},
                                                  defs \in Pairs \cup {Shards}}
    \cup {Deploy("thread", 2, Beside(e), FALSE, FALSE, FALSE) : e \in OtherKeys}
    \cup {Deploy("thread", 2, Web("plain"), TRUE, TRUE, FALSE),
          Deploy("thread", 2, Web("loop"), FALSE, FALSE, TRUE),
          Deploy("thread", 1, Two("loop", "plain"), TRUE, TRUE, TRUE),
          Deploy("process", 2, Web("plain"), TRUE, FALSE, FALSE)}
=============================================================================
