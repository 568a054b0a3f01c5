------------------------------ MODULE Discovery ------------------------------
(***************************************************************************)
(* What the ServiceBackendsHandle of an upstream promises to its users     *)
(* (grcache-proxy/src/discovery/mod.rs): a watch that announces the set of *)
(* backends, two load balancers that follow it, and a watch that says that *)
(* the first discovery is done.                                            *)
(*                                                                         *)
(* DnsDiscovery is shown to implement this for every handle that is in     *)
(* use; RedisPools is a user and is composed with it.                      *)
(***************************************************************************)
CONSTANT Backends   \* backends discovery can find

VARIABLES
  backends,   \* value of the backends watch
  rr,         \* backends of load_balancer_round_robin
  cons,       \* backends of load_balancer_consistent
  ready       \* value of the ready watch

discoveryVars == <<backends, rr, cons, ready>>

DiscoveryInit ==
  /\ backends = {}
  /\ rr = {}
  /\ cons = {}
  /\ ready = FALSE

(* A new set is only announced when the last one has been stored.          *)
Announce ==
  /\ rr = backends
  /\ cons = backends
  /\ \E B \in (SUBSET Backends) \ {{}, backends} : backends' = B
  /\ UNCHANGED <<rr, cons, ready>>

StoreRoundRobin ==
  /\ rr # backends
  /\ rr' = backends
  /\ UNCHANGED <<backends, cons, ready>>

StoreConsistent ==
  /\ rr = backends
  /\ cons # backends
  /\ cons' = backends
  /\ UNCHANGED <<backends, rr, ready>>

(* "Once it has transitioned into `true`, it will never go back to false." *)
SignalReady ==
  /\ backends # {}
  /\ rr = backends
  /\ cons = backends
  /\ ready' = TRUE
  /\ UNCHANGED <<backends, rr, cons>>

DiscoveryNext ==
  Announce \/ StoreRoundRobin \/ StoreConsistent \/ SignalReady

DiscoverySpec == DiscoveryInit /\ [][DiscoveryNext]_discoveryVars

=============================================================================
