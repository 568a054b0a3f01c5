----------------------------- MODULE RedisPools -----------------------------
(***************************************************************************)
(* The Redis connection pools (grcache-proxy/src/cache/redis_replicas.rs): *)
(* a background service keeps one pool per discovered replica, a readiness *)
(* task reports that discovery is done, and cache operations pick a        *)
(* replica and use its pool.                                               *)
(*                                                                         *)
(* The discovery handle is the one Discovery specifies.  Connections and   *)
(* stored bytes are left out: an operation ends with a pool or as a miss.  *)
(***************************************************************************)
EXTENDS Naturals, Discovery

CONSTANTS
  Ops,         \* cache operations: lookup, and finish of a miss
  Nil,
  MaxChanges   \* bound: announcements of a new set of backends

VARIABLES
  (* The service's receiver of the backends watch.                         *)
  changed,          \* it has not seen the value
  changes,          \* announcements so far
  steady,           \* history: replicas announced ever since they got a pool
  (* The service.                                                          *)
  pc,               \* "changed", "borrow", "retain" or "add"
  borrowed,         \* its copy of the backends
  todo,             \* backends the for loop has still to visit
  pools,            \* backends that have a pool
  health,           \* the HealthEndpoint was signalled
  (* Cache operations.                                                     *)
  op,               \* op -> "idle", "selected", "pool" or "miss"
  selected          \* op -> the backend select_backend returned

handleVars == <<discoveryVars, changed, changes, steady>>
serviceVars == <<pc, borrowed, todo, pools, health>>
opVars == <<op, selected>>
vars == <<handleVars, serviceVars, opVars>>

ASSUME PoolsAssumption == MaxChanges \in Nat /\ Nil \notin Backends

(* The receiver is a clone that is marked changed, so that the value the   *)
(* watch has when the service starts is handled too.                       *)
Init ==
  /\ DiscoveryInit
  /\ changed = TRUE
  /\ changes = 0
  /\ steady = {}
  /\ pc = "changed"
  /\ borrowed = {}
  /\ todo = {}
  /\ pools = {}
  /\ health = FALSE
  /\ op = [o \in Ops |-> "idle"]
  /\ selected = [o \in Ops |-> Nil]

-----------------------------------------------------------------------------
(* The discovery handle.                                                   *)

AnnounceBackends ==
  /\ changes < MaxChanges
  /\ Announce
  /\ changed' = TRUE
  /\ changes' = changes + 1
  /\ steady' = steady \cap backends'
  /\ UNCHANGED <<serviceVars, opVars>>

StoreBackends ==
  /\ StoreRoundRobin \/ StoreConsistent
  /\ UNCHANGED <<changed, changes, steady, serviceVars, opVars>>

DiscoveryReady ==
  /\ SignalReady
  /\ UNCHANGED <<changed, changes, steady, serviceVars, opVars>>

-----------------------------------------------------------------------------
(* Service::start and the readiness task.                                  *)

(* changed().await: the value is marked as seen.                           *)
Changed ==
  /\ pc = "changed"
  /\ changed
  /\ changed' = FALSE
  /\ pc' = "borrow"
  /\ UNCHANGED <<discoveryVars, changes, steady, borrowed, todo,
                 pools, health, opVars>>

(* borrow().clone(): the newest value, which may be newer than the one     *)
(* changed() returned for.                                                 *)
Borrow ==
  /\ pc = "borrow"
  /\ borrowed' = backends
  /\ pc' = "retain"
  /\ UNCHANGED <<handleVars, todo, pools, health, opVars>>

(* Mutant: the pools of replicas that are gone are kept.                   *)
MutRetain ==
  /\ pc = "retain"
  /\ todo' = borrowed
  /\ pc' = "add"
  /\ UNCHANGED <<handleVars, borrowed, pools, health, opVars>>

(* Mutant: all pools are dropped and built again.                          *)
MutRetainNone ==
  /\ pc = "retain"
  /\ pools' = {}
  /\ todo' = borrowed
  /\ pc' = "add"
  /\ UNCHANGED <<handleVars, borrowed, health, opVars>>

Retain ==
  /\ pc = "retain"
  /\ pools' = pools \cap borrowed
  /\ todo' = borrowed
  /\ pc' = "add"
  /\ UNCHANGED <<handleVars, borrowed, health, opVars>>

(* One iteration of the for loop, the build of a pool included.            *)
AddPool ==
  \E b \in todo :
    /\ pc = "add"
    /\ pools' = pools \cup {b}
    /\ todo' = todo \ {b}
    /\ steady' = steady \cup ({b} \cap backends)
    /\ UNCHANGED <<discoveryVars, changed, changes, pc, borrowed, health, opVars>>

(* Mutant: the watch is marked as seen after the work instead of before.   *)
MutLoopAgain ==
  /\ pc = "add"
  /\ todo = {}
  /\ pc' = "changed"
  /\ changed' = FALSE
  /\ UNCHANGED <<discoveryVars, changes, steady, borrowed, todo,
                 pools, health, opVars>>

LoopAgain ==
  /\ pc = "add"
  /\ todo = {}
  /\ pc' = "changed"
  /\ UNCHANGED <<handleVars, borrowed, todo, pools, health, opVars>>

(* The readiness task.                                                     *)
SignalHealth ==
  /\ ready
  /\ ~health
  /\ health' = TRUE
  /\ UNCHANGED <<handleVars, pc, borrowed, todo, pools, opVars>>

-----------------------------------------------------------------------------
(* Cache operations.                                                       *)

(* select_with: some backend of the load balancer that has a pool.         *)
SelectBackend(o) ==
  /\ op[o] = "idle"
  /\ \E b \in cons \cap pools :
       /\ selected' = [selected EXCEPT ![o] = b]
       /\ op' = [op EXCEPT ![o] = "selected"]
  /\ UNCHANGED <<handleVars, serviceVars>>

SelectNone(o) ==
  /\ op[o] = "idle"
  /\ cons \cap pools = {}
  /\ op' = [op EXCEPT ![o] = "miss"]
  /\ UNCHANGED <<handleVars, serviceVars, selected>>

(* Mutant: the pool of the selected backend is taken to exist.             *)
MutGetPool(o) ==
  /\ op[o] = "selected"
  /\ op' = [op EXCEPT ![o] = IF selected[o] \in pools THEN "pool"
                             ELSE "panicked"]
  /\ UNCHANGED <<handleVars, serviceVars, selected>>

(* The pool is looked up again: it may be gone by now.                     *)
GetPool(o) ==
  /\ op[o] = "selected"
  /\ op' = [op EXCEPT ![o] = IF selected[o] \in pools THEN "pool" ELSE "miss"]
  /\ UNCHANGED <<handleVars, serviceVars, selected>>

(* The operation runs on its clone of the pool, or not at all, and ends.   *)
EndOp(o) ==
  /\ op[o] \in {"pool", "miss"}
  /\ op' = [op EXCEPT ![o] = "idle"]
  /\ selected' = [selected EXCEPT ![o] = Nil]
  /\ UNCHANGED <<handleVars, serviceVars>>

ServiceStep ==
  \/ Changed
  \/ Borrow
  \/ Retain
  \/ AddPool
  \/ LoopAgain

Next ==
  \/ AnnounceBackends
  \/ StoreBackends
  \/ DiscoveryReady
  \/ ServiceStep
  \/ SignalHealth
  \/ \E o \in Ops :
       SelectBackend(o) \/ SelectNone(o) \/ GetPool(o) \/ EndOp(o)

(* The tasks of the service and of readiness are scheduled, and a          *)
(* discovery loop that announced a change stores it.                       *)
Spec ==
  /\ Init
  /\ [][Next]_vars
  /\ WF_vars(StoreBackends)
  /\ WF_vars(ServiceStep)
  /\ WF_vars(SignalHealth)

-----------------------------------------------------------------------------
(* Properties.                                                             *)

(* The variables have their types.  An operation whose replica disappears  *)
(* between select_backend and the lookup of its pool is a miss.            *)
TypeOK ==
  /\ backends \subseteq Backends
  /\ rr \subseteq Backends
  /\ cons \subseteq Backends
  /\ ready \in BOOLEAN
  /\ changed \in BOOLEAN
  /\ changes \in Nat
  /\ steady \subseteq Backends
  /\ pc \in {"changed", "borrow", "retain", "add"}
  /\ borrowed \subseteq Backends
  /\ todo \subseteq Backends
  /\ pools \subseteq Backends
  /\ health \in BOOLEAN
  /\ op \in [Ops -> {"idle", "selected", "pool", "miss"}]
  /\ selected \in [Ops -> Backends \cup {Nil}]

(* No announcement is lost between changed(), borrow() and the slow        *)
(* building of pools: a service that waits with nothing to see has exactly *)
(* the pools of the announced replicas, and leaks none of the others.      *)
RestingPoolsMatch == pc = "changed" /\ ~changed => pools = backends

(* Misses for want of a pool are transient: a replica keeps its pool, and  *)
(* an operation that selected it gets one, through any changes of the set  *)
(* and however late the service sees them, unless it is itself withdrawn.  *)
SteadyKeepPool == steady \subseteq pools

(* Once the replicas stop changing, every one of them has a pool that      *)
(* select_backend can choose, and keeps it, and the process gets to        *)
(* report the cache backend as ready.                                      *)
PoolsConverge ==
  /\ <>[](pools = backends /\ cons = backends)
  /\ ready ~> health

=============================================================================
