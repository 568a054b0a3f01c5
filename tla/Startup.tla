------------------------------ MODULE Startup ------------------------------
(***************************************************************************)
(* How main (grcache-proxy/src/main.rs) starts the proxy, as far as        *)
(* readiness goes.  main creates the tracker, gives an endpoint to the     *)
(* config loop and one to the Redis backend, indicates its own and hands   *)
(* the thread to run_forever, which starts the background services.        *)
(*                                                                         *)
(* main is an ordinary function and everything before run_forever happens  *)
(* outside of a Tokio runtime.                                             *)
(***************************************************************************)
EXTENDS Health

CONSTANTS
  Config,   \* endpoint of K8SConfigService
  Redis     \* endpoint of RedisPools

VARIABLES
  main,     \* the last thing main did
  enable    \* config.kubernetes.enable

startupVars == <<vars, main, enable>>

StartupInit ==
  /\ Init
  /\ main = "new"
  /\ enable \in BOOLEAN

(* The assertion "disabling k8s backend currently not supported".          *)
AssertFails ==
  /\ main = "new"
  /\ ~enable
  /\ main' = "unwinding"
  /\ UNCHANGED <<vars, enable>>

AddConfigService ==
  /\ main = "new"
  /\ enable
  /\ main' = "config added"
  /\ AddBlocking(Config)
  /\ UNCHANGED enable

(* Whether the thread has entered a Tokio runtime: run_forever makes one.  *)
RuntimeEntered == main = "running"

(* RedisReplicasCacheBackend::new takes an endpoint and spawns the         *)
(* readiness task: tokio::spawn panics outside of a runtime.               *)
AddRedisBackend ==
  /\ main = "config added"
  /\ main' = IF RuntimeEntered THEN "redis added" ELSE "unwinding"
  /\ AddBlocking(Redis)
  /\ UNCHANGED enable

RootReady ==
  /\ main = "redis added"
  /\ main' = "root ready"
  /\ Ready(Root)
  /\ UNCHANGED enable

(* health_root.ready() has returned.                                       *)
RunForever ==
  /\ main = "root ready"
  /\ Root \notin swapped \cup last
  /\ main' = "running"
  /\ UNCHANGED <<vars, enable>>

(* A panic of main drops the pools, the services and the tracker with      *)
(* their endpoints, and ends the process.                                  *)
Unwind ==
  /\ main = "unwinding"
  /\ \E e \in Endpoints : Ready(e) \/ Drop(e)
  /\ UNCHANGED <<main, enable>>

ProcessEnds ==
  /\ main = "unwinding"
  /\ live = {}
  /\ main' = "panicked"
  /\ UNCHANGED <<vars, enable>>

(* A call of ready() that is under way.                                    *)
CallEnds ==
  /\ \E e \in Endpoints : FetchSub(e) \/ Send(e)
  /\ UNCHANGED <<main, enable>>

StartupNext ==
  \/ AssertFails
  \/ AddConfigService
  \/ AddRedisBackend
  \/ RootReady
  \/ RunForever
  \/ Unwind
  \/ ProcessEnds
  \/ CallEnds

(* One thread runs main to its end.                                        *)
StartupSpec ==
  StartupInit /\ [][StartupNext]_startupVars /\ WF_startupVars(StartupNext)

-----------------------------------------------------------------------------
(* Properties.                                                             *)

(* "Indicate readiness and loop forever" (main), and "Your grcache         *)
(* deployment should be running and be ready to accept connections"        *)
(* (docs/usage.md): with the Kubernetes backend enabled, main gets there.  *)
StartsUp == enable ~> main = "running"

=============================================================================
