-------------------------- MODULE RedisPoolsProofs --------------------------
(***************************************************************************)
(* Proofs about RedisPools, for any set of replicas and any number of      *)
(* announcements and cache operations.                                     *)
(***************************************************************************)
EXTENDS RedisPools, TLAPS

(* How far the service has got with the set of replicas it borrowed.       *)
Progress ==
  /\ pc = "add" => pools \cup todo = borrowed
  /\ pc \in {"retain", "add"} /\ ~changed => borrowed = backends
  /\ RestingPoolsMatch

(* A borrowed set has the replicas announced all along.                    *)
Steadiness ==
  /\ SteadyKeepPool
  /\ steady \subseteq backends
  /\ pc = "retain" => steady \subseteq borrowed

Inv == TypeOK /\ Progress /\ Steadiness

(* The service starts with a receiver that is marked changed.              *)
LEMMA InitInv == Init => Inv
<1> SUFFICES ASSUME Init PROVE Inv
  OBVIOUS
<1>1. TypeOK
  <2>1. /\ op \in [Ops -> {"idle", "selected", "pool", "miss"}]
        /\ selected \in [Ops -> Backends \cup {Nil}]
    BY DEF Init
  <2>2. ready \in BOOLEAN /\ changed \in BOOLEAN /\ health \in BOOLEAN
    BY DEF Init, DiscoveryInit
  <2> QED
    BY <2>1, <2>2 DEF Init, DiscoveryInit, TypeOK
<1>2. Progress /\ Steadiness
  BY DEF Init, DiscoveryInit, Progress, Steadiness, RestingPoolsMatch, SteadyKeepPool
<1> QED
  BY <1>1, <1>2 DEF Inv

(* The steps of the discovery handle.                                      *)
LEMMA HandleInv ==
  ASSUME Inv, AnnounceBackends \/ StoreBackends \/ DiscoveryReady
  PROVE  Inv'
<1> USE DEF Inv, TypeOK, Progress, Steadiness, RestingPoolsMatch, SteadyKeepPool,
        serviceVars, opVars
<1>1. CASE AnnounceBackends
  BY <1>1 DEF AnnounceBackends, Announce
<1>2. CASE StoreBackends
  BY <1>2 DEF StoreBackends, StoreRoundRobin, StoreConsistent
<1>3. CASE DiscoveryReady
  BY <1>3 DEF DiscoveryReady, SignalReady
<1> QED
  BY <1>1, <1>2, <1>3

(* The steps of the service.                                               *)
LEMMA ServiceInv ==
  ASSUME Inv, ServiceStep \/ SignalHealth
  PROVE  Inv'
<1> USE DEF Inv, TypeOK, Progress, Steadiness, RestingPoolsMatch, SteadyKeepPool,
        handleVars, discoveryVars, opVars
<1>1. CASE Changed
  BY <1>1 DEF Changed
<1>2. CASE Borrow
  BY <1>2 DEF Borrow
<1>3. CASE Retain
  BY <1>3 DEF Retain
<1>4. CASE AddPool
  BY <1>4 DEF AddPool
<1>5. CASE LoopAgain
  BY <1>5 DEF LoopAgain
<1>6. CASE SignalHealth
  BY <1>6 DEF SignalHealth
<1> QED
  BY <1>1, <1>2, <1>3, <1>4, <1>5, <1>6 DEF ServiceStep

(* The steps of a cache operation.                                         *)
LEMMA OpInv ==
  ASSUME Inv, NEW o \in Ops,
         SelectBackend(o) \/ SelectNone(o) \/ GetPool(o) \/ EndOp(o)
  PROVE  Inv'
<1>1. UNCHANGED <<handleVars, serviceVars>>
  BY DEF SelectBackend, SelectNone, GetPool, EndOp
<1>2. /\ op' \in [Ops -> {"idle", "selected", "pool", "miss"}]
      /\ selected' \in [Ops -> Backends \cup {Nil}]
  BY DEF Inv, TypeOK, SelectBackend, SelectNone, GetPool, EndOp
<1> QED
  BY <1>1, <1>2 DEF Inv, TypeOK, Progress, Steadiness, RestingPoolsMatch,
     SteadyKeepPool, handleVars, discoveryVars, serviceVars

(* Every step of the system.                                               *)
LEMMA NextInv == Inv /\ [Next]_vars => Inv'
<1> SUFFICES ASSUME Inv, [Next]_vars PROVE Inv'
  OBVIOUS
<1>1. CASE UNCHANGED vars
  BY <1>1 DEF vars, handleVars, discoveryVars, serviceVars, opVars, Inv, TypeOK,
     Progress, Steadiness, RestingPoolsMatch, SteadyKeepPool
<1>2. CASE Next
  BY <1>2, HandleInv, ServiceInv, OpInv DEF Next
<1> QED
  BY <1>1, <1>2

(* The strengthening is invariant.                                         *)
THEOREM Invariance == Spec => []Inv
BY InitInv, NextInv, PTL DEF Spec

(* The pools, the operations and the handle keep their types: an operation *)
(* whose replica disappears is a miss and nothing else.                    *)
THEOREM TypeCorrect == Spec => []TypeOK
<1>1. Inv => TypeOK
  BY DEF Inv
<1> QED
  BY <1>1, Invariance, PTL

(* For any replicas and announcements, a service that waits with nothing   *)
(* to see has exactly the pools of the announced replicas.                 *)
THEOREM RestingPoolsAlwaysMatch == Spec => []RestingPoolsMatch
<1>1. Inv => RestingPoolsMatch
  BY DEF Inv, Progress
<1> QED
  BY <1>1, Invariance, PTL

(* A replica that stays announced never loses its pool.                    *)
THEOREM SteadyAlwaysKeepPool == Spec => []SteadyKeepPool
<1>1. Inv => SteadyKeepPool
  BY DEF Inv, Steadiness
<1> QED
  BY <1>1, Invariance, PTL

=============================================================================
