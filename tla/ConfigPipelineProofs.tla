------------------------ MODULE ConfigPipelineProofs ------------------------
(***************************************************************************)
(* The config loop implements both of its parts: the stream with a         *)
(* faithful consumer, and the service store.  What is proved of them holds *)
(* of the loop, and together it tells what requests see of the cluster.    *)
(***************************************************************************)
EXTENDS ConfigPipeline, ServiceStoreProofs

RCP == INSTANCE ResourceChangesProofs WITH view <- raw_services

(* The loop starts as the stream and the store do.                         *)
LEMMA PipelineStarts == PipelineInit => RC!Init /\ Init
BY Zenon DEF PipelineInit, RC!Init, Init

(* apply and remove leave in raw_services what the consumer of the stream  *)
(* is promised to have.                                                    *)
LEMMA AppliedView ==
  ASSUME TypeOK, NEW r \in Refs, NEW res \in RC!Resource, HandleApply(r, res)
  PROVE  RC!ViewApply(r, res)
<1>1. CASE RC!Changed(r, res)
  <2>1. Apply(r, res.obj)
    BY <1>1, Zenon DEF HandleApply
  <2>2. raw_services' = [raw_services EXCEPT ![r] = res.obj]
    BY <2>1, Zenon DEF Apply, RawWithout, TypeOK
  <2> QED
    BY <1>1, <2>2, Zenon DEF RC!ViewApply
<1>2. CASE ~RC!Changed(r, res)
  BY <1>2, Zenon DEF HandleApply, RC!ViewApply, vars
<1> QED
  BY <1>1, <1>2, Zenon

(* A Delete leaves nothing of the object, held or not.                     *)
LEMMA DeletedView ==
  ASSUME TypeOK, NEW r \in Refs, HandleDelete(r)
  PROVE  raw_services' = [raw_services EXCEPT ![r] = Nil]
<1>1. CASE Remove(r)
  BY <1>1, Zenon DEF Remove, RawWithout
<1>2. CASE RemoveUnknown(r)
  BY <1>2, Zenon DEF RemoveUnknown, vars, TypeOK
<1> QED
  BY <1>1, <1>2, Zenon DEF HandleDelete

(* Every step of the loop is one of the stream with a view, or stutters.   *)
LEMMA StepsImplementView ==
  ASSUME TypeOK, RCP!TypeOK, [PipelineNext]_pipelineVars
  PROVE  [RC!Next]_(RC!vars)
<1> USE DEF serverVars, streamVars, RC!serverVars, RC!streamVars
<1>1. CASE UNCHANGED pipelineVars
  BY <1>1, Zenon DEF pipelineVars, vars, RC!vars
<1>2. CASE ClusterChanges
  <2>1. RC!ServerStep
    BY <1>2, Zenon DEF ClusterChanges, RC!ServerStep, vars
  <2> QED
    BY <2>1, Zenon DEF RC!Next
<1>3. CASE PullError
  <2>1. RC!OnError
    BY <1>3, Zenon DEF PullError, RC!OnError, vars
  <2> QED
    BY <2>1, Zenon DEF RC!Next
<1>4. CASE PullInit
  <2>1. RC!OnInit
    BY <1>4, Zenon DEF PullInit, RC!OnInit, vars
  <2> QED
    BY <2>1, Zenon DEF RC!Next, RC!StreamStep
<1>5. CASE PullInitApply
  <2>1. PICK r \in Refs : /\ RC!ListDelivers(r)
                          /\ RC!StreamInitApply(r, snapshot[r])
                          /\ HandleApply(r, snapshot[r])
                          /\ UNCHANGED ready
    BY <1>5, Zenon DEF PullInitApply
  <2>2. snapshot[r] \in RC!Resource
    BY <2>1, Zenon DEF RC!ListDelivers, RCP!TypeOK, RC!Resource, RCP!Resource
  <2>3. RC!ViewApply(r, snapshot[r])
    BY <2>1, <2>2, AppliedView, Zenon
  <2>4. RC!OnInitApply
    BY <2>1, <2>3, Zenon DEF RC!OnInitApply
  <2> QED
    BY <2>4, Zenon DEF RC!Next, RC!StreamStep
<1>6. CASE PullInitDone
  <2>1. RC!OnInitDone
    BY <1>6, Zenon DEF PullInitDone, RC!OnInitDone, vars
  <2> QED
    BY <2>1, Zenon DEF RC!Next, RC!StreamStep
<1>7. CASE PullRemoved
  <2>1. PICK r \in removed : /\ RC!YieldDelete(r)
                             /\ HandleDelete(r)
                             /\ UNCHANGED <<serverVars, ready>>
    BY <1>7, Zenon DEF PullRemoved
  <2>2. r \in Refs
    BY Zenon DEF RCP!TypeOK
  <2>3. RC!OnYieldDelete
    BY <2>1, <2>2, DeletedView, Zenon DEF RC!OnYieldDelete
  <2> QED
    BY <2>3, Zenon DEF RC!Next, RC!StreamStep
<1>8. CASE PullReady
  <2>1. RC!OnYieldReady
    BY <1>8, Zenon DEF PullReady, RC!OnYieldReady, vars
  <2> QED
    BY <2>1, Zenon DEF RC!Next, RC!StreamStep
<1> DEFINE e == Head(events)
<1>9. ASSUME events # <<>>
      PROVE  e.ref \in Refs /\ e.res \in RC!Resource
  <2>1. e \in RCP!Event
    BY <1>9 DEF RCP!TypeOK
  <2> QED
    BY <2>1, Zenon DEF RCP!Event, RC!Resource, RCP!Resource
<1>10. CASE PullApply
  <2>1. /\ RC!WatchDelivers("apply") /\ RC!StreamApply(e.ref, e.res)
        /\ HandleApply(e.ref, e.res) /\ UNCHANGED ready
    BY <1>10, Zenon DEF PullApply
  <2>2. RC!ViewApply(e.ref, e.res)
    BY <1>9, <2>1, AppliedView, Zenon DEF RC!WatchDelivers
  <2>3. RC!OnApply
    BY <2>1, <2>2, Zenon DEF RC!OnApply
  <2> QED
    BY <2>3, Zenon DEF RC!Next, RC!StreamStep
<1>11. CASE PullDelete
  <2>1. /\ RC!WatchDelivers("delete") /\ RC!StreamDelete(e.ref)
        /\ HandleDelete(e.ref) /\ UNCHANGED ready
    BY <1>11, Zenon DEF PullDelete
  <2>2. raw_services' = [raw_services EXCEPT ![e.ref] = Nil]
    BY <1>9, <2>1, DeletedView, Zenon DEF RC!WatchDelivers
  <2>3. RC!OnDelete
    BY <2>1, <2>2, Zenon DEF RC!OnDelete
  <2> QED
    BY <2>3, Zenon DEF RC!Next, RC!StreamStep
<1>12. CASE LoadEnds
  BY <1>12, Zenon DEF LoadEnds, LoadDone, LoadPanic, RC!vars
<1> QED
  BY <1>1, <1>2, <1>3, <1>4, <1>5, <1>6, <1>7, <1>8, <1>10, <1>11, <1>12, Zenon
     DEF PipelineNext, LoopStep

(* Every step of the loop is a step of the store, or leaves it alone.      *)
LEMMA StepsImplementStore ==
  ASSUME RCP!TypeOK, [PipelineNext]_pipelineVars
  PROVE  [Next]_vars
<1>1. ASSUME NEW r \in Refs, NEW res \in RC!Resource, HandleApply(r, res)
      PROVE  [Next]_vars
  BY <1>1, Zenon DEF HandleApply, Next, RC!Resource
<1>2. ASSUME NEW r \in Refs, HandleDelete(r)
      PROVE  [Next]_vars
  BY <1>2, Zenon DEF HandleDelete, Next
<1>3. CASE PullInitApply
  <2>1. PICK r \in Refs : RC!ListDelivers(r) /\ HandleApply(r, snapshot[r])
    BY <1>3, Zenon DEF PullInitApply
  <2>2. snapshot[r] \in RC!Resource
    BY <2>1, Zenon DEF RC!ListDelivers, RCP!TypeOK, RC!Resource, RCP!Resource
  <2> QED
    BY <1>1, <2>1, <2>2, Zenon
<1>4. CASE PullRemoved
  BY <1>2, <1>4, Zenon DEF PullRemoved, RCP!TypeOK
<1>5. ASSUME events # <<>>
      PROVE  Head(events).ref \in Refs /\ Head(events).res \in RC!Resource
  <2>1. Head(events) \in RCP!Event
    BY <1>5 DEF RCP!TypeOK
  <2> QED
    BY <2>1, Zenon DEF RCP!Event, RC!Resource, RCP!Resource
<1>6. CASE PullApply
  BY <1>1, <1>5, <1>6, Zenon DEF PullApply, RC!WatchDelivers
<1>7. CASE PullDelete
  BY <1>2, <1>5, <1>7, Zenon DEF PullDelete, RC!WatchDelivers
<1>8. CASE LoadEnds
  BY <1>8, Zenon DEF LoadEnds, Next
<1>9. CASE \/ ClusterChanges \/ PullError \/ PullInit \/ PullInitDone
           \/ PullReady \/ UNCHANGED pipelineVars
  BY <1>9, Zenon
  DEF ClusterChanges, PullError, PullInit, PullInitDone, PullReady,
              pipelineVars
<1> QED
  BY <1>3, <1>4, <1>6, <1>7, <1>8, <1>9, Zenon DEF PipelineNext, LoopStep

(* The assumptions of ResourceChanges hold of the loop's constants.        *)
LEMMA StreamAssumptions == RCP!ResourceNil
BY PipelineAssumption, Zenon
   DEF RC!Resource, RCP!Resource, RC!ResourceNil, RCP!ResourceNil

(* The proofs about the stream speak of the stream the loop pulls from.    *)
LEMMA SameStream ==
  (RC!Init => RCP!Init) /\ ([RC!Next]_(RC!vars) => [RCP!Next]_(RCP!vars))
BY Zenon DEF RC!Init, RCP!Init, RC!ServerInit, RCP!ServerInit,
     RC!StreamInit, RCP!StreamInit, RC!Next, RCP!Next,
     RC!ServerStep, RCP!ServerStep, RC!OnError, RCP!OnError,
     RC!StreamStep, RCP!StreamStep, RC!OnInit, RCP!OnInit,
     RC!OnInitApply, RCP!OnInitApply, RC!OnInitDone,
     RCP!OnInitDone, RC!OnYieldDelete, RCP!OnYieldDelete,
     RC!OnYieldReady, RCP!OnYieldReady, RC!OnApply, RCP!OnApply,
     RC!OnDelete, RCP!OnDelete, RC!ClusterApply, RCP!ClusterApply,
     RC!ClusterDelete, RCP!ClusterDelete, RC!Record, RCP!Record,
     RC!WatchFails, RCP!WatchFails, RC!ListStarts, RCP!ListStarts,
     RC!ListDelivers, RCP!ListDelivers, RC!ListEnds, RCP!ListEnds,
     RC!WatchDelivers, RCP!WatchDelivers, RC!Polled, RCP!Polled,
     RC!Changed, RCP!Changed, RC!StreamInitEvent,
     RCP!StreamInitEvent, RC!StreamInitApply, RCP!StreamInitApply,
     RC!StreamInitDone, RCP!StreamInitDone, RC!YieldDelete,
     RCP!YieldDelete, RC!YieldReady, RCP!YieldReady,
     RC!StreamApply, RCP!StreamApply, RC!StreamDelete,
     RCP!StreamDelete, RC!ViewApply, RCP!ViewApply, RC!vars,
     RCP!vars, RC!serverVars, RCP!serverVars, RC!streamVars,
     RCP!streamVars

(* The inductive invariants of both parts hold side by side.               *)
LEMMA PipelineInv == PipelineSpec => [](Inv /\ RCP!Inv)
<1>1. PipelineInit => Inv /\ RCP!Inv
  BY PipelineStarts, SameStream, StreamAssumptions, InitInv, RCP!InitInv, Zenon
<1>2. Inv /\ RCP!Inv /\ [PipelineNext]_pipelineVars => (Inv /\ RCP!Inv)'
  <2> SUFFICES ASSUME Inv, RCP!Inv, [PipelineNext]_pipelineVars
               PROVE  Inv' /\ RCP!Inv'
    BY Zenon
  <2>1. TypeOK /\ RCP!TypeOK
    BY Zenon DEF Inv, RCP!Inv
  <2>2. Inv'
    BY <2>1, StepsImplementStore, NextInv, Zenon
  <2>3. RCP!Inv'
    BY <2>1, StepsImplementView, SameStream, StreamAssumptions,
       RCP!NextInv, Zenon
  <2> QED
    BY <2>2, <2>3, Zenon
<1> QED
  BY <1>1, <1>2, PTL DEF PipelineSpec

(* With nothing about n on its way, the index lists exactly the objects of *)
(* the cluster that declare n, and the store holds their contents.         *)
LEMMA IndexIsCluster ==
  ASSUME Inv, RCP!Inv, phase = "watching", NEW n \in Names,
         Settled(n), About(n) \cap removed = {}
  PROVE  /\ Declares(n) = ref_by_grpc_service[n]
         /\ \A r \in Declares(n) : raw_services[r] = cluster[r].obj
<1>1. \A r \in Refs \cap About(n) :
        raw_services[r] = IF cluster[r] = Nil THEN Nil ELSE cluster[r].obj
  BY Zenon DEF RCP!Inv, RCP!CaughtUp, RCP!Content, Settled
<1>2. \A r \in Refs : cluster[r] # Nil => cluster[r].obj # Nil
  BY NilAssumption, Zenon DEF RCP!Inv, RCP!TypeOK, RCP!Resource
<1>3. ref_by_grpc_service[n] \subseteq Refs
  BY Zenon DEF Inv, TypeOK
<1>4. \A r \in Refs : r \in ref_by_grpc_service[n] <=>
                       raw_services[r] # Nil /\ raw_services[r].name = n
  BY Zenon DEF Inv, IndexConsistent
<1> QED
  BY <1>1, <1>2, <1>3, <1>4 DEF Declares, About

(* The newest decision of the store, read against the cluster, is what the *)
(* cluster declares.                                                       *)
LEMMA NewestIsReflected ==
  ASSUME Inv, RCP!Inv, phase = "watching",
         NEW n \in Names \ (BadNames \cup unrefreshed),
         Settled(n), About(n) \cap removed = {}
  PROVE  Reflected(n)
<1>1. /\ Declares(n) = ref_by_grpc_service[n]
      /\ \A r \in Declares(n) : raw_services[r] = cluster[r].obj
  BY IndexIsCluster, Zenon
<1>2. CASE Declares(n) = {}
  <2>1. NewestUnload(n)
    BY <1>1, <1>2, Zenon DEF Inv, NewestWins
  <2> QED
    BY <1>2, <2>1 DEF NewestUnload, Tombstone, Reflected
<1>3. CASE Declares(n) # {}
  <2>1. NewestLoad(n)
    BY <1>1, <1>3, Zenon DEF Inv, NewestWins
  <2>2. PICK r \in ref_by_grpc_service[n] :
          LET o == raw_services[r]
              g == stamp[n] - 1
          IN  /\ \A s \in ref_by_grpc_service[n] : r <= s
              /\ stamp[n] > 0
              /\ \/ services[n] = Loaded(g, IF o.source = Nil THEN Passthrough
                                            ELSE o.source, o.host)
                 \/ [name |-> n, generation |-> g, source |-> o.source,
                     host |-> o.host] \in tasks
                 \/ g \in lost /\ (services[n] = Nil \/ services[n].generation < g)
    BY <2>1, Zenon DEF NewestLoad
  <2> DEFINE o == raw_services[r]
             g == stamp[n] - 1
  <2>3. r \in Declares(n) /\ o = cluster[r].obj
    BY <1>1, Zenon
  <2>4. CASE services[n] = Loaded(g, IF o.source = Nil THEN Passthrough
                                     ELSE o.source, o.host)
    <3>1. /\ services[n].lb = o.host
          /\ services[n].spec = IF o.source = Nil THEN Passthrough
                                ELSE o.source
      BY <2>4 DEF Loaded
    <3>2. services[n] # Nil
      <4>1. g \in Nat
        BY <2>2 DEF Inv, TypeOK
      <4>2. o \in Object
        BY <1>1, <2>3 DEF Inv, TypeOK, IndexConsistent
      <4>3. o.host \in Hosts /\ o.source \in Sources \cup {Nil}
        BY <4>2, Zenon DEF Object
      <4>4. services[n] \in ServiceData
        BY <2>4, <4>1, <4>3, EntryTypes
      <4> QED
        BY <4>4, NilAssumption, Zenon
    <3> QED
      BY <1>1, <1>3, <2>2, <2>3, <3>1, <3>2, Zenon DEF Reflected
  <2>5. CASE [name |-> n, generation |-> g, source |-> o.source,
              host |-> o.host] \in tasks
    BY <1>1, <1>3, <2>2, <2>3, <2>5, Zenon DEF Reflected
  <2>6. CASE g \in lost /\ (services[n] = Nil \/ services[n].generation < g)
    BY <1>1, <1>3, <2>2, <2>3, <2>6, Zenon DEF Reflected
  <2> QED
    BY <2>2, <2>4, <2>5, <2>6, Zenon
<1> QED
  BY <1>2, <1>3, Zenon

-----------------------------------------------------------------------------
(* The theorems.                                                           *)

(* K8SConfigService::start with ServiceConfigState is a consumer in the    *)
(* sense of ResourceChanges: raw_services is the promised view.            *)
THEOREM LoopImplementsView == PipelineSpec => ImplementsView
<1>1. Inv /\ RCP!Inv => TypeOK /\ RCP!TypeOK
  BY Zenon DEF Inv, RCP!Inv
<1>2. TypeOK /\ RCP!TypeOK /\ [PipelineNext]_pipelineVars
        => [RC!Next]_(RC!vars)
  BY StepsImplementView, Zenon
<1> QED
  BY <1>1, <1>2, PipelineStarts, PipelineInv, PTL
     DEF PipelineSpec, ImplementsView, RC!Spec

(* The store driven by the loop is the store of ServiceStore: every        *)
(* property of that module holds while the watcher fails and relists.      *)
THEOREM LoopImplementsStore == PipelineSpec => Spec
<1>1. Inv /\ RCP!Inv => RCP!TypeOK
  BY Zenon DEF RCP!Inv
<1>2. RCP!TypeOK /\ [PipelineNext]_pipelineVars => [Next]_vars
  BY StepsImplementStore, Zenon
<1> QED
  BY <1>1, <1>2, PipelineStarts, PipelineInv, PTL DEF PipelineSpec, Spec

(* Whenever nothing about a name is on its way from the cluster to         *)
(* update_service, the map that requests read agrees with the cluster.     *)
THEOREM CaughtUpIsAlwaysServed == PipelineSpec => []CaughtUpIsServed
<1>1. Inv /\ RCP!Inv => CaughtUpIsServed
  BY NewestIsReflected, Zenon DEF CaughtUpIsServed
<1> QED
  BY <1>1, PipelineInv, PTL

(* A step that takes Ready from the stream leaves the map, the cluster and *)
(* what is undelivered as they are, and no Delete is due in it.            *)
LEMMA ReadyStep ==
  ASSUME RCP!Inv, [PipelineNext]_pipelineVars, ready_due, ~ready_due'
  PROVE  /\ phase = "watching" /\ removed = {}
         /\ UNCHANGED <<vars, serverVars>>
<1>1. PullReady
  BY Zenon DEF PipelineNext, LoopStep, ClusterChanges, PullError, PullInit,
     PullInitApply, PullInitDone, PullRemoved, PullApply, PullDelete, LoadEnds,
     pipelineVars, streamVars, RC!StreamInitEvent, RC!StreamInitApply,
     RC!StreamInitDone, RC!YieldDelete, RC!StreamApply, RC!StreamDelete,
     RC!Polled
<1> QED
  BY <1>1, Zenon DEF PullReady, RC!YieldReady, RCP!Inv, RCP!Removing

(* raw_services is what the stream promises its consumer, also after a     *)
(* panic of the loop.                                                      *)
THEOREM StoreAlwaysCaughtUp == PipelineSpec => []CaughtUp
<1>1. Inv /\ RCP!Inv => CaughtUp
  BY Zenon DEF RCP!Inv, CaughtUp, RC!CaughtUp, RCP!CaughtUp, RC!Content,
     RCP!Content
<1> QED
  BY <1>1, PipelineInv, PTL

(* resource_changes remembers a version of exactly the objects that the    *)
(* store holds and is not owed a Delete of.                                *)
THEOREM MemoryAlwaysIsStore == PipelineSpec => []MemoryIsView
<1>1. Inv /\ RCP!Inv => MemoryIsView
  BY Zenon DEF RCP!Inv, MemoryIsView, RC!MemoryIsView, RCP!MemoryIsView
<1> QED
  BY <1>1, PipelineInv, PTL

(* The loop is told Ready only when raw_services agrees with the cluster   *)
(* on every object that has not changed since the relist.                  *)
THEOREM ReadyAlwaysIsCaughtUp == PipelineSpec => ReadyIsCaughtUp
<1>1. Inv /\ RCP!Inv /\ [PipelineNext]_pipelineVars =>
        [ready_due /\ ~ready_due' =>
           \A r \in Refs :
             (\A i \in DOMAIN events : events[i].ref # r)
               => raw_services'[r] = RC!Content(r)']_(RC!vars)
  <2> SUFFICES ASSUME RCP!Inv, [PipelineNext]_pipelineVars,
                      ready_due, ~ready_due',
                      NEW r \in Refs, \A i \in DOMAIN events : events[i].ref # r
               PROVE  raw_services'[r] = RC!Content(r)'
    BY Zenon
  <2>1. /\ phase = "watching" /\ removed = {}
        /\ UNCHANGED <<vars, serverVars>>
    BY ReadyStep, Zenon
  <2>2. raw_services[r] = RC!Content(r)
    BY <2>1, Zenon DEF RCP!Inv, RCP!CaughtUp, RC!Content, RCP!Content
  <2> QED
    BY <2>1, <2>2, Zenon DEF RC!Content, vars, serverVars
<1> QED
  BY <1>1, PipelineInv, PTL DEF PipelineSpec, ReadyIsCaughtUp, RC!ReadyIsCaughtUp

(* The loop reports readiness only when the map that requests read agrees  *)
(* with the cluster, up to what the watch has still to deliver.            *)
THEOREM ReadyAlwaysIsServed == PipelineSpec => ReadyIsServed
<1>1. Inv /\ RCP!Inv /\ [PipelineNext]_pipelineVars =>
        [ready_due /\ ~ready_due' =>
           \A n \in Names \ (BadNames \cup unrefreshed) :
             Settled(n) => Reflected(n)']_pipelineVars
  <2> SUFFICES ASSUME Inv, RCP!Inv, [PipelineNext]_pipelineVars,
                      ready_due, ~ready_due',
                      NEW n \in Names \ (BadNames \cup unrefreshed), Settled(n)
               PROVE  Reflected(n)'
    BY Zenon
  <2>1. /\ phase = "watching" /\ removed = {}
        /\ UNCHANGED <<vars, serverVars>>
    BY ReadyStep, Zenon
  <2>2. Reflected(n)
    BY <2>1, NewestIsReflected, Zenon
  <2> QED
    BY <2>1, <2>2, Zenon DEF Reflected, Declares, vars, serverVars
<1> QED
  BY <1>1, PipelineInv, PTL DEF PipelineSpec, ReadyIsServed

=============================================================================
