--------------------------- MODULE ConfigPipeline ---------------------------
(***************************************************************************)
(* K8SConfigService::start (grcache-proxy/src/service_store.rs): the loop  *)
(* that feeds the changes of resource_changes into the service store.      *)
(*                                                                         *)
(* The stream and its watcher come from ResourceChanges, the store from    *)
(* ServiceStore.  The store's raw_services is the consumer's view of       *)
(* ResourceChanges: the composition is shown to implement that module.     *)
(* The loop awaits nothing while it handles a change, so a change is taken *)
(* from the stream and handled in one action; only the spawned descriptor  *)
(* loads and the cluster run beside it.  A panic ends the loop's task and  *)
(* nothing is pulled from the stream after it.                             *)
(***************************************************************************)
EXTENDS ServiceStore, Sequences

CONSTANTS MaxVersion, MaxErrors

VARIABLES cluster, version, phase, snapshot, events, errors,
          objects, init_present, removed, ready_due,
          ready   \* ready_sender and the loop's HealthEndpoint

RC == INSTANCE ResourceChanges WITH view <- raw_services

ASSUME PipelineAssumption ==
  RC!ResourceNil /\ MaxVersion \in Nat /\ MaxErrors \in Nat

serverVars == <<cluster, version, phase, snapshot, events, errors>>
streamVars == <<objects, init_present, removed, ready_due>>
pipelineVars == <<vars, serverVars, streamVars, ready>>

PipelineInit ==
  /\ Init
  /\ RC!ServerInit
  /\ RC!StreamInit
  /\ ready = FALSE

(* The stream yields an Apply only when the version is new to it.          *)
HandleApply(r, res) ==
  IF RC!Changed(r, res) THEN Apply(r, res.obj) ELSE UNCHANGED vars

HandleDelete(r) == Remove(r) \/ RemoveUnknown(r)

ClusterChanges ==
  /\ \/ \E r \in Refs, o \in Object : RC!ClusterApply(r, o)
     \/ \E r \in Refs : RC!ClusterDelete(r)
  /\ UNCHANGED <<vars, streamVars, ready>>

(* Some(Err(err)): logged, and the stream is polled again.                 *)
PullError ==
  /\ ~crashed
  /\ RC!Polled
  /\ RC!WatchFails
  /\ UNCHANGED <<vars, streamVars, ready>>

PullInit ==
  /\ ~crashed
  /\ RC!ListStarts
  /\ RC!StreamInitEvent
  /\ UNCHANGED <<vars, ready>>

PullInitApply ==
  \E r \in Refs :
    /\ ~crashed
    /\ RC!ListDelivers(r)
    /\ RC!StreamInitApply(r, snapshot[r])
    /\ HandleApply(r, snapshot[r])
    /\ UNCHANGED ready

PullInitDone ==
  /\ ~crashed
  /\ RC!ListEnds
  /\ RC!StreamInitDone
  /\ UNCHANGED <<vars, ready>>

PullRemoved ==
  \E r \in removed :
    /\ RC!YieldDelete(r)
    /\ HandleDelete(r)
    /\ UNCHANGED <<serverVars, ready>>

PullReady ==
  /\ ~crashed
  /\ RC!YieldReady
  /\ ready' = TRUE
  /\ UNCHANGED <<vars, serverVars>>

PullApply ==
  /\ ~crashed
  /\ RC!WatchDelivers("apply")
  /\ RC!StreamApply(Head(events).ref, Head(events).res)
  /\ HandleApply(Head(events).ref, Head(events).res)
  /\ UNCHANGED ready

PullDelete ==
  /\ RC!WatchDelivers("delete")
  /\ RC!StreamDelete(Head(events).ref)
  /\ HandleDelete(Head(events).ref)
  /\ UNCHANGED ready

LoadEnds ==
  /\ \E t \in tasks : LoadDone(t) \/ LoadPanic(t)
  /\ UNCHANGED <<serverVars, streamVars, ready>>

LoopStep ==
  \/ PullInit
  \/ PullInitApply
  \/ PullInitDone
  \/ PullRemoved
  \/ PullReady
  \/ PullApply
  \/ PullDelete

PipelineNext == ClusterChanges \/ PullError \/ LoopStep \/ LoadEnds

(* The loop never stops polling, and the watcher retries with a backoff.   *)
(* Nothing bounds the time a descriptor load takes: loads are not fair.    *)
PipelineSpec ==
  PipelineInit /\ [][PipelineNext]_pipelineVars /\ WF_pipelineVars(LoopStep)

-----------------------------------------------------------------------------
(* Properties.                                                             *)

(* The store is a consumer of the stream in the sense of ResourceChanges:  *)
(* every step of the composed system is a step of the stream with a view,  *)
(* so what holds of the view holds of raw_services.                        *)
ImplementsView == RC!Spec

(* What the stream promises its consumer, of the loop and its store:       *)
(* raw_services holds every object that no undelivered event mentions with *)
(* exactly its content in the cluster, whatever was deleted, recreated or  *)
(* skipped while the watch was down, and also after a panic of the loop.   *)
CaughtUp == RC!CaughtUp

(* The versions that resource_changes remembers are those of the objects   *)
(* in raw_services, but for the Deletes it has still to yield: no Apply is *)
(* withheld from a store without the object, and no Delete is forgotten.   *)
MemoryIsView == RC!MemoryIsView

(* The loop is told Ready only with no object in raw_services that was     *)
(* gone before the relist started, and none missing that was there.        *)
ReadyIsCaughtUp == RC!ReadyIsCaughtUp

(* Once the cluster stops changing and the watch stops failing, the store  *)
(* ends up with the objects of the cluster and keeps them, unless an       *)
(* object's name has made the loop panic.                                  *)
ObjectsConverge == <>[](crashed \/ RC!Converged)

Declares(n) == {r \in Refs : cluster[r] # Nil /\ cluster[r].obj.name = n}

(* The cluster's content has reached the map that requests read: the least *)
(* of the objects declaring n is served, or its load is running, or its    *)
(* load has panicked and left an older entry or none; without such an      *)
(* object n is unloaded.                                                   *)
Reflected(n) ==
  IF Declares(n) = {}
  THEN services[n] = Nil \/ services[n].lb = Nil
  ELSE \E r \in Declares(n) :
         LET o == cluster[r].obj
         IN  /\ \A s \in Declares(n) : r <= s
             /\ \/ /\ services[n] # Nil
                   /\ services[n].lb = o.host
                   /\ services[n].spec = IF o.source = Nil THEN Passthrough
                                         ELSE o.source
                \/ \E t \in tasks : t.name = n /\ t.generation = stamp[n] - 1
                \/ /\ stamp[n] - 1 \in lost
                   /\ \/ services[n] = Nil
                      \/ services[n].generation < stamp[n] - 1

(* From the cluster to the request path: once the cluster stops changing,  *)
(* every name is served as its objects say, across relists, duplicate      *)
(* objects and loads that finish late.  Names that an object was renamed   *)
(* away from are excepted (see UnloadedWithoutObject), and so is all that  *)
(* follows a name that makes the loop panic.                               *)
ServicesConverge ==
  <>[](crashed \/ \A n \in Names : n \in unrefreshed \/ Reflected(n))

(* The objects that declare n, or that the store holds under n.            *)
About(n) == Declares(n) \cup ref_by_grpc_service[n]

(* No undelivered event is about n.                                        *)
Settled(n) == \A i \in DOMAIN events : events[i].ref \notin About(n)

(* The same at every moment: whatever has been deleted, recreated, relisted*)
(* or loaded late, and even after a panic of the loop, requests see what   *)
(* the cluster declares for a name whenever nothing about that name is on  *)
(* its way to the store.                                                   *)
CaughtUpIsServed ==
  phase = "watching" =>
    \A n \in Names \ (BadNames \cup unrefreshed) :
      Settled(n) /\ About(n) \cap removed = {} => Reflected(n)

(* The loop tells the HealthEndpoint that it is ready ("k8s service spec   *)
(* watch caught up") only with the map in that state: what was declared    *)
(* when the list was made is served or is loading, and what was gone by    *)
(* then is unloaded.                                                       *)
ReadyIsServed ==
  [][ready_due /\ ~ready_due' =>
       \A n \in Names \ (BadNames \cup unrefreshed) :
         Settled(n) => Reflected(n)']_pipelineVars

=============================================================================
