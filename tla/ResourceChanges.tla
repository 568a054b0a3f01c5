--------------------------- MODULE ResourceChanges ---------------------------
(***************************************************************************)
(* resource_changes (grcache-shared/src/resource_change.rs): the stream    *)
(* that turns the events of a kube watcher into Apply, Delete and Ready    *)
(* changes, and drops what its consumer already knows.                     *)
(*                                                                         *)
(* The API server and the kube watcher are external and modelled as the    *)
(* stream uses them: a relist (Init, one InitApply per object of a         *)
(* snapshot, InitDone) followed by the events since the snapshot, in       *)
(* order.  A failed watch loses the undelivered events and is relisted.    *)
(*                                                                         *)
(* The stream is pulled: it takes an event only once its consumer has      *)
(* handled every change it yielded.  `view' is what a consumer that        *)
(* applies each change as it is yielded then holds; the service store's    *)
(* raw_services takes its place in ConfigPipeline.                         *)
(***************************************************************************)
EXTENDS Naturals, Sequences

CONSTANTS
  Refs,        \* object references (make_key)
  Object,      \* contents of an object
  Nil,
  MaxVersion,  \* bound: changes made in the cluster
  MaxErrors    \* bound: watch failures

VARIABLES
  (* External: the API server and the watcher.                             *)
  cluster,       \* ref -> its object with resource_version, or Nil
  version,       \* resource_version of the last change
  phase,         \* "relist", "listing" or "watching"
  snapshot,      \* ref -> what the running list has still to deliver
  events,        \* watch events since the snapshot, not delivered yet
  errors,        \* watch failures so far
  (* The stream.                                                           *)
  objects,       \* ref -> resource_version last yielded, 0 when absent
  init_present,  \* refs met in the running relist
  removed,       \* refs InitDone has still to yield a Delete for
  ready_due,     \* InitDone has still to yield Ready
  (* The consumer.                                                         *)
  view,          \* ref -> content of the last Apply, Nil after a Delete
  ready          \* Ready was yielded

serverVars == <<cluster, version, phase, snapshot, events, errors>>
streamVars == <<objects, init_present, removed, ready_due>>
vars == <<serverVars, streamVars, view, ready>>

Resource == [ver : Nat \ {0}, obj : Object]

Event == [type : {"apply", "delete"}, ref : Refs, res : Resource]

(* What the module needs of its constants: Nil is no resource or content.  *)
ResourceNil == Nil \notin Resource \cup Object

ServerInit ==
  /\ cluster = [r \in Refs |-> Nil]
  /\ version = 0
  /\ phase = "relist"
  /\ snapshot = [r \in Refs |-> Nil]
  /\ events = <<>>
  /\ errors = 0

StreamInit ==
  /\ objects = [r \in Refs |-> 0]
  /\ init_present = {}
  /\ removed = {}
  /\ ready_due = FALSE

Init ==
  /\ ServerInit
  /\ StreamInit
  /\ view = [r \in Refs |-> Nil]
  /\ ready = FALSE

-----------------------------------------------------------------------------
(* The API server.  Changes before the list are in the snapshot, later     *)
(* ones become watch events.                                               *)

Record(e) == events' = IF phase = "relist" THEN events ELSE Append(events, e)

ClusterApply(r, o) ==
  LET res == [ver |-> version + 1, obj |-> o]
  IN  /\ version < MaxVersion
      /\ version' = version + 1
      /\ cluster' = [cluster EXCEPT ![r] = res]
      /\ Record([type |-> "apply", ref |-> r, res |-> res])
      /\ UNCHANGED <<phase, snapshot, errors>>

ClusterDelete(r) ==
  /\ version < MaxVersion
  /\ cluster[r] # Nil
  /\ version' = version + 1
  /\ cluster' = [cluster EXCEPT ![r] = Nil]
  /\ Record([type |-> "delete", ref |-> r, res |-> cluster[r]])
  /\ UNCHANGED <<phase, snapshot, errors>>

(* The watcher delivers an error and its next event is the Init of a       *)
(* relist.  (An error after which it resumes where it was changes nothing  *)
(* here and is a stuttering step.)                                         *)
WatchFails ==
  /\ errors < MaxErrors
  /\ errors' = errors + 1
  /\ phase' = "relist"
  /\ snapshot' = [r \in Refs |-> Nil]
  /\ events' = <<>>
  /\ UNCHANGED <<cluster, version>>

ListStarts ==
  /\ phase = "relist"
  /\ phase' = "listing"
  /\ snapshot' = cluster
  /\ events' = <<>>
  /\ UNCHANGED <<cluster, version, errors>>

ListDelivers(r) ==
  /\ phase = "listing"
  /\ snapshot[r] # Nil
  /\ snapshot' = [snapshot EXCEPT ![r] = Nil]
  /\ UNCHANGED <<cluster, version, phase, events, errors>>

ListEnds ==
  /\ phase = "listing"
  /\ \A r \in Refs : snapshot[r] = Nil
  /\ phase' = "watching"
  /\ UNCHANGED <<cluster, version, snapshot, events, errors>>

WatchDelivers(type) ==
  /\ phase = "watching"
  /\ events # <<>>
  /\ Head(events).type = type
  /\ events' = Tail(events)
  /\ UNCHANGED <<cluster, version, phase, snapshot, errors>>

-----------------------------------------------------------------------------
(* The stream, one action per arm of its match.  Only the stream's own     *)
(* variables are constrained here.                                         *)

(* Nothing yielded is waiting to be handled.                               *)
Polled == removed = {} /\ ~ready_due

(* Mutant: only objects never seen before are reported.                    *)
MutChanged(r, res) == objects[r] = 0

(* The version test that decides whether an Apply is yielded.              *)
Changed(r, res) == objects[r] # res.ver

StreamInitEvent ==
  /\ Polled
  /\ init_present' = {}
  /\ UNCHANGED <<objects, removed, ready_due>>

StreamInitApply(r, res) ==
  /\ Polled
  /\ init_present' = init_present \cup {r}
  /\ objects' = [objects EXCEPT ![r] = res.ver]
  /\ UNCHANGED <<removed, ready_due>>

(* Mutant: what the relist did not mention is kept.                        *)
MutStreamInitDone ==
  /\ Polled
  /\ init_present' = {}
  /\ ready_due' = TRUE
  /\ UNCHANGED <<objects, removed>>

(* The retain: what the relist did not mention is forgotten, and its       *)
(* Deletes and then Ready are due.                                         *)
StreamInitDone ==
  /\ Polled
  /\ removed' = {r \in Refs : objects[r] # 0 /\ r \notin init_present}
  /\ objects' = [r \in Refs |-> IF r \in init_present THEN objects[r] ELSE 0]
  /\ init_present' = {}
  /\ ready_due' = TRUE

YieldDelete(r) ==
  /\ r \in removed
  /\ removed' = removed \ {r}
  /\ UNCHANGED <<objects, init_present, ready_due>>

(* Mutant: Ready is yielded before the Deletes of the relist.              *)
MutYieldReady ==
  /\ ready_due
  /\ ready_due' = FALSE
  /\ UNCHANGED <<objects, init_present, removed>>

YieldReady ==
  /\ removed = {}
  /\ ready_due
  /\ ready_due' = FALSE
  /\ UNCHANGED <<objects, init_present, removed>>

StreamApply(r, res) ==
  /\ Polled
  /\ objects' = [objects EXCEPT ![r] = res.ver]
  /\ UNCHANGED <<init_present, removed, ready_due>>

(* Mutant: a Delete is yielded but the version stays remembered.           *)
MutStreamDelete(r) ==
  /\ Polled
  /\ UNCHANGED <<objects, init_present, removed, ready_due>>

StreamDelete(r) ==
  /\ Polled
  /\ objects' = [objects EXCEPT ![r] = 0]
  /\ UNCHANGED <<init_present, removed, ready_due>>

-----------------------------------------------------------------------------
(* The stream with the consumer it promises a faithful view to.            *)

ViewApply(r, res) ==
  view' = IF Changed(r, res) THEN [view EXCEPT ![r] = res.obj] ELSE view

ServerStep ==
  /\ \/ \E r \in Refs, o \in Object : ClusterApply(r, o)
     \/ \E r \in Refs : ClusterDelete(r)
  /\ UNCHANGED <<streamVars, view, ready>>

OnError == WatchFails /\ Polled /\ UNCHANGED <<streamVars, view, ready>>

OnInit == ListStarts /\ StreamInitEvent /\ UNCHANGED <<view, ready>>

OnInitApply ==
  \E r \in Refs :
    /\ ListDelivers(r)
    /\ StreamInitApply(r, snapshot[r])
    /\ ViewApply(r, snapshot[r])
    /\ UNCHANGED ready

OnInitDone == ListEnds /\ StreamInitDone /\ UNCHANGED <<view, ready>>

OnYieldDelete ==
  \E r \in removed :
    /\ YieldDelete(r)
    /\ view' = [view EXCEPT ![r] = Nil]
    /\ UNCHANGED <<serverVars, ready>>

OnYieldReady == YieldReady /\ ready' = TRUE /\ UNCHANGED <<serverVars, view>>

OnApply ==
  LET e == Head(events)
  IN  /\ WatchDelivers("apply")
      /\ StreamApply(e.ref, e.res)
      /\ ViewApply(e.ref, e.res)
      /\ UNCHANGED ready

OnDelete ==
  LET e == Head(events)
  IN  /\ WatchDelivers("delete")
      /\ StreamDelete(e.ref)
      /\ view' = [view EXCEPT ![e.ref] = Nil]
      /\ UNCHANGED ready

StreamStep ==
  \/ OnInit
  \/ OnInitApply
  \/ OnInitDone
  \/ OnYieldDelete
  \/ OnYieldReady
  \/ OnApply
  \/ OnDelete

Next == ServerStep \/ OnError \/ StreamStep

Spec == Init /\ [][Next]_vars

-----------------------------------------------------------------------------
(* Properties.                                                             *)

(* The variables have their types.                                         *)
TypeOK ==
  /\ cluster \in [Refs -> Resource \cup {Nil}]
  /\ version \in Nat
  /\ phase \in {"relist", "listing", "watching"}
  /\ snapshot \in [Refs -> Resource \cup {Nil}]
  /\ events \in Seq(Event)
  /\ errors \in Nat
  /\ objects \in [Refs -> Nat]
  /\ init_present \subseteq Refs
  /\ removed \subseteq Refs
  /\ ready_due \in BOOLEAN
  /\ view \in [Refs -> Object \cup {Nil}]
  /\ ready \in BOOLEAN

Content(r) == IF cluster[r] = Nil THEN Nil ELSE cluster[r].obj

(* Between two relists nothing is lost, added or mixed up: an object the   *)
(* undelivered events do not mention is held with exactly its content in   *)
(* the cluster, whatever was deleted, recreated or skipped while the watch *)
(* was down.                                                               *)
CaughtUp ==
  phase = "watching" =>
    \A r \in Refs \ removed :
      (\A i \in DOMAIN events : events[i].ref # r) => view[r] = Content(r)

(* The stream's memory is its consumer's: it believes an object known      *)
(* exactly when the consumer holds it, except for the Deletes it has still *)
(* to yield.  Otherwise an Apply would be withheld from a consumer without *)
(* the object, or a Delete never sent.                                     *)
MemoryIsView ==
  \A r \in Refs : objects[r] # 0 <=> view[r] # Nil /\ r \notin removed

(* The consumer is only told Ready ("k8s service spec watch caught up")    *)
(* when it holds no object that was gone before the relist started and     *)
(* misses none that was there.                                             *)
ReadyIsCaughtUp ==
  [][ready_due /\ ~ready_due' =>
       \A r \in Refs :
         (\A i \in DOMAIN events : events[i].ref # r)
           => view'[r] = Content(r)']_vars

(* The consumer holds the objects of the cluster.                          *)
Converged == \A r \in Refs : view[r] = Content(r)

=============================================================================
