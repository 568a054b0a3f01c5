---------------------------- MODULE ServiceStore ----------------------------
(***************************************************************************)
(* The service store of grcache-proxy (grcache-proxy/src/service_store.rs):*)
(* the loop that turns changes of GrcacheService objects into the map      *)
(* `services' that the request path reads.  One task runs the loop; every  *)
(* object with a descriptor set source is loaded by a spawned task of its  *)
(* own, which publishes its result whenever it is done.                    *)
(*                                                                         *)
(* An object is abstracted to the three fields the store looks at.  A spec *)
(* is abstracted to the source it was built from, a load balancer handle   *)
(* to its upstream host and port.  A step of the loop touches `services'   *)
(* at most once, in one atomic map operation, so a whole change is one     *)
(* action and only the spawned loads interleave with it.                   *)
(***************************************************************************)
EXTENDS Integers

CONSTANTS
  Refs,           \* ObjectRefs, numbered in the order of (namespace, name)
  Names,          \* gRPC service names
  BadNames,       \* the names QualifiedService::parse rejects (no dot)
  Hosts,          \* upstream (url, port) pairs
  Sources,        \* descriptor set sources
  Passthrough,    \* the spec of an object that has no source
  Nil,            \* Rust's None, and an absent map entry
  MaxGeneration   \* bound: calls of update_service in one behaviour

VARIABLES
  spec_generation,      \* ServiceConfigState::spec_generation
  raw_services,         \* ServiceConfigState::raw_services
  ref_by_grpc_service,  \* ServiceConfigState::ref_by_grpc_service
  services,             \* ServiceConfigInner::services, read by requests
  tasks,                \* spawned descriptor loads that are not done yet
  crashed,              \* the loop's task has panicked
  (* History variables: no guard reads them.                               *)
  stamp,                \* name -> 1 + generation of its last update_service
  lost,                 \* generations whose descriptor load panicked
  unrefreshed           \* names an object left without an update_service

vars == <<spec_generation, raw_services, ref_by_grpc_service, services, tasks,
          crashed, stamp, lost, unrefreshed>>

Object == [name : Names, host : Hosts, source : Sources \cup {Nil}]

ServiceData == [generation : Nat,
                spec : Sources \cup {Passthrough, Nil},
                lb : Hosts \cup {Nil}]

Task == [name : Names, generation : Nat, source : Sources, host : Hosts]

ASSUME RefsAssumption ==
  /\ Refs \subseteq Nat
  /\ \A S \in SUBSET Refs : S # {} => \E r \in S : \A s \in S : r <= s

ASSUME NilAssumption ==
  Nil \notin Hosts \cup Sources \cup Object \cup ServiceData

ASSUME PassthroughAssumption == Passthrough \notin Sources \cup {Nil}

ASSUME BoundAssumption == MaxGeneration \in Nat

Init ==
  /\ spec_generation = 0
  /\ raw_services = [r \in Refs |-> Nil]
  /\ ref_by_grpc_service = [n \in Names |-> {}]
  /\ services = [n \in Names |-> Nil]
  /\ tasks = {}
  /\ crashed = FALSE
  /\ stamp = [n \in Names |-> 0]
  /\ lost = {}
  /\ unrefreshed = {}

-----------------------------------------------------------------------------
(* Publishing into the map.                                                *)

(* Mutant: the race guard of update_service_if_newer is gone.              *)
MutAlwaysNewer(old, data) == TRUE

(* update_service_if_newer's closure: an entry only gives way to a newer   *)
(* generation.                                                             *)
Newer(old, data) == old = Nil \/ old.generation < data.generation

UpdateServiceIfNewer(n, data) ==
  services' = IF Newer(services[n], data)
              THEN [services EXCEPT ![n] = data]
              ELSE services

(* The entry that stands for an unloaded service: neither spec nor load    *)
(* balancer, so request_filter answers 404.                                *)
Tombstone(g) == [generation |-> g, spec |-> Nil, lb |-> Nil]

Loaded(g, spec, host) == [generation |-> g, spec |-> spec, lb |-> host]

-----------------------------------------------------------------------------
(* update_service.  raw and index are the maps as the caller left them.    *)

(* Mutant: the greatest of the duplicate objects is picked.                *)
MutMinRef(S) == CHOOSE r \in S : \A s \in S : s <= r

(* The object that wins when several declare the same gRPC service.        *)
MinRef(S) == CHOOSE r \in S : \A s \in S : r <= s

Selected(raw, index, n) == raw[MinRef(index[n])]

Unload(n, index) ==
  /\ index[n] = {}
  /\ services' = [services EXCEPT ![n] = Tombstone(spec_generation)]
  /\ UNCHANGED <<tasks, crashed>>

(* QualifiedService::parse(..).unwrap() on a name without a dot.           *)
PanicOnName(n, index) ==
  /\ index[n] # {}
  /\ n \in BadNames
  /\ crashed' = TRUE
  /\ UNCHANGED <<services, tasks>>

LoadPassthrough(n, raw, index) ==
  /\ index[n] # {}
  /\ n \notin BadNames
  /\ Selected(raw, index, n).source = Nil
  /\ UpdateServiceIfNewer(n, Loaded(spec_generation, Passthrough,
                                    Selected(raw, index, n).host))
  /\ UNCHANGED <<tasks, crashed>>

SpawnLoad(n, raw, index) ==
  /\ index[n] # {}
  /\ n \notin BadNames
  /\ Selected(raw, index, n).source # Nil
  /\ tasks' = tasks \cup
       {[name |-> n, generation |-> spec_generation,
         source |-> Selected(raw, index, n).source,
         host |-> Selected(raw, index, n).host]}
  /\ UNCHANGED <<services, crashed>>

UpdateService(n, raw, index) ==
  /\ spec_generation < MaxGeneration
  /\ spec_generation' = spec_generation + 1
  /\ stamp' = [stamp EXCEPT ![n] = spec_generation + 1]
  /\ \/ Unload(n, index)
     \/ PanicOnName(n, index)
     \/ LoadPassthrough(n, raw, index)
     \/ SpawnLoad(n, raw, index)

-----------------------------------------------------------------------------
(* The changes the loop handles, and the spawned loads.                    *)

(* Mutant: a removed object stays in raw_services.                         *)
MutRawWithout(r) == raw_services

(* remove_noupdate's effect on the objects.                                *)
RawWithout(r) == [raw_services EXCEPT ![r] = Nil]

(* Mutant: the index keeps the reference of a removed object.              *)
MutIndexWithout(r) == ref_by_grpc_service

(* remove_noupdate's effect on the index.                                  *)
IndexWithout(r) ==
  IF raw_services[r] = Nil
  THEN ref_by_grpc_service
  ELSE [ref_by_grpc_service EXCEPT ![raw_services[r].name] = @ \ {r}]

(* ServiceConfigState::apply.  The name an object had before is dropped    *)
(* from the index, but update_service runs for the new name only.          *)
Apply(r, o) ==
  LET raw   == [RawWithout(r) EXCEPT ![r] = o]
      index == [IndexWithout(r) EXCEPT ![o.name] = @ \cup {r}]
  IN  /\ ~crashed
      /\ raw_services' = raw
      /\ ref_by_grpc_service' = index
      /\ UpdateService(o.name, raw, index)
      /\ unrefreshed' = (unrefreshed \cup
            {n \in Names : r \in ref_by_grpc_service[n]}) \ {o.name}
      /\ UNCHANGED lost

(* ServiceConfigState::remove of an object the store does not hold.        *)
RemoveUnknown(r) ==
  /\ ~crashed
  /\ raw_services[r] = Nil
  /\ UNCHANGED vars

(* ServiceConfigState::remove.                                             *)
Remove(r) ==
  LET raw   == RawWithout(r)
      index == IndexWithout(r)
  IN  /\ ~crashed
      /\ raw_services[r] # Nil
      /\ raw_services' = raw
      /\ ref_by_grpc_service' = index
      /\ UpdateService(raw_services[r].name, raw, index)
      /\ unrefreshed' = unrefreshed \ {raw_services[r].name}
      /\ UNCHANGED lost

(* A spawned load has its descriptor set and publishes the spec it built.  *)
LoadDone(t) ==
  /\ t \in tasks
  /\ tasks' = tasks \ {t}
  /\ UpdateServiceIfNewer(t.name, Loaded(t.generation, t.source, t.host))
  /\ UNCHANGED <<spec_generation, raw_services, ref_by_grpc_service, crashed,
                 stamp, lost, unrefreshed>>

(* from_source or ServiceSpec::build fails: the unwrap ends the task.      *)
LoadPanic(t) ==
  /\ t \in tasks
  /\ tasks' = tasks \ {t}
  /\ lost' = lost \cup {t.generation}
  /\ UNCHANGED <<spec_generation, raw_services, ref_by_grpc_service, services,
                 crashed, stamp, unrefreshed>>

Next ==
  \/ \E r \in Refs, o \in Object : Apply(r, o)
  \/ \E r \in Refs : RemoveUnknown(r)
  \/ \E r \in Refs : Remove(r)
  \/ \E t \in tasks : LoadDone(t)
  \/ \E t \in tasks : LoadPanic(t)

Spec == Init /\ [][Next]_vars

-----------------------------------------------------------------------------
(* Properties.                                                             *)

(* The variables have their types.                                         *)
TypeOK ==
  /\ spec_generation \in Nat
  /\ raw_services \in [Refs -> Object \cup {Nil}]
  /\ ref_by_grpc_service \in [Names -> SUBSET Refs]
  /\ services \in [Names -> ServiceData \cup {Nil}]
  /\ tasks \subseteq Task
  /\ crashed \in BOOLEAN
  /\ stamp \in [Names -> Nat]
  /\ lost \subseteq Nat
  /\ unrefreshed \subseteq Names

(* The two maps of the loop agree: a reference is indexed under a name     *)
(* exactly when the object it refers to declares that name.  The unwrap in *)
(* remove_noupdate, the unwrap in update_service and the indexing of       *)
(* raw_services by the selected reference cannot panic because of this.    *)
IndexConsistent ==
  \A n \in Names, r \in Refs :
    r \in ref_by_grpc_service[n] <=>
      raw_services[r] # Nil /\ raw_services[r].name = n

(* What update_service last decided for n has not been undone: the entry   *)
(* of the newest decision is in the map, or its load is still running, or  *)
(* its load panicked and nothing of that generation was published.         *)
NewestLoad(n) ==
  \E r \in ref_by_grpc_service[n] :
    LET o == raw_services[r]
        g == stamp[n] - 1
    IN  /\ \A s \in ref_by_grpc_service[n] : r <= s
        /\ stamp[n] > 0
        /\ \/ services[n] = Loaded(g, IF o.source = Nil THEN Passthrough
                                      ELSE o.source, o.host)
           \/ [name |-> n, generation |-> g, source |-> o.source,
               host |-> o.host] \in tasks
           \/ g \in lost /\ (services[n] = Nil \/ services[n].generation < g)

NewestUnload(n) ==
  \/ stamp[n] = 0 /\ services[n] = Nil
  \/ stamp[n] > 0 /\ services[n] = Tombstone(stamp[n] - 1)

(* Whatever order the spawned loads finish in, a request for a service     *)
(* sees the object that currently wins for that name (the least reference, *)
(* with its current host and descriptor source) as soon as its load is     *)
(* done, and never one that was loaded late for an object that has since   *)
(* been changed or deleted.  A load that panics leaves the entry that was  *)
(* there before it.  Names an object was renamed away from are excepted:   *)
(* see UnloadedWithoutObject.                                              *)
NewestWins ==
  \A n \in Names \ (unrefreshed \cup BadNames) :
    IF ref_by_grpc_service[n] = {} THEN NewestUnload(n) ELSE NewestLoad(n)

(* The comment on update_service_if_newer, "IF we are not already on a     *)
(* newer generation": no step of the loop or of a load takes an entry back *)
(* to an older generation, or drops it from the map.                       *)
GenerationsAdvance ==
  [][\A n \in Names :
       services[n] # Nil =>
         /\ services'[n] # Nil
         /\ services'[n] # services[n] =>
              services[n].generation < services'[n].generation]_vars

(* What docs/usage.md and the comment in apply promise of live reloading:  *)
(* a service no object declares any more is not routed anywhere.           *)
UnloadedWithoutObject ==
  \A n \in Names :
    ref_by_grpc_service[n] = {} => services[n] = Nil \/ services[n].lb = Nil

(* A rename is the only way around that promise: any other name without an *)
(* object is not routed anywhere, also after the loop has panicked, and    *)
(* whatever loads are still running.                                       *)
UnloadedUnlessRenamed ==
  \A n \in Names \ unrefreshed :
    ref_by_grpc_service[n] = {} => services[n] = Nil \/ services[n].lb = Nil

=============================================================================
