----------------------- MODULE ResourceChangesProofs -----------------------
(***************************************************************************)
(* Proofs about ResourceChanges, for any references, objects, numbers of   *)
(* changes and numbers of failures.                                        *)
(***************************************************************************)
EXTENDS ResourceChanges, TLAPS

(* The resources of r that are somewhere on their way, and the one the     *)
(* stream and its consumer remember.                                       *)
Known(r) ==
  {p \in Resource :
     \/ p = cluster[r]
     \/ p = snapshot[r]
     \/ \E i \in DOMAIN events : events[i].ref = r /\ events[i].res = p
     \/ objects[r] = p.ver /\ view[r] = p.obj}

(* A resource_version stands for one content.                              *)
Versions ==
  \A r \in Refs : \A p \in Known(r) :
    p.ver <= version /\ \A q \in Known(r) : p.ver = q.ver => p.obj = q.obj

Mentioned(r) == \E i \in DOMAIN events : events[i].ref = r

After(e) == IF e.type = "apply" THEN e.res ELSE Nil

(* The last event of an object tells what is in the cluster.               *)
LastEvents ==
  \A i \in DOMAIN events :
    (\A j \in DOMAIN events : j > i => events[j].ref # events[i].ref) =>
      cluster[events[i].ref] = After(events[i])

(* What a relist has delivered and has still to deliver of the objects     *)
(* that did not change since.                                              *)
Listing ==
  phase = "listing" =>
    \A r \in Refs : ~Mentioned(r) =>
      /\ snapshot[r] # Nil => snapshot[r] = cluster[r]
      /\ snapshot[r] = Nil => Content(r) = IF r \in init_present THEN view[r] ELSE Nil

(* An object that InitDone found gone is gone, unless it came back since.  *)
Removing ==
  /\ removed # {} \/ ready_due => phase = "watching"
  /\ \A r \in removed : ~Mentioned(r) => Content(r) = Nil

Inv ==
  /\ TypeOK
  /\ Versions
  /\ phase # "relist" => LastEvents
  /\ Listing
  /\ Removing
  /\ CaughtUp
  /\ MemoryIsView

-----------------------------------------------------------------------------
(* Nothing is known and nothing is on its way at the start.                *)
LEMMA InitInv ==
  ASSUME ResourceNil, Init
  PROVE  Inv
<1> USE DEF Init, ServerInit, StreamInit
<1>1. TypeOK
  <2>1. events \in Seq(Event)
    OBVIOUS
  <2>2. ready_due \in BOOLEAN /\ ready \in BOOLEAN
    BY Zenon
  <2> QED
    BY <2>1, <2>2, Zenon DEF TypeOK
<1>2. Versions
  <2>1. ASSUME NEW r \in Refs, NEW p \in Known(r) PROVE FALSE
    BY <2>1, ResourceNil DEF ResourceNil, Known, Resource
  <2> QED
    BY <2>1, Zenon DEF Versions
<1>3. Listing /\ Removing /\ CaughtUp
  BY Zenon DEF Listing, Removing, CaughtUp
<1>4. MemoryIsView
  BY Zenon DEF MemoryIsView
<1> QED
  BY <1>1, <1>2, <1>3, <1>4, Zenon DEF Inv

(* A resource is its version and its content.                              *)
LEMMA SameResource ==
  ASSUME NEW p \in Resource, NEW q \in Resource, p.ver = q.ver, p.obj = q.obj
  PROVE  p = q
BY DEF Resource

(* A step that brings no new resource keeps versions unambiguous.          *)
LEMMA SameVersions ==
  ASSUME Versions, version' = version,
         \A r \in Refs : Known(r)' \subseteq Known(r)
  PROVE  Versions'
BY Zenon DEF Versions

(* What a change of the cluster brings has a version never used before.    *)
LEMMA FreshVersions ==
  ASSUME TypeOK, Versions, version' = version + 1,
         NEW res \in Resource, res.ver = version + 1,
         \A r \in Refs : Known(r)' \subseteq Known(r) \cup {res}
  PROVE  Versions'
<1> SUFFICES ASSUME NEW r \in Refs, NEW p \in Known(r)', NEW q \in Known(r)'
             PROVE  p.ver <= version' /\ (p.ver = q.ver => p.obj = q.obj)
  BY Zenon DEF Versions
<1>1. version \in Nat
  BY Zenon DEF TypeOK
<1>2. p \in Resource /\ q \in Resource
  BY Zenon DEF Known
<1>3. p.ver \in Nat /\ q.ver \in Nat
  BY <1>2, Zenon DEF Resource
<1>4. /\ p \in Known(r) => p.ver <= version
      /\ q \in Known(r) => q.ver <= version
      /\ p \in Known(r) /\ q \in Known(r) => (p.ver = q.ver => p.obj = q.obj)
  BY Zenon DEF Versions
<1>5. (p \in Known(r) \/ p = res) /\ (q \in Known(r) \/ q = res)
  BY Zenon
<1> QED
  BY <1>1, <1>3, <1>4, <1>5

(* Withholding the Apply of a version that is remembered is harmless: the  *)
(* consumer holds its content already.                                     *)
LEMMA ViewUpdated ==
  ASSUME Inv, NEW r \in Refs, NEW res \in Known(r), Polled, ViewApply(r, res)
  PROVE  /\ view' = [view EXCEPT ![r] = res.obj]
         /\ res.obj \in Object /\ res.ver \in Nat \ {0}
<1>1. res \in Resource /\ res.obj \in Object /\ res.ver \in Nat \ {0}
  BY Zenon DEF Known, Resource
<1>2. view \in [Refs -> Object \cup {Nil}] /\ objects \in [Refs -> Nat]
  BY Zenon DEF Inv, TypeOK
<1>3. CASE Changed(r, res)
  BY <1>1, <1>3, Zenon DEF ViewApply
<1>4. CASE ~Changed(r, res)
  <2>1. objects[r] = res.ver /\ view' = view
    BY <1>4, Zenon DEF Changed, ViewApply
  <2>2. view[r] # Nil
    BY <1>1, <2>1, Zenon DEF Inv, MemoryIsView
  <2>3. view[r] \in Object
    BY <1>2, <2>2, Zenon
  <2> DEFINE p == [ver |-> objects[r], obj |-> view[r]]
  <2>4. p \in Resource /\ p.ver = objects[r] /\ p.obj = view[r]
    BY <1>1, <2>1, <2>3, Zenon DEF Resource
  <2>5. p \in Known(r)
    BY <2>4, Zenon DEF Known
  <2>6. p.obj = res.obj
    BY <2>1, <2>4, <2>5, Zenon DEF Inv, Versions
  <2>7. view[r] = res.obj
    BY <2>4, <2>6, Zenon
  <2> QED
    BY <1>1, <1>2, <2>1, <2>7, Zenon
<1> QED
  BY <1>1, <1>3, <1>4, Zenon

-----------------------------------------------------------------------------
(* The cluster.                                                            *)

(* What a change of the cluster and its event, if one is recorded, do.     *)
LEMMA RecordedInv ==
  ASSUME Inv, NEW e \in Event,
         cluster' = [cluster EXCEPT ![e.ref] = After(e)], Record(e), Versions',
         version' \in Nat, UNCHANGED <<phase, snapshot, errors>>,
         UNCHANGED <<streamVars, view, ready>>
  PROVE  Inv'
<1> USE DEF streamVars
<1> DEFINE r == e.ref
           new == After(e)
<1>0. r \in Refs /\ new \in Resource \cup {Nil}
  BY Zenon DEF Event, After
<1> HIDE DEF new
<1>1. /\ cluster \in [Refs -> Resource \cup {Nil}] /\ events \in Seq(Event)
      /\ \A i \in DOMAIN events : events[i] \in Event
  BY DEF Inv, TypeOK
<1>2. TypeOK'
  BY <1>0, <1>1 DEF Inv, TypeOK, Record, new
<1>3. MemoryIsView'
  BY Zenon DEF Inv, MemoryIsView
<1>4. CASE phase = "relist"
  BY <1>2, <1>3, <1>4, Zenon DEF Inv, Listing, Removing, CaughtUp
<1>5. CASE phase # "relist"
  <2>1. events' = Append(events, e)
    BY <1>5, Zenon DEF Record
  <2>2. /\ Len(events) \in Nat /\ DOMAIN events = 1..Len(events)
        /\ DOMAIN events' = 1..(Len(events) + 1)
        /\ events'[Len(events) + 1] = e
        /\ \A i \in DOMAIN events : events'[i] = events[i]
    BY <1>1, <2>1
  <2>3. cluster'[r] = new /\ \A x \in Refs : x # r => cluster'[x] = cluster[x]
    BY <1>0, <1>1, Zenon DEF new
  <2>4. Mentioned(r)' /\ \A x \in Refs : Mentioned(x) => Mentioned(x)'
    BY <2>2 DEF Mentioned
  <2>5. LastEvents'
    <3> SUFFICES ASSUME NEW i \in DOMAIN events',
                        \A j \in DOMAIN events' : j > i => events'[j].ref # events'[i].ref
                 PROVE  cluster'[events'[i].ref] = After(events'[i])
      BY Zenon DEF LastEvents
    <3>1. CASE i = Len(events) + 1
      BY <2>2, <2>3, <3>1, Zenon DEF new
    <3>2. CASE i # Len(events) + 1
      <4>1. i \in DOMAIN events /\ events'[i] = events[i] /\ i < Len(events) + 1
        BY <2>2, <3>2
      <4>2. events[i].ref # r
        BY <2>2, <4>1
      <4>3. \A j \in DOMAIN events : j > i => events[j].ref # events[i].ref
        BY <2>2, <4>1
      <4>4. cluster[events[i].ref] = After(events[i])
        BY <1>5, <4>1, <4>3, Zenon DEF Inv, LastEvents
      <4>5. events[i].ref \in Refs
        BY <1>1, <4>1, Zenon DEF Event
      <4> QED
        BY <2>3, <4>1, <4>2, <4>4, <4>5, Zenon
    <3> QED
      BY <3>1, <3>2, Zenon
  <2>6. \A x \in Refs : ~Mentioned(x)' =>
          x # r /\ ~Mentioned(x) /\ cluster'[x] = cluster[x] /\ Content(x)' = Content(x)
    BY <2>3, <2>4 DEF Content
  <2>7. Listing'
    BY <2>6, Zenon DEF Inv, Listing
  <2>8. Removing'
    BY <2>6, Zenon DEF Inv, TypeOK, Removing
  <2>9. CaughtUp'
    BY <2>6, Zenon DEF Inv, CaughtUp, Mentioned
  <2> QED
    BY <1>2, <1>3, <2>5, <2>7, <2>8, <2>9, Zenon DEF Inv
<1> QED
  BY <1>4, <1>5, Zenon

(* A change of the cluster is in the snapshot or among the events.         *)
LEMMA ServerStepInv ==
  ASSUME ResourceNil, Inv, ServerStep
  PROVE  Inv'
<1>1. /\ TypeOK /\ Versions /\ version \in Nat
      /\ cluster \in [Refs -> Resource \cup {Nil}] /\ events \in Seq(Event)
  BY Zenon DEF Inv, TypeOK
<1>2. UNCHANGED <<streamVars, view, ready>>
  BY Zenon DEF ServerStep
<1>3. ASSUME NEW r \in Refs, NEW o \in Object, ClusterApply(r, o) PROVE Inv'
  <2> DEFINE res == [ver |-> version + 1, obj |-> o]
             e == [type |-> "apply", ref |-> r, res |-> res]
  <2>1. res \in Resource /\ res.ver = version + 1
    BY <1>1 DEF Resource
  <2>2. e \in Event /\ e.ref = r /\ After(e) = res /\ e.res = res
    BY <2>1, Zenon DEF Event, After
  <2>3. /\ version' = version + 1 /\ cluster' = [cluster EXCEPT ![r] = res]
        /\ Record(e) /\ UNCHANGED <<phase, snapshot, errors>>
    BY <1>3, Zenon DEF ClusterApply
  <2> HIDE DEF res, e
  <2>4. ASSUME NEW x \in Refs PROVE Known(x)' \subseteq Known(x) \cup {res}
    <3>1. cluster'[x] \in {cluster[x], res}
      BY <1>1, <2>3, Zenon
    <3>2. \A i \in DOMAIN events' :
            \/ events'[i] = e
            \/ i \in DOMAIN events /\ events'[i] = events[i]
      BY <1>1, <2>3 DEF Record
    <3> QED
      BY <1>2, <2>2, <2>3, <3>1, <3>2, Zenon DEF Known, streamVars
  <2>5. Versions'
    BY <1>1, <2>1, <2>3, <2>4, FreshVersions, Zenon
  <2>6. cluster' = [cluster EXCEPT ![e.ref] = After(e)] /\ version' \in Nat
    BY <1>1, <2>2, <2>3
  <2> QED
    BY <1>2, <2>2, <2>3, <2>5, <2>6, RecordedInv, Zenon
<1>4. ASSUME NEW r \in Refs, ClusterDelete(r) PROVE Inv'
  <2> DEFINE e == [type |-> "delete", ref |-> r, res |-> cluster[r]]
  <2>1. cluster[r] \in Resource
    BY <1>1, <1>4, Zenon DEF ClusterDelete
  <2>2. e \in Event /\ e.ref = r /\ After(e) = Nil /\ e.res = cluster[r]
    BY <2>1, Zenon DEF Event, After
  <2>3. /\ version' = version + 1 /\ cluster' = [cluster EXCEPT ![r] = Nil]
        /\ Record(e) /\ UNCHANGED <<phase, snapshot, errors>>
    BY <1>4, Zenon DEF ClusterDelete
  <2> HIDE DEF e
  <2>4. ASSUME NEW x \in Refs PROVE Known(x)' \subseteq Known(x)
    <3>1. cluster'[x] \in {cluster[x], Nil}
      BY <1>1, <2>3, Zenon
    <3>2. \A i \in DOMAIN events' :
            \/ events'[i] = e
            \/ i \in DOMAIN events /\ events'[i] = events[i]
      BY <1>1, <2>3 DEF Record
    <3> QED
      BY <1>2, <2>2, <2>3, <3>1, <3>2, ResourceNil, Zenon
      DEF ResourceNil, Known, streamVars
  <2>5. Versions'
    <3> SUFFICES ASSUME NEW x \in Refs, NEW p \in Known(x), NEW q \in Known(x)
                 PROVE  p.ver <= version' /\ (p.ver = q.ver => p.obj = q.obj)
      BY <2>4, Zenon DEF Versions
    <3>1. p.ver \in Nat
      BY Zenon DEF Known, Resource
    <3> QED
      BY <1>1, <2>3, <3>1 DEF Versions
  <2>6. cluster' = [cluster EXCEPT ![e.ref] = After(e)] /\ version' \in Nat
    BY <1>1, <2>2, <2>3
  <2> QED
    BY <1>2, <2>2, <2>3, <2>5, <2>6, RecordedInv, Zenon
<1> QED
  BY <1>3, <1>4, Zenon DEF ServerStep

-----------------------------------------------------------------------------
(* The stream.                                                             *)

(* A failure forgets what was under way; nothing is owed to the consumer.  *)
LEMMA OnErrorInv ==
  ASSUME ResourceNil, Inv, OnError
  PROVE  Inv'
<1> USE DEF OnError, WatchFails, Polled, streamVars
<1>1. TypeOK'
  BY DEF Inv, TypeOK
<1>2. Versions'
  <2>1. ASSUME NEW r \in Refs PROVE Known(r)' \subseteq Known(r)
    BY ResourceNil DEF ResourceNil, Known
  <2> QED
    BY <2>1, SameVersions, Zenon DEF Inv
<1>3. MemoryIsView'
  BY Zenon DEF Inv, MemoryIsView
<1>4. Listing' /\ Removing' /\ CaughtUp'
  BY Zenon DEF Listing, Removing, CaughtUp
<1> QED
  BY <1>1, <1>2, <1>3, <1>4, Zenon DEF Inv

(* Init: the snapshot is the cluster, and nothing was met yet.             *)
LEMMA OnInitInv ==
  ASSUME Inv, OnInit
  PROVE  Inv'
<1> USE DEF OnInit, ListStarts, StreamInitEvent, Polled
<1>1. TypeOK'
  BY DEF Inv, TypeOK
<1>2. Versions'
  <2>1. ASSUME NEW r \in Refs PROVE Known(r)' \subseteq Known(r)
    BY DEF Known
  <2> QED
    BY <2>1, SameVersions, Zenon DEF Inv
<1>3. MemoryIsView'
  BY Zenon DEF Inv, MemoryIsView
<1>4. LastEvents'
  BY DEF LastEvents
<1>5. Listing'
  BY Zenon DEF Listing, Content
<1>6. Removing' /\ CaughtUp'
  BY Zenon DEF Removing, CaughtUp
<1> QED
  BY <1>1, <1>2, <1>3, <1>4, <1>5, <1>6, Zenon DEF Inv

(* InitApply: the consumer has the object as it was listed.                *)
LEMMA OnInitApplyInv ==
  ASSUME ResourceNil, Inv, OnInitApply
  PROVE  Inv'
<1>1. PICK r \in Refs : /\ ListDelivers(r)
                        /\ StreamInitApply(r, snapshot[r])
                        /\ ViewApply(r, snapshot[r])
                        /\ UNCHANGED ready
  BY Zenon DEF OnInitApply
<1> DEFINE res == snapshot[r]
<1>2. res \in Resource /\ res # Nil
  BY <1>1, Zenon DEF Inv, TypeOK, ListDelivers
<1>3. res \in Known(r)
  BY <1>2, Zenon DEF Known
<1>4. /\ view' = [view EXCEPT ![r] = res.obj]
      /\ res.obj \in Object /\ res.ver \in Nat \ {0}
  BY <1>1, <1>3, ViewUpdated, Zenon DEF StreamInitApply
<1>5. /\ snapshot' = [snapshot EXCEPT ![r] = Nil] /\ phase = "listing"
      /\ objects' = [objects EXCEPT ![r] = res.ver]
      /\ init_present' = init_present \cup {r}
      /\ removed = {} /\ ~ready_due
      /\ UNCHANGED <<cluster, version, phase, events, errors, removed, ready_due, ready>>
  BY <1>1, Zenon DEF ListDelivers, StreamInitApply, Polled
<1> HIDE DEF res
<1>6. TypeOK'
  BY <1>4, <1>5, Zenon DEF Inv, TypeOK
<1>7. /\ snapshot'[r] = Nil /\ objects'[r] = res.ver /\ view'[r] = res.obj
      /\ \A x \in Refs : x # r =>
           snapshot'[x] = snapshot[x] /\ objects'[x] = objects[x] /\ view'[x] = view[x]
  BY <1>4, <1>5, Zenon DEF Inv, TypeOK
<1>8. Versions'
  <2>1. ASSUME NEW x \in Refs, NEW p \in Known(x)' PROVE p \in Known(x)
    <3>1. CASE x = r
      <4>1. ASSUME objects'[x] = p.ver, view'[x] = p.obj PROVE p = res
        <5>1. p \in Resource /\ p.ver = res.ver /\ p.obj = res.obj
          BY <1>7, <3>1, <4>1, Zenon DEF Known
        <5> QED
          BY <1>2, <5>1, SameResource, Zenon
      <4> QED
        BY <1>3, <1>5, <1>7, <3>1, <4>1, ResourceNil DEF ResourceNil, Known
    <3>2. CASE x # r
      BY <1>5, <1>7, <3>2, Zenon DEF Known
    <3> QED
      BY <3>1, <3>2, Zenon
  <2> QED
    BY <1>5, <2>1, SameVersions, Zenon DEF Inv
<1>9. MemoryIsView'
  BY <1>4, <1>5, <1>7, ResourceNil DEF ResourceNil, Inv, MemoryIsView
<1>10. Listing'
  <2> SUFFICES ASSUME NEW x \in Refs, ~Mentioned(x)'
               PROVE  /\ snapshot'[x] # Nil => snapshot'[x] = cluster'[x]
                      /\ snapshot'[x] = Nil =>
                           Content(x)' = IF x \in init_present' THEN view'[x] ELSE Nil
    BY Zenon DEF Listing
  <2>1. ~Mentioned(x)
    BY <1>5, Zenon DEF Mentioned
  <2>2. /\ snapshot[x] # Nil => snapshot[x] = cluster[x]
        /\ snapshot[x] = Nil => Content(x) = IF x \in init_present THEN view[x] ELSE Nil
    BY <1>5, <2>1, Zenon DEF Inv, Listing
  <2>3. CASE x = r
    BY <1>2, <1>5, <1>7, <2>2, <2>3, Zenon DEF Content, res
  <2>4. CASE x # r
    BY <1>5, <1>7, <2>2, <2>4, Zenon DEF Content
  <2> QED
    BY <2>3, <2>4, Zenon
<1>11. LastEvents' /\ Removing' /\ CaughtUp'
  BY <1>5, Zenon DEF Inv, LastEvents, Removing, CaughtUp
<1> QED
  BY <1>6, <1>8, <1>9, <1>10, <1>11, Zenon DEF Inv

(* The retain of InitDone: what is forgotten is what is owed a Delete.     *)
LEMMA OnInitDoneInv ==
  ASSUME Inv, OnInitDone
  PROVE  Inv'
<1>1. /\ phase = "listing" /\ phase' = "watching"
      /\ \A r \in Refs : snapshot[r] = Nil
      /\ removed = {} /\ ~ready_due
      /\ removed' = {r \in Refs : objects[r] # 0 /\ r \notin init_present}
      /\ objects' = [r \in Refs |-> IF r \in init_present THEN objects[r] ELSE 0]
      /\ init_present' = {} /\ ready_due' = TRUE
      /\ UNCHANGED <<cluster, version, snapshot, events, errors, view, ready>>
  BY Zenon DEF OnInitDone, ListEnds, StreamInitDone, Polled
<1>2. TypeOK'
  <2>1. objects' \in [Refs -> Nat]
    BY <1>1, Zenon DEF Inv, TypeOK
  <2> QED
    BY <1>1, <2>1, Zenon DEF Inv, TypeOK
<1>3. Versions'
  <2>1. ASSUME NEW r \in Refs, NEW p \in Known(r)' PROVE p \in Known(r)
    <3>1. p \in Resource /\ p.ver # 0
      BY Zenon DEF Known, Resource
    <3>2. objects'[r] = p.ver => objects[r] = p.ver
      BY <1>1, <3>1, Zenon
    <3> QED
      BY <1>1, <3>1, <3>2, Zenon DEF Known
  <2> QED
    BY <1>1, <2>1, SameVersions, Zenon DEF Inv
<1>4. MemoryIsView'
  BY <1>1, Zenon DEF Inv, MemoryIsView
<1>5. ASSUME NEW r \in Refs, ~Mentioned(r)'
      PROVE  /\ r \in removed' => Content(r)' = Nil
             /\ r \notin removed' => view'[r] = Content(r)'
  <2>1. ~Mentioned(r) /\ Content(r)' = Content(r)
    BY <1>1, <1>5, Zenon DEF Mentioned, Content
  <2>2. Content(r) = IF r \in init_present THEN view[r] ELSE Nil
    BY <1>1, <2>1, Zenon DEF Inv, Listing
  <2>3. objects[r] # 0 <=> view[r] # Nil
    BY <1>1, Zenon DEF Inv, MemoryIsView
  <2> QED
    BY <1>1, <2>1, <2>2, <2>3, Zenon
<1>6. LastEvents'
  BY <1>1, Zenon DEF Inv, LastEvents
<1>7. Listing'
  BY <1>1, Zenon DEF Listing
<1>8. Removing'
  BY <1>1, <1>5, Zenon DEF Removing
<1>9. CaughtUp'
  BY <1>1, <1>5, Zenon DEF CaughtUp, Mentioned
<1> QED
  BY <1>2, <1>3, <1>4, <1>6, <1>7, <1>8, <1>9, Zenon DEF Inv

(* A Delete that was due is handled; the others stay due.                  *)
LEMMA OnYieldDeleteInv ==
  ASSUME ResourceNil, Inv, OnYieldDelete
  PROVE  Inv'
<1>1. PICK r \in removed : /\ YieldDelete(r)
                           /\ view' = [view EXCEPT ![r] = Nil]
                           /\ UNCHANGED <<serverVars, ready>>
  BY Zenon DEF OnYieldDelete
<1>2. /\ removed' = removed \ {r} /\ phase = "watching" /\ r \in Refs
      /\ UNCHANGED <<cluster, version, phase, snapshot, events, errors,
                     objects, init_present, ready_due, ready>>
  BY <1>1, Zenon DEF YieldDelete, serverVars, Inv, TypeOK, Removing
<1>3. TypeOK'
  BY <1>1, <1>2, Zenon DEF Inv, TypeOK
<1>4. view'[r] = Nil /\ \A x \in Refs : x # r => view'[x] = view[x]
  BY <1>1, <1>2, Zenon DEF Inv, TypeOK
<1>5. Versions'
  <2>1. ASSUME NEW x \in Refs, NEW p \in Known(x)' PROVE p \in Known(x)
    <3>1. p \in Resource /\ p.obj # Nil
      BY ResourceNil, Zenon DEF ResourceNil, Known, Resource
    <3>2. view'[x] = p.obj => view[x] = p.obj
      BY <1>4, <3>1, Zenon
    <3> QED
      BY <1>2, <3>1, <3>2, Zenon DEF Known
  <2> QED
    BY <1>2, <2>1, SameVersions, Zenon DEF Inv
<1>6. MemoryIsView'
  BY <1>2, <1>4, Zenon DEF Inv, MemoryIsView
<1>7. Removing'
  BY <1>2, Zenon DEF Inv, Removing, Mentioned, Content
<1>8. CaughtUp'
  <2> SUFFICES ASSUME NEW x \in Refs \ removed', ~Mentioned(x)'
               PROVE  view'[x] = Content(x)'
    BY Zenon DEF CaughtUp, Mentioned
  <2>1. ~Mentioned(x) /\ Content(x)' = Content(x)
    BY <1>2, Zenon DEF Mentioned, Content
  <2>2. CASE x = r
    BY <1>4, <2>1, <2>2, Zenon DEF Inv, Removing
  <2>3. CASE x # r
    <3>1. x \in Refs \ removed
      BY <1>2, <2>3, Zenon
    <3>2. view[x] = Content(x)
      BY <1>2, <2>1, <3>1, Zenon DEF Inv, CaughtUp, Mentioned
    <3> QED
      BY <1>4, <2>1, <2>3, <3>2, Zenon
  <2> QED
    BY <2>2, <2>3, Zenon
<1>9. LastEvents' /\ Listing'
  BY <1>2, Zenon DEF Inv, LastEvents, Listing
<1> QED
  BY <1>3, <1>5, <1>6, <1>7, <1>8, <1>9, Zenon DEF Inv

(* Ready changes neither the memory nor the view.                          *)
LEMMA OnYieldReadyInv ==
  ASSUME Inv, OnYieldReady
  PROVE  Inv'
<1> USE DEF OnYieldReady, YieldReady, serverVars
<1>1. TypeOK'
  BY Zenon DEF Inv, TypeOK
<1>2. Versions'
  <2>1. ASSUME NEW r \in Refs PROVE Known(r)' \subseteq Known(r)
    BY Zenon DEF Known
  <2> QED
    BY <2>1, SameVersions, Zenon DEF Inv
<1>3. MemoryIsView' /\ LastEvents'
  BY Zenon DEF Inv, MemoryIsView, LastEvents, Removing
<1>4. Listing' /\ Removing' /\ CaughtUp'
  BY Zenon DEF Inv, Listing, Removing, CaughtUp, Mentioned, Content
<1> QED
  BY <1>1, <1>2, <1>3, <1>4, Zenon DEF Inv

(* An event is taken from the watch, and the stream and its consumer have  *)
(* for its object what it says.                                            *)
LEMMA DeliveredInv ==
  ASSUME ResourceNil, Inv,
         phase = "watching", events # <<>>, removed = {}, ~ready_due, NEW r, r = Head(events).ref,
         NEW ver \in Nat, NEW obj \in Object \cup {Nil},
         Head(events).type = "apply" =>
           /\ ver = Head(events).res.ver /\ obj = Head(events).res.obj
           /\ ver # 0 /\ obj # Nil,
         Head(events).type # "apply" => ver = 0 /\ obj = Nil,
         events' = Tail(events),
         objects' = [objects EXCEPT ![r] = ver],
         view' = [view EXCEPT ![r] = obj],
         UNCHANGED <<cluster, version, phase, snapshot, errors,
                     init_present, removed, ready_due, ready>>
  PROVE  Inv'
<1>1. /\ events \in Seq(Event) /\ Head(events) = events[1]
      /\ Len(events) \in Nat /\ DOMAIN events = 1..Len(events)
      /\ 1 \in DOMAIN events /\ events[1] \in Event /\ r \in Refs
  <2>1. events \in Seq(Event) /\ Head(events) = events[1] /\ events[1] \in Event
    BY DEF Inv, TypeOK
  <2> QED
    BY <2>1 DEF Event
<1>2. /\ events' \in Seq(Event) /\ DOMAIN events' = 1..(Len(events) - 1)
      /\ \A i \in DOMAIN events' : i + 1 \in DOMAIN events /\ events'[i] = events[i + 1]
  BY <1>1
<1>3. /\ objects'[r] = ver /\ view'[r] = obj
      /\ \A x \in Refs : x # r => objects'[x] = objects[x] /\ view'[x] = view[x]
  BY <1>1, Zenon DEF Inv, TypeOK
<1>4. TypeOK'
  BY <1>1, <1>2, Zenon DEF Inv, TypeOK
<1>5. Versions'
  <2>1. ASSUME NEW x \in Refs, NEW p \in Known(x)' PROVE p \in Known(x)
    <3>1. p \in Resource /\ p.ver # 0
      BY Zenon DEF Known, Resource
    <3>2. ASSUME objects'[x] = p.ver, view'[x] = p.obj PROVE p \in Known(x)
      <4>1. CASE x = r
        <5>1. Head(events).type = "apply" /\ p.ver = ver /\ p.obj = obj
          BY <1>3, <3>1, <3>2, <4>1, Zenon
        <5>2. p = events[1].res
          <6>1. events[1].res \in Resource
            BY <1>1, Zenon DEF Event
          <6> QED
            BY <1>1, <3>1, <5>1, <6>1, SameResource, Zenon
        <5> QED
          BY <1>1, <3>1, <4>1, <5>2, Zenon DEF Known
      <4>2. CASE x # r
        BY <1>3, <3>1, <3>2, <4>2, Zenon DEF Known
      <4> QED
        BY <4>1, <4>2, Zenon
    <3>3. ASSUME NEW i \in DOMAIN events', events'[i].ref = x, events'[i].res = p
          PROVE  p \in Known(x)
      BY <1>2, <3>1, <3>3, Zenon DEF Known
    <3> QED
      BY <3>1, <3>2, <3>3, Zenon DEF Known
  <2> QED
    BY <2>1, SameVersions, Zenon DEF Inv
<1>6. LastEvents'
  <2> SUFFICES ASSUME NEW i \in DOMAIN events',
                      \A j \in DOMAIN events' : j > i => events'[j].ref # events'[i].ref
               PROVE  cluster'[events'[i].ref] = After(events'[i])
    BY Zenon DEF LastEvents
  <2>1. i + 1 \in DOMAIN events /\ events'[i] = events[i + 1]
    BY <1>2, Zenon
  <2>2. ASSUME NEW j \in DOMAIN events, j > i + 1
        PROVE  events[j].ref # events[i + 1].ref
    <3>1. j - 1 \in DOMAIN events' /\ j - 1 > i /\ events'[j - 1] = events[j]
      BY <1>1, <1>2, <2>2
    <3> QED
      BY <2>1, <3>1, Zenon
  <2> QED
    BY <2>1, <2>2, Zenon DEF Inv, LastEvents
<1>7. MemoryIsView'
  BY <1>3, ResourceNil, Zenon DEF ResourceNil, Inv, MemoryIsView
<1>8. CaughtUp'
  <2> SUFFICES ASSUME NEW x \in Refs, ~Mentioned(x)' PROVE view'[x] = Content(x)'
    BY Zenon DEF CaughtUp, Mentioned
  <2>1. \A i \in DOMAIN events : i # 1 => events[i].ref # x
    <3> SUFFICES ASSUME NEW i \in DOMAIN events, i # 1 PROVE events[i].ref # x
      BY Zenon
    <3>1. i - 1 \in DOMAIN events' /\ events'[i - 1] = events[i]
      BY <1>1, <1>2
    <3> QED
      BY <3>1, Zenon DEF Mentioned
  <2>2. CASE x = r
    <3>1. cluster[r] = After(events[1])
      <4>1. \A j \in DOMAIN events : j > 1 => events[j].ref # events[1].ref
        BY <1>1, <2>1, <2>2
      <4> QED
        BY <1>1, <4>1, Zenon DEF Inv, LastEvents
    <3>2. CASE Head(events).type = "apply"
      <4>1. cluster[r] = events[1].res /\ events[1].res \in Resource
        BY <1>1, <3>1, <3>2, Zenon DEF After, Event
      <4>2. cluster[r] # Nil /\ cluster[r].obj = obj
        BY <1>1, <3>2, <4>1, ResourceNil, Zenon DEF ResourceNil
      <4> QED
        BY <1>3, <2>2, <4>2, Zenon DEF Content
    <3>3. CASE Head(events).type # "apply"
      BY <1>1, <1>3, <2>2, <3>1, <3>3, Zenon DEF After, Content
    <3> QED
      BY <3>2, <3>3, Zenon
  <2>3. CASE x # r
    <3>1. ~Mentioned(x)
      BY <1>1, <2>1, <2>3, Zenon DEF Mentioned
    <3>2. view[x] = Content(x)
      BY <3>1, Zenon DEF Inv, CaughtUp, Mentioned
    <3> QED
      BY <1>3, <2>3, <3>2, Zenon DEF Content
  <2> QED
    BY <2>2, <2>3, Zenon
<1>9. Listing' /\ Removing'
  BY Zenon DEF Listing, Removing
<1> QED
  BY <1>4, <1>5, <1>6, <1>7, <1>8, <1>9, Zenon DEF Inv

(* An Apply of the watch is delivered, or withheld as known.               *)
LEMMA OnApplyInv ==
  ASSUME ResourceNil, Inv, OnApply
  PROVE  Inv'
<1> DEFINE e == Head(events)
<1>1. /\ WatchDelivers("apply") /\ StreamApply(e.ref, e.res)
      /\ ViewApply(e.ref, e.res) /\ UNCHANGED ready
  BY Zenon DEF OnApply
<1>2. /\ phase = "watching" /\ events # <<>> /\ removed = {} /\ ~ready_due
      /\ e.type = "apply" /\ events' = Tail(events)
      /\ objects' = [objects EXCEPT ![e.ref] = e.res.ver]
      /\ UNCHANGED <<cluster, version, phase, snapshot, errors,
                     init_present, removed, ready_due, ready>>
  BY <1>1, Zenon DEF WatchDelivers, StreamApply, Polled
<1>3. e \in Event /\ e = events[1] /\ 1 \in DOMAIN events
  BY <1>2 DEF Inv, TypeOK
<1>4. e.ref \in Refs /\ e.res \in Resource /\ e.res \in Known(e.ref)
  BY <1>3, Zenon DEF Event, Known
<1>5. /\ view' = [view EXCEPT ![e.ref] = e.res.obj]
      /\ e.res.obj \in Object /\ e.res.ver \in Nat \ {0}
  BY <1>1, <1>2, <1>4, ViewUpdated, Zenon DEF Polled
<1>6. e.res.obj # Nil
  BY <1>5, ResourceNil, Zenon DEF ResourceNil
<1> QED
  BY ResourceNil, <1>2, <1>5, <1>6, DeliveredInv, Zenon

(* A Delete of the watch is forgotten and handed on.                       *)
LEMMA OnDeleteInv ==
  ASSUME ResourceNil, Inv, OnDelete
  PROVE  Inv'
<1> DEFINE e == Head(events)
<1>1. /\ phase = "watching" /\ events # <<>> /\ removed = {} /\ ~ready_due
      /\ e.type = "delete" /\ events' = Tail(events)
      /\ objects' = [objects EXCEPT ![e.ref] = 0]
      /\ view' = [view EXCEPT ![e.ref] = Nil]
      /\ UNCHANGED <<cluster, version, phase, snapshot, errors,
                     init_present, removed, ready_due, ready>>
  BY Zenon DEF OnDelete, WatchDelivers, StreamDelete, Polled
<1> QED
  BY ResourceNil, <1>1, DeliveredInv, Zenon

-----------------------------------------------------------------------------
(* Every step of the cluster, the watcher and the stream.                  *)
LEMMA NextInv ==
  ASSUME ResourceNil, Inv, [Next]_vars
  PROVE  Inv'
<1>1. CASE UNCHANGED vars
  <2> USE <1>1 DEF vars, serverVars, streamVars
  <2>1. TypeOK' /\ MemoryIsView'
    BY Zenon DEF Inv, TypeOK, MemoryIsView
  <2>2. Versions'
    <3>1. ASSUME NEW r \in Refs PROVE Known(r)' \subseteq Known(r)
      BY Zenon DEF Known
    <3> QED
      BY <3>1, SameVersions, Zenon DEF Inv
  <2>3. phase' # "relist" => LastEvents'
    BY Zenon DEF Inv, LastEvents
  <2>4. Listing' /\ Removing' /\ CaughtUp'
    BY Zenon DEF Inv, Listing, Removing, CaughtUp, Mentioned, Content
  <2> QED
    BY <2>1, <2>2, <2>3, <2>4, Zenon DEF Inv
<1>2. CASE ServerStep
  BY ResourceNil, <1>2, ServerStepInv, Zenon
<1>3. CASE OnError
  BY ResourceNil, <1>3, OnErrorInv, Zenon
<1>4. CASE StreamStep
  BY ResourceNil, <1>4, OnInitInv, OnInitApplyInv, OnInitDoneInv,
     OnYieldDeleteInv, OnYieldReadyInv, OnApplyInv, OnDeleteInv, Zenon DEF StreamStep
<1> QED
  BY <1>1, <1>2, <1>3, <1>4, Zenon DEF Next

(* The strengthening is invariant.                                         *)
THEOREM Invariance ==
  ASSUME ResourceNil
  PROVE  Spec => []Inv
<1>1. Init => Inv
  BY ResourceNil, InitInv, Zenon
<1>2. Inv /\ [Next]_vars => Inv'
  BY ResourceNil, NextInv, Zenon
<1> QED
  BY <1>1, <1>2, PTL DEF Spec

(* The stream, its consumer and the watcher keep their types.              *)
THEOREM TypeCorrect ==
  ASSUME ResourceNil
  PROVE  Spec => []TypeOK
<1>1. Inv => TypeOK
  BY Zenon DEF Inv
<1> QED
  BY ResourceNil, <1>1, Invariance, PTL

(* Between two relists the consumer of resource_changes holds exactly the  *)
(* cluster's content of every object that no undelivered event mentions.   *)
THEOREM AlwaysCaughtUp ==
  ASSUME ResourceNil
  PROVE  Spec => []CaughtUp
<1>1. Inv => CaughtUp
  BY Zenon DEF Inv
<1> QED
  BY ResourceNil, <1>1, Invariance, PTL

(* resource_changes remembers a version of exactly the objects its         *)
(* consumer holds, but for the Deletes still to be yielded.                *)
THEOREM MemoryAlwaysIsView ==
  ASSUME ResourceNil
  PROVE  Spec => []MemoryIsView
<1>1. Inv => MemoryIsView
  BY Zenon DEF Inv
<1> QED
  BY ResourceNil, <1>1, Invariance, PTL

(* Ready is only yielded to a consumer that has caught up.                 *)
THEOREM ReadyAlwaysIsCaughtUp ==
  ASSUME ResourceNil
  PROVE  Spec => ReadyIsCaughtUp
<1>1. Inv /\ [Next]_vars =>
        [ready_due /\ ~ready_due' =>
           \A r \in Refs :
             (\A i \in DOMAIN events : events[i].ref # r)
               => view'[r] = Content(r)']_vars
  <2> SUFFICES ASSUME Inv, Next, ready_due, ~ready_due'
               PROVE  \A r \in Refs :
                        (\A i \in DOMAIN events : events[i].ref # r)
                          => view'[r] = Content(r)'
    BY Zenon
  <2>1. OnYieldReady
    BY Zenon
    DEF Next, ServerStep, OnError, StreamStep, OnInit, OnInitApply, OnInitDone,
       OnYieldDelete, OnApply, OnDelete, StreamInitEvent, StreamInitApply,
       StreamInitDone, YieldDelete, StreamApply, StreamDelete, Polled, streamVars
  <2>2. /\ phase = "watching" /\ removed = {}
        /\ view' = view /\ cluster' = cluster
    BY <2>1, Zenon DEF Inv, Removing, OnYieldReady, YieldReady, serverVars
  <2> QED
    BY <2>2, Zenon DEF Inv, CaughtUp, Content
<1> QED
  BY ResourceNil, <1>1, Invariance, PTL DEF Spec, ReadyIsCaughtUp

=============================================================================
