------------------------- MODULE ServiceStoreProofs -------------------------
(***************************************************************************)
(* Proofs about ServiceStore, for any sets of objects, names, hosts and    *)
(* sources.                                                                *)
(*                                                                         *)
(* NewestWins is not inductive: that the load update_service last spawned  *)
(* wins over every earlier one follows from where generations can be.  A   *)
(* generation is claimed once, so no two loads share one, and an entry or  *)
(* a load of a name is never past the name's stamp, and the generation of  *)
(* a load that panicked is in no entry and in no other load.               *)
(***************************************************************************)
EXTENDS ServiceStore, TLAPS

(* Entries and loads of a name are not past its last update_service.       *)
Bounds ==
  /\ \A n \in Names : stamp[n] <= spec_generation
  /\ \A n \in Names : services[n] # Nil => services[n].generation < stamp[n]
  /\ \A t \in tasks : t.generation < stamp[t.name]

(* A generation belongs to one load, which has not published it yet.       *)
Pending ==
  /\ \A t, u \in tasks : t.generation = u.generation => t = u
  /\ \A t \in tasks, n \in Names :
       services[n] # Nil => services[n].generation # t.generation

(* The generation of a load that panicked is never published.              *)
Unpublished ==
  /\ \A g \in lost : g < spec_generation
  /\ \A t \in tasks : t.generation \notin lost
  /\ \A n \in Names : services[n] # Nil => services[n].generation \notin lost

Inv ==
  TypeOK /\ IndexConsistent /\ Bounds /\ Pending /\ Unpublished /\ NewestWins

-----------------------------------------------------------------------------
(* What the operators of the store return.                                 *)

(* The object selected among duplicates (min_by_key) is one of them, and   *)
(* the least.                                                              *)
LEMMA MinRefIsLeast ==
  ASSUME NEW S \in SUBSET Refs, S # {}
  PROVE  MinRef(S) \in S /\ \A s \in S : MinRef(S) <= s
BY RefsAssumption, Zenon DEF MinRef

(* remove_noupdate takes a reference out of the index and nothing else.    *)
LEMMA IndexWithoutRemoves ==
  ASSUME TypeOK, IndexConsistent, NEW r \in Refs
  PROVE  /\ IndexWithout(r) \in [Names -> SUBSET Refs]
         /\ \A n \in Names : IndexWithout(r)[n] = ref_by_grpc_service[n] \ {r}
<1>1. CASE raw_services[r] = Nil
  BY <1>1 DEF IndexWithout, TypeOK, IndexConsistent
<1>2. CASE raw_services[r] # Nil
  <2>1. raw_services[r] \in Object
    BY <1>2, Zenon DEF TypeOK
  <2>2. raw_services[r].name \in Names
    BY <2>1, Zenon DEF Object
  <2> QED
    BY <1>2, <2>2 DEF IndexWithout, TypeOK, IndexConsistent
<1> QED
  BY <1>1, <1>2, Zenon

(* The entries update_service and the loads write are ServiceData.         *)
LEMMA EntryTypes ==
  ASSUME NEW g \in Nat, NEW h \in Hosts, NEW s \in Sources \cup {Passthrough}
  PROVE  /\ Tombstone(g) \in ServiceData
         /\ Tombstone(g).generation = g
         /\ Loaded(g, s, h) \in ServiceData
         /\ Loaded(g, s, h).generation = g
BY Zenon DEF Tombstone, Loaded, ServiceData

(* What update_service leaves alone and what it may add, whatever branch   *)
(* it takes.                                                               *)
UpdateFrame(n) ==
  /\ spec_generation' = spec_generation + 1
  /\ stamp' = [stamp EXCEPT ![n] = spec_generation + 1]
  /\ services' \in [Names -> ServiceData \cup {Nil}]
  /\ tasks \subseteq tasks' /\ tasks' \subseteq Task
  /\ crashed' \in BOOLEAN
  /\ \A m \in Names : m # n => services'[m] = services[m]
  /\ \A t \in tasks' \ tasks : t.name = n /\ t.generation = spec_generation
  /\ \A t, u \in tasks' \ tasks : t = u
  /\ \/ services'[n] = services[n]
     \/ /\ tasks' = tasks
        /\ services'[n] # Nil
        /\ services'[n].generation = spec_generation

(* What update_service decides for n.                                      *)
Decided(n, raw, index) ==
  IF index[n] = {}
  THEN services'[n] = Tombstone(spec_generation)
  ELSE LET o == raw[MinRef(index[n])]
       IN  \/ services'[n] = Loaded(spec_generation,
                IF o.source = Nil THEN Passthrough ELSE o.source, o.host)
           \/ [name |-> n, generation |-> spec_generation,
               source |-> o.source, host |-> o.host] \in tasks'

(* update_service touches only n, and what it decides takes effect: the    *)
(* generation it claims is newer than any entry of n.                      *)
LEMMA UpdateServiceEffect ==
  ASSUME TypeOK, Bounds, NEW n \in Names,
         NEW raw \in [Refs -> Object \cup {Nil}],
         NEW index \in [Names -> SUBSET Refs],
         \A s \in index[n] : raw[s] # Nil,
         UpdateService(n, raw, index)
  PROVE  UpdateFrame(n) /\ (n \notin BadNames => Decided(n, raw, index))
<1> DEFINE o == Selected(raw, index, n)
<1>g. spec_generation \in Nat /\ services[n] \in ServiceData \cup {Nil}
  BY Zenon DEF TypeOK
<1>1. /\ spec_generation' = spec_generation + 1
      /\ stamp' = [stamp EXCEPT ![n] = spec_generation + 1]
  BY Zenon DEF UpdateService
<1>2. CASE Unload(n, index)
  <2>1. Tombstone(spec_generation) \in ServiceData
        /\ Tombstone(spec_generation).generation = spec_generation
    BY <1>g, Zenon DEF Tombstone, ServiceData
  <2>2. services' = [services EXCEPT ![n] = Tombstone(spec_generation)]
        /\ index[n] = {} /\ tasks' = tasks /\ crashed' = crashed
    BY <1>2, Zenon DEF Unload
  <2> QED
    BY <1>1, <2>1, <2>2, NilAssumption, Zenon DEF TypeOK, UpdateFrame, Decided
<1>3. CASE PanicOnName(n, index)
  BY <1>1, <1>3, Zenon DEF PanicOnName, TypeOK, UpdateFrame
<1>o. ASSUME index[n] # {}
      PROVE  /\ o = raw[MinRef(index[n])]
             /\ o \in Object
             /\ o.host \in Hosts
             /\ o.source \in Sources \cup {Nil}
  <2>1. MinRef(index[n]) \in index[n] /\ index[n] \subseteq Refs
    BY <1>o, MinRefIsLeast, Zenon
  <2>2. raw[MinRef(index[n])] \in Object
    BY <2>1, Zenon
  <2> QED
    BY <2>2, Zenon DEF Selected, Object
<1>4. CASE LoadPassthrough(n, raw, index)
  <2> DEFINE d == Loaded(spec_generation, Passthrough, o.host)
  <2>1. index[n] # {} /\ o.source = Nil /\ tasks' = tasks /\ crashed' = crashed
    BY <1>4, Zenon DEF LoadPassthrough
  <2>2. d \in ServiceData /\ d.generation = spec_generation
    BY <1>g, <1>o, <2>1, Zenon DEF Loaded, ServiceData
  <2>3. Newer(services[n], d)
    BY <1>g, <2>2 DEF Newer, Bounds, TypeOK, ServiceData
  <2>4. services' = [services EXCEPT ![n] = d]
    BY <1>4, <2>3, Zenon DEF LoadPassthrough, UpdateServiceIfNewer
  <2> QED
    BY <1>1, <1>o, <2>1, <2>2, <2>4, NilAssumption, Zenon
    DEF TypeOK, UpdateFrame, Decided
<1>5. CASE SpawnLoad(n, raw, index)
  <2> DEFINE t == [name |-> n, generation |-> spec_generation,
                   source |-> o.source, host |-> o.host]
  <2>1. index[n] # {} /\ o.source # Nil /\ tasks' = tasks \cup {t}
        /\ services' = services /\ crashed' = crashed
    BY <1>5, Zenon DEF SpawnLoad
  <2>2. t \in Task /\ t.name = n /\ t.generation = spec_generation
    BY <1>g, <1>o, <2>1, Zenon DEF Task
  <2>3. UpdateFrame(n)
    BY <1>1, <2>1, <2>2, Zenon DEF TypeOK, UpdateFrame
  <2>4. Decided(n, raw, index)
    BY <1>o, <2>1, Zenon DEF Decided
  <2> QED
    BY <2>3, <2>4, Zenon
<1> QED
  BY <1>2, <1>3, <1>4, <1>5, Zenon DEF UpdateService

-----------------------------------------------------------------------------
(* The inductive invariant.                                                *)

(* Every step of the loop runs update_service for one name after it has    *)
(* moved one reference.  Given maps that are consistent afterwards, and    *)
(* names other than n whose objects are untouched or that are noted as     *)
(* unrefreshed, the invariant is preserved.                                *)
LEMMA UpdatePreservesInv ==
  ASSUME Inv, NEW n \in Names,
         raw_services' \in [Refs -> Object \cup {Nil}],
         ref_by_grpc_service' \in [Names -> SUBSET Refs],
         IndexConsistent',
         UpdateService(n, raw_services', ref_by_grpc_service'),
         unrefreshed' \subseteq Names, lost' = lost,
         \A m \in Names \ unrefreshed' :
           m # n => /\ m \notin unrefreshed
                    /\ ref_by_grpc_service'[m] = ref_by_grpc_service[m]
                    /\ \A s \in ref_by_grpc_service[m] :
                         raw_services'[s] = raw_services[s]
  PROVE  Inv'
<1> DEFINE raw == raw_services'
           index == ref_by_grpc_service'
<1>1. UpdateFrame(n) /\ (n \notin BadNames => Decided(n, raw, index))
  <2>1. \A s \in index[n] : raw[s] # Nil
    BY Zenon DEF IndexConsistent
  <2> QED
    BY <2>1, UpdateServiceEffect, Zenon DEF Inv
<1>2. TypeOK'
  BY <1>1 DEF UpdateFrame, Inv, TypeOK
<1>3. Bounds'
  <2>1. \A m \in Names : stamp'[m] <= spec_generation'
    BY <1>1 DEF UpdateFrame, Inv, TypeOK, Bounds
  <2>2. ASSUME NEW m \in Names, services'[m] # Nil
        PROVE  services'[m].generation < stamp'[m]
    <3>1. CASE services'[m] = services[m]
      BY <1>1, <2>2, <3>1 DEF UpdateFrame, Inv, TypeOK, Bounds, ServiceData
    <3>2. CASE services'[m] # services[m]
      BY <1>1, <2>2, <3>2 DEF UpdateFrame, Inv, TypeOK
    <3> QED
      BY <3>1, <3>2, Zenon
  <2>3. ASSUME NEW t \in tasks'
        PROVE  t.generation < stamp'[t.name]
    <3>1. CASE t \in tasks
      BY <1>1, <3>1 DEF UpdateFrame, Inv, TypeOK, Bounds, Task
    <3>2. CASE t \notin tasks
      BY <1>1, <3>2 DEF UpdateFrame, Inv, TypeOK
    <3> QED
      BY <3>1, <3>2, Zenon
  <2> QED
    BY <2>1, <2>2, <2>3, Zenon DEF Bounds
<1>o. \A t \in tasks : t \in Task /\ t.generation < spec_generation
  BY DEF Inv, TypeOK, Bounds, Task
<1>e. \A m \in Names :
        services[m] # Nil => services[m].generation < spec_generation
  BY DEF Inv, TypeOK, Bounds, ServiceData
<1>4. Pending'
  <2>1. ASSUME NEW t \in tasks', NEW u \in tasks',
               t.generation = u.generation
        PROVE  t = u
    <3>1. CASE t \in tasks /\ u \in tasks
      BY <2>1, <3>1, Zenon DEF Inv, Pending
    <3>2. CASE t \notin tasks /\ u \notin tasks
      BY <1>1, <3>2, Zenon DEF UpdateFrame
    <3>3. CASE (t \in tasks) # (u \in tasks)
      BY <1>1, <1>o, <2>1, <3>3 DEF UpdateFrame, Inv, TypeOK, Task
    <3> QED
      BY <3>1, <3>2, <3>3, Zenon
  <2>2. ASSUME NEW t \in tasks', NEW m \in Names, services'[m] # Nil
        PROVE  services'[m].generation # t.generation
    <3>0. t \in Task
      BY <1>1, Zenon DEF UpdateFrame
    <3>1. CASE services'[m] = services[m] /\ t \in tasks
      BY <2>2, <3>1, Zenon DEF Inv, Pending
    <3>2. CASE services'[m] = services[m] /\ t \notin tasks
      BY <1>1, <1>e, <2>2, <3>2 DEF UpdateFrame, Inv, TypeOK
    <3>3. CASE services'[m] # services[m]
      BY <1>1, <1>o, <3>0, <3>3 DEF UpdateFrame, Inv, TypeOK, Task
    <3> QED
      BY <3>1, <3>2, <3>3, Zenon
  <2> QED
    BY <2>1, <2>2, Zenon DEF Pending
<1>u. Unpublished'
  <2>1. \A g \in lost : g \in Nat /\ g < spec_generation
    BY Zenon DEF Inv, TypeOK, Unpublished
  <2>2. spec_generation \in Nat /\ spec_generation \notin lost
    BY <2>1 DEF Inv, TypeOK
  <2>3. \A g \in lost' : g < spec_generation'
    <3>1. lost' = lost /\ spec_generation' = spec_generation + 1
      BY <1>1, Zenon DEF UpdateFrame
    <3> QED
      BY <2>1, <2>2, <3>1
  <2>4. \A t \in tasks' : t.generation \notin lost'
    BY <1>1, <2>2, Zenon DEF UpdateFrame, Inv, Unpublished
  <2>5. ASSUME NEW m \in Names, services'[m] # Nil
        PROVE  services'[m].generation \notin lost'
    <3>1. \/ services'[m] = services[m]
          \/ services'[m].generation = spec_generation
      BY <1>1, Zenon DEF UpdateFrame
    <3> QED
      BY <2>2, <2>5, <3>1, Zenon DEF Inv, Unpublished
  <2> QED
    BY <2>3, <2>4, <2>5, Zenon DEF Unpublished
<1>5. NewestWins'
  <2> SUFFICES ASSUME NEW m \in Names, m \notin unrefreshed', m \notin BadNames
               PROVE  IF index[m] = {} THEN NewestUnload(m)' ELSE NewestLoad(m)'
    BY Zenon DEF NewestWins
  <2>1. CASE m = n
    <3>1. stamp'[n] = spec_generation + 1 /\ spec_generation \in Nat
          /\ stamp'[n] - 1 = spec_generation /\ stamp'[n] > 0
      BY <1>1 DEF UpdateFrame, Inv, TypeOK
    <3>2. Decided(n, raw, index)
      BY <1>1, <2>1, Zenon
    <3>3. CASE index[n] = {}
      BY <2>1, <3>1, <3>2, <3>3, Zenon DEF Decided, NewestUnload
    <3>4. CASE index[n] # {}
      <4>1. MinRef(index[n]) \in index[n]
            /\ \A s \in index[n] : MinRef(index[n]) <= s
        BY <3>4, MinRefIsLeast, Zenon
      <4>2. NewestLoad(n)'
        BY <3>1, <3>2, <3>4, <4>1, Zenon DEF Decided, NewestLoad
      <4> QED
        BY <2>1, <3>4, <4>2, Zenon
    <3> QED
      BY <3>3, <3>4, Zenon
  <2>2. CASE m # n
    <3>1. /\ m \notin unrefreshed
          /\ index[m] = ref_by_grpc_service[m]
          /\ \A s \in ref_by_grpc_service[m] : raw[s] = raw_services[s]
          /\ services'[m] = services[m] /\ stamp'[m] = stamp[m]
          /\ tasks \subseteq tasks'
      BY <1>1, <2>2, Zenon DEF UpdateFrame, Inv, TypeOK
    <3>2. CASE index[m] = {}
      BY <3>1, <3>2, Zenon DEF Inv, NewestWins, NewestUnload
    <3>3. CASE index[m] # {}
      <4>1. NewestLoad(m)
        BY <3>1, <3>3, Zenon DEF Inv, NewestWins
      <4>2. PICK s \in ref_by_grpc_service[m] :
              /\ \A t \in ref_by_grpc_service[m] : s <= t
              /\ stamp[m] > 0
              /\ \/ services[m] = Loaded(stamp[m] - 1,
                                         IF raw_services[s].source = Nil
                                         THEN Passthrough
                                         ELSE raw_services[s].source,
                                         raw_services[s].host)
                 \/ [name |-> m, generation |-> stamp[m] - 1,
                     source |-> raw_services[s].source,
                     host |-> raw_services[s].host] \in tasks
                 \/ /\ stamp[m] - 1 \in lost
                    /\ \/ services[m] = Nil
                       \/ services[m].generation < stamp[m] - 1
        BY <4>1, Zenon DEF NewestLoad
      <4>3. s \in index[m] /\ raw[s] = raw_services[s]
        BY <3>1, Zenon
      <4>4. NewestLoad(m)'
        BY <3>1, <4>2, <4>3, Zenon DEF NewestLoad
      <4> QED
        BY <3>3, <4>4, Zenon
    <3> QED
      BY <3>2, <3>3, Zenon
  <2> QED
    BY <2>1, <2>2, Zenon
<1> QED
  BY <1>2, <1>3, <1>4, <1>u, <1>5, Zenon DEF Inv

(* apply: the object replaces what the reference held before.              *)
LEMMA ApplyPreservesInv ==
  ASSUME Inv, NEW r \in Refs, NEW o \in Object, Apply(r, o)
  PROVE  Inv'
<1> DEFINE raw == [RawWithout(r) EXCEPT ![r] = o]
           index == [IndexWithout(r) EXCEPT ![o.name] = @ \cup {r}]
<1>1. /\ raw_services' = raw
      /\ ref_by_grpc_service' = index
      /\ UpdateService(o.name, raw, index)
      /\ unrefreshed' = (unrefreshed \cup
            {n \in Names : r \in ref_by_grpc_service[n]}) \ {o.name}
      /\ lost' = lost
  BY Zenon DEF Apply
<1>n. o.name \in Names
  BY Zenon DEF Object
<1>2. /\ raw \in [Refs -> Object \cup {Nil}]
      /\ raw[r] = o
      /\ \A s \in Refs \ {r} : raw[s] = raw_services[s]
  BY Zenon DEF RawWithout, Inv, TypeOK
<1>3. /\ index \in [Names -> SUBSET Refs]
      /\ index[o.name] = (ref_by_grpc_service[o.name] \ {r}) \cup {r}
      /\ \A m \in Names \ {o.name} : index[m] = ref_by_grpc_service[m] \ {r}
  BY <1>n, IndexWithoutRemoves, Zenon DEF Inv
<1>4. IndexConsistent'
  <2>1. o # Nil
    BY NilAssumption, Zenon
  <2> QED
    BY <1>1, <1>2, <1>3, <2>1 DEF Inv, IndexConsistent
<1>5. \A m \in Names \ unrefreshed' :
        m # o.name => /\ m \notin unrefreshed
                      /\ index[m] = ref_by_grpc_service[m]
                      /\ \A s \in ref_by_grpc_service[m] :
                           raw[s] = raw_services[s]
  <2> SUFFICES ASSUME NEW m \in Names, m \notin unrefreshed', m # o.name
               PROVE  /\ m \notin unrefreshed
                      /\ index[m] = ref_by_grpc_service[m]
                      /\ \A s \in ref_by_grpc_service[m] :
                           raw[s] = raw_services[s]
    BY Zenon
  <2>1. m \notin unrefreshed /\ r \notin ref_by_grpc_service[m]
    BY <1>1, Zenon
  <2>2. ref_by_grpc_service[m] \subseteq Refs
    BY Zenon DEF Inv, TypeOK
  <2>3. index[m] = ref_by_grpc_service[m]
    BY <1>3, <2>1
  <2> QED
    BY <1>2, <2>1, <2>2, <2>3, Zenon
<1>6. unrefreshed' \subseteq Names
  BY <1>1, Zenon DEF Inv, TypeOK
<1>7. /\ raw_services' \in [Refs -> Object \cup {Nil}]
      /\ ref_by_grpc_service' \in [Names -> SUBSET Refs]
      /\ UpdateService(o.name, raw_services', ref_by_grpc_service')
      /\ \A m \in Names \ unrefreshed' :
           m # o.name => /\ m \notin unrefreshed
                    /\ ref_by_grpc_service'[m] = ref_by_grpc_service[m]
                    /\ \A s \in ref_by_grpc_service[m] :
                         raw_services'[s] = raw_services[s]
  BY <1>1, <1>2, <1>3, <1>5, Zenon
<1> HIDE DEF raw, index
<1> QED
  BY <1>1, <1>n, <1>4, <1>6, <1>7, UpdatePreservesInv, Zenon

(* remove of an object the store holds.                                    *)
LEMMA RemovePreservesInv ==
  ASSUME Inv, NEW r \in Refs, Remove(r)
  PROVE  Inv'
<1> DEFINE raw == RawWithout(r)
           index == IndexWithout(r)
           n == raw_services[r].name
<1>1. /\ raw_services[r] # Nil
      /\ raw_services' = raw
      /\ ref_by_grpc_service' = index
      /\ UpdateService(n, raw, index)
      /\ unrefreshed' = unrefreshed \ {n}
      /\ lost' = lost
  BY Zenon DEF Remove
<1>n. n \in Names
  <2>1. raw_services[r] \in Object
    BY <1>1, Zenon DEF Inv, TypeOK
  <2> QED
    BY <2>1, Zenon DEF Object
<1>2. /\ raw \in [Refs -> Object \cup {Nil}]
      /\ raw[r] = Nil
      /\ \A s \in Refs \ {r} : raw[s] = raw_services[s]
  BY Zenon DEF RawWithout, Inv, TypeOK
<1>3. /\ index \in [Names -> SUBSET Refs]
      /\ \A m \in Names : index[m] = ref_by_grpc_service[m] \ {r}
  BY IndexWithoutRemoves, Zenon DEF Inv
<1>4. IndexConsistent'
  BY <1>1, <1>2, <1>3 DEF Inv, IndexConsistent
<1>5. \A m \in Names \ unrefreshed' :
        m # n => /\ m \notin unrefreshed
                 /\ index[m] = ref_by_grpc_service[m]
                 /\ \A s \in ref_by_grpc_service[m] :
                      raw[s] = raw_services[s]
  <2> SUFFICES ASSUME NEW m \in Names, m \notin unrefreshed', m # n
               PROVE  /\ m \notin unrefreshed
                      /\ index[m] = ref_by_grpc_service[m]
                      /\ \A s \in ref_by_grpc_service[m] :
                           raw[s] = raw_services[s]
    BY Zenon
  <2>1. m \notin unrefreshed /\ r \notin ref_by_grpc_service[m]
    BY <1>1, Zenon DEF Inv, IndexConsistent
  <2>2. ref_by_grpc_service[m] \subseteq Refs
    BY Zenon DEF Inv, TypeOK
  <2>3. index[m] = ref_by_grpc_service[m]
    BY <1>3, <2>1, Zenon
  <2> QED
    BY <1>2, <2>1, <2>2, <2>3, Zenon
<1>6. unrefreshed' \subseteq Names
  BY <1>1, Zenon DEF Inv, TypeOK
<1>7. /\ raw_services' \in [Refs -> Object \cup {Nil}]
      /\ ref_by_grpc_service' \in [Names -> SUBSET Refs]
      /\ UpdateService(n, raw_services', ref_by_grpc_service')
      /\ \A m \in Names \ unrefreshed' :
           m # n => /\ m \notin unrefreshed
                    /\ ref_by_grpc_service'[m] = ref_by_grpc_service[m]
                    /\ \A s \in ref_by_grpc_service[m] :
                         raw_services'[s] = raw_services[s]
  BY <1>1, <1>2, <1>3, <1>5, Zenon
<1> HIDE DEF raw, index
<1> QED
  BY <1>1, <1>n, <1>4, <1>6, <1>7, UpdatePreservesInv, Zenon

(* A load that is done: it replaces an older entry, or meets the newer one *)
(* and leaves it.                                                          *)
LEMMA LoadDonePreservesInv ==
  ASSUME Inv, NEW t \in tasks, LoadDone(t)
  PROVE  Inv'
<1> DEFINE d == Loaded(t.generation, t.source, t.host)
<1>1. /\ tasks' = tasks \ {t}
      /\ services' = IF Newer(services[t.name], d)
                     THEN [services EXCEPT ![t.name] = d] ELSE services
      /\ UNCHANGED <<spec_generation, raw_services, ref_by_grpc_service,
                     crashed, stamp, lost, unrefreshed>>
  BY Zenon DEF LoadDone, UpdateServiceIfNewer
<1>2. /\ t \in Task /\ t.name \in Names /\ t.generation \in Nat
      /\ t.source \in Sources /\ t.host \in Hosts
      /\ t.generation < stamp[t.name]
  BY Zenon DEF Inv, TypeOK, Bounds, Task
<1>3. d \in ServiceData /\ d.generation = t.generation /\ d # Nil
  BY <1>2, NilAssumption DEF Loaded, ServiceData
<1>s. /\ services' \in [Names -> ServiceData \cup {Nil}]
      /\ \A m \in Names : services'[m] = services[m]
           \/ (m = t.name /\ services'[m] = d)
  BY <1>1, <1>2, <1>3, Zenon DEF Inv, TypeOK
<1>4. TypeOK' /\ IndexConsistent'
  BY <1>1, <1>s, Zenon DEF Inv, TypeOK, IndexConsistent
<1>5. Bounds'
  BY <1>1, <1>2, <1>3, <1>s, Zenon DEF Inv, Bounds
<1>6. Pending'
  <2>1. \A u, v \in tasks' : u.generation = v.generation => u = v
    BY <1>1, Zenon DEF Inv, Pending
  <2>2. ASSUME NEW u \in tasks', NEW m \in Names, services'[m] # Nil
        PROVE  services'[m].generation # u.generation
    <3>1. u \in tasks /\ u.generation # t.generation
      BY <1>1, Zenon DEF Inv, Pending
    <3> QED
      BY <1>3, <1>s, <2>2, <3>1, Zenon DEF Inv, Pending
  <2> QED
    BY <2>1, <2>2, Zenon DEF Pending
<1>u. Unpublished'
  BY <1>1, <1>3, <1>s, Zenon DEF Inv, Unpublished
<1>7. NewestWins'
  <2> SUFFICES ASSUME NEW m \in Names, m \notin unrefreshed, m \notin BadNames
               PROVE  IF ref_by_grpc_service[m] = {} THEN NewestUnload(m)'
                      ELSE NewestLoad(m)'
    BY <1>1, Zenon DEF NewestWins
  <2>0. stamp[m] \in Nat /\ services[m] \in ServiceData \cup {Nil}
        /\ services[t.name] \in ServiceData \cup {Nil}
    BY <1>2, Zenon DEF Inv, TypeOK
  <2>1. CASE ref_by_grpc_service[m] = {}
    <3>1. NewestUnload(m)
      BY <2>1, Zenon DEF Inv, NewestWins
    <3>2. services'[m] = services[m]
      <4>1. CASE stamp[m] = 0
        BY <1>2, <1>s, <2>0, <4>1
      <4>2. CASE stamp[m] > 0 /\ m = t.name
        <5>1. services[m] = Tombstone(stamp[m] - 1) /\ stamp[m] - 1 \in Nat
          BY <2>0, <3>1, <4>2 DEF NewestUnload
        <5>2. services[m] # Nil /\ services[m].generation = stamp[m] - 1
          BY <5>1, NilAssumption DEF Tombstone, ServiceData
        <5>3. ~Newer(services[m], d)
          BY <1>2, <1>3, <2>0, <4>2, <5>2 DEF Newer
        <5> QED
          BY <1>1, <4>2, <5>3, Zenon
      <4>3. CASE m # t.name
        BY <1>s, <4>3, Zenon
      <4> QED
        BY <2>0, <4>1, <4>2, <4>3
    <3> QED
      BY <1>1, <2>1, <3>1, <3>2, Zenon DEF NewestUnload
  <2>2. CASE ref_by_grpc_service[m] # {}
    <3> DEFINE g == stamp[m] - 1
               task(x) == [name |-> m, generation |-> g, source |-> x.source,
                           host |-> x.host]
               entry(x) == Loaded(g, IF x.source = Nil THEN Passthrough
                                     ELSE x.source, x.host)
    <3>1. PICK r \in ref_by_grpc_service[m] :
            /\ \A s \in ref_by_grpc_service[m] : r <= s
            /\ stamp[m] > 0
            /\ \/ services[m] = entry(raw_services[r])
               \/ task(raw_services[r]) \in tasks
               \/ g \in lost /\ (services[m] = Nil \/ services[m].generation < g)
      BY <2>2, Zenon DEF Inv, NewestWins, NewestLoad
    <3> DEFINE x == raw_services[r]
    <3>g. g \in Nat
      BY <2>0, <3>1
    <3>2. CASE services[m] = entry(x)
      <4>1. services[m].generation = g /\ services[m] # Nil
        <5>1. r \in Refs /\ x # Nil
          BY ZenonT(30) DEF Inv, TypeOK, IndexConsistent
        <5>2. x \in Object
          BY <5>1, Zenon DEF Inv, TypeOK
        <5>3. entry(x) \in ServiceData
          BY <3>g, <5>2, Zenon DEF Object, Loaded, ServiceData
        <5>4. entry(x) # Nil
          BY <5>3, NilAssumption, Zenon
        <5>5. entry(x).generation = g
          BY Zenon DEF Loaded
        <5> QED
          BY <3>2, <5>4, <5>5, Zenon
      <4>2. services'[m] = services[m]
        <5>1. CASE m = t.name
          <6>1. ~Newer(services[m], d)
            BY <1>2, <1>3, <2>0, <3>g, <4>1, <5>1 DEF Newer
          <6> QED
            BY <1>1, <5>1, <6>1, Zenon
        <5>2. CASE m # t.name
          BY <1>s, <5>2, Zenon
        <5> QED
          BY <5>1, <5>2, Zenon
      <4> QED
        BY <1>1, <2>2, <3>1, <3>2, <4>2, Zenon DEF NewestLoad
    <3>3. CASE task(x) \in tasks /\ t # task(x)
      <4>1. task(x) \in tasks'
        BY <1>1, <3>3, Zenon
      <4> QED
        BY <1>1, <2>2, <3>1, <4>1, Zenon DEF NewestLoad
    <3>4. CASE t = task(x)
      <4>1. t.name = m /\ t.generation = g /\ t.source = x.source
            /\ t.host = x.host
        BY <3>4, Zenon
      <4>2. Newer(services[m], d)
        <5>1. services[m] # Nil =>
                services[m].generation # g /\ services[m].generation < stamp[m]
          BY <4>1, Zenon DEF Inv, Pending, Bounds
        <5>2. services[m] # Nil => services[m].generation \in Nat
          BY <2>0, Zenon DEF ServiceData
        <5> QED
          BY <1>3, <2>0, <4>1, <5>1, <5>2 DEF Newer
      <4>3. services'[m] = d
        BY <1>1, <4>1, <4>2, Zenon DEF Inv, TypeOK
      <4>4. d = entry(x)
        BY <1>2, <4>1, NilAssumption, Zenon
      <4> QED
        BY <1>1, <2>2, <3>1, <4>3, <4>4, Zenon DEF NewestLoad
    <3>5. CASE g \in lost /\ (services[m] = Nil \/ services[m].generation < g)
      <4>1. services'[m] = Nil \/ services'[m].generation < g
        <5>1. CASE services'[m] = services[m]
          BY <3>5, <5>1, Zenon
        <5>2. CASE m = t.name /\ services'[m] = d
          <6>1. t.generation \notin lost
            BY Zenon DEF Inv, Unpublished
          <6>2. t.generation # g
            BY <3>5, <6>1, Zenon
          <6> QED
            BY <1>2, <1>3, <2>0, <5>2, <6>2
        <5> QED
          BY <1>s, <5>1, <5>2, Zenon
      <4> QED
        BY <1>1, <2>2, <3>1, <3>5, <4>1, Zenon DEF NewestLoad
    <3> QED
      BY <3>1, <3>2, <3>3, <3>4, <3>5, Zenon
  <2> QED
    BY <2>1, <2>2, Zenon
<1> QED
  BY <1>4, <1>5, <1>6, <1>u, <1>7, Zenon DEF Inv

(* A load that panics: its generation is lost, and no entry has it.        *)
LEMMA LoadPanicPreservesInv ==
  ASSUME Inv, NEW t \in tasks, LoadPanic(t)
  PROVE  Inv'
<1>1. /\ tasks' = tasks \ {t}
      /\ lost' = lost \cup {t.generation}
      /\ UNCHANGED <<spec_generation, raw_services, ref_by_grpc_service,
                     services, crashed, stamp, unrefreshed>>
  BY Zenon DEF LoadPanic
<1>2. t.generation \in Nat
  BY Zenon DEF Inv, TypeOK, Task
<1>3. TypeOK' /\ IndexConsistent'
  BY <1>1, <1>2, Zenon DEF Inv, TypeOK, IndexConsistent
<1>4. Bounds' /\ Pending'
  BY <1>1, Zenon DEF Inv, Bounds, Pending
<1>u. Unpublished'
  <2>1. t.generation < spec_generation
    BY <1>2 DEF Inv, TypeOK, Bounds, Task
  <2> QED
    BY <1>1, <2>1, Zenon DEF Inv, Unpublished, Pending
<1>5. NewestWins'
  <2> SUFFICES ASSUME NEW m \in Names, m \notin unrefreshed, m \notin BadNames
               PROVE  IF ref_by_grpc_service[m] = {} THEN NewestUnload(m)'
                      ELSE NewestLoad(m)'
    BY <1>1, Zenon DEF NewestWins
  <2>1. CASE ref_by_grpc_service[m] = {}
    BY <1>1, <2>1, Zenon DEF Inv, NewestWins, NewestUnload
  <2>2. CASE ref_by_grpc_service[m] # {}
    <3> DEFINE g == stamp[m] - 1
               task(x) == [name |-> m, generation |-> g, source |-> x.source,
                           host |-> x.host]
    <3>1. PICK r \in ref_by_grpc_service[m] :
            /\ \A s \in ref_by_grpc_service[m] : r <= s
            /\ stamp[m] > 0
            /\ \/ services[m] = Loaded(g, IF raw_services[r].source = Nil
                                          THEN Passthrough
                                          ELSE raw_services[r].source,
                                       raw_services[r].host)
               \/ task(raw_services[r]) \in tasks
               \/ g \in lost /\ (services[m] = Nil \/ services[m].generation < g)
      BY <2>2, Zenon DEF Inv, NewestWins, NewestLoad
    <3>2. task(raw_services[r]).generation = g
      BY Zenon
    <3>3. task(raw_services[r]) \in tasks =>
            \/ task(raw_services[r]) \in tasks'
            \/ g \in lost' /\ (services[m] = Nil \/ services[m].generation < g)
      <4>1. CASE task(raw_services[r]) = t
        <5>1. services[m] # Nil =>
                services[m].generation # g /\ services[m].generation < stamp[m]
          BY <3>2, <4>1, Zenon DEF Inv, Pending, Bounds
        <5>2. stamp[m] \in Nat /\ services[m] \in ServiceData \cup {Nil}
          BY Zenon DEF Inv, TypeOK
        <5>3. services[m] # Nil => services[m].generation \in Nat
          BY <5>2, Zenon DEF ServiceData
        <5>4. services[m] = Nil \/ services[m].generation < g
          BY <5>1, <5>2, <5>3
        <5> QED
          BY <1>1, <3>2, <4>1, <5>4, Zenon
      <4>2. CASE task(raw_services[r]) # t
        BY <1>1, <4>2, Zenon
      <4> QED
        BY <4>1, <4>2, Zenon
    <3>4. NewestLoad(m)'
      BY <1>1, <3>1, <3>3, Zenon DEF NewestLoad
    <3> QED
      BY <2>2, <3>4, Zenon
  <2> QED
    BY <2>1, <2>2, Zenon
<1> QED
  BY <1>3, <1>4, <1>u, <1>5, Zenon DEF Inv

(* The invariant holds of the empty store.                                 *)
LEMMA InitInv == Init => Inv
<1> SUFFICES ASSUME Init PROVE Inv
  BY Zenon
<1>1. TypeOK
  BY Zenon DEF Init, TypeOK
<1>2. IndexConsistent
  BY Zenon DEF Init, IndexConsistent
<1>3. Bounds /\ Pending /\ Unpublished
  BY DEF Init, Bounds, Pending, Unpublished
<1>4. NewestWins
  BY Zenon DEF Init, NewestWins, NewestUnload
<1> QED
  BY <1>1, <1>2, <1>3, <1>4, Zenon DEF Inv

(* Every change the loop handles and every end of a load preserves it.     *)
LEMMA NextInv == Inv /\ [Next]_vars => Inv'
<1> SUFFICES ASSUME Inv, [Next]_vars PROVE Inv'
  BY Zenon
<1>1. CASE \E r \in Refs, o \in Object : Apply(r, o)
  BY <1>1, ApplyPreservesInv, Zenon
<1>2. CASE \E r \in Refs : Remove(r)
  BY <1>2, RemovePreservesInv, Zenon
<1>3. CASE \E t \in tasks : LoadDone(t)
  BY <1>3, LoadDonePreservesInv, Zenon
<1>4. CASE \E t \in tasks : LoadPanic(t)
  BY <1>4, LoadPanicPreservesInv, Zenon
<1>5. ASSUME UNCHANGED vars
      PROVE  Inv'
  BY <1>5, ZenonT(30)
  DEF vars, Inv, TypeOK, IndexConsistent, Bounds, Pending, Unpublished,
      NewestWins, NewestLoad, NewestUnload
<1>6. CASE \E r \in Refs : RemoveUnknown(r)
  BY <1>5, <1>6, Zenon DEF RemoveUnknown
<1> QED
  BY <1>1, <1>2, <1>3, <1>4, <1>5, <1>6, Zenon DEF Next

(* The inductive invariant, from which the theorems below follow.          *)
LEMMA SpecInv == Spec => []Inv
BY InitInv, NextInv, PTL DEF Spec

-----------------------------------------------------------------------------
(* The theorems.                                                           *)

(* The state of the service store keeps its types.                         *)
THEOREM TypeCorrect == Spec => []TypeOK
<1>1. Inv => TypeOK
  BY Zenon DEF Inv
<1> QED
  BY <1>1, SpecInv, PTL

(* raw_services and ref_by_grpc_service always agree: the unwraps and the  *)
(* map indexing in remove_noupdate and update_service never panic.         *)
THEOREM IndexAlwaysConsistent == Spec => []IndexConsistent
<1>1. Inv => IndexConsistent
  BY Zenon DEF Inv
<1> QED
  BY <1>1, SpecInv, PTL

(* Whatever order descriptor loads finish in, the newest decision of       *)
(* update_service is the one requests see.                                 *)
THEOREM NewestAlwaysWins == Spec => []NewestWins
<1>1. Inv => NewestWins
  BY Zenon DEF Inv
<1> QED
  BY <1>1, SpecInv, PTL

(* An entry of the map requests read never gives way to an older           *)
(* generation: neither the race guard of update_service_if_newer nor the   *)
(* unguarded insert of a tombstone can take it back.                       *)
THEOREM GenerationsOnlyAdvance == Spec => GenerationsAdvance
<1> DEFINE Advance == \A n \in Names :
             services[n] # Nil =>
               /\ services'[n] # Nil
               /\ services'[n] # services[n] =>
                    services[n].generation < services'[n].generation
<1>u. ASSUME Inv, NEW n \in Names, UpdateFrame(n)
      PROVE  Advance
  <2>1. services[n] # Nil => services[n].generation < spec_generation
    BY <1>u DEF Inv, Bounds, TypeOK, ServiceData
  <2> QED
    BY <1>u, <2>1, Zenon DEF UpdateFrame
<1>s. ASSUME services' = services
      PROVE  Advance
  BY <1>s, Zenon
<1>1. ASSUME Inv, NEW r \in Refs, NEW o \in Object, Apply(r, o)
      PROVE  Advance
  <2>1. Inv'
    BY <1>1, ApplyPreservesInv, Zenon
  <2>2. /\ o.name \in Names
        /\ UpdateService(o.name, raw_services', ref_by_grpc_service')
    BY <1>1, Zenon DEF Apply, Object
  <2>3. UpdateFrame(o.name)
    BY <1>1, <2>1, <2>2, UpdateServiceEffect, Zenon
    DEF Inv, TypeOK, IndexConsistent
  <2> QED
    BY <1>1, <1>u, <2>2, <2>3, Zenon
<1>2. ASSUME Inv, NEW r \in Refs, Remove(r)
      PROVE  Advance
  <2> DEFINE n == raw_services[r].name
  <2>1. Inv'
    BY <1>2, RemovePreservesInv, Zenon
  <2>2. /\ n \in Names
        /\ UpdateService(n, raw_services', ref_by_grpc_service')
    BY <1>2, Zenon DEF Remove, Inv, TypeOK, Object
  <2>3. UpdateFrame(n)
    BY <1>2, <2>1, <2>2, UpdateServiceEffect DEF Inv, TypeOK, IndexConsistent
  <2> QED
    BY <1>2, <1>u, <2>2, <2>3, Zenon
<1>3. ASSUME Inv, NEW t \in tasks, LoadDone(t)
      PROVE  Advance
  <2> DEFINE d == Loaded(t.generation, t.source, t.host)
  <2>1. t \in Task /\ t.name \in Names
    BY <1>3, Zenon DEF Inv, TypeOK, Task
  <2>2. d # Nil /\ d.generation = t.generation
    BY <2>1, NilAssumption DEF Task, Loaded, ServiceData
  <2> QED
    BY <1>3, <2>1, <2>2, Zenon
    DEF LoadDone, UpdateServiceIfNewer, Newer, Inv, TypeOK
<1>4. Inv /\ [Next]_vars => [Advance]_vars
  <2> SUFFICES ASSUME Inv, Next PROVE Advance
    BY Zenon
  <2>1. CASE \E r \in Refs, o \in Object : Apply(r, o)
    BY <1>1, <2>1, Zenon
  <2>2. CASE \E r \in Refs : Remove(r)
    BY <1>2, <2>2, Zenon
  <2>3. CASE \E t \in tasks : LoadDone(t)
    BY <1>3, <2>3, Zenon
  <2>4. CASE \E r \in Refs : RemoveUnknown(r)
    BY <1>s, <2>4, Zenon DEF RemoveUnknown, vars
  <2>5. CASE \E t \in tasks : LoadPanic(t)
    BY <1>s, <2>5, Zenon DEF LoadPanic
  <2> QED
    BY <2>1, <2>2, <2>3, <2>4, <2>5, Zenon DEF Next
<1> QED
  BY <1>4, SpecInv, PTL DEF Spec, GenerationsAdvance

-----------------------------------------------------------------------------
(* NewestWins says nothing of the names that make update_service panic.    *)

(* A name QualifiedService::parse rejects is never loaded.                 *)
BadUnserved ==
  /\ \A n \in BadNames \cap Names : services[n] = Nil \/ services[n].lb = Nil
  /\ \A t \in tasks : t.name \notin BadNames

(* The panic on a rejected name comes before anything is published or      *)
(* spawned for it, and a load only publishes under its own name.           *)
LEMMA NextBadUnserved ==
  ASSUME Inv, BadUnserved, [Next]_vars
  PROVE  BadUnserved'
<1> USE DEF Inv, BadUnserved
<1>u. ASSUME NEW n \in Names, NEW raw, NEW index, UpdateService(n, raw, index)
      PROVE  BadUnserved'
  <2>1. CASE Unload(n, index)
    BY <2>1, Zenon DEF Unload, Tombstone, TypeOK
  <2>2. CASE PanicOnName(n, index)
    BY <2>2, Zenon DEF PanicOnName
  <2>3. CASE LoadPassthrough(n, raw, index)
    BY <2>3, Zenon DEF LoadPassthrough, UpdateServiceIfNewer, TypeOK
  <2>4. CASE SpawnLoad(n, raw, index)
    BY <2>4 DEF SpawnLoad
  <2> QED
    BY <1>u, <2>1, <2>2, <2>3, <2>4, Zenon DEF UpdateService
<1>1. ASSUME NEW r \in Refs, NEW o \in Object, Apply(r, o)
      PROVE  BadUnserved'
  BY <1>1, <1>u, Zenon DEF Apply, Object
<1>2. ASSUME NEW r \in Refs, Remove(r)
      PROVE  BadUnserved'
  BY <1>2, <1>u, Zenon DEF Remove, TypeOK, Object
<1>3. ASSUME NEW t \in tasks, LoadDone(t)
      PROVE  BadUnserved'
  BY <1>3, Zenon DEF LoadDone, UpdateServiceIfNewer, TypeOK, Task
<1>4. ASSUME NEW t \in tasks, LoadPanic(t)
      PROVE  BadUnserved'
  BY <1>4, Zenon DEF LoadPanic
<1>5. CASE UNCHANGED vars \/ \E r \in Refs : RemoveUnknown(r)
  BY <1>5, Zenon DEF RemoveUnknown, vars
<1> QED
  BY <1>1, <1>2, <1>3, <1>4, <1>5, Zenon DEF Next

(* A service that no object declares is not routed anywhere, unless its    *)
(* last object was renamed: only apply's missing update of the old name    *)
(* keeps live reloading from unloading what was removed.                   *)
THEOREM AlwaysUnloadedUnlessRenamed == Spec => []UnloadedUnlessRenamed
<1>1. Init => BadUnserved
  BY Zenon DEF Init, BadUnserved
<1>2. Inv /\ BadUnserved /\ [Next]_vars => BadUnserved'
  BY NextBadUnserved, Zenon
<1>3. Inv /\ BadUnserved => UnloadedUnlessRenamed
  <2> SUFFICES ASSUME Inv, BadUnserved, NEW n \in Names \ unrefreshed,
                      ref_by_grpc_service[n] = {}
               PROVE  services[n] = Nil \/ services[n].lb = Nil
    BY Zenon DEF UnloadedUnlessRenamed
  <2>1. CASE n \in BadNames
    BY <2>1, Zenon DEF BadUnserved
  <2>2. CASE n \notin BadNames
    <3>1. NewestUnload(n)
      BY <2>2, Zenon DEF Inv, NewestWins
    <3> QED
      BY <3>1 DEF NewestUnload, Tombstone
  <2> QED
    BY <2>1, <2>2, Zenon
<1> QED
  BY <1>1, <1>2, <1>3, SpecInv, PTL DEF Spec

=============================================================================
