-------------------------- MODULE UpstreamsProofs --------------------------
(***************************************************************************)
(* Proofs about Upstreams, for any objects, names, hosts, handles and      *)
(* requests: a routed service holds the live handle of its host and keeps  *)
(* it when it is reloaded, and no handle outlives its users.               *)
(*                                                                         *)
(* The invariant (JointInv) has that of the store (SP!Inv) and that of the *)
(* discovery service (DP!Inv), and says between them (UInv) who holds what:*)
(* routed entries and running loads, and no others, hold a handle of their *)
(* host, and the strong count is the number of holders.  A holder makes    *)
(* the count positive; a handle with a positive count is the one in the    *)
(* map of the discovery service; so whoever asks for the host next gets    *)
(* the same one.                                                           *)
(*                                                                         *)
(* The steps of the composition are steps of both parts, so DP!Inv is      *)
(* preserved by the lemmas of DnsDiscoveryProofs and SP!Inv by those of    *)
(* ServiceStoreProofs.  What is left is how Arcs move between holders.     *)
(* That part needs little of the other two, stated as StoreFacts and       *)
(* HandleFacts; their proof modules, and FiniteSetTheorems, come in with   *)
(* the induction at the end.  Leaves without arithmetic name Zenon, which  *)
(* is the quicker of the provers on them.                                  *)
(***************************************************************************)
EXTENDS Upstreams, FiniteSets, TLAPS

-----------------------------------------------------------------------------
(* The strengthening.                                                      *)

(* What the composition uses of the store's invariant: an entry or a load  *)
(* of a name is not past the name's last update_service, and a generation  *)
(* belongs to one load.                                                    *)
StoreFacts ==
  /\ TypeOK
  /\ IndexConsistent
  /\ \A n \in Names : stamp[n] <= spec_generation
  /\ \A n \in Names : services[n] # Nil => services[n].generation < stamp[n]
  /\ \A t \in tasks : t.generation < stamp[t.name]
  /\ \A t, u \in tasks : t.generation = u.generation => t = u

(* What the composition uses of the discovery service's invariant: a       *)
(* handle in use was created and is the one the map has for its host.      *)
HandleFacts ==
  /\ created \in Nat
  /\ host \in [Dns!Ids -> Hosts \cup {Nil}]
  /\ refs \in [Dns!Ids -> Nat]
  /\ service_backends \in [Hosts -> Dns!Ids \cup {0}]
  /\ \A h \in Hosts : service_backends[h] <= created
  /\ \A i \in Dns!Ids : i > created => refs[i] = 0
  /\ \A i \in Dns!Ids : i <= created => host[i] \in Hosts
  /\ \A i \in Dns!Ids : Dns!Alive(i) => service_backends[host[i]] = i

(* The variables of the composition have their types.                      *)
HolderTypes ==
  /\ entry \in [Names -> Dns!Ids \cup {0}]
  /\ loading \in [0 .. MaxGeneration -> Dns!Ids \cup {0}]
  /\ retired \in [Dns!Ids -> Nat]
  /\ requests \in [Requests -> Dns!Ids \cup {0}]

(* What the map of the discovery service has for a host is of that host.   *)
MapHosts ==
  \A h \in Hosts : service_backends[h] # 0 => host[service_backends[h]] = h

(* An entry that is routed, and no other, holds a handle of its upstream.  *)
EntriesHold ==
  \A n \in Names :
    IF Routed(n)
    THEN entry[n] # 0 /\ host[entry[n]] = services[n].lb
    ELSE entry[n] = 0

(* A load that is running, and no other, holds a handle of its upstream.   *)
LoadsHold ==
  /\ \A t \in tasks :
       /\ t.generation <= MaxGeneration
       /\ loading[t.generation] # 0
       /\ host[loading[t.generation]] = t.host
  /\ \A g \in 0 .. MaxGeneration :
       loading[g] # 0 => \E t \in tasks : t.generation = g

(* Who holds handle i, of the entries, the loads or the requests.          *)
Holders(held, i) == {x \in DOMAIN held : held[x] = i}

(* Only finitely many hold a handle, and the strong count is their number. *)
Counted ==
  \A i \in Dns!Ids :
    /\ IsFiniteSet(Holders(entry, i))
    /\ IsFiniteSet(Holders(loading, i))
    /\ IsFiniteSet(Holders(requests, i))
    /\ refs[i] = Cardinality(Holders(entry, i))
                   + Cardinality(Holders(loading, i))
                   + Cardinality(Holders(requests, i)) + retired[i]

(* What the lemmas use of finite sets: a constant formula, which           *)
(* follows from FiniteSetTheorems (CountingHolds).                         *)
Counting ==
  /\ IsFiniteSet({})
  /\ Cardinality({}) = 0
  /\ \A S : IsFiniteSet(S) =>
       /\ Cardinality(S) \in Nat
       /\ S # {} => Cardinality(S) # 0
       /\ \A x :
            /\ IsFiniteSet(S \cup {x})
            /\ Cardinality(S \cup {x}) =
                 IF x \in S THEN Cardinality(S) ELSE Cardinality(S) + 1
            /\ IsFiniteSet(S \ {x})
            /\ Cardinality(S \ {x}) =
                 IF x \in S THEN Cardinality(S) - 1 ELSE Cardinality(S)

UInv ==
  /\ Counting
  /\ StoreFacts
  /\ HandleFacts
  /\ HolderTypes
  /\ MapHosts
  /\ EntriesHold
  /\ LoadsHold
  /\ Counted

-----------------------------------------------------------------------------
(* Counting.                                                               *)

(* One when v is i.                                                        *)
One(v, i) == IF v = i THEN 1 ELSE 0

(* One slot of a function is overwritten: the number of slots with i       *)
(* changes by what came and what went.                                     *)
LEMMA HoldersUpdate ==
  ASSUME Counting, NEW held, NEW new, NEW x \in DOMAIN held, NEW i,
         DOMAIN new = DOMAIN held,
         \A y \in DOMAIN held : y # x => new[y] = held[y],
         IsFiniteSet(Holders(held, i))
  PROVE  /\ IsFiniteSet(Holders(new, i))
         /\ Cardinality(Holders(held, i)) \in Nat
         /\ Cardinality(Holders(new, i)) \in Nat
         /\ Cardinality(Holders(new, i)) =
              Cardinality(Holders(held, i)) + One(new[x], i) - One(held[x], i)
<1> DEFINE S == Holders(held, i)
           T == Holders(new, i)
<1>1. Cardinality(S) \in Nat
  BY Zenon DEF Counting
<1>2. x \in S <=> held[x] = i
  BY Zenon DEF Holders
<1>3. CASE new[x] = i
  <2>1. T = S \cup {x}
    BY <1>3, Zenon DEF Holders
  <2>2. /\ IsFiniteSet(T)
        /\ Cardinality(T) = IF x \in S THEN Cardinality(S) ELSE Cardinality(S) + 1
    <3> HIDE DEF S, T
    <3>1. IsFiniteSet(S)
      BY Zenon DEF S
    <3> QED
      BY <2>1, <3>1, Zenon DEF Counting
  <2> QED
    BY <1>1, <1>2, <1>3, <2>2 DEF One
<1>4. CASE new[x] # i
  <2>1. T = S \ {x}
    BY <1>4, Zenon DEF Holders
  <2>2. /\ IsFiniteSet(T)
        /\ Cardinality(T) = IF x \in S THEN Cardinality(S) - 1 ELSE Cardinality(S)
    <3> HIDE DEF S, T
    <3>1. IsFiniteSet(S)
      BY Zenon DEF S
    <3> QED
      BY <2>1, <3>1, Zenon DEF Counting
  <2>3. One(new[x], i) = 0 /\ One(held[x], i) = IF x \in S THEN 1 ELSE 0
    BY <1>2, <1>4, Zenon DEF One
  <2> HIDE DEF S, T
  <2>4. Cardinality(T) = Cardinality(S) + One(new[x], i) - One(held[x], i)
    BY <1>1, <2>2, <2>3
  <2>5. Cardinality(T) \in Nat
    BY <2>2, Zenon DEF Counting
  <2> QED
    BY <1>1, <2>2, <2>4, <2>5, Zenon DEF S, T
<1> QED
  BY <1>3, <1>4, Zenon

(* Who holds a handle is counted.                                          *)
LEMMA HeldIsCounted ==
  ASSUME UInv, NEW i \in Dns!Ids
  PROVE  /\ \A n \in Names : entry[n] = i => refs[i] > 0
         /\ \A g \in 0 .. MaxGeneration : loading[g] = i => refs[i] > 0
         /\ \A q \in Requests : requests[q] = i => refs[i] > 0
         /\ retired[i] > 0 => refs[i] > 0
<1>1. \A S : IsFiniteSet(S) => Cardinality(S) \in Nat
  BY Zenon DEF UInv, Counting
<1>2. \A S : IsFiniteSet(S) /\ S # {} => Cardinality(S) # 0
  BY Zenon DEF UInv, Counting
<1>3. /\ \A n \in Names : entry[n] = i => n \in Holders(entry, i)
      /\ \A g \in 0 .. MaxGeneration : loading[g] = i => g \in Holders(loading, i)
      /\ \A q \in Requests : requests[q] = i => q \in Holders(requests, i)
  BY Zenon DEF UInv, HolderTypes, Holders
<1>4. retired[i] \in Nat
  BY Zenon DEF UInv, HolderTypes
<1> QED
  BY <1>1, <1>2, <1>3, <1>4 DEF UInv, Counted

-----------------------------------------------------------------------------
(* What the operations on handles do.                                      *)

(* Asking for the handle of a host: one more user of a handle of that      *)
(* host, which is the one in use if there is one.                          *)
LEMMA TakenHandle ==
  ASSUME HandleFacts, MapHosts, NEW h \in Hosts, Dns!BackendsForHostname(h)
  PROVE  LET i == service_backends'[h]
         IN  /\ i \in Dns!Ids
             /\ host'[i] = h
             /\ refs' = [refs EXCEPT ![i] = @ + 1]
             /\ \A j \in Dns!Ids : j <= created => host'[j] = host[j]
             /\ \A j \in Dns!Ids : refs[j] > 0 /\ host[j] = h => j = i
             /\ MapHosts'
<1> USE DEF HandleFacts
<1>1. CASE Dns!Reuse(h)
  <2> DEFINE i == service_backends[h]
  <2>1. /\ service_backends' = service_backends
        /\ host' = host
        /\ refs' = [refs EXCEPT ![i] = @ + 1]
        /\ i # 0
    BY <1>1, Zenon DEF Dns!Reuse, Dns!Reusable
  <2>2. i \in Dns!Ids
    BY <2>1, Zenon
  <2>3. \A j \in Dns!Ids : refs[j] > 0 => service_backends[host[j]] = j
    BY Zenon DEF Dns!Alive
  <2> QED
    BY <2>1, <2>2, <2>3, Zenon DEF MapHosts
<1>2. CASE Dns!Create(h)
  <2> DEFINE i == created + 1
  <2>1. /\ ~Dns!Reusable(service_backends[h])
        /\ i \in Dns!Ids
        /\ host' = [host EXCEPT ![i] = h]
        /\ refs' = [refs EXCEPT ![i] = 1]
        /\ service_backends' = [service_backends EXCEPT ![h] = i]
    BY <1>2, Zenon DEF Dns!Create
  <2>2. refs[i] = 0 /\ service_backends'[h] = i /\ host'[i] = h
    BY <2>1
  <2>3. refs' = [refs EXCEPT ![i] = @ + 1]
    BY <2>1, <2>2
  <2>4. \A j \in Dns!Ids : j <= created => host'[j] = host[j]
    BY <2>1
  <2>5. \A j \in Dns!Ids : refs[j] > 0 => host[j] # h
    <3> SUFFICES ASSUME NEW j \in Dns!Ids, refs[j] > 0, host[j] = h PROVE FALSE
      BY Zenon
    <3>1. Dns!Alive(j) /\ service_backends[h] = j /\ j # 0
      BY DEF Dns!Alive, Dns!Ids
    <3> QED
      BY <3>1, <2>1, Zenon DEF Dns!Reusable
  <2>6. MapHosts'
    <3> SUFFICES ASSUME NEW k \in Hosts, service_backends'[k] # 0
                 PROVE  host'[service_backends'[k]] = k
      BY Zenon DEF MapHosts
    <3>1. CASE k = h
      BY <3>1, <2>2, Zenon
    <3>2. CASE k # h
      <4>1. service_backends'[k] = service_backends[k]
        BY <3>2, <2>1, Zenon
      <4>2. service_backends[k] \in Dns!Ids /\ service_backends[k] <= created
        BY <4>1, Zenon
      <4> QED
        BY <4>1, <4>2, <2>4, Zenon DEF MapHosts
    <3> QED
      BY <3>1, <3>2, Zenon
  <2> QED
    BY <2>1, <2>2, <2>3, <2>4, <2>5, <2>6, Zenon
<1> QED
  BY <1>1, <1>2, Zenon DEF Dns!BackendsForHostname

-----------------------------------------------------------------------------
(* What update_service does in each of its branches, with its handle.      *)

Panicked == UNCHANGED <<services, tasks, dnsVars, holderVars>>

Unloaded(n) ==
  /\ UnloadEntry(n)
  /\ ~Routed(n)'
  /\ tasks' = tasks

PassedThrough(n, h) ==
  /\ TakeHandle(n, h)
  /\ Publish(n, service_backends'[h])
  /\ UNCHANGED <<loading, requests, tasks>>
  /\ Routed(n)'
  /\ services'[n].lb = h

Spawned(n, h) ==
  /\ TakeHandle(n, h)
  /\ loading' = [loading EXCEPT ![spec_generation] = service_backends'[h]]
  /\ UNCHANGED <<entry, retired, requests, services>>
  /\ \E t : /\ tasks' = tasks \cup {t}
            /\ t.generation = spec_generation
            /\ t.host = h

(* The branches of update_service decide what happens to handles.          *)
LEMMA UpdateBranches ==
  ASSUME StoreFacts, StoreFacts', NEW n \in Names, ~crashed,
         UpdateService(n, raw_services', ref_by_grpc_service'),
         UpdateHandles(n)
  PROVE  /\ spec_generation \in 0 .. MaxGeneration - 1
         /\ spec_generation' = spec_generation + 1
         /\ \A m \in Names \ {n} : services'[m] = services[m]
         /\ \/ Panicked
            \/ Unloaded(n)
            \/ \E h \in Hosts : PassedThrough(n, h) \/ Spawned(n, h)
<1> DEFINE o == Selected(raw_services', ref_by_grpc_service', n)
           index == ref_by_grpc_service'
<1>1. /\ TypeOK /\ StoreFacts /\ TypeOK' /\ IndexConsistent'
      /\ spec_generation \in Nat
      /\ services[n] \in ServiceData \cup {Nil}
  BY Zenon DEF StoreFacts, TypeOK
<1>2. /\ spec_generation < MaxGeneration
      /\ spec_generation' = spec_generation + 1
  BY Zenon DEF UpdateService
<1>3. spec_generation \in 0 .. MaxGeneration - 1
  BY <1>1, <1>2, BoundAssumption
<1>4. ASSUME index[n] # {}
      PROVE  o.host \in Hosts /\ o.host # Nil
  <2>1. MinRef(index[n]) \in index[n] /\ index[n] \subseteq Refs
    BY <1>1, <1>4, RefsAssumption, Zenon DEF MinRef, TypeOK
  <2>2. raw_services'[MinRef(index[n])] \in Object
    BY <1>1, <2>1 DEF IndexConsistent, TypeOK
  <2>3. o.host \in Hosts
    BY <2>2, Zenon DEF Selected, Object
  <2> QED
    BY <2>3, NilAssumption, Zenon
<1>5. CASE Unload(n, index)
  <2>1. /\ services' = [services EXCEPT ![n] = Tombstone(spec_generation)]
        /\ tasks' = tasks /\ crashed' = crashed
    BY <1>5, Zenon DEF Unload
  <2>2. services'[n] = Tombstone(spec_generation) /\ services'[n].lb = Nil
    BY <1>1, <2>1, Zenon DEF TypeOK, Tombstone
  <2>3. ~Routed(n)'
    BY <2>2, Zenon DEF Routed
  <2>4. Unloaded(n)
    BY <2>1, <2>2, <2>3, Zenon
    DEF UpdateHandles, UnloadEntry, PassEntry, SpawnWithHandle, Unloaded
  <2> QED
    BY <1>1, <1>2, <1>3, <2>1, <2>4, Zenon DEF TypeOK
<1>6. CASE PanicOnName(n, index)
  BY <1>2, <1>3, <1>6, Zenon DEF PanicOnName, UpdateHandles, Panicked
<1>7. CASE LoadPassthrough(n, raw_services', index)
  <2> DEFINE d == Loaded(spec_generation, Passthrough, o.host)
  <2>1. index[n] # {} /\ tasks' = tasks /\ crashed' = crashed
    BY <1>7, Zenon DEF LoadPassthrough
  <2>2. /\ d \in ServiceData /\ d.generation = spec_generation
        /\ d.lb = o.host /\ d # Nil
    BY <1>1, <1>4, <2>1, NilAssumption DEF Loaded, ServiceData
  <2>3. Newer(services[n], d)
    BY <1>1, <2>2 DEF Newer, StoreFacts, TypeOK, ServiceData
  <2>4. services' = [services EXCEPT ![n] = d]
    BY <1>7, <2>3, Zenon DEF LoadPassthrough, UpdateServiceIfNewer
  <2>5. services'[n] = d
    BY <1>1, <2>4, Zenon DEF TypeOK
  <2>6. Routed(n)' /\ services'[n].lb = o.host
    BY <1>4, <2>1, <2>2, <2>5, Zenon DEF Routed
  <2>7. PassEntry(n, o)
    BY <1>4, <2>1, <2>6, Zenon DEF UpdateHandles, UnloadEntry, SpawnWithHandle
  <2>8. PassedThrough(n, o.host)
    BY <2>1, <2>6, <2>7, Zenon DEF PassEntry, PassedThrough
  <2> QED
    BY <1>1, <1>2, <1>3, <1>4, <2>1, <2>4, <2>8, Zenon DEF TypeOK
<1>8. CASE SpawnLoad(n, raw_services', index)
  <2> DEFINE t == [name |-> n, generation |-> spec_generation,
                   source |-> o.source, host |-> o.host]
  <2>1. /\ index[n] # {} /\ tasks' = tasks \cup {t}
        /\ services' = services /\ crashed' = crashed
    BY <1>8, Zenon DEF SpawnLoad
  <2>2. t.generation = spec_generation /\ t.host = o.host
    BY Zenon
  <2>3. SpawnWithHandle(n, o)
    BY <2>1, Zenon DEF UpdateHandles, UnloadEntry, PassEntry
  <2>4. Spawned(n, o.host)
    BY <2>1, <2>2, <2>3, Zenon DEF SpawnWithHandle, Spawned
  <2> QED
    BY <1>2, <1>3, <1>4, <2>1, <2>4, Zenon
<1> QED
  BY <1>5, <1>6, <1>7, <1>8, Zenon DEF UpdateService

-----------------------------------------------------------------------------
(* What steps that leave a part of the state alone keep of the             *)
(* strengthening.                                                          *)

(* The part of UInv that is about holders.                                 *)
HoldersInv == HolderTypes /\ MapHosts /\ EntriesHold /\ LoadsHold /\ Counted

(* A handle that was created stays with its host.                          *)
HostsKept == \A j \in Dns!Ids : j <= created => host'[j] = host[j]

(* A load that is running has a generation of the past.                    *)
LEMMA RunningGeneration ==
  ASSUME UInv, NEW t \in tasks
  PROVE  /\ t.generation \in 0 .. MaxGeneration
         /\ t.generation < spec_generation
<1>1. t.generation \in Nat /\ t.name \in Names
  BY Zenon DEF UInv, StoreFacts, TypeOK, Task
<1>2. /\ t.generation < stamp[t.name] /\ stamp[t.name] <= spec_generation
      /\ stamp[t.name] \in Nat /\ spec_generation \in Nat
  BY <1>1, Zenon DEF UInv, StoreFacts, TypeOK
<1>3. t.generation <= MaxGeneration
  BY Zenon DEF UInv, LoadsHold
<1> QED
  BY <1>1, <1>2, <1>3, BoundAssumption

(* A handle in use keeps its host.                                         *)
LEMMA UsedKeepsHost ==
  ASSUME UInv, HostsKept, NEW i \in Dns!Ids, refs[i] > 0
  PROVE  host'[i] = host[i]
<1>1. i \in Nat
  BY DEF Dns!Ids
<1>2. created \in Nat /\ (i > created => refs[i] = 0)
  BY Zenon DEF UInv, HandleFacts
<1> QED
  BY <1>1, <1>2 DEF HostsKept

(* An entry that is not replaced still holds the handle of its upstream.   *)
LEMMA EntryKept ==
  ASSUME UInv, HostsKept, NEW m \in Names,
         services'[m] = services[m], entry'[m] = entry[m]
  PROVE  IF Routed(m)'
         THEN entry'[m] # 0 /\ host'[entry'[m]] = services'[m].lb
         ELSE entry'[m] = 0
<1>1. Routed(m)' <=> Routed(m)
  BY Zenon DEF Routed
<1>2. CASE Routed(m)
  <2>1. entry[m] \in Dns!Ids /\ host[entry[m]] = services[m].lb
    BY <1>2, Zenon DEF UInv, EntriesHold, HolderTypes
  <2>2. refs[entry[m]] > 0
    BY <2>1, HeldIsCounted, Zenon
  <2>3. host'[entry[m]] = host[entry[m]]
    BY <2>1, <2>2, UsedKeepsHost, Zenon
  <2> QED
    BY <1>1, <1>2, <2>1, <2>3, Zenon DEF UInv, EntriesHold
<1>3. CASE ~Routed(m)
  BY <1>1, <1>3, Zenon DEF UInv, EntriesHold
<1> QED
  BY <1>2, <1>3, Zenon

(* A load that goes on still holds the handle of its upstream.             *)
LEMMA LoadKept ==
  ASSUME UInv, HostsKept, NEW t \in tasks,
         loading'[t.generation] = loading[t.generation]
  PROVE  /\ t.generation <= MaxGeneration
         /\ loading'[t.generation] # 0
         /\ host'[loading'[t.generation]] = t.host
<1> DEFINE g == t.generation
<1>1. g \in 0 .. MaxGeneration
  BY RunningGeneration, Zenon
<1>2. loading[g] \in Dns!Ids /\ host[loading[g]] = t.host
  BY <1>1, Zenon DEF UInv, LoadsHold, HolderTypes
<1>3. refs[loading[g]] > 0
  BY <1>1, <1>2, HeldIsCounted, Zenon
<1>4. host'[loading[g]] = t.host
  BY <1>2, <1>3, UsedKeepsHost, Zenon
<1> QED
  BY <1>2, <1>4, Zenon DEF UInv, LoadsHold

(* Replacing an entry: the handle of the new one is held once more, the    *)
(* one of the old is held by the entry that waits to be reclaimed.         *)
LEMMA PublishCounts ==
  ASSUME UInv, NEW n \in Names, NEW v \in Dns!Ids \cup {0}, Publish(n, v)
  PROVE  /\ entry' \in [Names -> Dns!Ids \cup {0}]
         /\ retired' \in [Dns!Ids -> Nat]
         /\ entry'[n] = v
         /\ \A m \in Names \ {n} : entry'[m] = entry[m]
         /\ \A i \in Dns!Ids :
              /\ IsFiniteSet(Holders(entry', i))
              /\ Cardinality(Holders(entry, i)) \in Nat
              /\ Cardinality(Holders(entry', i)) \in Nat
              /\ Cardinality(Holders(entry', i)) + retired'[i] =
                   Cardinality(Holders(entry, i)) + retired[i] + One(v, i)
<1>1. HolderTypes /\ Counted
  BY Zenon DEF UInv
<1>2. entry' = [entry EXCEPT ![n] = v]
  BY Zenon DEF Publish
<1>3. retired' = [j \in Dns!Ids |->
                    IF j = entry[n] THEN retired[j] + 1 ELSE retired[j]]
  BY Zenon DEF Publish
<1>4. /\ entry' \in [Names -> Dns!Ids \cup {0}]
      /\ entry'[n] = v
      /\ \A m \in Names \ {n} : entry'[m] = entry[m]
  BY <1>1, <1>2, Zenon DEF HolderTypes
<1>5. retired' \in [Dns!Ids -> Nat]
  BY <1>1, <1>3 DEF HolderTypes
<1>6. ASSUME NEW i \in Dns!Ids
      PROVE  /\ IsFiniteSet(Holders(entry', i))
             /\ Cardinality(Holders(entry, i)) \in Nat
             /\ Cardinality(Holders(entry', i)) \in Nat
             /\ Cardinality(Holders(entry', i)) + retired'[i] =
                  Cardinality(Holders(entry, i)) + retired[i] + One(v, i)
  <2>1. IsFiniteSet(Holders(entry, i)) /\ n \in DOMAIN entry
    BY <1>1, Zenon DEF Counted, HolderTypes
  <2>a. /\ DOMAIN entry' = DOMAIN entry /\ entry'[n] = v
        /\ \A y \in DOMAIN entry : y # n => entry'[y] = entry[y]
    BY <1>1, <1>4, Zenon DEF HolderTypes
  <2>2. /\ IsFiniteSet(Holders(entry', i))
        /\ Cardinality(Holders(entry, i)) \in Nat
        /\ Cardinality(Holders(entry', i)) =
             Cardinality(Holders(entry, i)) + One(v, i) - One(entry[n], i)
    BY <2>a, <2>1, HoldersUpdate DEF UInv
  <2>3. Cardinality(Holders(entry', i)) \in Nat
    BY <2>2, Zenon DEF UInv, Counting
  <2>4. retired'[i] = retired[i] + One(entry[n], i) /\ retired[i] \in Nat
    BY <1>1, <1>3 DEF One, HolderTypes
  <2>5. One(v, i) \in Nat /\ One(entry[n], i) \in Nat
    BY Zenon DEF One
  <2> QED
    BY <2>2, <2>3, <2>4, <2>5
<1> QED
  BY <1>4, <1>5, <1>6, Zenon

-----------------------------------------------------------------------------
(* Every step of the composition keeps HoldersInv.                         *)

(* What every branch of update_service for n does to the store.            *)
StoreUpdated(n) ==
  /\ spec_generation \in 0 .. MaxGeneration - 1
  /\ spec_generation' = spec_generation + 1
  /\ \A m \in Names \ {n} : services'[m] = services[m]

(* Handle 0 stands for none and is never counted.                          *)
LEMMA OneFacts ==
  ASSUME NEW i \in Dns!Ids
  PROVE  One(0, i) = 0 /\ i # 0 /\ \A v : One(v, i) \in Nat
BY DEF One, Dns!Ids

(* The counts of a handle are numbers, and they add up.                    *)
CountsOf(i) ==
  /\ IsFiniteSet(Holders(entry, i))
  /\ IsFiniteSet(Holders(loading, i))
  /\ IsFiniteSet(Holders(requests, i))
  /\ Cardinality(Holders(entry, i)) \in Nat
  /\ Cardinality(Holders(loading, i)) \in Nat
  /\ Cardinality(Holders(requests, i)) \in Nat
  /\ retired[i] \in Nat
  /\ refs[i] = Cardinality(Holders(entry, i)) + Cardinality(Holders(loading, i))
                 + Cardinality(Holders(requests, i)) + retired[i]

(* CountsOf follows from the strengthening.                                *)
LEMMA CountFacts ==
  ASSUME UInv, NEW i \in Dns!Ids
  PROVE  CountsOf(i)
<1>1. /\ IsFiniteSet(Holders(entry, i))
      /\ IsFiniteSet(Holders(loading, i))
      /\ IsFiniteSet(Holders(requests, i))
  BY Zenon DEF UInv, Counted
<1>2. /\ Cardinality(Holders(entry, i)) \in Nat
      /\ Cardinality(Holders(loading, i)) \in Nat
      /\ Cardinality(Holders(requests, i)) \in Nat
  BY <1>1, Zenon DEF UInv, Counting
<1> QED
  BY <1>1, <1>2, Zenon DEF UInv, Counted, HolderTypes, CountsOf

(* Unloading a service moves its handle from the entry to the one that     *)
(* waits to be reclaimed.                                                  *)
LEMMA UnloadedKeeps ==
  ASSUME UInv, NEW n \in Names, StoreUpdated(n), Unloaded(n)
  PROVE  HoldersInv'
<1>1. /\ Publish(n, 0) /\ ~Routed(n)' /\ tasks' = tasks
      /\ UNCHANGED <<created, host, refs, service_backends, loading, requests>>
  BY Zenon DEF Unloaded, UnloadEntry, dnsVars, loopVars
<1>2. HostsKept
  BY <1>1, Zenon DEF HostsKept
<1>3. /\ entry' \in [Names -> Dns!Ids \cup {0}]
      /\ retired' \in [Dns!Ids -> Nat]
      /\ entry'[n] = 0
      /\ \A m \in Names \ {n} : entry'[m] = entry[m]
      /\ \A i \in Dns!Ids :
           /\ IsFiniteSet(Holders(entry', i))
           /\ Cardinality(Holders(entry, i)) \in Nat
           /\ Cardinality(Holders(entry', i)) \in Nat
           /\ Cardinality(Holders(entry', i)) + retired'[i] =
                Cardinality(Holders(entry, i)) + retired[i] + One(0, i)
  BY <1>1, PublishCounts, Zenon
<1>4. HolderTypes'
  BY <1>1, <1>3, Zenon DEF UInv, HolderTypes
<1>5. MapHosts'
  BY <1>1, Zenon DEF UInv, MapHosts
<1>6. EntriesHold'
  <2> SUFFICES ASSUME NEW m \in Names
               PROVE  IF Routed(m)'
                      THEN entry'[m] # 0 /\ host'[entry'[m]] = services'[m].lb
                      ELSE entry'[m] = 0
    BY Zenon DEF EntriesHold
  <2>1. CASE m = n
    BY <2>1, <1>1, <1>3, Zenon
  <2>2. CASE m # n
    BY <2>2, <1>2, <1>3, EntryKept, Zenon DEF StoreUpdated
  <2> QED
    BY <2>1, <2>2, Zenon
<1>7. LoadsHold'
  BY <1>1, Zenon DEF UInv, LoadsHold
<1>8. Counted'
  <2> SUFFICES ASSUME NEW i \in Dns!Ids
               PROVE  /\ IsFiniteSet(Holders(entry', i))
                      /\ IsFiniteSet(Holders(loading, i))
                      /\ IsFiniteSet(Holders(requests, i))
                      /\ refs[i] = Cardinality(Holders(entry', i))
                           + Cardinality(Holders(loading, i))
                           + Cardinality(Holders(requests, i)) + retired'[i]
    BY <1>1, Zenon DEF Counted
  <2>1. CountsOf(i) /\ One(0, i) = 0
    BY CountFacts, OneFacts, Zenon
  <2>2. /\ IsFiniteSet(Holders(entry', i))
        /\ Cardinality(Holders(entry', i)) \in Nat
        /\ retired'[i] \in Nat
        /\ Cardinality(Holders(entry', i)) + retired'[i] =
             Cardinality(Holders(entry, i)) + retired[i] + One(0, i)
    BY <1>3, Zenon
  <2> QED
    BY ONLY <2>1, <2>2, SMTT(30) DEF CountsOf
<1> QED
  BY <1>4, <1>5, <1>6, <1>7, <1>8, Zenon DEF HoldersInv

(* Loading an object without descriptors: the entry takes a handle of the  *)
(* object's host.                                                          *)
LEMMA PassedKeeps ==
  ASSUME UInv, NEW n \in Names, StoreUpdated(n), NEW h \in Hosts,
         PassedThrough(n, h)
  PROVE  HoldersInv'
<1> DEFINE v == service_backends'[h]
<1>1. /\ Dns!BackendsForHostname(h) /\ Publish(n, v)
      /\ Routed(n)' /\ services'[n].lb = h
      /\ UNCHANGED <<loading, requests, tasks>>
  BY Zenon DEF PassedThrough, TakeHandle
<1>2. /\ v \in Dns!Ids /\ host'[v] = h
      /\ refs' = [refs EXCEPT ![v] = @ + 1]
      /\ HostsKept /\ MapHosts'
  BY <1>1, TakenHandle, Zenon DEF UInv, HostsKept
<1>3. /\ entry' \in [Names -> Dns!Ids \cup {0}]
      /\ retired' \in [Dns!Ids -> Nat]
      /\ entry'[n] = v
      /\ \A m \in Names \ {n} : entry'[m] = entry[m]
      /\ \A i \in Dns!Ids :
           /\ IsFiniteSet(Holders(entry', i))
           /\ Cardinality(Holders(entry, i)) \in Nat
           /\ Cardinality(Holders(entry', i)) \in Nat
           /\ Cardinality(Holders(entry', i)) + retired'[i] =
                Cardinality(Holders(entry, i)) + retired[i] + One(v, i)
  BY <1>1, <1>2, PublishCounts, ZenonT(30)
<1> HIDE DEF v
<1>4. HolderTypes'
  BY <1>1, <1>3, Zenon DEF UInv, HolderTypes
<1>5. EntriesHold'
  <2> SUFFICES ASSUME NEW m \in Names
               PROVE  IF Routed(m)'
                      THEN entry'[m] # 0 /\ host'[entry'[m]] = services'[m].lb
                      ELSE entry'[m] = 0
    BY Zenon DEF EntriesHold
  <2>1. CASE m = n
    BY <2>1, <1>1, <1>2, <1>3, OneFacts, Zenon
  <2>2. CASE m # n
    BY <2>2, <1>2, <1>3, EntryKept, Zenon DEF StoreUpdated
  <2> QED
    BY <2>1, <2>2, Zenon
<1>6. LoadsHold'
  <2>1. ASSUME NEW t \in tasks
        PROVE  /\ t.generation <= MaxGeneration
               /\ loading'[t.generation] # 0
               /\ host'[loading'[t.generation]] = t.host
    BY <1>1, <1>2, LoadKept, Zenon
  <2>2. \A g \in 0 .. MaxGeneration :
          loading'[g] # 0 => \E t \in tasks' : t.generation = g
    BY <1>1, Zenon DEF UInv, LoadsHold
  <2> QED
    BY <1>1, <2>1, <2>2, Zenon DEF LoadsHold
<1>7. Counted'
  <2> SUFFICES ASSUME NEW i \in Dns!Ids
               PROVE  /\ IsFiniteSet(Holders(entry', i))
                      /\ IsFiniteSet(Holders(loading, i))
                      /\ IsFiniteSet(Holders(requests, i))
                      /\ refs'[i] = Cardinality(Holders(entry', i))
                           + Cardinality(Holders(loading, i))
                           + Cardinality(Holders(requests, i)) + retired'[i]
    BY <1>1, Zenon DEF Counted
  <2>1. refs'[i] = refs[i] + One(v, i) /\ refs[i] \in Nat
    BY <1>2 DEF UInv, HandleFacts, One
  <2>2. /\ IsFiniteSet(Holders(entry', i))
        /\ Cardinality(Holders(entry', i)) \in Nat
        /\ retired'[i] \in Nat
        /\ Cardinality(Holders(entry', i)) + retired'[i] =
             Cardinality(Holders(entry, i)) + retired[i] + One(v, i)
    BY <1>3, Zenon
  <2>3. CountsOf(i) /\ One(v, i) \in Nat
    BY CountFacts, OneFacts, Zenon
  <2> QED
    BY ONLY <2>1, <2>2, <2>3, SMTT(30) DEF CountsOf
<1> QED
  BY <1>2, <1>4, <1>5, <1>6, <1>7, Zenon DEF HoldersInv

(* Loading an object with descriptors: the spawned load takes the handle.  *)
LEMMA SpawnedKeeps ==
  ASSUME UInv, NEW n \in Names, StoreUpdated(n), NEW h \in Hosts,
         Spawned(n, h)
  PROVE  HoldersInv'
<1> DEFINE v == service_backends'[h]
           g0 == spec_generation
<1>1. /\ Dns!BackendsForHostname(h)
      /\ loading' = [loading EXCEPT ![g0] = v]
      /\ UNCHANGED <<entry, retired, requests, services>>
  BY Zenon DEF Spawned, TakeHandle
<1>2. /\ v \in Dns!Ids /\ host'[v] = h
      /\ refs' = [refs EXCEPT ![v] = @ + 1]
      /\ HostsKept /\ MapHosts'
  BY <1>1, TakenHandle, Zenon DEF UInv, HostsKept
<1>3. g0 \in 0 .. MaxGeneration /\ g0 \in Nat
  BY BoundAssumption DEF StoreUpdated
<1>z. loading[g0] = 0
  BY <1>3, RunningGeneration DEF UInv, LoadsHold
<1>t. loading' \in [0 .. MaxGeneration -> Dns!Ids \cup {0}]
  BY <1>1, <1>2, <1>3, Zenon DEF UInv, HolderTypes
<1>4. /\ DOMAIN loading' = DOMAIN loading /\ g0 \in DOMAIN loading
      /\ loading'[g0] = v
      /\ \A g \in DOMAIN loading : g # g0 => loading'[g] = loading[g]
  BY <1>1, <1>2, <1>3, Zenon DEF UInv, HolderTypes
<1>d. DOMAIN loading = 0 .. MaxGeneration
  BY Zenon DEF UInv, HolderTypes
<1> HIDE DEF v, g0
<1>5. HolderTypes'
  BY <1>1, <1>t, Zenon DEF UInv, HolderTypes
<1>6. EntriesHold'
  BY <1>1, <1>2, EntryKept, Zenon DEF EntriesHold
<1>7. LoadsHold'
  <2>1. PICK u : /\ tasks' = tasks \cup {u}
                 /\ u.generation = g0
                 /\ u.host = h
    BY Zenon DEF Spawned, g0
  <2>2. ASSUME NEW t \in tasks
        PROVE  /\ t.generation <= MaxGeneration
               /\ loading'[t.generation] # 0
               /\ host'[loading'[t.generation]] = t.host
    <3>1. /\ t.generation \in 0 .. MaxGeneration
          /\ t.generation # g0
      BY <1>3, RunningGeneration DEF g0
    <3>2. loading'[t.generation] = loading[t.generation]
      BY <1>3, <1>4, <1>d, <3>1, Zenon
    <3> QED
      BY <1>2, <3>1, <3>2, LoadKept, Zenon
  <2>3. \A g \in 0 .. MaxGeneration :
          loading'[g] # 0 => \E t \in tasks' : t.generation = g
    BY <1>4, <1>d, <2>1, Zenon DEF UInv, LoadsHold
  <2>4. /\ u.generation <= MaxGeneration
        /\ loading'[u.generation] # 0
        /\ host'[loading'[u.generation]] = u.host
    BY <1>2, <1>3, <1>4, <2>1, OneFacts, BoundAssumption
  <2> QED
    BY <2>1, <2>2, <2>3, <2>4, Zenon DEF LoadsHold
<1>8. Counted'
  <2> SUFFICES ASSUME NEW i \in Dns!Ids
               PROVE  /\ IsFiniteSet(Holders(entry, i))
                      /\ IsFiniteSet(Holders(loading', i))
                      /\ IsFiniteSet(Holders(requests, i))
                      /\ refs'[i] = Cardinality(Holders(entry, i))
                           + Cardinality(Holders(loading', i))
                           + Cardinality(Holders(requests, i)) + retired[i]
    BY <1>1, Zenon DEF Counted
  <2>1. refs'[i] = refs[i] + One(v, i) /\ refs[i] \in Nat
    BY <1>2 DEF UInv, HandleFacts, One
  <2>f. IsFiniteSet(Holders(loading, i))
    BY CountFacts, Zenon DEF CountsOf
  <2>c. Counting
    BY Zenon DEF UInv
  <2>2. /\ IsFiniteSet(Holders(loading', i))
        /\ Cardinality(Holders(loading', i)) \in Nat
        /\ Cardinality(Holders(loading', i)) =
             Cardinality(Holders(loading, i)) + One(v, i) - One(loading[g0], i)
    <3>1. /\ IsFiniteSet(Holders(loading', i))
          /\ Cardinality(Holders(loading', i)) \in Nat
          /\ Cardinality(Holders(loading', i)) =
               Cardinality(Holders(loading, i))
                 + One(loading'[g0], i) - One(loading[g0], i)
      BY ONLY <1>4, <2>f, <2>c, HoldersUpdate
    <3> QED
      BY <1>4, <3>1, Zenon
  <2>3. CountsOf(i) /\ One(v, i) \in Nat /\ One(loading[g0], i) = 0
    BY <1>z, CountFacts, OneFacts, Zenon
  <2> QED
    BY ONLY <2>1, <2>2, <2>3, SMTT(30) DEF CountsOf
<1> QED
  BY <1>2, <1>5, <1>6, <1>7, <1>8, Zenon DEF HoldersInv

(* Dropping an Arc takes one from the count of its handle only.            *)
LEMMA ReleasedHandle ==
  ASSUME UInv, NEW v \in Dns!Ids, Dns!Release(v)
  PROVE  /\ HostsKept
         /\ MapHosts'
         /\ \A i \in Dns!Ids : refs[i] \in Nat /\ refs'[i] = refs[i] - One(v, i)
<1>1. /\ refs' = [refs EXCEPT ![v] = @ - 1]
      /\ UNCHANGED <<created, host, service_backends>>
  BY Zenon DEF Dns!Release
<1>2. refs \in [Dns!Ids -> Nat]
  BY Zenon DEF UInv, HandleFacts
<1> QED
  BY <1>1, <1>2 DEF HostsKept, UInv, MapHosts, One

(* One load fewer holds a handle.                                          *)
LEMMA LoadSlotFreed ==
  ASSUME UInv, NEW g0 \in DOMAIN loading, NEW i \in Dns!Ids,
         DOMAIN loading' = DOMAIN loading, loading'[g0] = 0,
         \A g \in DOMAIN loading : g # g0 => loading'[g] = loading[g]
  PROVE  /\ IsFiniteSet(Holders(loading', i))
         /\ Cardinality(Holders(loading', i)) \in Nat
         /\ Cardinality(Holders(loading', i)) =
              Cardinality(Holders(loading, i)) - One(loading[g0], i)
<1>1. IsFiniteSet(Holders(loading, i))
  BY CountFacts, Zenon DEF CountsOf
<1>2. /\ IsFiniteSet(Holders(loading', i))
      /\ Cardinality(Holders(loading', i)) \in Nat
      /\ Cardinality(Holders(loading', i)) =
           Cardinality(Holders(loading, i))
             + One(loading'[g0], i) - One(loading[g0], i)
  BY <1>1, HoldersUpdate, ZenonT(30) DEF UInv
<1>3. CountsOf(i) /\ One(loading'[g0], i) = 0 /\ One(loading[g0], i) \in Nat
  BY CountFacts, OneFacts, Zenon
<1> QED
  BY <1>2, <1>3 DEF CountsOf

(* A load that ends gives its handle away, and no other load's.            *)
LEMMA LoadCleared ==
  ASSUME UInv, HostsKept, NEW t \in tasks,
         tasks' = tasks \ {t}, spec_generation' = spec_generation,
         loading' = [loading EXCEPT ![t.generation] = 0]
  PROVE  /\ loading' \in [0 .. MaxGeneration -> Dns!Ids \cup {0}]
         /\ LoadsHold'
         /\ loading[t.generation] \in Dns!Ids
         /\ host[loading[t.generation]] = t.host
         /\ \A i \in Dns!Ids :
              /\ IsFiniteSet(Holders(loading', i))
              /\ Cardinality(Holders(loading', i)) \in Nat
              /\ Cardinality(Holders(loading', i)) =
                   Cardinality(Holders(loading, i)) - One(loading[t.generation], i)
<1> DEFINE g0 == t.generation
<1>1. g0 \in 0 .. MaxGeneration
  BY RunningGeneration, Zenon
<1>2. loading[g0] \in Dns!Ids /\ host[loading[g0]] = t.host
  BY <1>1, Zenon DEF UInv, LoadsHold, HolderTypes
<1>3. loading' \in [0 .. MaxGeneration -> Dns!Ids \cup {0}]
  BY <1>1, Zenon DEF UInv, HolderTypes
<1>4. /\ DOMAIN loading' = DOMAIN loading /\ g0 \in DOMAIN loading
      /\ loading'[g0] = 0
      /\ \A g \in DOMAIN loading : g # g0 => loading'[g] = loading[g]
  BY <1>1, Zenon DEF UInv, HolderTypes
<1>d. DOMAIN loading = 0 .. MaxGeneration
  BY Zenon DEF UInv, HolderTypes
<1>5. LoadsHold'
  <2>1. ASSUME NEW u \in tasks'
        PROVE  /\ u.generation <= MaxGeneration
               /\ loading'[u.generation] # 0
               /\ host'[loading'[u.generation]] = u.host
    <3>1. u \in tasks /\ u.generation # g0
      BY Zenon DEF UInv, StoreFacts
    <3>2. u.generation \in 0 .. MaxGeneration
      BY <3>1, RunningGeneration, Zenon
    <3>3. loading'[u.generation] = loading[u.generation]
      BY <1>4, <1>d, <3>1, <3>2, Zenon
    <3> QED
      BY <3>1, <3>3, LoadKept, Zenon
  <2>2. \A g \in 0 .. MaxGeneration :
          loading'[g] # 0 => \E u \in tasks' : u.generation = g
    BY <1>4, <1>d, Zenon DEF UInv, LoadsHold
  <2> QED
    BY <2>1, <2>2, Zenon DEF LoadsHold
<1> HIDE DEF g0
<1>6. \A i \in Dns!Ids :
        /\ IsFiniteSet(Holders(loading', i))
        /\ Cardinality(Holders(loading', i)) \in Nat
        /\ Cardinality(Holders(loading', i)) =
             Cardinality(Holders(loading, i)) - One(loading[g0], i)
  BY <1>4, LoadSlotFreed, Zenon
<1> QED
  BY <1>2, <1>3, <1>5, <1>6, Zenon DEF g0

(* A load that publishes moves its handle into the entry.                  *)
LEMMA WinsRaceKeeps ==
  ASSUME UInv, NEW t \in tasks, LoadPublishes(t), WinsRace(t)
  PROVE  HoldersInv'
<1> DEFINE n == t.name
           v == loading[t.generation]
           d == Loaded(t.generation, t.source, t.host)
<1>1. /\ tasks' = tasks \ {t} /\ spec_generation' = spec_generation
      /\ services' # services
      /\ UpdateServiceIfNewer(n, d)
      /\ Publish(n, v)
      /\ loading' = [loading EXCEPT ![t.generation] = 0]
      /\ UNCHANGED <<created, host, refs, service_backends, requests>>
  BY Zenon DEF LoadPublishes, WinsRace, LoadDone, dnsVars, loopVars
<1>2. n \in Names /\ t.host \in Hosts /\ t.host # Nil /\ d # Nil
  <2>1. t \in Task
    BY Zenon DEF UInv, StoreFacts, TypeOK
  <2>2. d \in ServiceData
    BY <2>1, Zenon DEF Task, Loaded, ServiceData
  <2> QED
    BY <2>1, <2>2, NilAssumption, Zenon DEF Task
<1>3. /\ services'[n] = d
      /\ \A m \in Names \ {n} : services'[m] = services[m]
  BY <1>1, <1>2, Zenon DEF UpdateServiceIfNewer, UInv, StoreFacts, TypeOK
<1>4. Routed(n)' /\ services'[n].lb = t.host
  BY <1>2, <1>3 DEF Routed, Loaded
<1>5. HostsKept
  BY <1>1, Zenon DEF HostsKept
<1>6. /\ loading' \in [0 .. MaxGeneration -> Dns!Ids \cup {0}]
      /\ LoadsHold'
      /\ v \in Dns!Ids
      /\ host[v] = t.host
  BY <1>1, <1>5, LoadCleared, Zenon
<1>p. UInv /\ n \in Names /\ v \in Dns!Ids \cup {0} /\ Publish(n, v)
  BY <1>1, <1>2, <1>6, Zenon
<1>7. /\ entry' \in [Names -> Dns!Ids \cup {0}]
      /\ retired' \in [Dns!Ids -> Nat]
      /\ entry'[n] = v
      /\ \A m \in Names \ {n} : entry'[m] = entry[m]
      /\ \A i \in Dns!Ids :
           /\ IsFiniteSet(Holders(entry', i))
           /\ Cardinality(Holders(entry', i)) \in Nat
           /\ Cardinality(Holders(entry', i)) + retired'[i] =
                Cardinality(Holders(entry, i)) + retired[i] + One(v, i)
  BY ONLY <1>p, PublishCounts
<1>8. HolderTypes'
  BY <1>1, <1>6, <1>7, Zenon DEF UInv, HolderTypes
<1>9. MapHosts'
  BY <1>1, Zenon DEF UInv, MapHosts
<1>10. EntriesHold'
  <2> SUFFICES ASSUME NEW m \in Names
               PROVE  IF Routed(m)'
                      THEN entry'[m] # 0 /\ host'[entry'[m]] = services'[m].lb
                      ELSE entry'[m] = 0
    BY Zenon DEF EntriesHold
  <2>1. CASE m = n
    BY <2>1, <1>1, <1>4, <1>6, <1>7, OneFacts, Zenon
  <2>2. CASE m # n
    BY <2>2, <1>3, <1>5, <1>7, EntryKept, Zenon
  <2> QED
    BY <2>1, <2>2, Zenon
<1>11. Counted'
  <2> SUFFICES ASSUME NEW i \in Dns!Ids
               PROVE  /\ IsFiniteSet(Holders(entry', i))
                      /\ IsFiniteSet(Holders(loading', i))
                      /\ IsFiniteSet(Holders(requests, i))
                      /\ refs[i] = Cardinality(Holders(entry', i))
                           + Cardinality(Holders(loading', i))
                           + Cardinality(Holders(requests, i)) + retired'[i]
    BY <1>1, Zenon DEF Counted
  <2>1. /\ IsFiniteSet(Holders(entry', i))
        /\ Cardinality(Holders(entry', i)) \in Nat
        /\ Cardinality(Holders(entry', i)) + retired'[i] =
             Cardinality(Holders(entry, i)) + retired[i] + One(v, i)
    BY ONLY <1>7, Zenon
  <2>2. /\ IsFiniteSet(Holders(loading', i))
        /\ Cardinality(Holders(loading', i)) \in Nat
        /\ Cardinality(Holders(loading', i)) =
             Cardinality(Holders(loading, i)) - One(v, i)
    BY <1>1, <1>5, LoadCleared, Zenon
  <2>3. CountsOf(i) /\ One(v, i) \in Nat /\ retired'[i] \in Nat
    BY <1>7, CountFacts, OneFacts, Zenon
  <2> HIDE DEF v
  <2> QED
    BY ONLY <2>1, <2>2, <2>3, SMTT(30) DEF CountsOf
<1> QED
  BY <1>6, <1>8, <1>9, <1>10, <1>11, Zenon DEF HoldersInv

(* A load that has lost the race or panicked drops its handle.             *)
LEMMA DroppedLoadKeeps ==
  ASSUME UInv, NEW t \in tasks,
         tasks' = tasks \ {t}, spec_generation' = spec_generation,
         services' = services,
         Dns!Release(loading[t.generation]),
         loading' = [loading EXCEPT ![t.generation] = 0],
         UNCHANGED <<entry, retired, requests>>
  PROVE  HoldersInv'
<1> DEFINE v == loading[t.generation]
<1>1. HostsKept
  BY Zenon DEF Dns!Release, HostsKept
<1>2. /\ loading' \in [0 .. MaxGeneration -> Dns!Ids \cup {0}]
      /\ LoadsHold'
      /\ v \in Dns!Ids
  BY <1>1, LoadCleared, Zenon
<1>3. MapHosts'
  BY <1>2, ReleasedHandle, Zenon
<1>4. HolderTypes'
  BY <1>2, Zenon DEF UInv, HolderTypes
<1>5. EntriesHold'
  BY <1>1, EntryKept, Zenon DEF EntriesHold
<1>6. Counted'
  <2> SUFFICES ASSUME NEW i \in Dns!Ids
               PROVE  /\ IsFiniteSet(Holders(entry, i))
                      /\ IsFiniteSet(Holders(loading', i))
                      /\ IsFiniteSet(Holders(requests, i))
                      /\ refs'[i] = Cardinality(Holders(entry, i))
                           + Cardinality(Holders(loading', i))
                           + Cardinality(Holders(requests, i)) + retired[i]
    BY Zenon DEF Counted
  <2>1. refs[i] \in Nat /\ refs'[i] = refs[i] - One(v, i)
    BY <1>2, ReleasedHandle, Zenon
  <2>2. /\ IsFiniteSet(Holders(loading', i))
        /\ Cardinality(Holders(loading', i)) \in Nat
        /\ Cardinality(Holders(loading', i)) =
             Cardinality(Holders(loading, i)) - One(v, i)
    BY <1>1, LoadCleared, Zenon
  <2>3. CountsOf(i) /\ One(v, i) \in Nat
    BY CountFacts, OneFacts, Zenon
  <2> HIDE DEF v
  <2> QED
    BY ONLY <2>1, <2>2, <2>3, SMTT(30) DEF CountsOf
<1> QED
  BY <1>2, <1>3, <1>4, <1>5, <1>6, Zenon DEF HoldersInv

(* A step that changes neither the store nor what loads hold, and keeps    *)
(* the hosts of handles, keeps what entries and loads hold.                *)
LEMMA StoreUntouched ==
  ASSUME UInv, HostsKept, UNCHANGED <<vars, entry, loading>>
  PROVE  EntriesHold' /\ LoadsHold'
<1>1. services' = services /\ tasks' = tasks /\ spec_generation' = spec_generation
  BY Zenon DEF vars
<1>2. EntriesHold'
  BY <1>1, EntryKept, Zenon DEF EntriesHold
<1>3. ASSUME NEW t \in tasks
      PROVE  /\ t.generation <= MaxGeneration
             /\ loading'[t.generation] # 0
             /\ host'[loading'[t.generation]] = t.host
  BY LoadKept, Zenon
<1>4. LoadsHold'
  BY <1>1, <1>3, Zenon DEF UInv, LoadsHold
<1> QED
  BY <1>2, <1>4, Zenon

(* The map reclaims a replaced entry and drops its handle.                 *)
LEMMA ReclaimKeeps ==
  ASSUME UInv, NEW k \in Dns!Ids, Reclaim(k)
  PROVE  HoldersInv'
<1>1. /\ retired[k] > 0
      /\ retired' = [retired EXCEPT ![k] = @ - 1]
      /\ Dns!Release(k)
      /\ UNCHANGED <<vars, entry, loading, requests>>
  BY Zenon DEF Reclaim
<1>2. HostsKept /\ MapHosts'
  BY <1>1, ReleasedHandle, Zenon
<1>3. EntriesHold' /\ LoadsHold'
  BY <1>1, <1>2, StoreUntouched, Zenon
<1>4. \A i \in Dns!Ids : retired'[i] = retired[i] - One(k, i) /\ retired'[i] \in Nat
  BY <1>1 DEF UInv, HolderTypes, One
<1>5. HolderTypes'
  BY <1>1, <1>4, Zenon DEF UInv, HolderTypes
<1>6. Counted'
  <2> SUFFICES ASSUME NEW i \in Dns!Ids
               PROVE  /\ IsFiniteSet(Holders(entry, i))
                      /\ IsFiniteSet(Holders(loading, i))
                      /\ IsFiniteSet(Holders(requests, i))
                      /\ refs'[i] = Cardinality(Holders(entry, i))
                           + Cardinality(Holders(loading, i))
                           + Cardinality(Holders(requests, i)) + retired'[i]
    BY <1>1, Zenon DEF Counted
  <2>1. refs[i] \in Nat /\ refs'[i] = refs[i] - One(k, i)
    BY <1>1, ReleasedHandle, Zenon
  <2>2. CountsOf(i) /\ One(k, i) \in Nat
    BY CountFacts, OneFacts, Zenon
  <2>3. retired'[i] = retired[i] - One(k, i)
    BY <1>4, Zenon
  <2> QED
    BY ONLY <2>1, <2>2, <2>3, SMTT(30) DEF CountsOf
<1> QED
  BY <1>2, <1>3, <1>5, <1>6, Zenon DEF HoldersInv

(* A request takes or drops a handle: the counts follow.                   *)
LEMMA RequestSlot ==
  ASSUME UInv, NEW q \in DOMAIN requests, NEW i \in Dns!Ids,
         DOMAIN requests' = DOMAIN requests,
         \A p \in DOMAIN requests : p # q => requests'[p] = requests[p],
         UNCHANGED <<entry, loading, retired>>,
         refs'[i] = refs[i] + One(requests'[q], i) - One(requests[q], i)
  PROVE  /\ IsFiniteSet(Holders(entry', i))
         /\ IsFiniteSet(Holders(loading', i))
         /\ IsFiniteSet(Holders(requests', i))
         /\ refs'[i] = Cardinality(Holders(entry', i))
              + Cardinality(Holders(loading', i))
              + Cardinality(Holders(requests', i)) + retired'[i]
<1>1. IsFiniteSet(Holders(requests, i))
  BY CountFacts, Zenon DEF CountsOf
<1>2. /\ IsFiniteSet(Holders(requests', i))
      /\ Cardinality(Holders(requests', i)) \in Nat
      /\ Cardinality(Holders(requests', i)) =
           Cardinality(Holders(requests, i))
             + One(requests'[q], i) - One(requests[q], i)
  BY <1>1, HoldersUpdate DEF UInv
<1>3. /\ CountsOf(i) /\ refs[i] \in Nat
      /\ One(requests'[q], i) \in Nat /\ One(requests[q], i) \in Nat
  BY CountFacts, OneFacts, Zenon DEF UInv, HandleFacts
<1>4. /\ entry' = entry /\ loading' = loading /\ retired' = retired
      /\ refs'[i] = refs[i] + One(requests'[q], i) - One(requests[q], i)
  BY Zenon
<1> QED
  BY ONLY <1>2, <1>3, <1>4, SMTT(30) DEF CountsOf

(* A request is routed: it holds the handle of the entry as well.          *)
LEMMA RequestRoutedKeeps ==
  ASSUME UInv, NEW q \in Requests, NEW n \in Names, RequestRouted(q, n)
  PROVE  HoldersInv'
<1> DEFINE v == entry[n]
<1>1. /\ requests[q] = 0 /\ v # 0
      /\ requests' = [requests EXCEPT ![q] = v]
      /\ refs' = [refs EXCEPT ![v] = @ + 1]
      /\ UNCHANGED <<vars, created, host, service_backends, entry, loading, retired>>
  BY Zenon DEF RequestRouted, loopVars
<1>2. v \in Dns!Ids
  BY <1>1, Zenon DEF UInv, HolderTypes
<1>3. HostsKept /\ MapHosts'
  BY <1>1, Zenon DEF HostsKept, UInv, MapHosts
<1>4. EntriesHold' /\ LoadsHold'
  BY <1>1, <1>3, StoreUntouched, Zenon
<1>5. HolderTypes'
  BY <1>1, <1>2, Zenon DEF UInv, HolderTypes
<1>6. /\ DOMAIN requests' = DOMAIN requests /\ q \in DOMAIN requests
      /\ \A p \in DOMAIN requests : p # q => requests'[p] = requests[p]
      /\ requests'[q] = v
  BY <1>1, <1>2, Zenon DEF UInv, HolderTypes
<1>7. ASSUME NEW i \in Dns!Ids
      PROVE  refs'[i] = refs[i] + One(requests'[q], i) - One(requests[q], i)
  <2>1. refs'[i] = refs[i] + One(v, i) /\ refs[i] \in Nat
    BY <1>1, <1>2 DEF UInv, HandleFacts, One
  <2>2. One(requests[q], i) = 0 /\ One(requests'[q], i) = One(v, i)
    BY <1>1, <1>6, OneFacts, Zenon
  <2>3. One(v, i) \in Nat
    BY OneFacts, Zenon
  <2> HIDE DEF v
  <2> QED
    BY <2>1, <2>2, <2>3
<1>8. Counted'
  BY <1>1, <1>6, <1>7, RequestSlot, Zenon DEF Counted
<1> QED
  BY <1>3, <1>4, <1>5, <1>8, Zenon DEF HoldersInv

(* A request ends and drops the handle it was routed by.                   *)
LEMMA RequestEndsKeeps ==
  ASSUME UInv, NEW q \in Requests, RequestEnds(q)
  PROVE  HoldersInv'
<1> DEFINE v == requests[q]
<1>1. /\ v # 0
      /\ requests' = [requests EXCEPT ![q] = 0]
      /\ Dns!Release(v)
      /\ UNCHANGED <<vars, entry, loading, retired>>
  BY Zenon DEF RequestEnds
<1>2. v \in Dns!Ids
  BY <1>1, Zenon DEF UInv, HolderTypes
<1>3. HostsKept /\ MapHosts'
  BY <1>1, <1>2, ReleasedHandle, Zenon
<1>4. EntriesHold' /\ LoadsHold'
  BY <1>1, <1>3, StoreUntouched, Zenon
<1>5. HolderTypes'
  BY <1>1, Zenon DEF UInv, HolderTypes
<1>6. /\ DOMAIN requests' = DOMAIN requests /\ q \in DOMAIN requests
      /\ \A p \in DOMAIN requests : p # q => requests'[p] = requests[p]
      /\ requests'[q] = 0
  BY <1>1, Zenon DEF UInv, HolderTypes
<1>7. ASSUME NEW i \in Dns!Ids
      PROVE  refs'[i] = refs[i] + One(requests'[q], i) - One(requests[q], i)
  <2>1. refs'[i] = refs[i] - One(v, i) /\ refs[i] \in Nat
    BY <1>1, <1>2, ReleasedHandle, Zenon
  <2>2. One(requests'[q], i) = 0 /\ One(v, i) \in Nat
    BY <1>6, OneFacts, Zenon
  <2> QED
    BY <2>1, <2>2
<1>8. Counted'
  BY <1>1, <1>6, <1>7, RequestSlot, Zenon DEF Counted
<1> QED
  BY <1>3, <1>4, <1>5, <1>8, Zenon DEF HoldersInv

(* The discovery service and its loops change no count, host or map entry, *)
(* and neither does a step that changes nothing here.                      *)
LEMMA UntouchedKeeps ==
  ASSUME UInv, UNCHANGED <<vars, holderVars, created, host, refs,
                           service_backends>>
  PROVE  HoldersInv'
<1>1. HostsKept /\ MapHosts'
  BY Zenon DEF HostsKept, UInv, MapHosts
<1>2. UNCHANGED <<entry, loading, retired, requests>>
  BY Zenon DEF holderVars
<1>3. EntriesHold' /\ LoadsHold'
  BY <1>1, <1>2, StoreUntouched, Zenon
<1>4. HolderTypes' /\ Counted'
  BY <1>2, Zenon DEF UInv, HolderTypes, Counted
<1> QED
  BY <1>1, <1>3, <1>4, Zenon DEF HoldersInv

-----------------------------------------------------------------------------
(* The steps of the composition.                                           *)

(* For the store, a step of the composition is one of its own or none.     *)
LEMMA StoreStep == [UpstreamsNext]_upstreamVars => [Next]_vars
<1> SUFFICES ASSUME [UpstreamsNext]_upstreamVars PROVE [Next]_vars
  BY Zenon
<1>1. CASE \E r \in Refs, o \in Object : ApplyChange(r, o)
  BY <1>1, Zenon DEF ApplyChange, Next
<1>2. CASE \E r \in Refs : RemoveChange(r)
  BY <1>2, Zenon DEF RemoveChange, Next
<1>3. CASE \E t \in tasks : LoadPublishes(t)
  BY <1>3, Zenon DEF LoadPublishes, Next
<1>4. CASE \E t \in tasks : LoadDies(t)
  BY <1>4, Zenon DEF LoadDies, Next
<1>5. CASE \E i \in Dns!Ids : Reclaim(i)
  BY <1>5, Zenon DEF Reclaim
<1>6. CASE \E q \in Requests, n \in Names : RequestRouted(q, n)
  BY <1>6, Zenon DEF RequestRouted
<1>7. CASE \E q \in Requests : RequestEnds(q)
  BY <1>7, Zenon DEF RequestEnds
<1>8. CASE DiscoveryStep
  BY <1>8, Zenon DEF DiscoveryStep
<1>9. CASE UNCHANGED upstreamVars
  BY <1>9, Zenon DEF upstreamVars
<1> QED
  BY <1>1, <1>2, <1>3, <1>4, <1>5, <1>6, <1>7, <1>8, <1>9, Zenon
     DEF UpstreamsNext

(* The two kinds of changes run update_service for some name.              *)
LEMMA ChangeUpdates ==
  ASSUME UInv, StoreFacts',
         \/ \E r \in Refs, o \in Object : ApplyChange(r, o)
         \/ \E r \in Refs : RemoveChange(r)
  PROVE  \E n \in Names :
           /\ StoreUpdated(n)
           /\ \/ Panicked
              \/ Unloaded(n)
              \/ \E h \in Hosts : PassedThrough(n, h) \/ Spawned(n, h)
<1>1. ASSUME NEW r \in Refs, NEW o \in Object, ApplyChange(r, o)
      PROVE  /\ o.name \in Names /\ ~crashed
             /\ UpdateService(o.name, raw_services', ref_by_grpc_service')
             /\ UpdateHandles(o.name)
  BY <1>1, Zenon DEF ApplyChange, Apply, Object
<1>2. ASSUME NEW r \in Refs, RemoveChange(r)
      PROVE  /\ raw_services[r].name \in Names /\ ~crashed
             /\ UpdateService(raw_services[r].name, raw_services',
                              ref_by_grpc_service')
             /\ UpdateHandles(raw_services[r].name)
  <2>1. raw_services[r] \in Object
    BY <1>2, Zenon DEF RemoveChange, Remove, UInv, StoreFacts, TypeOK
  <2> QED
    BY <1>2, <2>1, Zenon DEF RemoveChange, Remove, Object
<1>3. PICK n \in Names :
        /\ ~crashed
        /\ UpdateService(n, raw_services', ref_by_grpc_service')
        /\ UpdateHandles(n)
  BY <1>1, <1>2, Zenon
<1>4. StoreUpdated(n)
  BY <1>3, UpdateBranches, Zenon DEF UInv, StoreUpdated
<1>5. \/ Panicked
      \/ Unloaded(n)
      \/ \E h \in Hosts : PassedThrough(n, h) \/ Spawned(n, h)
  BY <1>3, UpdateBranches, Zenon DEF UInv
<1> QED
  BY <1>4, <1>5, Zenon

(* A clone of an entry's handle is one more use of the handle of its host, *)
(* as if it had been asked for again.                                      *)
LEMMA CloneIsReuse ==
  ASSUME UInv, NEW q \in Requests, NEW n \in Names, RequestRouted(q, n)
  PROVE  \E h \in Hosts : Dns!BackendsForHostname(h)
<1> DEFINE v == entry[n]
           h == host[v]
<1>1. /\ v # 0 /\ refs[v] < MaxRefs
      /\ refs' = [refs EXCEPT ![v] = @ + 1]
      /\ UNCHANGED <<created, host, loopVars>>
  BY Zenon DEF RequestRouted
<1>2. v \in Dns!Ids
  BY <1>1, Zenon DEF UInv, HolderTypes
<1>3. refs[v] > 0
  BY <1>2, HeldIsCounted, Zenon
<1>4. Dns!Alive(v) /\ Dns!Reusable(v)
  BY <1>1, <1>3, Zenon DEF Dns!Alive, Dns!Reusable
<1>5. service_backends[h] = v /\ h \in Hosts
  <2>1. v \in Nat /\ created \in Nat /\ (v > created => refs[v] = 0)
    BY <1>2 DEF UInv, HandleFacts, Dns!Ids
  <2>2. v <= created
    BY <1>3, <2>1
  <2> QED
    BY <1>2, <1>4, <2>2, Zenon DEF UInv, HandleFacts
<1>6. Dns!Reuse(h)
  BY <1>1, <1>4, <1>5, Zenon DEF Dns!Reuse, loopVars
<1>7. Dns!BackendsForHostname(h)
  BY <1>1, <1>6, Zenon DEF Dns!BackendsForHostname, loopVars, Dns!watchVars,
                    Dns!lbVars, Dns!dnsVars
<1> QED
  BY <1>5, <1>7, Zenon

(* For the discovery service, a step of the composition is one of its own  *)
(* or none.                                                                *)
LEMMA DiscoveryNext ==
  ASSUME UInv, StoreFacts', [UpstreamsNext]_upstreamVars
  PROVE  [Dns!Next]_(Dns!vars)
<1>u. ASSUME UNCHANGED dnsVars
      PROVE  UNCHANGED Dns!vars
  BY <1>u, Zenon DEF dnsVars, loopVars, Dns!vars, Dns!userVars, Dns!watchVars,
              Dns!lbVars, Dns!dnsVars
<1>r. ASSUME NEW i \in Dns!Ids, Dns!Release(i)
      PROVE  Dns!Next
  BY <1>r, Zenon DEF Dns!Next
<1>l. ASSUME NEW t \in tasks
      PROVE  loading[t.generation] \in Dns!Ids
  <2>1. t.generation \in 0 .. MaxGeneration
    BY RunningGeneration, Zenon
  <2> QED
    BY <2>1, Zenon DEF UInv, LoadsHold, HolderTypes
<1>1. CASE \/ \E r \in Refs, o \in Object : ApplyChange(r, o)
           \/ \E r \in Refs : RemoveChange(r)
  <2>1. PICK n \in Names :
          \/ Panicked
          \/ Unloaded(n)
          \/ \E h \in Hosts : PassedThrough(n, h) \/ Spawned(n, h)
    BY <1>1, ChangeUpdates, Zenon
  <2>2. CASE Panicked \/ Unloaded(n)
    BY <1>u, <2>2, Zenon DEF Panicked, Unloaded, UnloadEntry
  <2>3. CASE \E h \in Hosts : PassedThrough(n, h) \/ Spawned(n, h)
    BY <2>3, Zenon DEF PassedThrough, Spawned, TakeHandle, Dns!Next
  <2> QED
    BY <2>1, <2>2, <2>3, Zenon
<1>2. CASE \E t \in tasks : LoadPublishes(t)
  BY <1>2, <1>u, <1>r, <1>l, Zenon DEF LoadPublishes, WinsRace, LosesRace
<1>3. CASE \E t \in tasks : LoadDies(t)
  BY <1>3, <1>r, <1>l, Zenon DEF LoadDies
<1>4. CASE \E i \in Dns!Ids : Reclaim(i)
  BY <1>4, <1>r, Zenon DEF Reclaim
<1>5. CASE \E q \in Requests, n \in Names : RequestRouted(q, n)
  BY <1>5, CloneIsReuse, Zenon DEF Dns!Next
<1>6. CASE \E q \in Requests : RequestEnds(q)
  BY <1>6, <1>r, Zenon DEF RequestEnds, UInv, HolderTypes
<1>7. CASE DiscoveryStep
  BY <1>7, Zenon DEF DiscoveryStep, Discover, Dns!Next
<1>8. CASE UNCHANGED upstreamVars
  BY <1>8, <1>u, Zenon DEF upstreamVars
<1> QED
  BY <1>1, <1>2, <1>3, <1>4, <1>5, <1>6, <1>7, <1>8, Zenon DEF UpstreamsNext

(* One step per action: the strengthening is kept.                         *)
LEMMA HoldersNext ==
  ASSUME UInv, StoreFacts', [UpstreamsNext]_upstreamVars
  PROVE  HoldersInv'
<1>1. CASE \/ \E r \in Refs, o \in Object : ApplyChange(r, o)
           \/ \E r \in Refs : RemoveChange(r)
  <2>1. PICK n \in Names :
          /\ StoreUpdated(n)
          /\ \/ Panicked
             \/ Unloaded(n)
             \/ \E h \in Hosts : PassedThrough(n, h) \/ Spawned(n, h)
    BY <1>1, ChangeUpdates, Zenon
  <2>2. CASE Panicked
    <3>1. UNCHANGED <<services, tasks, created, host, refs, service_backends,
                      entry, loading, retired, requests>>
      BY <2>2, Zenon DEF Panicked, dnsVars, loopVars, holderVars
    <3>2. HolderTypes' /\ MapHosts' /\ Counted'
      BY <3>1, Zenon DEF UInv, HolderTypes, MapHosts, Counted
    <3>3. EntriesHold'
      BY <3>1, Zenon DEF UInv, EntriesHold, Routed
    <3>4. LoadsHold'
      BY <3>1, Zenon DEF UInv, LoadsHold
    <3> QED
      BY <3>2, <3>3, <3>4, Zenon DEF HoldersInv
  <2>3. CASE Unloaded(n)
    BY <2>1, <2>3, UnloadedKeeps, Zenon
  <2>4. CASE \E h \in Hosts : PassedThrough(n, h)
    BY <2>1, <2>4, PassedKeeps, Zenon
  <2>5. CASE \E h \in Hosts : Spawned(n, h)
    BY <2>1, <2>5, SpawnedKeeps, Zenon
  <2> QED
    BY <2>1, <2>2, <2>3, <2>4, <2>5, Zenon
<1>2. CASE \E t \in tasks : LoadPublishes(t)
  <2>1. PICK t \in tasks : LoadPublishes(t)
    BY <1>2, Zenon
  <2>2. CASE WinsRace(t)
    BY <2>1, <2>2, WinsRaceKeeps, Zenon
  <2>3. CASE LosesRace(t)
    <3>1. /\ tasks' = tasks \ {t} /\ spec_generation' = spec_generation
          /\ services' = services
          /\ Dns!Release(loading[t.generation])
          /\ loading' = [loading EXCEPT ![t.generation] = 0]
          /\ UNCHANGED <<entry, retired, requests>>
      BY <2>1, <2>3, Zenon DEF LoadPublishes, LosesRace, LoadDone
    <3> QED
      BY <3>1, DroppedLoadKeeps, Zenon
  <2> QED
    BY <2>1, <2>2, <2>3, Zenon DEF LoadPublishes
<1>3. CASE \E t \in tasks : LoadDies(t)
  <2>1. PICK t \in tasks : LoadDies(t)
    BY <1>3, Zenon
  <2>2. /\ tasks' = tasks \ {t} /\ spec_generation' = spec_generation
        /\ services' = services
        /\ Dns!Release(loading[t.generation])
        /\ loading' = [loading EXCEPT ![t.generation] = 0]
        /\ UNCHANGED <<entry, retired, requests>>
    BY <2>1, Zenon DEF LoadDies, LoadPanic
  <2> QED
    BY <2>2, DroppedLoadKeeps, Zenon
<1>4. CASE \E i \in Dns!Ids : Reclaim(i)
  BY <1>4, ReclaimKeeps, Zenon
<1>5. CASE \E q \in Requests, n \in Names : RequestRouted(q, n)
  BY <1>5, RequestRoutedKeeps, Zenon
<1>6. CASE \E q \in Requests : RequestEnds(q)
  BY <1>6, RequestEndsKeeps, Zenon
<1>7. CASE DiscoveryStep
  <2>1. UNCHANGED <<vars, holderVars, created, host, refs, service_backends>>
    BY <1>7, Zenon
    DEF DiscoveryStep, Discover, Dns!StartDiscoveryLoop, Dns!LoopStep,
        Dns!LookupSucceeds, Dns!FetchWeak, Dns!LookupFails, Dns!Upgrade,
        Dns!Discover, Dns!RoundRobinStore, Dns!ConsistentStore, Dns!StopLoop,
        Dns!SignalReady, Dns!Wake, Dns!userVars
  <2> QED
    BY <2>1, UntouchedKeeps, Zenon
<1>8. CASE UNCHANGED upstreamVars
  <2>1. UNCHANGED <<vars, holderVars, created, host, refs, service_backends>>
    BY <1>8, Zenon DEF upstreamVars, dnsVars, loopVars
  <2> QED
    BY <2>1, UntouchedKeeps, Zenon
<1> QED
  BY <1>1, <1>2, <1>3, <1>4, <1>5, <1>6, <1>7, <1>8, Zenon DEF UpstreamsNext

(* Nobody holds a handle initially.                                        *)
LEMMA HoldersInit == Counting /\ UpstreamsInit => HoldersInv
<1> SUFFICES ASSUME Counting, UpstreamsInit PROVE HoldersInv
  BY Zenon
<1>1. Init /\ Dns!Init
  BY Zenon DEF UpstreamsInit
<1>4. /\ entry = [n \in Names |-> 0]
      /\ loading = [g \in 0 .. MaxGeneration |-> 0]
      /\ retired = [i \in Dns!Ids |-> 0]
      /\ requests = [q \in Requests |-> 0]
  BY Zenon DEF UpstreamsInit
<1>5. HolderTypes
  BY <1>4, Zenon DEF HolderTypes
<1>6. MapHosts
  BY <1>1, Zenon DEF Dns!Init, MapHosts
<1>7. EntriesHold /\ LoadsHold
  BY <1>1, <1>4, Zenon DEF Init, EntriesHold, LoadsHold, Routed
<1>8. Counted
  <2> SUFFICES ASSUME NEW i \in Dns!Ids
               PROVE  /\ IsFiniteSet(Holders(entry, i))
                      /\ IsFiniteSet(Holders(loading, i))
                      /\ IsFiniteSet(Holders(requests, i))
                      /\ refs[i] = Cardinality(Holders(entry, i))
                           + Cardinality(Holders(loading, i))
                           + Cardinality(Holders(requests, i)) + retired[i]
    BY Zenon DEF Counted
  <2>1. i # 0 /\ refs[i] = 0 /\ retired[i] = 0
    BY <1>1, <1>4, OneFacts, Zenon DEF Dns!Init
  <2>2. Holders(entry, i) = {} /\ Holders(loading, i) = {}
    BY <1>4, <2>1, Zenon DEF Holders
  <2>3. Holders(requests, i) = {}
    BY <1>4, <2>1, Zenon DEF Holders
  <2>4. IsFiniteSet({}) /\ Cardinality({}) = 0
    BY Zenon DEF Counting
  <2> QED
    BY <2>1, <2>2, <2>3, <2>4
<1> QED
  BY <1>5, <1>6, <1>7, <1>8, Zenon DEF HoldersInv

-----------------------------------------------------------------------------
(* What the invariant implies.                                             *)

(* What a routed service's entry holds.                                    *)
LEMMA RoutedFacts ==
  ASSUME UInv, NEW n \in Names, Routed(n)
  PROVE  /\ entry[n] \in Dns!Ids /\ entry[n] # 0
         /\ refs[entry[n]] > 0
         /\ host[entry[n]] = services[n].lb
         /\ service_backends[services[n].lb] = entry[n]
         /\ services[n].lb \in Hosts
<1>1. /\ entry[n] \in Dns!Ids /\ entry[n] # 0
      /\ host[entry[n]] = services[n].lb
  BY Zenon DEF UInv, EntriesHold, HolderTypes
<1>2. refs[entry[n]] > 0
  BY <1>1, HeldIsCounted, Zenon
<1>3. Dns!Alive(entry[n])
  BY <1>2, Zenon DEF Dns!Alive
<1>4. service_backends[host[entry[n]]] = entry[n]
  BY <1>1, <1>3, Zenon DEF UInv, HandleFacts
<1>5. services[n].lb \in Hosts
  BY Zenon DEF UInv, StoreFacts, TypeOK, ServiceData, Routed
<1> QED
  BY <1>1, <1>2, <1>4, <1>5, Zenon

(* What a request in flight holds.                                         *)
LEMMA RequestFacts ==
  ASSUME UInv, NEW q \in Requests, requests[q] # 0
  PROVE  /\ requests[q] \in Dns!Ids
         /\ refs[requests[q]] > 0
         /\ service_backends[host[requests[q]]] = requests[q]
<1>1. requests[q] \in Dns!Ids
  BY Zenon DEF UInv, HolderTypes
<1>2. refs[requests[q]] > 0
  BY <1>1, HeldIsCounted, Zenon
<1>3. service_backends[host[requests[q]]] = requests[q]
  BY <1>1, <1>2, Zenon DEF UInv, HandleFacts, Dns!Alive
<1> QED
  BY <1>1, <1>2, <1>3, Zenon

(* No step of the discovery service gives the host of a handle in use      *)
(* another handle.                                                         *)
LEMMA UsedStaysInMap ==
  ASSUME UInv, [Dns!Next]_(Dns!vars), NEW i \in Dns!Ids, refs[i] > 0
  PROVE  service_backends'[host[i]] = i
<1>1. service_backends[host[i]] = i /\ i # 0 /\ Dns!Alive(i)
  BY OneFacts, Zenon DEF UInv, HandleFacts, Dns!Alive
<1>2. CASE \E h \in Hosts : Dns!BackendsForHostname(h)
  <2>1. PICK h \in Hosts : Dns!BackendsForHostname(h)
    BY <1>2, Zenon
  <2>2. CASE Dns!Reuse(h)
    BY <1>1, <2>2, Zenon DEF Dns!Reuse
  <2>3. CASE Dns!Create(h)
    <3>1. h # host[i]
      BY <1>1, <2>3, Zenon DEF Dns!Create, Dns!Reusable
    <3>2. service_backends' = [service_backends EXCEPT ![h] = created + 1]
      BY <2>3, Zenon DEF Dns!Create
    <3>3. host[i] \in Hosts
      <4>1. i \in Nat /\ created \in Nat /\ (i > created => refs[i] = 0)
        BY DEF UInv, HandleFacts, Dns!Ids
      <4>2. i <= created
        BY <4>1
      <4> QED
        BY <4>2, Zenon DEF UInv, HandleFacts
    <3>4. DOMAIN service_backends = Hosts
      BY Zenon DEF UInv, HandleFacts
    <3> QED
      BY <1>1, <3>1, <3>2, <3>3, <3>4, Zenon
  <2> QED
    BY <2>1, <2>2, <2>3, Zenon DEF Dns!BackendsForHostname
<1>3. ASSUME service_backends' = service_backends
      PROVE  service_backends'[host[i]] = i
  BY <1>1, <1>3, Zenon
<1>4. CASE \E k \in Dns!Ids : Dns!Release(k)
  BY <1>3, <1>4, Zenon DEF Dns!Release
<1>5. CASE \/ Dns!StartDiscoveryLoop
           \/ \E l \in Dns!Ids : Dns!LoopStep(l) \/ Dns!LookupSucceeds(l)
  BY <1>3, <1>5, Zenon
  DEF Dns!StartDiscoveryLoop, Dns!LoopStep, Dns!LookupSucceeds, Dns!FetchWeak,
      Dns!LookupFails, Dns!Upgrade, Dns!Discover, Dns!RoundRobinStore,
      Dns!ConsistentStore, Dns!StopLoop, Dns!SignalReady, Dns!Wake,
      Dns!userVars
<1>6. CASE \E h \in Hosts : Dns!DnsChange(h)
  BY <1>3, <1>6, Zenon DEF Dns!DnsChange, Dns!userVars
<1>7. CASE UNCHANGED Dns!vars
  BY <1>3, <1>7, Zenon DEF Dns!vars, Dns!userVars
<1> QED
  BY <1>2, <1>4, <1>5, <1>6, <1>7, Zenon DEF Dns!Next

(* A handle whose host nobody uses is held by nobody.                      *)
LEMMA UnusedNotHeld ==
  ASSUME UInv, NEW i \in Dns!Ids, ~Uses(host[i])
  PROVE  ~(refs[i] > 0)
<1>1. i # 0
  BY OneFacts, Zenon
<1>2. Holders(entry, i) = {}
  <2>1. \A n \in Names : entry[n] # i
    BY <1>1, Zenon DEF UInv, EntriesHold, Uses
  <2> QED
    BY <2>1, Zenon DEF UInv, HolderTypes, Holders
<1>3. Holders(loading, i) = {}
  <2>1. ASSUME NEW g \in 0 .. MaxGeneration, loading[g] = i
        PROVE  FALSE
    <3>1. PICK t \in tasks : t.generation = g
      BY <1>1, <2>1, Zenon DEF UInv, LoadsHold
    <3>2. t.host = host[i]
      BY <2>1, <3>1, Zenon DEF UInv, LoadsHold
    <3> QED
      BY <3>2, Zenon DEF Uses
  <2> QED
    BY <2>1, Zenon DEF UInv, HolderTypes, Holders
<1>4. Holders(requests, i) = {}
  <2>1. \A q \in Requests : requests[q] # i
    BY <1>1, Zenon DEF Uses
  <2> QED
    BY <2>1, Zenon DEF UInv, HolderTypes, Holders
<1>5. retired[i] = 0
  BY DEF UInv, HolderTypes, Uses
<1>6. Cardinality({}) = 0
  BY Zenon DEF UInv, Counting
<1>7. CountsOf(i)
  BY CountFacts, Zenon
<1>8. refs[i] = 0
  BY ONLY <1>2, <1>3, <1>4, <1>5, <1>6, <1>7, SMTT(30) DEF CountsOf
<1> QED
  BY <1>8

-----------------------------------------------------------------------------
(* The induction, with the discovery service's own invariant.              *)

INSTANCE FiniteSetTheorems

(* The facts about finite sets hold.                                       *)
LEMMA CountingHolds == Counting
<1> SUFFICES ASSUME NEW S, IsFiniteSet(S)
             PROVE  /\ Cardinality(S) \in Nat
                    /\ S # {} => Cardinality(S) # 0
                    /\ \A x :
                         /\ IsFiniteSet(S \cup {x})
                         /\ Cardinality(S \cup {x}) =
                              IF x \in S THEN Cardinality(S)
                              ELSE Cardinality(S) + 1
                         /\ IsFiniteSet(S \ {x})
                         /\ Cardinality(S \ {x}) =
                              IF x \in S THEN Cardinality(S) - 1
                              ELSE Cardinality(S)
  BY FS_EmptySet, ZenonT(30) DEF Counting
<1>1. Cardinality(S) \in Nat /\ (S # {} => Cardinality(S) # 0)
  BY FS_CardinalityType, FS_EmptySet, ZenonT(30)
<1>2. ASSUME NEW x
      PROVE  /\ IsFiniteSet(S \cup {x})
             /\ Cardinality(S \cup {x}) =
                  IF x \in S THEN Cardinality(S) ELSE Cardinality(S) + 1
  BY FS_AddElement, ZenonT(30)
<1>3. ASSUME NEW x
      PROVE  /\ IsFiniteSet(S \ {x})
             /\ Cardinality(S \ {x}) =
                  IF x \in S THEN Cardinality(S) - 1 ELSE Cardinality(S)
  BY FS_RemoveElement, ZenonT(30)
<1> QED
  BY <1>1, <1>2, <1>3, ZenonT(30)

SP == INSTANCE ServiceStoreProofs

(* The assumptions of the store proofs hold of these constants.            *)
LEMMA StoreAssumptions ==
  /\ SP!RefsAssumption
  /\ SP!NilAssumption
  /\ SP!PassthroughAssumption
  /\ SP!BoundAssumption
BY RefsAssumption, NilAssumption, PassthroughAssumption, BoundAssumption,
   ZenonT(30)
   DEF SP!RefsAssumption, SP!NilAssumption, SP!PassthroughAssumption,
       SP!BoundAssumption, Object, SP!Object, ServiceData, SP!ServiceData

(* The store of the composition is the one the proofs are about.           *)
LEMMA SameStore ==
  (Init => SP!Init) /\ ([Next]_vars => [SP!Next]_(SP!vars))
BY ZenonT(30) DEF Init, SP!Init, vars, SP!vars, Next, SP!Next, Apply, SP!Apply,
     Remove, SP!Remove, RemoveUnknown, SP!RemoveUnknown, LoadDone,
     SP!LoadDone, LoadPanic, SP!LoadPanic, RawWithout, SP!RawWithout,
     IndexWithout, SP!IndexWithout, UpdateService, SP!UpdateService, Unload,
     SP!Unload, PanicOnName, SP!PanicOnName, LoadPassthrough,
     SP!LoadPassthrough, SpawnLoad, SP!SpawnLoad, Selected, SP!Selected,
     MinRef, SP!MinRef, Newer, SP!Newer, UpdateServiceIfNewer,
     SP!UpdateServiceIfNewer, Tombstone, SP!Tombstone, Loaded, SP!Loaded,
     Object, SP!Object

(* The store keeps what the composition uses.                              *)
LEMMA StoreKeepsFacts == SP!Inv => StoreFacts
BY ZenonT(30) DEF StoreFacts, SP!Inv, SP!Bounds, SP!Pending, TypeOK, SP!TypeOK,
       IndexConsistent, SP!IndexConsistent, Object, SP!Object, ServiceData,
       SP!ServiceData, Task, SP!Task

DP == INSTANCE DnsDiscoveryProofs WITH MaxDnsChanges <- 0

(* The assumption of the discovery proofs holds of these constants.        *)
LEMMA DiscoveryAssumption == DP!DnsBounds
BY UpstreamBounds, ZenonT(30) DEF DP!DnsBounds

(* The discovery service of the composition is the one the proofs are      *)
(* about.                                                                  *)
LEMMA SameDiscovery ==
  (Dns!Init => DP!Init) /\ ([Dns!Next]_(Dns!vars) => [DP!Next]_(DP!vars))
BY ZenonT(30)
DEF Dns!Init, DP!Init, Dns!vars, DP!vars, Dns!userVars, DP!userVars,
     Dns!watchVars, DP!watchVars, Dns!lbVars, DP!lbVars, Dns!dnsVars,
     DP!dnsVars, Dns!Next, DP!Next, Dns!BackendsForHostname,
     DP!BackendsForHostname, Dns!Reuse, DP!Reuse, Dns!Create, DP!Create,
     Dns!Reusable, DP!Reusable, Dns!Alive, DP!Alive, Dns!Holding,
     DP!Holding, Dns!Ids, DP!Ids, Dns!Release, DP!Release,
     Dns!StartDiscoveryLoop, DP!StartDiscoveryLoop, Dns!LoopStep,
     DP!LoopStep, Dns!LookupSucceeds, DP!LookupSucceeds, Dns!FetchWeak,
     DP!FetchWeak, Dns!LookupFails, DP!LookupFails, Dns!Upgrade, DP!Upgrade,
     Dns!Discover, DP!Discover, Dns!RoundRobinStore, DP!RoundRobinStore,
     Dns!ConsistentStore, DP!ConsistentStore, Dns!StopLoop, DP!StopLoop,
     Dns!SignalReady, DP!SignalReady, Dns!Wake, DP!Wake, Dns!Goto, DP!Goto,
     Dns!StrongCount, DP!StrongCount, Dns!DnsChange, DP!DnsChange

(* The discovery service keeps what the composition uses.                  *)
LEMMA DiscoveryKeepsFacts == DP!Inv => HandleFacts
<1> SUFFICES ASSUME DP!Inv PROVE HandleFacts
  BY ZenonT(30)
<1>1. Dns!Ids = DP!Ids /\ \A i : Dns!Alive(i) <=> DP!Alive(i)
  BY ZenonT(30)
  DEF Dns!Ids, DP!Ids, Dns!Alive, DP!Alive, Dns!Holding, DP!Holding
<1>2. DP!TypeOK /\ DP!Unused /\ DP!Grounded /\ DP!LiveHandleMaintained
  BY ZenonT(30) DEF DP!Inv
<1> QED
  BY <1>1, <1>2, ZenonT(30) DEF HandleFacts, DP!TypeOK, DP!Unused, DP!Grounded,
                      DP!LiveHandleMaintained

(* The invariant of the composition.                                       *)
JointInv == UInv /\ SP!Inv /\ DP!Inv

(* It is inductive: it holds initially ...                                 *)
LEMMA UpstreamsInitInv == UpstreamsInit => JointInv
<1> SUFFICES ASSUME UpstreamsInit PROVE JointInv
  BY ZenonT(30)
<1>1. Init /\ Dns!Init
  BY ZenonT(30) DEF UpstreamsInit
<1>2. SP!Inv
  BY <1>1, SameStore, StoreAssumptions, SP!InitInv, ZenonT(30)
<1>3. DP!Inv
  BY <1>1, SameDiscovery, DiscoveryAssumption, DP!InitInv, ZenonT(30)
<1>4. StoreFacts /\ HandleFacts
  BY <1>2, <1>3, StoreKeepsFacts, DiscoveryKeepsFacts, ZenonT(30)
<1> QED
  BY <1>2, <1>3, <1>4, CountingHolds, HoldersInit, ZenonT(30)
  DEF JointInv, UInv, HoldersInv

(* ... and every step keeps it.                                            *)
LEMMA UpstreamsNextInv == JointInv /\ [UpstreamsNext]_upstreamVars => JointInv'
<1>f. (SP!Inv' => StoreFacts') /\ (DP!Inv' => HandleFacts')
  BY StoreKeepsFacts, DiscoveryKeepsFacts, PTL
<1> SUFFICES ASSUME JointInv, [UpstreamsNext]_upstreamVars PROVE JointInv'
  BY ZenonT(30)
<1>1. SP!Inv' /\ StoreFacts'
  BY <1>f, StoreStep, SameStore, StoreAssumptions, SP!NextInv, ZenonT(30)
  DEF JointInv
<1>2. [Dns!Next]_(Dns!vars)
  BY <1>1, DiscoveryNext, ZenonT(30) DEF JointInv
<1>3. DP!Inv'
  BY <1>2, SameDiscovery, DiscoveryAssumption, DP!NextInv, ZenonT(30)
  DEF JointInv
<1>4. HoldersInv'
  BY <1>1, HoldersNext, ZenonT(30) DEF JointInv
<1> QED
  BY <1>1, <1>3, <1>4, <1>f, CountingHolds, ZenonT(30)
  DEF JointInv, UInv, HoldersInv

(* The strengthening is an invariant of the composition.                   *)
LEMMA UpstreamsSpecInv == UpstreamsSpec => []UInv
<1>1. JointInv => UInv
  BY ZenonT(30) DEF JointInv
<1> QED
  BY <1>1, UpstreamsInitInv, UpstreamsNextInv, PTL DEF UpstreamsSpec

-----------------------------------------------------------------------------
(* The theorems.                                                           *)

(* Handing handles around changes nothing for the service store: every     *)
(* behaviour of the composition is one of ServiceStore, so what is proved  *)
(* of that holds here.                                                     *)
THEOREM ImplementsStore == UpstreamsSpec => Spec
<1>1. UpstreamsInit => Init
  BY ZenonT(30) DEF UpstreamsInit
<1> QED
  BY <1>1, StoreStep, PTL DEF UpstreamsSpec, Spec

(* Entries, loads, requests and entries that wait for reclamation use the  *)
(* discovery service as DnsDiscovery models it, so what is proved of that  *)
(* holds of the handles here.                                              *)
THEOREM ImplementsDiscoveryUse == UpstreamsSpec => UsesDiscovery
<1>1. UpstreamsInit => Dns!Init
  BY ZenonT(30) DEF UpstreamsInit
<1>2. UInv /\ UInv' /\ [UpstreamsNext]_upstreamVars => [Dns!Next]_(Dns!vars)
  BY DiscoveryNext, ZenonT(30) DEF UInv
<1> QED
  BY <1>1, <1>2, UpstreamsSpecInv, PTL DEF UpstreamsSpec, UsesDiscovery, Dns!Spec

(* Every service requests are routed to holds the live handle the          *)
(* discovery service maintains for its upstream.                           *)
THEOREM RoutedAlwaysMaintained == UpstreamsSpec => []RoutedIsMaintained
<1>1. UInv => RoutedIsMaintained
  BY RoutedFacts, ZenonT(30) DEF RoutedIsMaintained
<1> QED
  BY <1>1, UpstreamsSpecInv, PTL

(* A reload that keeps the host keeps the handle and what was discovered   *)
(* for it: the old entry's handle is in use until the new one is           *)
(* published.                                                              *)
THEOREM ReloadsKeepHandles == UpstreamsSpec => ReloadKeepsHandle
<1> DEFINE Kept == \A n \in Names :
             Routed(n) /\ Routed(n)' /\ services'[n].lb = services[n].lb =>
               entry'[n] = entry[n]
<1>i. UInv => RoutedIsMaintained
  BY RoutedFacts, ZenonT(30) DEF RoutedIsMaintained
<1>m. UInv' => RoutedIsMaintained'
  BY <1>i, PTL
<1>1. ASSUME UInv, UInv', [UpstreamsNext]_upstreamVars
      PROVE  Kept
  <2> SUFFICES ASSUME NEW n \in Names, Routed(n), Routed(n)',
                      services'[n].lb = services[n].lb
               PROVE  entry'[n] = entry[n]
    BY ZenonT(30)
  <2>1. /\ entry[n] \in Dns!Ids /\ refs[entry[n]] > 0
        /\ host[entry[n]] = services[n].lb
    BY <1>1, RoutedFacts, ZenonT(30)
  <2>2. [Dns!Next]_(Dns!vars)
    BY <1>1, DiscoveryNext, ZenonT(30) DEF UInv
  <2>3. service_backends'[services[n].lb] = entry[n]
    BY <1>1, <2>1, <2>2, UsedStaysInMap, ZenonT(30)
  <2>4. service_backends'[services'[n].lb] = entry'[n]
    BY <1>1, <1>m, ZenonT(30) DEF RoutedIsMaintained
  <2> QED
    BY <2>3, <2>4, ZenonT(30)
<1>2. UInv /\ UInv' /\ [UpstreamsNext]_upstreamVars => [Kept]_upstreamVars
  BY <1>1, ZenonT(30)
<1> QED
  BY <1>2, UpstreamsSpecInv, PTL DEF UpstreamsSpec, ReloadKeepsHandle

(* Nothing keeps a handle, and with it the discovery loops of its host,    *)
(* that no service, load, request or unreclaimed entry uses.               *)
THEOREM NoArcOutlivesUse == UpstreamsSpec => []HeldIsUsed
<1>1. UInv => HeldIsUsed
  BY UnusedNotHeld, ZenonT(30) DEF HeldIsUsed
<1> QED
  BY <1>1, UpstreamsSpecInv, PTL

(* What is proved of the discovery service holds of every handle: a ready  *)
(* one that is held has backends.                                          *)
LEMMA ReadyHandlesHaveBackends == UpstreamsSpec => []DP!SoleReadyHasBackends
<1>1. UpstreamsSpec => DP!Spec
  BY ImplementsDiscoveryUse, SameDiscovery, PTL
  DEF UsesDiscovery, Dns!Spec, DP!Spec
<1> QED
  BY <1>1, DiscoveryAssumption, DP!SoleReadyAlwaysHasBackends, PTL

(* A service that requests are routed to has backends once it is ready.    *)
THEOREM ReadyRoutesHaveBackends == UpstreamsSpec => []RoutedReadyHasBackends
<1>1. UInv /\ DP!SoleReadyHasBackends => RoutedReadyHasBackends
  <2> SUFFICES ASSUME UInv, DP!SoleReadyHasBackends, NEW n \in Names,
                      Routed(n), Dns!Sole(entry[n]), ready[entry[n]]
               PROVE  rr[entry[n]] # {} /\ cons[entry[n]] # {}
    BY ZenonT(30) DEF RoutedReadyHasBackends
  <2>1. entry[n] \in DP!Ids /\ refs[entry[n]] > 0
    BY RoutedFacts, ZenonT(30) DEF Dns!Ids, DP!Ids
  <2>2. DP!Sole(entry[n])
    BY ZenonT(30) DEF Dns!Sole, DP!Sole, Dns!Ids, DP!Ids
  <2> QED
    BY <2>1, <2>2, ZenonT(30) DEF DP!SoleReadyHasBackends
<1> QED
  BY <1>1, ReadyHandlesHaveBackends, UpstreamsSpecInv, PTL

(* A request keeps the live handle of the upstream it was routed to, with  *)
(* backends once it has been ready, whatever becomes of its service        *)
(* meanwhile.                                                              *)
THEOREM RequestsKeepUpstreams == UpstreamsSpec => []RequestKeepsUpstream
<1>1. UInv /\ DP!SoleReadyHasBackends => RequestKeepsUpstream
  <2> SUFFICES ASSUME UInv, DP!SoleReadyHasBackends, NEW q \in Requests,
                      requests[q] # 0
               PROVE  LET i == requests[q]
                      IN  /\ refs[i] > 0
                          /\ service_backends[host[i]] = i
                          /\ Dns!Sole(i) /\ ready[i] =>
                               rr[i] # {} /\ cons[i] # {}
    BY ZenonT(30) DEF RequestKeepsUpstream
  <2>1. /\ requests[q] \in DP!Ids /\ refs[requests[q]] > 0
        /\ service_backends[host[requests[q]]] = requests[q]
    BY RequestFacts, ZenonT(30) DEF Dns!Ids, DP!Ids
  <2>2. Dns!Sole(requests[q]) => DP!Sole(requests[q])
    BY ZenonT(30) DEF Dns!Sole, DP!Sole, Dns!Ids, DP!Ids
  <2> QED
    BY <2>1, <2>2, ZenonT(30) DEF DP!SoleReadyHasBackends
<1> QED
  BY <1>1, ReadyHandlesHaveBackends, UpstreamsSpecInv, PTL

=============================================================================
