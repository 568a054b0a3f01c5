----------------------------- MODULE Upstreams -----------------------------
(***************************************************************************)
(* The service store and the DNS discovery service together: who holds the *)
(* Arc of an upstream's ServiceBackendsHandle, and for how long            *)
(* (grcache-proxy/src/service_store.rs, discovery/dns.rs, proxy/mod.rs).   *)
(*                                                                         *)
(* update_service takes a handle for the object it loads.  The handle goes *)
(* into the spawned load and from there into the entry of the services     *)
(* map.  A replaced entry is reclaimed by the map some time later, and     *)
(* requests in flight hold a clone of the entry they were routed by.       *)
(***************************************************************************)
EXTENDS ServiceStore, Sequences

CONSTANTS Addrs, MaxHandles, MaxRefs,
          Requests   \* requests in flight

VARIABLES created, host, refs, service_backends, commands, pc, handle_weak,
          got, backends, ready, rr, cons, dns, dnsChanges,
          entry,      \* name -> handle of its map entry, 0 without one
          loading,    \* generation -> handle its spawned load holds
          retired,    \* handle -> replaced entries not reclaimed yet
          requests    \* request -> handle in its RequestCtx

(* The DNS records do not change here.                                     *)
Dns == INSTANCE DnsDiscovery WITH MaxDnsChanges <- 0

ASSUME UpstreamBounds == MaxHandles \in Nat /\ MaxRefs \in Nat

loopVars == <<service_backends, commands, pc, handle_weak, got, backends,
              ready, rr, cons, dns, dnsChanges>>
dnsVars == <<created, host, refs, loopVars>>
holderVars == <<entry, loading, retired, requests>>
upstreamVars == <<vars, dnsVars, holderVars>>

UpstreamsInit ==
  /\ Init
  /\ Dns!Init
  /\ entry = [n \in Names |-> 0]
  /\ loading = [g \in 0 .. MaxGeneration |-> 0]
  /\ retired = [i \in Dns!Ids |-> 0]
  /\ requests = [q \in Requests |-> 0]

(* The map entry of n is replaced by one with handle i.                    *)
Publish(n, i) ==
  /\ entry' = [entry EXCEPT ![n] = i]
  /\ retired' = [j \in Dns!Ids |->
                   IF j = entry[n] THEN retired[j] + 1 ELSE retired[j]]

(* Mutant: service_backends is not asked when n's entry is the only holder *)
(* of its handle, and a second handle is made beside the live one.         *)
MutTakeHandle(n, h) ==
  IF entry[n] # 0 /\ refs[entry[n]] = 1 /\ created < MaxHandles
  THEN /\ created' = created + 1
       /\ host' = [host EXCEPT ![created'] = h]
       /\ refs' = [refs EXCEPT ![created'] = 1]
       /\ service_backends' = [service_backends EXCEPT ![h] = created']
       /\ commands' = Append(commands, created')
       /\ UNCHANGED <<pc, handle_weak, got, backends, ready, rr, cons, dns,
                      dnsChanges>>
  ELSE Dns!BackendsForHostname(h)

(* dns_service_handle.backends_for_hostname, called while n's old entry is *)
(* still in the map.                                                       *)
TakeHandle(n, h) == Dns!BackendsForHostname(h)

(* What update_service does with handles in each of its branches.          *)
UnloadEntry(n) ==
  /\ services'[n] # services[n]
  /\ services'[n].lb = Nil
  /\ Publish(n, 0)
  /\ UNCHANGED <<dnsVars, loading, requests>>

PassEntry(n, o) ==
  /\ services'[n] # services[n]
  /\ services'[n].lb # Nil
  /\ TakeHandle(n, o.host)
  /\ Publish(n, service_backends'[o.host])
  /\ UNCHANGED <<loading, requests>>

SpawnWithHandle(n, o) ==
  /\ tasks' # tasks
  /\ TakeHandle(n, o.host)
  /\ loading' = [loading EXCEPT ![spec_generation] = service_backends'[o.host]]
  /\ UNCHANGED <<entry, retired, requests>>

(* A name is parsed, and may panic, before its handle is asked for.        *)
UpdateHandles(n) ==
  LET o == Selected(raw_services', ref_by_grpc_service', n)
  IN  IF crashed'
      THEN UNCHANGED <<dnsVars, holderVars>>
      ELSE \/ UnloadEntry(n)
           \/ PassEntry(n, o)
           \/ SpawnWithHandle(n, o)

ApplyChange(r, o) == Apply(r, o) /\ UpdateHandles(o.name)

RemoveChange(r) == Remove(r) /\ UpdateHandles(raw_services[r].name)

(* Mutant: a load that has lost the race keeps its handle.                 *)
MutLosesRace(t) ==
  /\ services' = services
  /\ loading' = [loading EXCEPT ![t.generation] = 0]
  /\ UNCHANGED <<dnsVars, entry, retired>>

(* update_service_if_newer aborts: the load's handle is dropped.           *)
LosesRace(t) ==
  /\ services' = services
  /\ Dns!Release(loading[t.generation])
  /\ loading' = [loading EXCEPT ![t.generation] = 0]
  /\ UNCHANGED <<entry, retired>>

(* Mutant: the entry keeps a weak reference, so that the handle's count    *)
(* drops when the load that took it ends.                                  *)
MutWinsRace(t) ==
  /\ services' # services
  /\ Publish(t.name, loading[t.generation])
  /\ Dns!Release(loading[t.generation])
  /\ loading' = [loading EXCEPT ![t.generation] = 0]

(* The load's handle becomes the entry's.                                  *)
WinsRace(t) ==
  /\ services' # services
  /\ Publish(t.name, loading[t.generation])
  /\ loading' = [loading EXCEPT ![t.generation] = 0]
  /\ UNCHANGED dnsVars

LoadPublishes(t) ==
  /\ LoadDone(t)
  /\ WinsRace(t) \/ LosesRace(t)
  /\ UNCHANGED requests

(* A load that panics drops what it holds.                                 *)
LoadDies(t) ==
  /\ LoadPanic(t)
  /\ Dns!Release(loading[t.generation])
  /\ loading' = [loading EXCEPT ![t.generation] = 0]
  /\ UNCHANGED <<entry, retired, requests>>

(* External: papaya drops a replaced entry when no thread can still see    *)
(* it.  It collects them in batches; nothing says when.                    *)
Reclaim(i) ==
  /\ retired[i] > 0
  /\ retired' = [retired EXCEPT ![i] = @ - 1]
  /\ Dns!Release(i)
  /\ UNCHANGED <<vars, entry, loading, requests>>

(* request_filter clones the entry of the service it routes to.            *)
RequestRouted(q, n) ==
  /\ requests[q] = 0
  /\ entry[n] # 0
  /\ refs[entry[n]] < MaxRefs
  /\ requests' = [requests EXCEPT ![q] = entry[n]]
  /\ refs' = [refs EXCEPT ![entry[n]] = @ + 1]
  /\ UNCHANGED <<vars, created, host, loopVars, entry, loading, retired>>

(* The RequestCtx is dropped.                                              *)
RequestEnds(q) ==
  /\ requests[q] # 0
  /\ requests' = [requests EXCEPT ![q] = 0]
  /\ Dns!Release(requests[q])
  /\ UNCHANGED <<vars, entry, loading, retired>>

Discover(l) == Dns!LoopStep(l) \/ Dns!LookupSucceeds(l)

DiscoveryStep ==
  /\ \/ Dns!StartDiscoveryLoop
     \/ \E l \in Dns!Ids : Discover(l)
  /\ UNCHANGED <<vars, holderVars>>

UpstreamsNext ==
  \/ \E r \in Refs, o \in Object : ApplyChange(r, o)
  \/ \E r \in Refs : RemoveChange(r)
  \/ \E t \in tasks : LoadPublishes(t)
  \/ \E t \in tasks : LoadDies(t)
  \/ \E i \in Dns!Ids : Reclaim(i)
  \/ \E q \in Requests, n \in Names : RequestRouted(q, n)
  \/ \E q \in Requests : RequestEnds(q)
  \/ DiscoveryStep

(* The discovery service and its loops run, and lookups succeed some time. *)
(* Nothing is assumed of changes, loads, requests and reclamation.         *)
UpstreamsSpec ==
  /\ UpstreamsInit
  /\ [][UpstreamsNext]_upstreamVars
  /\ WF_upstreamVars(Dns!StartDiscoveryLoop /\ UNCHANGED <<vars, holderVars>>)
  /\ \A l \in Dns!Ids :
       /\ WF_upstreamVars(Dns!LoopStep(l) /\ UNCHANGED <<vars, holderVars>>)
       /\ SF_upstreamVars(Dns!LookupSucceeds(l)
                            /\ UNCHANGED <<vars, holderVars>>)

-----------------------------------------------------------------------------
(* Properties.                                                             *)

Routed(n) == services[n] # Nil /\ services[n].lb # Nil

(* A service requests are routed to has a discovered upstream: its entry   *)
(* holds the live handle of its host, the one every other service of that  *)
(* host holds, whatever loads, reloads and removals came before.           *)
RoutedIsMaintained ==
  \A n \in Names :
    Routed(n) =>
      /\ entry[n] # 0
      /\ refs[entry[n]] > 0
      /\ host[entry[n]] = services[n].lb
      /\ service_backends[services[n].lb] = entry[n]

(* A routed service whose handle has signalled ready has backends to       *)
(* select from, also while it is reloaded; handles a second loop has       *)
(* adopted are excepted.                                                   *)
RoutedReadyHasBackends ==
  \A n \in Names :
    Routed(n) /\ Dns!Sole(entry[n]) /\ ready[entry[n]] =>
      rr[entry[n]] # {} /\ cons[entry[n]] # {}

(* A request keeps the upstream it was routed to until its RequestCtx is   *)
(* dropped, though its service is reloaded onto another host or removed:   *)
(* the handle stays the live one of its host, so its backends go on being  *)
(* refreshed, and once it has backends upstream_peer's select finds one;   *)
(* handles a second loop has adopted are excepted from the last part.      *)
RequestKeepsUpstream ==
  \A q \in Requests :
    LET i == requests[q]
    IN  i # 0 =>
          /\ refs[i] > 0
          /\ service_backends[host[i]] = i
          /\ Dns!Sole(i) /\ ready[i] => rr[i] # {} /\ cons[i] # {}

(* The comment in update_service, "this only has the cost of reference     *)
(* counting for the case where the hostname is identical": a reload that   *)
(* keeps the host keeps the handle with its discovered backends.           *)
ReloadKeepsHandle ==
  [][\A n \in Names :
       Routed(n) /\ Routed(n)' /\ services'[n].lb = services[n].lb =>
         entry'[n] = entry[n]]_upstreamVars

(* Sharing handles between entries, loads, requests and entries that wait  *)
(* for reclamation is use of the discovery service as DnsDiscovery models  *)
(* it, so what is proved of it holds here.  (Cloning an entry's handle     *)
(* counts as asking for it again.)                                         *)
UsesDiscovery == Dns!Spec

Uses(h) ==
  \/ \E n \in Names : Routed(n) /\ services[n].lb = h
  \/ \E t \in tasks : t.host = h
  \/ \E i \in Dns!Ids : host[i] = h /\ retired[i] > 0
  \/ \E q \in Requests : requests[q] # 0 /\ host[requests[q]] = h

(* No Arc outlives its users: a handle is held only while a routed         *)
(* service, a running load, a request or an entry that waits to be         *)
(* reclaimed is of its host.  A load that lost the race or panicked leaves *)
(* nothing behind that would keep the discovery loops of its host going.   *)
HeldIsUsed == \A i \in Dns!Ids : refs[i] > 0 => Uses(host[i])

(* The loops of an upstream no service, load, request or unreclaimed entry *)
(* uses any more come to an end.                                           *)
UnusedUpstreamStops ==
  \A h \in Hosts :
    <>[]~Uses(h) => <>[](\A l \in Dns!Ids : host[l] = h => pc[l] = "done")

(* A service that stays routed becomes one with backends to select from,   *)
(* also when it is reloaded on the way; handles a second loop has adopted  *)
(* are excepted.                                                           *)
RoutedGetsBackends ==
  \A n \in Names :
    <>[](Routed(n) /\ Dns!Sole(entry[n])) =>
      <>[](entry[n] # 0 /\ rr[entry[n]] # {})

=============================================================================
