---------------------------- MODULE DnsDiscovery ----------------------------
(***************************************************************************)
(* The DNS discovery service of grcache-proxy                              *)
(* (grcache-proxy/src/discovery/dns.rs and discovery/mod.rs).              *)
(*                                                                         *)
(* backends_for_hostname hands out a reference counted handle per upstream *)
(* host and keeps a weak reference to it.  A new handle queues a command,  *)
(* from which the service spawns a discovery loop.  The loop owns the      *)
(* senders of the handle it was created for, but it looks the handle it    *)
(* watches and updates up again, by host, once it runs.                    *)
(*                                                                         *)
(* Handles are numbered as they are created and a loop has the number of   *)
(* its handle.  Users (service map entries, pending loads, requests) hold  *)
(* `refs' strong references; a loop holds one while it updates.            *)
(***************************************************************************)
EXTENDS Naturals, Sequences

CONSTANTS
  Hosts,          \* upstream (hostname, port) pairs
  Nil,            \* the host of a handle not created yet
  Addrs,          \* addresses a host can resolve to
  MaxHandles,     \* bound: handles created
  MaxRefs,        \* bound: strong references users hold on one handle
  MaxDnsChanges   \* bound: changes of the DNS records

Ids == 1 .. MaxHandles

VARIABLES
  created,           \* number of handles created
  host,              \* id -> host
  refs,              \* id -> strong references held by users
  service_backends,  \* host -> weak reference: the id, 0 when absent
  commands,          \* the unbounded command channel
  pc,                \* loop -> where it is
  handle_weak,       \* loop -> the handle it watches, 0 before it looks
  got,               \* loop -> backends an update has discovered
  backends,          \* id -> value of the handle's backends watch
  ready,             \* id -> value of the handle's ready watch
  rr, cons,          \* id -> backends of the two load balancers
  dns,               \* external: host -> its current addresses
  dnsChanges

userVars == <<created, host, refs, service_backends>>
watchVars == <<backends, ready>>
lbVars == <<got, rr, cons>>
dnsVars == <<dns, dnsChanges>>
vars == <<userVars, commands, pc, handle_weak, watchVars, lbVars, dnsVars>>

(* An upgraded handle is held from the upgrade to the second store.        *)
Holding == {"rr_discover", "rr_store", "cons_discover", "cons_store"}
PCs == {"none", "start", "lookup", "upgrade", "check", "sleep", "done"}
         \cup Holding

ASSUME DnsBounds ==
  MaxHandles \in Nat /\ MaxRefs \in Nat /\ MaxDnsChanges \in Nat

Init ==
  /\ created = 0
  /\ host = [i \in Ids |-> Nil]
  /\ refs = [i \in Ids |-> 0]
  /\ service_backends = [h \in Hosts |-> 0]
  /\ commands = <<>>
  /\ pc = [i \in Ids |-> "none"]
  /\ handle_weak = [i \in Ids |-> 0]
  /\ got = [i \in Ids |-> {}]
  /\ backends = [i \in Ids |-> {}]
  /\ ready = [i \in Ids |-> FALSE]
  /\ rr = [i \in Ids |-> {}]
  /\ cons = [i \in Ids |-> {}]
  /\ dns \in [Hosts -> (SUBSET Addrs) \ {{}}]
  /\ dnsChanges = 0

(* strong_count() > 0, which is also when upgrade() succeeds.              *)
Alive(i) ==
  \/ refs[i] > 0
  \/ \E l \in Ids : pc[l] \in Holding /\ handle_weak[l] = i

-----------------------------------------------------------------------------
(* Handles.                                                                *)

(* Mutant: the weak reference is not upgraded, a new handle always made.   *)
MutReusable(i) == FALSE

(* The weak reference found in the map upgrades.                           *)
Reusable(i) == i # 0 /\ Alive(i)

Reuse(h) ==
  LET i == service_backends[h]
  IN  /\ Reusable(i)
      /\ refs[i] < MaxRefs
      /\ refs' = [refs EXCEPT ![i] = @ + 1]
      /\ UNCHANGED <<created, host, service_backends, commands>>

(* The mutex is held from the upgrade to the send of the command.          *)
Create(h) ==
  LET i == created + 1
  IN  /\ ~Reusable(service_backends[h])
      /\ i \in Ids
      /\ created' = i
      /\ host' = [host EXCEPT ![i] = h]
      /\ refs' = [refs EXCEPT ![i] = 1]
      /\ service_backends' = [service_backends EXCEPT ![h] = i]
      /\ commands' = Append(commands, i)

BackendsForHostname(h) ==
  /\ Reuse(h) \/ Create(h)
  /\ UNCHANGED <<pc, handle_weak, watchVars, lbVars, dnsVars>>

(* A user drops its Arc.                                                   *)
Release(i) ==
  /\ refs[i] > 0
  /\ refs' = [refs EXCEPT ![i] = @ - 1]
  /\ UNCHANGED <<created, host, service_backends, commands, pc, handle_weak,
                 watchVars, lbVars, dnsVars>>

-----------------------------------------------------------------------------
(* The service and its loops.                                              *)

(* Service::start: the next command is received and its loop spawned.      *)
StartDiscoveryLoop ==
  /\ commands # <<>>
  /\ commands' = Tail(commands)
  /\ pc' = [pc EXCEPT ![Head(commands)] = "start"]
  /\ UNCHANGED <<userVars, handle_weak, watchVars, lbVars, dnsVars>>

Goto(l, from, to) == pc[l] = from /\ pc' = [pc EXCEPT ![l] = to]

(* The loop takes the weak reference that is now in the map for its host.  *)
FetchWeak(l) ==
  /\ Goto(l, "start", "lookup")
  /\ handle_weak' = [handle_weak EXCEPT ![l] = service_backends[host[l]]]
  /\ UNCHANGED <<userVars, commands, watchVars, lbVars, dnsVars>>

(* Mutant: the loop does not look whether the handle is gone.              *)
MutStrongCount(l) == TRUE

(* The test that keeps a loop going.                                       *)
StrongCount(l) == Alive(handle_weak[l])

LookupFails(l) ==
  /\ Goto(l, "lookup", IF StrongCount(l) THEN "sleep" ELSE "done")
  /\ UNCHANGED <<userVars, commands, handle_weak, watchVars, lbVars, dnsVars>>

(* Mutant: readiness is signalled as soon as the lookup succeeds.          *)
MutLookupSucceeds(l) ==
  LET addrs == dns[host[l]]
  IN  /\ Goto(l, "lookup", IF backends[l] # addrs THEN "upgrade" ELSE "check")
      /\ backends' = [backends EXCEPT ![l] = addrs]
      /\ ready' = [ready EXCEPT ![l] = TRUE]
      /\ UNCHANGED <<userVars, commands, handle_weak, lbVars, dnsVars>>

(* send_if_modified on the loop's own sender.                              *)
LookupSucceeds(l) ==
  LET addrs == dns[host[l]]
  IN  /\ Goto(l, "lookup", IF backends[l] # addrs THEN "upgrade" ELSE "check")
      /\ backends' = [backends EXCEPT ![l] = addrs]
      /\ UNCHANGED <<userVars, commands, handle_weak, ready, lbVars, dnsVars>>

(* Mutant: announced backends are not stored in the load balancers.        *)
MutUpgrade(l) ==
  /\ Goto(l, "upgrade", "check")
  /\ UNCHANGED <<userVars, commands, handle_weak, watchVars, lbVars, dnsVars>>

Upgrade(l) ==
  /\ Goto(l, "upgrade",
          IF Alive(handle_weak[l]) THEN "rr_discover" ELSE "check")
  /\ UNCHANGED <<userVars, commands, handle_weak, watchVars, lbVars, dnsVars>>

(* LoadBalancer::update (external): discover the backends, then store      *)
(* them.  WatchServiceDiscovery::discover reads the watch of the handle    *)
(* being updated.                                                          *)
Discover(l, from, to) ==
  /\ Goto(l, from, to)
  /\ got' = [got EXCEPT ![l] = backends[handle_weak[l]]]
  /\ UNCHANGED <<userVars, commands, handle_weak, watchVars, rr, cons,
                 dnsVars>>

(* Mutant: only the first load balancer is updated.                        *)
MutRoundRobinStore(l) ==
  /\ Goto(l, "rr_store", "check")
  /\ rr' = [rr EXCEPT ![handle_weak[l]] = got[l]]
  /\ UNCHANGED <<userVars, commands, handle_weak, watchVars, got, cons,
                 dnsVars>>

RoundRobinStore(l) ==
  /\ Goto(l, "rr_store", "cons_discover")
  /\ rr' = [rr EXCEPT ![handle_weak[l]] = got[l]]
  /\ UNCHANGED <<userVars, commands, handle_weak, watchVars, got, cons,
                 dnsVars>>

ConsistentStore(l) ==
  /\ Goto(l, "cons_store", "check")
  /\ cons' = [cons EXCEPT ![handle_weak[l]] = got[l]]
  /\ UNCHANGED <<userVars, commands, handle_weak, watchVars, got, rr, dnsVars>>

StopLoop(l) ==
  /\ Goto(l, "check", "done")
  /\ ~StrongCount(l)
  /\ UNCHANGED <<userVars, commands, handle_weak, watchVars, lbVars, dnsVars>>

(* ready_send.send(true), then sleep until the answer's TTL expires.       *)
SignalReady(l) ==
  /\ Goto(l, "check", "sleep")
  /\ StrongCount(l)
  /\ ready' = [ready EXCEPT ![l] = TRUE]
  /\ UNCHANGED <<userVars, commands, handle_weak, backends, lbVars, dnsVars>>

Wake(l) ==
  /\ Goto(l, "sleep", "lookup")
  /\ UNCHANGED <<userVars, commands, handle_weak, watchVars, lbVars, dnsVars>>

(* Every step of a loop but the successful lookup.                         *)
LoopStep(l) ==
  \/ FetchWeak(l)
  \/ LookupFails(l)
  \/ Upgrade(l)
  \/ Discover(l, "rr_discover", "rr_store")
  \/ RoundRobinStore(l)
  \/ Discover(l, "cons_discover", "cons_store")
  \/ ConsistentStore(l)
  \/ StopLoop(l)
  \/ SignalReady(l)
  \/ Wake(l)

DnsChange(h) ==
  /\ dnsChanges < MaxDnsChanges
  /\ \E A \in (SUBSET Addrs) \ {{}, dns[h]} : dns' = [dns EXCEPT ![h] = A]
  /\ dnsChanges' = dnsChanges + 1
  /\ UNCHANGED <<userVars, commands, pc, handle_weak, watchVars, lbVars>>

Next ==
  \/ \E h \in Hosts : BackendsForHostname(h)
  \/ \E i \in Ids : Release(i)
  \/ StartDiscoveryLoop
  \/ \E l \in Ids : LoopStep(l) \/ LookupSucceeds(l)
  \/ \E h \in Hosts : DnsChange(h)

Spec == Init /\ [][Next]_vars

(* The service receives its commands; a loop's lookup ends, its sleeps are *)
(* timers; a resolver that is asked again and again answers some time.     *)
FairSpec ==
  /\ Spec
  /\ WF_vars(StartDiscoveryLoop)
  /\ \A l \in Ids : /\ WF_vars(LoopStep(l))
                    /\ SF_vars(LookupSucceeds(l))

-----------------------------------------------------------------------------
(* Properties.                                                             *)

(* The variables have their types.                                         *)
TypeOK ==
  /\ created \in Nat
  /\ host \in [Ids -> Hosts \cup {Nil}]
  /\ refs \in [Ids -> Nat]
  /\ service_backends \in [Hosts -> Ids \cup {0}]
  /\ commands \in Seq(Ids)
  /\ pc \in [Ids -> PCs]
  /\ handle_weak \in [Ids -> Ids \cup {0}]
  /\ got \in [Ids -> SUBSET Addrs]
  /\ backends \in [Ids -> SUBSET Addrs]
  /\ ready \in [Ids -> BOOLEAN]
  /\ rr \in [Ids -> SUBSET Addrs]
  /\ cons \in [Ids -> SUBSET Addrs]
  /\ dns \in [Hosts -> SUBSET Addrs]
  /\ dnsChanges \in Nat

Queued(i) == \E k \in DOMAIN commands : commands[k] = i

(* "Handle to actively maintained set of backends": a handle somebody      *)
(* holds is the one the map knows for its host, so that nobody is given a  *)
(* second one, and its loop is queued or running and has not mistaken      *)
(* another handle for it.                                                  *)
LiveHandleMaintained ==
  \A i \in Ids :
    Alive(i) =>
      /\ service_backends[host[i]] = i
      /\ \/ Queued(i) /\ pc[i] = "none"
         \/ pc[i] = "start"
         \/ pc[i] \notin {"none", "start", "done"} /\ handle_weak[i] = i

(* No other loop has adopted handle i (a loop does that when its own       *)
(* handle died, and i was created, before it looked).                      *)
Sole(i) == \A l \in Ids \ {i} : handle_weak[l] # i

(* A loop that rests leaves both load balancers with exactly the backends  *)
(* its watch announces: a change is never announced without being stored.  *)
RestingLoopHasStored ==
  \A i \in Ids :
    Alive(i) /\ Sole(i) /\ pc[i] \in {"check", "sleep", "lookup"} =>
      rr[i] = backends[i] /\ cons[i] = backends[i]

(* What Discovery specifies of one handle.                                 *)
D(i) == INSTANCE Discovery WITH
          Backends <- Addrs, backends <- backends[i],
          rr <- rr[i], cons <- cons[i], ready <- ready[i]

(* Every step of the whole service, of any user, host or loop, is for a    *)
(* handle in use a step that Discovery allows, or none: announcements are  *)
(* stored one after the other, ready comes after the stores and is never   *)
(* taken back.  Handles that a second loop has adopted are excepted.       *)
ImplementsDiscovery ==
  /\ \A i \in Ids : D(i)!DiscoveryInit
  /\ [][\A i \in Ids :
          (Alive(i) /\ Sole(i))' =>
            D(i)!DiscoveryNext \/ UNCHANGED D(i)!discoveryVars]_vars

(* Every loop ends after the handle it watches has lost its last user:     *)
(* discovery loops do not pile up as upstreams come and go.                *)
LoopsStop ==
  \A l \in Ids :
    (handle_weak[l] # 0 /\ ~Alive(handle_weak[l])) ~> pc[l] = "done"

(* A handle that stays in use, and that no other loop has adopted, becomes *)
(* ready and its load balancers follow the DNS records, through failing    *)
(* lookups and changes.                                                    *)
BackendsConverge ==
  \A i \in Ids :
    <>[](refs[i] > 0 /\ Sole(i)) =>
      <>[](ready[i] /\ rr[i] = dns[host[i]] /\ cons[i] = dns[host[i]])


(* That doc is right of every handle no other loop has adopted: adoption   *)
(* is the only way to a ready handle without backends.                     *)
SoleReadyHasBackends ==
  \A i \in Ids :
    refs[i] > 0 /\ Sole(i) /\ ready[i] => rr[i] # {} /\ cons[i] # {}

=============================================================================
