------------------------- MODULE DnsDiscoveryProofs -------------------------
(***************************************************************************)
(* Proof that a DNS handle somebody holds is the only one of its host and  *)
(* has its own discovery loop (LiveHandleMaintained), for any sets of      *)
(* hosts and addresses and any bounds.                                     *)
(*                                                                         *)
(* The invariant says two more things.  Numbers that were not given out    *)
(* yet are in no use (Unused), so a new handle starts from nothing.  A     *)
(* loop that runs has a host the map knows and, past its start, a handle   *)
(* to look at (Grounded).  The argument is then that no step but Create    *)
(* brings a handle to life, and that Create only replaces dead ones.       *)
(*                                                                         *)
(* Two more parts follow: the service implements Discovery for handles     *)
(* that one loop maintains, and such a handle has backends once it is      *)
(* ready.                                                                  *)
(***************************************************************************)
EXTENDS DnsDiscovery, SequenceTheorems, TLAPS

(* Handles not created yet have no user, no loop, no command, and nothing  *)
(* refers to them.                                                         *)
Unused ==
  /\ \A i \in Ids : i > created => refs[i] = 0 /\ pc[i] = "none" /\ ~Queued(i)
  /\ \A h \in Hosts : service_backends[h] <= created
  /\ \A l \in Ids : handle_weak[l] <= created

(* The host of a created handle is in the map, and a loop that has looked  *)
(* its handle up has found one.                                            *)
Grounded ==
  /\ \A i \in Ids : i <= created =>
       host[i] \in Hosts /\ service_backends[host[i]] # 0
  /\ \A l \in Ids : pc[l] \notin {"none", "start"} => handle_weak[l] # 0

Inv == TypeOK /\ Unused /\ Grounded /\ LiveHandleMaintained

-----------------------------------------------------------------------------

(* The initial state satisfies the invariant: there are no handles.        *)
LEMMA InitInv == Init => Inv
<1> SUFFICES ASSUME Init PROVE Inv
  BY Zenon
<1> USE DnsBounds
<1>1. TypeOK
  BY DEF Init, TypeOK, PCs, Ids
<1>2. \A i \in Ids : ~Queued(i)
  BY DEF Init, Queued
<1>3. Unused
  BY <1>2 DEF Init, Unused, Ids
<1>4. Grounded
  BY DEF Init, Grounded, Ids
<1>5. LiveHandleMaintained
  BY DEF Init, LiveHandleMaintained, Alive, Holding, Ids
<1> QED
  BY <1>1, <1>3, <1>4, <1>5, Zenon DEF Inv

(* Sending a command queues it and keeps what was queued.                  *)
LEMMA QueuedAppend ==
  ASSUME TypeOK, NEW n \in Ids, commands' = Append(commands, n)
  PROVE  \A i \in Ids : Queued(i)' <=> (Queued(i) \/ i = n)
<1>1. commands \in Seq(Ids)
  BY Zenon DEF TypeOK
<1>2. Len(commands) \in Nat /\ DOMAIN commands = 1 .. Len(commands)
  BY <1>1, LenProperties, Zenon
<1>3. DOMAIN commands' = 1 .. Len(commands) + 1
  BY <1>1, <1>2, AppendProperties
<1>4. \A k \in 1 .. Len(commands) : commands'[k] = commands[k]
  BY <1>1, AppendProperties
<1>5. commands'[Len(commands) + 1] = n
  BY <1>1, AppendProperties, ZenonT(30)
<1> QED
  BY <1>2, <1>3, <1>4, <1>5 DEF Queued

(* Receiving a command unqueues nothing but, possibly, that command.       *)
LEMMA QueuedTail ==
  ASSUME TypeOK, commands # <<>>, commands' = Tail(commands)
  PROVE  /\ Head(commands) \in Ids
         /\ Queued(Head(commands))
         /\ \A i \in Ids : Queued(i)' => Queued(i)
         /\ \A i \in Ids : Queued(i) /\ i # Head(commands) => Queued(i)'
<1>1. commands \in Seq(Ids)
  BY Zenon DEF TypeOK
<1>2. Len(commands) \in Nat \ {0} /\ DOMAIN commands = 1 .. Len(commands)
  BY <1>1, LenProperties, EmptySeq, Zenon
<1>3. Head(commands) = commands[1] /\ Head(commands) \in Ids
  BY <1>1, HeadTailProperties
<1>4. Len(commands') = Len(commands) - 1 /\ commands' \in Seq(Ids)
  BY <1>1, HeadTailProperties, Zenon
<1>5. DOMAIN commands' = 1 .. Len(commands) - 1
  BY <1>4, LenProperties, Zenon
<1>6. \A k \in 1 .. Len(commands) - 1 : commands'[k] = commands[k + 1]
  BY <1>1, <1>4, HeadTailProperties, Zenon
<1>7. \A i \in Ids : Queued(i)' => Queued(i)
  BY <1>2, <1>5, <1>6 DEF Queued
<1>8. ASSUME NEW i \in Ids, Queued(i), i # Head(commands)
      PROVE  Queued(i)'
  <2>1. PICK k \in 1 .. Len(commands) : commands[k] = i
    BY <1>2, <1>8, Zenon DEF Queued
  <2>2. k # 1
    BY <2>1, <1>3, <1>8, Zenon
  <2>3. k - 1 \in 1 .. Len(commands) - 1 /\ commands'[k - 1] = i
    BY <2>1, <2>2, <1>2, <1>6
  <2> QED
    BY <2>3, <1>5, Zenon DEF Queued
<1> QED
  BY <1>2, <1>3, <1>7, <1>8 DEF Queued

-----------------------------------------------------------------------------

(* A step of a loop after its start, to q: nothing comes to life, a loop   *)
(* that begins to hold a handle found it alive, and one that ends found it *)
(* dead.  All loop steps but FetchWeak are of this kind.                   *)
LEMMA LoopMoves ==
  ASSUME Inv, NEW l \in Ids, NEW q \in PCs \ {"none", "start"},
         pc[l] \notin {"none", "start"},
         pc' = [pc EXCEPT ![l] = q],
         UNCHANGED <<userVars, commands, handle_weak>>,
         q \in Holding => Alive(handle_weak[l]),
         q = "done" => ~Alive(handle_weak[l])
  PROVE  Unused' /\ Grounded' /\ LiveHandleMaintained'
<1> USE DEF userVars
<1>1. TypeOK /\ Unused /\ Grounded /\ LiveHandleMaintained
  BY Zenon DEF Inv
<1>2. /\ \A k \in Ids : pc'[k] = IF k = l THEN q ELSE pc[k]
      /\ handle_weak[l] \in Ids
  BY <1>1, Zenon DEF TypeOK, Grounded
<1>3. \A i \in Ids : Queued(i)' <=> Queued(i)
  BY Zenon DEF Queued
<1>4. ASSUME NEW i \in Ids, Alive(i)'
      PROVE  Alive(i)
  <2>1. CASE refs[i] > 0
    BY <2>1, Zenon DEF Alive
  <2>2. CASE \E k \in Ids : pc'[k] \in Holding /\ handle_weak[k] = i
    <3>1. PICK k \in Ids : pc'[k] \in Holding /\ handle_weak[k] = i
      BY <2>2, Zenon
    <3>2. CASE k = l
      BY <3>1, <3>2, <1>2, Zenon
    <3>3. CASE k # l
      BY <3>1, <3>3, <1>2, Zenon DEF Alive
    <3> QED
      BY <3>2, <3>3, Zenon
  <2> QED
    BY <2>1, <2>2, <1>4, Zenon DEF Alive
<1>5. Unused'
  BY <1>1, <1>2, <1>3, Zenon DEF Unused
<1>6. Grounded'
  BY <1>1, <1>2, Zenon DEF Grounded, TypeOK
<1>7. ASSUME NEW i \in Ids, Alive(i)'
      PROVE  /\ service_backends'[host'[i]] = i
             /\ \/ Queued(i)' /\ pc'[i] = "none"
                \/ pc'[i] = "start"
                \/ pc'[i] \notin {"none", "start", "done"} /\ handle_weak'[i] = i
  <2>1. Alive(i)
    BY <1>4, <1>7, Zenon
  <2>2. CASE i = l
    BY <2>1, <2>2, <1>1, <1>2, Zenon DEF LiveHandleMaintained
  <2>3. CASE i # l
    BY <2>1, <2>3, <1>1, <1>2, <1>3, ZenonT(30) DEF LiveHandleMaintained
  <2> QED
    BY <2>2, <2>3, Zenon
<1>8. LiveHandleMaintained'
  BY <1>7, Zenon DEF LiveHandleMaintained
<1> QED
  BY <1>5, <1>6, <1>8, Zenon

(* A loop that starts looks up the handle of its host.  If its own handle  *)
(* is alive, that is the one it finds.                                     *)
LEMMA FetchWeakInv ==
  ASSUME Inv, NEW l \in Ids, FetchWeak(l)
  PROVE  Inv'
<1> USE DEF userVars, watchVars, lbVars, dnsVars
<1>1. TypeOK /\ Unused /\ Grounded /\ LiveHandleMaintained
  BY Zenon DEF Inv
<1>2. pc[l] = "start" /\ l <= created
  BY <1>1, DnsBounds DEF FetchWeak, Goto, Unused, TypeOK, Ids
<1>3. host[l] \in Hosts /\ service_backends[host[l]] \in Ids
  BY <1>1, <1>2, Zenon DEF Grounded, TypeOK
<1>4. \A k \in Ids :
        /\ pc'[k] = IF k = l THEN "lookup" ELSE pc[k]
        /\ handle_weak'[k] = IF k = l THEN service_backends[host[l]]
                                      ELSE handle_weak[k]
  BY <1>1, Zenon DEF FetchWeak, Goto, TypeOK
<1>5. \A i \in Ids : Queued(i)' <=> Queued(i)
  BY Zenon DEF FetchWeak, Queued
<1>6. \A i \in Ids : Alive(i)' => Alive(i)
  BY <1>4, Zenon DEF FetchWeak, Alive, Holding
<1>7. TypeOK'
  BY <1>1, <1>3, Zenon DEF FetchWeak, Goto, TypeOK, PCs
<1>8. Unused'
  BY <1>1, <1>2, <1>3, <1>4, <1>5, DnsBounds, Zenon
  DEF FetchWeak, Unused, TypeOK, Ids
<1>9. Grounded'
  BY <1>1, <1>3, <1>4, DnsBounds DEF FetchWeak, Grounded, TypeOK, Ids
<1>10. LiveHandleMaintained'
  BY <1>1, <1>2, <1>4, <1>5, <1>6 DEF FetchWeak, LiveHandleMaintained
<1> QED
  BY <1>7, <1>8, <1>9, <1>10, Zenon DEF Inv

(* The other steps of a loop, one by one, as instances of LoopMoves.       *)
LEMMA LoopInv ==
  ASSUME Inv, NEW l \in Ids, LoopStep(l) \/ LookupSucceeds(l)
  PROVE  Inv'
<1> USE DEF userVars, watchVars, lbVars, dnsVars
<1>1. TypeOK /\ Unused /\ Grounded
  BY Zenon DEF Inv
<1>2. pc[l] \notin {"none", "start"} =>
        handle_weak[l] \in Ids /\ host[l] \in Hosts
  BY <1>1, DnsBounds DEF Unused, Grounded, TypeOK, Ids
<1>3. pc[l] \in Holding => Alive(handle_weak[l])
  BY Zenon DEF Alive
<1>4. CASE FetchWeak(l)
  BY <1>4, FetchWeakInv, Zenon
<1>5. CASE LookupFails(l)
  <2> DEFINE q == IF Alive(handle_weak[l]) THEN "sleep" ELSE "done"
  <2>1. /\ pc[l] = "lookup" /\ pc' = [pc EXCEPT ![l] = q]
        /\ UNCHANGED <<userVars, commands, handle_weak>>
    BY <1>5, Zenon DEF LookupFails, Goto, StrongCount
  <2>2. q \in PCs \ {"none", "start"} /\ q \notin Holding
    BY Zenon DEF PCs, Holding
  <2>3. Unused' /\ Grounded' /\ LiveHandleMaintained'
    BY <2>1, <2>2, LoopMoves, Zenon
  <2>4. TypeOK'
    BY <1>1, <1>5, <2>1, <2>2, Zenon DEF LookupFails, TypeOK
  <2> QED
    BY <2>3, <2>4, Zenon DEF Inv
<1>6. CASE LookupSucceeds(l)
  <2> DEFINE q == IF backends[l] # dns[host[l]] THEN "upgrade" ELSE "check"
  <2>1. /\ pc[l] = "lookup" /\ pc' = [pc EXCEPT ![l] = q]
        /\ UNCHANGED <<userVars, commands, handle_weak>>
    BY <1>6, Zenon DEF LookupSucceeds, Goto
  <2>2. q \in PCs \ {"none", "start"} /\ q \notin Holding /\ q # "done"
    BY Zenon DEF PCs, Holding
  <2>3. Unused' /\ Grounded' /\ LiveHandleMaintained'
    BY <2>1, <2>2, LoopMoves, Zenon
  <2>4. TypeOK'
    BY <1>1, <1>2, <1>6, <2>1, <2>2, Zenon DEF LookupSucceeds, TypeOK
  <2> QED
    BY <2>3, <2>4, Zenon DEF Inv
<1>7. CASE Upgrade(l)
  <2> DEFINE q == IF Alive(handle_weak[l]) THEN "rr_discover" ELSE "check"
  <2>1. /\ pc[l] = "upgrade" /\ pc' = [pc EXCEPT ![l] = q]
        /\ UNCHANGED <<userVars, commands, handle_weak>>
    BY <1>7, Zenon DEF Upgrade, Goto
  <2>2. /\ q \in PCs \ {"none", "start"} /\ q # "done"
        /\ q \in Holding => Alive(handle_weak[l])
    BY Zenon DEF PCs, Holding
  <2>3. Unused' /\ Grounded' /\ LiveHandleMaintained'
    BY <2>1, <2>2, LoopMoves, Zenon
  <2>4. TypeOK'
    BY <1>1, <1>7, <2>1, <2>2, Zenon DEF Upgrade, TypeOK
  <2> QED
    BY <2>3, <2>4, Zenon DEF Inv
<1>8. ASSUME NEW from \in {"rr_discover", "cons_discover"},
             NEW to \in {"rr_store", "cons_store"},
             Discover(l, from, to)
      PROVE  Inv'
  <2>1. /\ pc[l] = from /\ pc' = [pc EXCEPT ![l] = to]
        /\ UNCHANGED <<userVars, commands, handle_weak>>
    BY <1>8, Zenon DEF Discover, Goto
  <2>2. to \in PCs \ {"none", "start"} /\ to # "done" /\ pc[l] \in Holding
    BY <2>1, Zenon DEF PCs, Holding
  <2>3. Unused' /\ Grounded' /\ LiveHandleMaintained'
    BY <2>1, <2>2, <1>3, LoopMoves, Zenon DEF Holding
  <2>4. TypeOK'
    BY <1>1, <1>2, <1>8, <2>1, <2>2, Zenon DEF Discover, TypeOK
  <2> QED
    BY <2>3, <2>4, Zenon DEF Inv
<1>9. CASE RoundRobinStore(l)
  <2>1. /\ pc[l] = "rr_store" /\ pc' = [pc EXCEPT ![l] = "cons_discover"]
        /\ UNCHANGED <<userVars, commands, handle_weak>>
    BY <1>9, Zenon DEF RoundRobinStore, Goto
  <2>2. "cons_discover" \in PCs \ {"none", "start"} /\ pc[l] \in Holding
    BY <2>1, Zenon DEF PCs, Holding
  <2>3. Unused' /\ Grounded' /\ LiveHandleMaintained'
    BY <2>1, <2>2, <1>3, LoopMoves, Zenon
  <2>4. TypeOK'
    BY <1>1, <1>2, <1>9, <2>1, <2>2, Zenon DEF RoundRobinStore, TypeOK
  <2> QED
    BY <2>3, <2>4, Zenon DEF Inv
<1>10. CASE ConsistentStore(l)
  <2>1. /\ pc[l] = "cons_store" /\ pc' = [pc EXCEPT ![l] = "check"]
        /\ UNCHANGED <<userVars, commands, handle_weak>>
    BY <1>10, Zenon DEF ConsistentStore, Goto
  <2>2. "check" \in PCs \ {"none", "start"} /\ "check" \notin Holding
    BY Zenon DEF PCs, Holding
  <2>3. Unused' /\ Grounded' /\ LiveHandleMaintained'
    BY <2>1, <2>2, LoopMoves, Zenon
  <2>4. TypeOK'
    BY <1>1, <1>2, <1>10, <2>1, <2>2, Zenon DEF ConsistentStore, TypeOK
  <2> QED
    BY <2>3, <2>4, Zenon DEF Inv
<1>11. CASE StopLoop(l)
  <2>1. /\ pc[l] = "check" /\ pc' = [pc EXCEPT ![l] = "done"]
        /\ UNCHANGED <<userVars, commands, handle_weak>>
        /\ ~Alive(handle_weak[l])
    BY <1>11, Zenon DEF StopLoop, Goto, StrongCount
  <2>2. "done" \in PCs \ {"none", "start"} /\ "done" \notin Holding
    BY Zenon DEF PCs, Holding
  <2>3. Unused' /\ Grounded' /\ LiveHandleMaintained'
    BY <2>1, <2>2, LoopMoves, Zenon
  <2>4. TypeOK'
    BY <1>1, <1>11, <2>1, <2>2, Zenon DEF StopLoop, TypeOK
  <2> QED
    BY <2>3, <2>4, Zenon DEF Inv
<1>12. CASE SignalReady(l)
  <2>1. /\ pc[l] = "check" /\ pc' = [pc EXCEPT ![l] = "sleep"]
        /\ UNCHANGED <<userVars, commands, handle_weak>>
    BY <1>12, Zenon DEF SignalReady, Goto
  <2>2. "sleep" \in PCs \ {"none", "start"} /\ "sleep" \notin Holding
    BY Zenon DEF PCs, Holding
  <2>3. Unused' /\ Grounded' /\ LiveHandleMaintained'
    BY <2>1, <2>2, LoopMoves, Zenon
  <2>4. TypeOK'
    BY <1>1, <1>12, <2>1, <2>2, Zenon DEF SignalReady, TypeOK
  <2> QED
    BY <2>3, <2>4, Zenon DEF Inv
<1>13. CASE Wake(l)
  <2>1. /\ pc[l] = "sleep" /\ pc' = [pc EXCEPT ![l] = "lookup"]
        /\ UNCHANGED <<userVars, commands, handle_weak>>
    BY <1>13, Zenon DEF Wake, Goto
  <2>2. "lookup" \in PCs \ {"none", "start"} /\ "lookup" \notin Holding
    BY Zenon DEF PCs, Holding
  <2>3. Unused' /\ Grounded' /\ LiveHandleMaintained'
    BY <2>1, <2>2, LoopMoves, Zenon
  <2>4. TypeOK'
    BY <1>1, <1>13, <2>1, <2>2, Zenon DEF Wake, TypeOK
  <2> QED
    BY <2>3, <2>4, Zenon DEF Inv
<1> QED
  BY <1>4, <1>5, <1>6, <1>7, <1>8, <1>9, <1>10, <1>11, <1>12, <1>13, Zenon
  DEF LoopStep

-----------------------------------------------------------------------------

(* A handle is reused only while it is alive.                              *)
LEMMA ReuseInv ==
  ASSUME Inv, NEW h \in Hosts, Reuse(h),
         UNCHANGED <<pc, handle_weak, watchVars, lbVars, dnsVars>>
  PROVE  Inv'
<1> USE DEF userVars, watchVars, lbVars, dnsVars
<1> DEFINE n == service_backends[h]
<1>1. TypeOK /\ Unused /\ Grounded /\ LiveHandleMaintained
  BY Zenon DEF Inv
<1>2. n \in Ids /\ n <= created /\ Alive(n)
  BY <1>1, Zenon DEF Reuse, Reusable, TypeOK, Unused
<1>3. \A i \in Ids : refs'[i] = IF i = n THEN refs[i] + 1 ELSE refs[i]
  BY <1>1, <1>2, Zenon DEF Reuse, TypeOK
<1>4. \A i \in Ids : Queued(i)' <=> Queued(i)
  BY Zenon DEF Reuse, Queued
<1>5. \A i \in Ids : Alive(i)' => Alive(i)
  BY <1>2, <1>3, Zenon DEF Alive
<1>6. TypeOK'
  BY <1>1, <1>2 DEF Reuse, TypeOK
<1>7. Unused'
  BY <1>1, <1>2, <1>3, <1>4, DnsBounds DEF Reuse, Unused, TypeOK, Ids
<1>8. Grounded'
  BY <1>1, Zenon DEF Reuse, Grounded
<1>9. LiveHandleMaintained'
  BY <1>1, <1>4, <1>5, Zenon DEF Reuse, LiveHandleMaintained
<1> QED
  BY <1>6, <1>7, <1>8, <1>9, Zenon DEF Inv

(* A handle is created only when the one the map knows is dead; any other  *)
(* handle of the host was dead already.                                    *)
LEMMA CreateInv ==
  ASSUME Inv, NEW h \in Hosts, Create(h),
         UNCHANGED <<pc, handle_weak, watchVars, lbVars, dnsVars>>
  PROVE  Inv'
<1> USE DEF userVars, watchVars, lbVars, dnsVars
<1> DEFINE n == created + 1
<1>1. TypeOK /\ Unused /\ Grounded /\ LiveHandleMaintained
  BY Zenon DEF Inv
<1>2. n \in Ids /\ n > created /\ created' = n /\ created \in Nat
  BY <1>1 DEF Create, TypeOK
<1>3. \A i \in Ids : Queued(i)' <=> (Queued(i) \/ i = n)
  BY <1>1, <1>2, QueuedAppend, Zenon DEF Create
<1>4. \A i \in Ids : /\ refs'[i] = IF i = n THEN 1 ELSE refs[i]
                     /\ host'[i] = IF i = n THEN h ELSE host[i]
  BY <1>1, <1>2, Zenon DEF Create, TypeOK
<1>5. \A g \in Hosts :
        service_backends'[g] = IF g = h THEN n ELSE service_backends[g]
  BY <1>1, <1>2, Zenon DEF Create, TypeOK
<1>6. \A i \in Ids : i # n /\ Alive(i)' => Alive(i)
  BY <1>4, Zenon DEF Alive
<1>7. TypeOK'
  <2>1. commands' \in Seq(Ids)
    BY <1>1, <1>2, AppendProperties, Zenon DEF Create, TypeOK
  <2> QED
    BY <1>1, <1>2, <2>1 DEF Create, TypeOK
<1>8. Unused'
  <2>1. ASSUME NEW i \in Ids, i > created'
        PROVE  refs'[i] = 0 /\ pc'[i] = "none" /\ ~Queued(i)'
    <3>1. i # n /\ i > created
      BY <2>1, <1>2 DEF Ids
    <3> QED
      BY <3>1, <1>1, <1>3, <1>4, Zenon DEF Unused
  <2>2. \A g \in Hosts : service_backends'[g] <= created'
    BY <1>1, <1>2, <1>5 DEF Unused, TypeOK, Ids
  <2>3. \A l \in Ids : handle_weak'[l] <= created'
    BY <1>1, <1>2 DEF Unused, TypeOK, Ids
  <2> QED
    BY <2>1, <2>2, <2>3, Zenon DEF Unused
<1>9. Grounded'
  <2>1. ASSUME NEW i \in Ids, i <= created'
        PROVE  host'[i] \in Hosts /\ service_backends'[host'[i]] # 0
    <3>1. i = n \/ i <= created
      BY <2>1, <1>2 DEF Ids
    <3>2. n # 0
      BY <1>2
    <3> QED
      BY <3>1, <3>2, <1>1, <1>4, <1>5, ZenonT(30) DEF Grounded
  <2> QED
    BY <2>1, <1>1, Zenon DEF Grounded
<1>10. ASSUME NEW i \in Ids, Alive(i)'
       PROVE  /\ service_backends'[host'[i]] = i
              /\ \/ Queued(i)' /\ pc'[i] = "none"
                 \/ pc'[i] = "start"
                 \/ pc'[i] \notin {"none", "start", "done"} /\ handle_weak'[i] = i
  <2>1. CASE i = n
    BY <2>1, <1>1, <1>2, <1>3, <1>4, <1>5, Zenon DEF Unused
  <2>2. CASE i # n
    <3>1. Alive(i)
      BY <2>2, <1>6, <1>10, Zenon
    <3>2. service_backends[host[i]] = i
      BY <3>1, <1>1, Zenon DEF LiveHandleMaintained
    <3>3. i <= created
      BY <3>1, <1>1, <1>2, DnsBounds DEF Alive, Unused, TypeOK, Ids
    <3>4. host[i] \in Hosts /\ host[i] # h
      BY <3>1, <3>2, <3>3, <1>1, DnsBounds, Zenon
      DEF Create, Reusable, Grounded, Ids
    <3> QED
      BY <2>2, <3>1, <3>2, <3>4, <1>1, <1>3, <1>4, <1>5 DEF LiveHandleMaintained
  <2> QED
    BY <2>1, <2>2, Zenon
<1>11. LiveHandleMaintained'
  BY <1>10, Zenon DEF LiveHandleMaintained
<1> QED
  BY <1>7, <1>8, <1>9, <1>11, Zenon DEF Inv

(* Dropping a reference brings nothing to life.                            *)
LEMMA ReleaseInv ==
  ASSUME Inv, NEW n \in Ids, Release(n)
  PROVE  Inv'
<1> USE DEF userVars, watchVars, lbVars, dnsVars
<1>1. TypeOK /\ Unused /\ Grounded /\ LiveHandleMaintained
  BY Zenon DEF Inv
<1>2. \A i \in Ids : refs'[i] = IF i = n THEN refs[i] - 1 ELSE refs[i]
  BY <1>1, Zenon DEF Release, TypeOK
<1>3. \A i \in Ids : Queued(i)' <=> Queued(i)
  BY Zenon DEF Release, Queued
<1>4. \A i \in Ids : Alive(i)' => Alive(i)
  BY <1>1, <1>2, Zenon DEF Release, Alive, TypeOK
<1>5. TypeOK'
  BY <1>1, <1>2 DEF Release, TypeOK
<1>6. Unused'
  BY <1>1, <1>2, <1>3 DEF Release, Unused, TypeOK
<1>7. Grounded'
  BY <1>1, Zenon DEF Release, Grounded
<1>8. LiveHandleMaintained'
  BY <1>1, <1>3, <1>4, Zenon DEF Release, LiveHandleMaintained
<1> QED
  BY <1>5, <1>6, <1>7, <1>8, Zenon DEF Inv

(* The command of a handle becomes its loop.                               *)
LEMMA StartInv ==
  ASSUME Inv, StartDiscoveryLoop
  PROVE  Inv'
<1> USE DEF userVars, watchVars, lbVars, dnsVars
<1> DEFINE n == Head(commands)
<1>1. TypeOK /\ Unused /\ Grounded /\ LiveHandleMaintained
  BY Zenon DEF Inv
<1>2. /\ n \in Ids /\ Queued(n)
      /\ \A i \in Ids : Queued(i)' => Queued(i)
      /\ \A i \in Ids : Queued(i) /\ i # n => Queued(i)'
  BY <1>1, QueuedTail, Zenon DEF StartDiscoveryLoop
<1>3. \A i \in Ids : pc'[i] = IF i = n THEN "start" ELSE pc[i]
  BY <1>1, <1>2, Zenon DEF StartDiscoveryLoop, TypeOK
<1>4. \A i \in Ids : Alive(i)' => Alive(i)
  BY <1>3 DEF StartDiscoveryLoop, Alive, Holding
<1>5. TypeOK'
  <2>1. commands' \in Seq(Ids)
    BY <1>1, HeadTailProperties, Zenon DEF StartDiscoveryLoop, TypeOK
  <2> QED
    BY <1>1, <1>2, <2>1, Zenon DEF StartDiscoveryLoop, TypeOK, PCs
<1>6. Unused'
  BY <1>1, <1>2, <1>3, Zenon DEF StartDiscoveryLoop, Unused
<1>7. Grounded'
  BY <1>1, <1>3, Zenon DEF StartDiscoveryLoop, Grounded
<1>8. LiveHandleMaintained'
  BY <1>1, <1>2, <1>3, <1>4 DEF StartDiscoveryLoop, LiveHandleMaintained
<1> QED
  BY <1>5, <1>6, <1>7, <1>8, Zenon DEF Inv

(* Steps that leave handles and loops alone: a change of the DNS records,  *)
(* and stuttering.                                                         *)
LEMMA OtherInv ==
  ASSUME Inv, UNCHANGED vars \/ \E h \in Hosts : DnsChange(h)
  PROVE  Inv'
<1> USE DEF userVars, watchVars, lbVars, dnsVars, vars
<1>1. UNCHANGED <<userVars, commands, pc, handle_weak, watchVars, lbVars>>
  BY Zenon DEF DnsChange
<1>2. dns' \in [Hosts -> SUBSET Addrs] /\ dnsChanges' \in Nat
  <2>1. dns \in [Hosts -> SUBSET Addrs] /\ dnsChanges \in Nat
    BY Zenon DEF Inv, TypeOK
  <2>2. CASE UNCHANGED vars
    BY <2>1, <2>2, Zenon
  <2>3. ASSUME NEW h \in Hosts, DnsChange(h)
        PROVE  dns' \in [Hosts -> SUBSET Addrs] /\ dnsChanges' \in Nat
    BY <2>1, <2>3 DEF DnsChange
  <2> QED
    BY <2>2, <2>3, Zenon
<1>3. TypeOK'
  BY <1>1, <1>2, Zenon DEF Inv, TypeOK
<1>4. Unused' /\ Grounded' /\ LiveHandleMaintained'
  BY <1>1, ZenonT(30)
  DEF Inv, Unused, Grounded, LiveHandleMaintained, Alive, Queued
<1> QED
  BY <1>3, <1>4, Zenon DEF Inv

(* The invariant is inductive.                                             *)
LEMMA NextInv == Inv /\ [Next]_vars => Inv'
<1> SUFFICES ASSUME Inv, [Next]_vars PROVE Inv'
  BY Zenon
<1>1. CASE \E h \in Hosts : BackendsForHostname(h)
  BY <1>1, ReuseInv, CreateInv, Zenon DEF BackendsForHostname
<1>2. CASE \E i \in Ids : Release(i)
  BY <1>2, ReleaseInv, Zenon
<1>3. CASE StartDiscoveryLoop
  BY <1>3, StartInv, Zenon
<1>4. CASE \E l \in Ids : LoopStep(l) \/ LookupSucceeds(l)
  BY <1>4, LoopInv, Zenon
<1>5. CASE UNCHANGED vars \/ \E h \in Hosts : DnsChange(h)
  BY <1>5, OtherInv, Zenon
<1> QED
  BY <1>1, <1>2, <1>3, <1>4, <1>5, Zenon DEF Next

(* The variables of the discovery service keep their types; in particular  *)
(* no loop stores backends into a handle that does not exist.              *)
THEOREM TypeCorrect == Spec => []TypeOK
<1>1. Inv => TypeOK
  BY Zenon DEF Inv
<1> QED
  BY InitInv, NextInv, <1>1, PTL DEF Spec

(* backends_for_hostname and dns_discovery_loop together: a handle that is *)
(* in use is the one its host maps to, and its own loop is queued or       *)
(* running and watches it.                                                 *)
THEOREM HandlesAlwaysMaintained == Spec => []LiveHandleMaintained
<1>1. Inv => LiveHandleMaintained
  BY Zenon DEF Inv
<1> QED
  BY InitInv, NextInv, <1>1, PTL DEF Spec

-----------------------------------------------------------------------------
(***************************************************************************)
(* The service implements Discovery for every handle in use that no second *)
(* loop has adopted (ImplementsDiscovery), and such a handle's balancers   *)
(* hold what its watch announces whenever its loop rests                   *)
(* (RestingLoopHasStored).                                                 *)
(*                                                                         *)
(* The strengthening says for every place of a loop how the watch and the  *)
(* two balancers of its handle compare (Stage).  Other loops cannot        *)
(* disturb it: they store into the handles they watch, and for a handle    *)
(* that is Sole those are others.                                          *)
(***************************************************************************)

Fresh == {"none", "start"}

(* Nothing is known before a loop starts and before a handle exists.       *)
Pristine ==
  /\ \A l \in Ids : pc[l] \in Fresh => handle_weak[l] = 0 /\ backends[l] = {}
  /\ \A i \in Ids : i > created => rr[i] = {} /\ cons[i] = {}
  /\ \A h \in Hosts : dns[h] # {}

(* A loop is started once: its command is queued once, and not after it.   *)
StartedOnce ==
  /\ \A j, k \in DOMAIN commands : commands[j] = commands[k] => j = k
  /\ \A i \in Ids : Queued(i) => pc[i] = "none"

Watched(i) == Alive(i) /\ Sole(i)

Stage(i) ==
  /\ pc[i] \in Fresh => rr[i] = {} /\ cons[i] = {}
  /\ pc[i] \in {"lookup", "check", "sleep"} =>
       rr[i] = backends[i] /\ cons[i] = backends[i]
  /\ pc[i] = "check" => backends[i] # {}
  /\ pc[i] \in {"upgrade", "rr_discover", "rr_store"} =>
       rr[i] = cons[i] /\ rr[i] # backends[i] /\ backends[i] # {}
  /\ pc[i] \in {"cons_discover", "cons_store"} =>
       rr[i] = backends[i] /\ cons[i] # backends[i] /\ backends[i] # {}
  /\ pc[i] \in {"rr_store", "cons_store"} => got[i] = backends[i]

Stages == \A i \in Ids : Watched(i) => Stage(i)

RInv == Pristine /\ StartedOnce /\ Stages

Allowed(i) == D(i)!DiscoveryNext \/ UNCHANGED D(i)!discoveryVars

-----------------------------------------------------------------------------

(* There are no handles at first.                                          *)
LEMMA InitRInv == Init => RInv /\ \A i \in Ids : D(i)!DiscoveryInit
<1> SUFFICES ASSUME Init PROVE RInv /\ \A i \in Ids : D(i)!DiscoveryInit
  BY Zenon
<1>1. Pristine
  BY Zenon DEF Init, Pristine, Fresh
<1>2. Stages
  BY Zenon DEF Init, Stages, Stage, Fresh
<1>3. StartedOnce
  BY DEF Init, StartedOnce
<1>4. \A i \in Ids : D(i)!DiscoveryInit
  BY Zenon DEF Init, D!DiscoveryInit
<1> QED
  BY <1>1, <1>2, <1>3, <1>4, Zenon DEF RInv

(* A step that touches nothing of handle i and its loop.                   *)
LEMMA Untouched ==
  ASSUME NEW i \in Ids, Stages, Watched(i),
         pc'[i] = pc[i], got'[i] = got[i], backends'[i] = backends[i],
         ready'[i] = ready[i], rr'[i] = rr[i], cons'[i] = cons[i]
  PROVE  Stage(i)' /\ Allowed(i)
<1>1. Stage(i)
  BY Zenon DEF Stages
<1>2. Stage(i)'
  BY <1>1, Zenon DEF Stage
<1> QED
  BY <1>2, Zenon DEF Allowed, D!discoveryVars

(* A step of a loop brings no handle to life, and none becomes Sole again. *)
LEMMA LoopWatched ==
  ASSUME Inv, Inv', Pristine, NEW l \in Ids, LoopStep(l) \/ LookupSucceeds(l),
         NEW i \in Ids, Watched(i)'
  PROVE  Watched(i)
<1> USE DEF userVars, watchVars, lbVars, dnsVars
<1>1. TypeOK /\ TypeOK'
  BY Zenon DEF Inv
<1>2. \A k \in Ids \ {l} : pc'[k] = pc[k] /\ handle_weak'[k] = handle_weak[k]
  BY <1>1, ZenonT(30)
  DEF TypeOK, Goto, LoopStep, LookupSucceeds, FetchWeak, LookupFails,
       Upgrade, Discover, RoundRobinStore, ConsistentStore, StopLoop,
       SignalReady, Wake
<1>3. refs' = refs
  BY Zenon DEF LoopStep, LookupSucceeds, FetchWeak, LookupFails,
       Upgrade, Discover, RoundRobinStore, ConsistentStore, StopLoop,
       SignalReady, Wake
<1>4. handle_weak'[l] = handle_weak[l] \/ handle_weak[l] = 0
  <2>1. CASE FetchWeak(l)
    BY <2>1, Zenon DEF FetchWeak, Goto, Pristine, Fresh
  <2>2. CASE ~FetchWeak(l)
    BY <2>2, Zenon DEF LoopStep, LookupSucceeds, LookupFails,
       Upgrade, Discover, RoundRobinStore, ConsistentStore, StopLoop,
       SignalReady, Wake
  <2> QED
    BY <2>1, <2>2, Zenon
<1>5. pc'[l] \in Holding => handle_weak'[l] = handle_weak[l] /\ Alive(handle_weak[l])
  <2>1. CASE Upgrade(l)
    BY <2>1, <1>1, Zenon DEF Upgrade, Goto, Holding, TypeOK
  <2>2. CASE ~Upgrade(l)
    <3>1. pc'[l] \in Holding => pc[l] \in Holding /\ handle_weak' = handle_weak
      BY <1>1, <2>2 DEF TypeOK, Goto, LoopStep, LookupSucceeds, FetchWeak,
        LookupFails, Discover, RoundRobinStore, ConsistentStore, StopLoop,
        SignalReady, Wake, Holding
    <3> QED
      BY <3>1, Zenon DEF Alive
  <2> QED
    BY <2>1, <2>2, Zenon
<1>6. Alive(i)
  <2>1. CASE refs[i] > 0
    BY <2>1, Zenon DEF Alive
  <2>2. CASE ~(refs[i] > 0)
    <3>1. PICK k \in Ids : pc'[k] \in Holding /\ handle_weak'[k] = i
      BY <2>2, <1>3, Zenon DEF Watched, Alive
    <3>2. CASE k = l
      BY <3>1, <3>2, <1>5, Zenon
    <3>3. CASE k # l
      BY <3>1, <3>3, <1>2, Zenon DEF Alive
    <3> QED
      BY <3>2, <3>3, Zenon
  <2> QED
    BY <2>1, <2>2, Zenon
<1>7. Sole(i)
  <2>1. i # 0
    BY DnsBounds DEF Ids
  <2> QED
    BY <2>1, <1>2, <1>4, Zenon DEF Watched, Sole
<1> QED
  BY <1>6, <1>7, Zenon DEF Watched

(* The steps of a loop, for its own handle and for another one.            *)
LEMMA LoopAllowed ==
  ASSUME Inv, Inv', RInv, NEW l \in Ids, LoopStep(l) \/ LookupSucceeds(l),
         NEW i \in Ids, Watched(i)'
  PROVE  Stage(i)' /\ Allowed(i)
<1> USE DEF userVars, watchVars, lbVars, dnsVars
<1>1. TypeOK /\ TypeOK' /\ Unused /\ Grounded /\ Pristine /\ Stages
  BY Zenon DEF Inv, RInv
<1>2. Watched(i) /\ Stage(i)
  BY <1>1, LoopWatched, Zenon DEF Stages
<1>3. CASE i # l
  <2>1. handle_weak[l] # i
    BY <1>2, <1>3, Zenon DEF Watched, Sole
  <2>2. pc'[i] = pc[i] /\ got'[i] = got[i]
    BY <1>1, <1>3, ZenonT(30)
    DEF TypeOK, Goto, LoopStep, LookupSucceeds, FetchWeak,
       LookupFails, Upgrade, Discover, RoundRobinStore, ConsistentStore,
       StopLoop, SignalReady, Wake
  <2>3. backends'[i] = backends[i] /\ ready'[i] = ready[i]
    BY <1>1, <1>3, Zenon DEF TypeOK, LoopStep, LookupSucceeds, FetchWeak,
       LookupFails, Upgrade, Discover, RoundRobinStore, ConsistentStore,
       StopLoop, SignalReady, Wake
  <2>4. rr'[i] = rr[i] /\ cons'[i] = cons[i]
    BY <1>1, <2>1, Zenon DEF TypeOK, LoopStep, LookupSucceeds, FetchWeak,
       LookupFails, Upgrade, Discover, RoundRobinStore, ConsistentStore,
       StopLoop, SignalReady, Wake
  <2> QED
    BY <1>1, <1>2, <2>2, <2>3, <2>4, Untouched, Zenon
<1>4. CASE i = l
  <2>1. Alive(l) /\ LiveHandleMaintained
    BY <1>2, <1>4, Zenon DEF Watched, Inv
  <2>2. pc[l] \notin Fresh => handle_weak[l] = l
    BY <2>1, Zenon DEF LiveHandleMaintained, Fresh
  <2>3. pc[l] \in PCs /\ dns \in [Hosts -> SUBSET Addrs]
    BY <1>1, Zenon DEF TypeOK
  <2>4. Stage(l)
    BY <1>2, <1>4, Zenon
  <2>5. CASE FetchWeak(l)
    BY <2>4, <2>5, <1>1, <1>4, Zenon
    DEF FetchWeak, Goto, Stage, Pristine, Fresh, TypeOK, Allowed,
        D!discoveryVars
  <2>6. CASE LookupFails(l) \/ Wake(l)
    <3>1. /\ pc[l] \in {"lookup", "sleep"} /\ pc'[l] \in {"sleep", "done", "lookup"}
          /\ UNCHANGED <<watchVars, lbVars>>
      BY <2>6, <1>1, ZenonT(30) DEF LookupFails, Wake, Goto, TypeOK
    <3> QED
      BY <3>1, <2>4, <1>4, Zenon DEF Stage, Fresh, Allowed, D!discoveryVars
  <2>7. CASE LookupSucceeds(l)
    <3> DEFINE addrs == dns[host[l]]
    <3>1. l <= created /\ host[l] \in Hosts
      <4>1. pc[l] = "lookup"
        BY <2>7, Zenon DEF LookupSucceeds, Goto
      <4>2. ~(l > created)
        BY <1>1, <4>1, Zenon DEF Unused
      <4>3. l \in Nat /\ created \in Nat
        BY <1>1, DnsBounds DEF TypeOK, Ids
      <4>4. l <= created
        BY <4>2, <4>3
      <4> QED
        BY <1>1, <4>4, Zenon DEF Grounded
    <3>2. addrs \in SUBSET Addrs /\ addrs # {}
      BY <3>1, <2>3, <1>1, Zenon DEF Pristine
    <3>3. /\ pc[l] = "lookup"
          /\ pc'[l] = IF backends[l] # addrs THEN "upgrade" ELSE "check"
          /\ backends'[l] = addrs
          /\ UNCHANGED <<ready, lbVars>>
      BY <2>7, <1>1, Zenon DEF LookupSucceeds, Goto, TypeOK
    <3>4. rr[l] = backends[l] /\ cons[l] = backends[l]
      BY <3>3, <2>4, Zenon DEF Stage
    <3>5. Stage(l)'
      BY <3>2, <3>3, <3>4, Zenon DEF Stage, Fresh
    <3>6. Allowed(l)
      BY <3>2, <3>3, <3>4, Zenon
      DEF Allowed, D!DiscoveryNext, D!Announce, D!discoveryVars
    <3> QED
      BY <3>5, <3>6, <1>4, Zenon
  <2>8. CASE Upgrade(l)
    <3>1. handle_weak[l] = l
      BY <2>2, <2>8, Zenon DEF Upgrade, Goto, Fresh
    <3>2. /\ pc[l] = "upgrade" /\ pc'[l] = "rr_discover"
          /\ UNCHANGED <<watchVars, lbVars>>
      BY <3>1, <2>1, <2>8, <1>1, ZenonT(30) DEF Upgrade, Goto, TypeOK
    <3> QED
      BY <3>2, <2>4, <1>4, Zenon DEF Stage, Fresh, Allowed, D!discoveryVars
  <2>9. CASE \/ Discover(l, "rr_discover", "rr_store")
             \/ Discover(l, "cons_discover", "cons_store")
    <3>1. handle_weak[l] = l
      BY <2>2, <2>9, Zenon DEF Discover, Goto, Fresh
    <3>2. /\ \/ pc[l] = "rr_discover" /\ pc'[l] = "rr_store"
             \/ pc[l] = "cons_discover" /\ pc'[l] = "cons_store"
          /\ got'[l] = backends[l]
          /\ UNCHANGED <<watchVars, rr, cons>>
      BY <3>1, <2>9, <1>1 DEF Discover, Goto, TypeOK
    <3> QED
      BY <3>2, <2>4, <1>4, Zenon DEF Stage, Fresh, Allowed, D!discoveryVars
  <2>10. CASE RoundRobinStore(l)
    <3>1. handle_weak[l] = l
      BY <2>2, <2>10, Zenon DEF RoundRobinStore, Goto, Fresh
    <3>2. /\ pc[l] = "rr_store" /\ pc'[l] = "cons_discover"
          /\ rr'[l] = got[l]
          /\ UNCHANGED <<watchVars, got, cons>>
      BY <3>1, <2>10, <1>1, Zenon DEF RoundRobinStore, Goto, TypeOK
    <3>3. /\ rr[l] # backends[l] /\ backends[l] # {}
          /\ rr[l] = cons[l] /\ got[l] = backends[l]
      BY <3>2, <2>4, Zenon DEF Stage
    <3>4. Stage(l)'
      BY <3>2, <3>3, Zenon DEF Stage, Fresh
    <3>5. Allowed(l)
      BY <3>2, <3>3, Zenon DEF Allowed, D!DiscoveryNext, D!StoreRoundRobin
    <3> QED
      BY <3>4, <3>5, <1>4, Zenon
  <2>11. CASE ConsistentStore(l)
    <3>1. handle_weak[l] = l
      BY <2>2, <2>11, Zenon DEF ConsistentStore, Goto, Fresh
    <3>2. /\ pc[l] = "cons_store" /\ pc'[l] = "check"
          /\ cons'[l] = got[l]
          /\ UNCHANGED <<watchVars, got, rr>>
      BY <3>1, <2>11, <1>1, Zenon DEF ConsistentStore, Goto, TypeOK
    <3>3. /\ rr[l] = backends[l] /\ backends[l] # {}
          /\ cons[l] # backends[l] /\ got[l] = backends[l]
      BY <3>2, <2>4, Zenon DEF Stage
    <3>4. Stage(l)'
      BY <3>2, <3>3, Zenon DEF Stage, Fresh
    <3>5. Allowed(l)
      BY <3>2, <3>3, Zenon DEF Allowed, D!DiscoveryNext, D!StoreConsistent
    <3> QED
      BY <3>4, <3>5, <1>4, Zenon
  <2>12. CASE StopLoop(l)
    BY <2>1, <2>2, <2>12, Zenon DEF StopLoop, Goto, StrongCount, Fresh
  <2>13. CASE SignalReady(l)
    <3>1. /\ pc[l] = "check" /\ pc'[l] = "sleep"
          /\ ready'[l] = TRUE
          /\ UNCHANGED <<backends, lbVars>>
      BY <2>13, <1>1, Zenon DEF SignalReady, Goto, TypeOK
    <3>2. rr[l] = backends[l] /\ cons[l] = backends[l] /\ backends[l] # {}
      BY <3>1, <2>4, Zenon DEF Stage
    <3>3. Stage(l)'
      BY <3>1, <3>2, Zenon DEF Stage, Fresh
    <3>4. Allowed(l)
      BY <3>1, <3>2, Zenon DEF Allowed, D!DiscoveryNext, D!SignalReady
    <3> QED
      BY <3>3, <3>4, <1>4, Zenon
  <2> QED
    BY <2>5, <2>6, <2>7, <2>8, <2>9, <2>10, <2>11, <2>12, <2>13, <1>4, Zenon
    DEF LoopStep
<1> QED
  BY <1>3, <1>4, Zenon

(* A step of a loop keeps the strengthening and is allowed for every       *)
(* watched handle.                                                         *)
LEMMA LoopRInv ==
  ASSUME Inv, Inv', RInv, NEW l \in Ids, LoopStep(l) \/ LookupSucceeds(l)
  PROVE  RInv' /\ \A i \in Ids : Watched(i)' => Allowed(i)
<1> USE DEF userVars, watchVars, lbVars, dnsVars
<1>1. TypeOK /\ Unused /\ Pristine /\ StartedOnce
  BY ZenonT(30) DEF Inv, RInv
<1>2. /\ UNCHANGED <<created, commands, dns>>
      /\ \A k \in Ids \ {l} : /\ pc'[k] = pc[k]
                              /\ handle_weak'[k] = handle_weak[k]
                              /\ backends'[k] = backends[k]
      /\ pc[l] # "none" /\ pc'[l] \notin Fresh
  BY <1>1 DEF TypeOK, Goto, LoopStep, LookupSucceeds, FetchWeak, LookupFails,
     Upgrade, Discover, RoundRobinStore, ConsistentStore, StopLoop,
     SignalReady, Wake, Fresh
<1>3. ASSUME NEW i \in Ids, i > created
      PROVE  rr'[i] = rr[i] /\ cons'[i] = cons[i]
  <2>1. handle_weak[l] # i
    BY <1>1, <1>3, DnsBounds DEF Unused, TypeOK, Ids
  <2> QED
    BY <2>1, <1>1, Zenon DEF TypeOK, LoopStep, LookupSucceeds, FetchWeak,
       LookupFails, Upgrade, Discover, RoundRobinStore, ConsistentStore,
       StopLoop, SignalReady, Wake
<1>4. Pristine'
  BY <1>1, <1>2, <1>3, ZenonT(30) DEF Pristine
<1>5. StartedOnce'
  BY <1>1, <1>2, Zenon DEF StartedOnce, Queued
<1>6. \A i \in Ids : Watched(i)' => Stage(i)' /\ Allowed(i)
  BY LoopAllowed, Zenon
<1> QED
  BY <1>4, <1>5, <1>6, Zenon DEF RInv, Stages

-----------------------------------------------------------------------------

(* A step that leaves loops, watches and balancers alone and brings no     *)
(* handle to life.                                                         *)
LEMMA QuietAllowed ==
  ASSUME Stages, UNCHANGED <<pc, handle_weak, watchVars, lbVars>>,
         NEW i \in Ids, Alive(i)' => Alive(i), Watched(i)'
  PROVE  Stage(i)' /\ Allowed(i)
<1>1. Watched(i)
  BY Zenon DEF Watched, Sole
<1> QED
  BY <1>1, Untouched, Zenon DEF watchVars, lbVars

(* A new handle has no loop yet, and its balancers are empty.              *)
LEMMA CreateRInv ==
  ASSUME Inv, RInv, NEW h \in Hosts, Create(h),
         UNCHANGED <<pc, handle_weak, watchVars, lbVars, dnsVars>>
  PROVE  RInv' /\ \A i \in Ids : Watched(i)' => Allowed(i)
<1> USE DEF watchVars, lbVars, dnsVars
<1> DEFINE n == created + 1
<1>1. TypeOK /\ Unused /\ Pristine /\ StartedOnce /\ Stages
  BY Zenon DEF Inv, RInv
<1>2. n \in Ids /\ created' = n /\ created \in Nat /\ commands \in Seq(Ids)
  BY <1>1, Zenon DEF Create, TypeOK
<1>3. pc[n] = "none" /\ ~Queued(n) /\ rr[n] = {} /\ cons[n] = {}
  BY <1>1, <1>2 DEF Unused, Pristine
<1>4. \A i \in Ids : Queued(i)' <=> (Queued(i) \/ i = n)
  BY <1>1, <1>2, QueuedAppend, Zenon DEF Create
<1>5. Pristine'
  <2>1. \A i \in Ids : i > created' => i > created
    BY <1>2 DEF Ids
  <2> QED
    BY <1>1, <2>1, Zenon DEF Pristine
<1>6. StartedOnce'
  <2>1. Len(commands) \in Nat /\ DOMAIN commands = 1 .. Len(commands)
    BY <1>2, LenProperties, Zenon
  <2>2. /\ DOMAIN commands' = 1 .. Len(commands) + 1
        /\ \A k \in 1 .. Len(commands) : commands'[k] = commands[k]
        /\ commands'[Len(commands) + 1] = n
    BY <1>2, <2>1, AppendProperties DEF Create
  <2>3. \A k \in 1 .. Len(commands) : commands[k] # n
    BY <1>3, <2>1, Zenon DEF Queued
  <2>4. ASSUME NEW j \in 1 .. Len(commands) + 1,
               NEW k \in 1 .. Len(commands) + 1, commands'[j] = commands'[k]
        PROVE  j = k
    <3>1. \A m \in 1 .. Len(commands) + 1 :
            m = Len(commands) + 1 \/ m \in 1 .. Len(commands)
      BY <2>1
    <3> QED
      BY <3>1, <2>1, <2>2, <2>3, <2>4, <1>1, Zenon DEF StartedOnce
  <2> QED
    BY <2>2, <2>4, <1>1, <1>3, <1>4, Zenon DEF StartedOnce
<1>7. ASSUME NEW i \in Ids, Watched(i)'
      PROVE  Stage(i)' /\ Allowed(i)
  <2>1. CASE i = n
    BY <2>1, <1>3, Zenon DEF Stage, Fresh, Allowed, D!discoveryVars
  <2>2. CASE i # n
    <3>1. refs'[i] = refs[i]
      BY <2>2, <1>1, <1>2, Zenon DEF Create, TypeOK
    <3>2. Alive(i)' => Alive(i)
      BY <3>1, Zenon DEF Alive
    <3> QED
      BY <3>2, <1>1, <1>7, QuietAllowed, Zenon
  <2> QED
    BY <2>1, <2>2, Zenon
<1> QED
  BY <1>5, <1>6, <1>7, Zenon DEF RInv, Stages

(* The command of a handle becomes its loop.                               *)
LEMMA StartRInv ==
  ASSUME Inv, RInv, StartDiscoveryLoop
  PROVE  RInv' /\ \A i \in Ids : Watched(i)' => Allowed(i)
<1> USE DEF userVars, watchVars, lbVars, dnsVars
<1> DEFINE n == Head(commands)
<1>1. TypeOK /\ Pristine /\ StartedOnce /\ Stages
  BY Zenon DEF Inv, RInv
<1>2. /\ n \in Ids /\ Queued(n)
      /\ \A i \in Ids : Queued(i)' => Queued(i)
  BY <1>1, QueuedTail, Zenon DEF StartDiscoveryLoop
<1>3. pc[n] = "none" /\ \A i \in Ids : pc'[i] = IF i = n THEN "start" ELSE pc[i]
  BY <1>1, <1>2, Zenon DEF StartDiscoveryLoop, TypeOK, StartedOnce
<1>4. Pristine'
  BY <1>1, <1>3, ZenonT(30) DEF StartDiscoveryLoop, Pristine, Fresh
<1>5. StartedOnce'
  <2>1. commands \in Seq(Ids) /\ commands # <<>>
    BY <1>1, Zenon DEF TypeOK, StartDiscoveryLoop
  <2>2. Len(commands) \in Nat \ {0} /\ DOMAIN commands = 1 .. Len(commands)
    BY <2>1, LenProperties, EmptySeq, Zenon
  <2>3. Len(commands') = Len(commands) - 1 /\ commands' \in Seq(Ids)
    BY <2>1, HeadTailProperties, Zenon DEF StartDiscoveryLoop
  <2>4. DOMAIN commands' = 1 .. Len(commands) - 1
    BY <2>3, LenProperties, Zenon
  <2>5. n = commands[1]
    BY <2>1, HeadTailProperties
  <2>6. \A k \in 1 .. Len(commands) - 1 :
          commands'[k] = commands[k + 1] /\ k + 1 \in DOMAIN commands
    BY <2>1, <2>2, <2>3, HeadTailProperties DEF StartDiscoveryLoop
  <2>7. ASSUME NEW j \in 1 .. Len(commands) - 1,
               NEW k \in 1 .. Len(commands) - 1, commands'[j] = commands'[k]
        PROVE  j = k
    BY <2>2, <2>6, <2>7, <1>1 DEF StartedOnce
  <2>8. ASSUME NEW i \in Ids, Queued(i)'
        PROVE  i # n
    <3>1. PICK k \in 1 .. Len(commands) - 1 : commands'[k] = i
      BY <2>4, <2>8, Zenon DEF Queued
    <3>2. commands[k + 1] = i /\ k + 1 \in DOMAIN commands /\ k + 1 # 1
      BY <3>1, <2>6
    <3> QED
      BY <3>2, <2>2, <2>5, <1>1 DEF StartedOnce
  <2>9. ASSUME NEW i \in Ids, Queued(i)'
        PROVE  pc'[i] = "none"
    BY <2>8, <2>9, <1>1, <1>2, <1>3, Zenon DEF StartedOnce
  <2> QED
    BY <2>4, <2>7, <2>9, Zenon DEF StartedOnce
<1>6. ASSUME NEW i \in Ids, Watched(i)'
      PROVE  Stage(i)' /\ Allowed(i)
  <2>1. Watched(i)
    BY <1>6, <1>3 DEF StartDiscoveryLoop, Watched, Alive, Sole, Holding
  <2>2. CASE i = n
    BY <2>1, <2>2, <1>1, <1>3
    DEF StartDiscoveryLoop, Stages, Stage, Fresh, Allowed, D!discoveryVars
  <2>3. CASE i # n
    BY <2>1, <2>3, <1>1, <1>3, Untouched, Zenon DEF StartDiscoveryLoop
  <2> QED
    BY <2>2, <2>3, Zenon
<1> QED
  BY <1>4, <1>5, <1>6, Zenon DEF RInv, Stages

(* The steps that only move references or DNS records, and stuttering.     *)
LEMMA QuietRInv ==
  ASSUME Inv, RInv,
         \/ \E h \in Hosts : Reuse(h) /\ UNCHANGED dnsVars
         \/ \E i \in Ids : Release(i)
         \/ \E h \in Hosts : DnsChange(h)
         \/ UNCHANGED vars,
         UNCHANGED <<pc, handle_weak, watchVars, lbVars>>
  PROVE  RInv' /\ \A i \in Ids : Watched(i)' => Allowed(i)
<1> USE DEF userVars, dnsVars
<1>1. TypeOK /\ Pristine /\ StartedOnce /\ Stages
  BY Zenon DEF Inv, RInv
<1>2. UNCHANGED <<created, commands>>
  BY Zenon DEF Reuse, Release, DnsChange, vars
<1>3. \A h \in Hosts : dns'[h] # {}
  <2>1. ASSUME NEW h \in Hosts, DnsChange(h)
        PROVE  \A g \in Hosts : dns'[g] # {}
    BY <2>1, <1>1, Zenon DEF DnsChange, TypeOK, Pristine
  <2>2. CASE UNCHANGED dns
    BY <2>2, <1>1, Zenon DEF Pristine
  <2> QED
    BY <2>1, <2>2, Zenon DEF Release, vars
<1>4. \A i \in Ids : Alive(i)' => Alive(i)
  <2>1. CASE UNCHANGED refs
    BY <2>1, Zenon DEF Alive
  <2>2. ASSUME NEW n \in Ids, Release(n), NEW i \in Ids, Alive(i)'
        PROVE  Alive(i)
    BY <2>2, <1>1, Zenon DEF Release, Alive, TypeOK
  <2>3. ASSUME NEW h \in Hosts, Reuse(h), NEW i \in Ids, Alive(i)'
        PROVE  Alive(i)
    BY <2>3, <1>1, Zenon DEF Reuse, Reusable, Alive, TypeOK
  <2> QED
    BY <2>1, <2>2, <2>3, Zenon DEF DnsChange, vars
<1>5. Pristine'
  BY <1>1, <1>2, <1>3, Zenon DEF Pristine, watchVars, lbVars
<1>6. StartedOnce'
  BY <1>1, <1>2, Zenon DEF StartedOnce, Queued
<1>7. \A i \in Ids : Watched(i)' => Stage(i)' /\ Allowed(i)
  BY <1>1, <1>4, QuietAllowed, Zenon
<1> QED
  BY <1>5, <1>6, <1>7, Zenon DEF RInv, Stages

(* Every step preserves the strengthening and is allowed.                  *)
LEMMA NextRInv ==
  ASSUME Inv, Inv', RInv, [Next]_vars
  PROVE  RInv' /\ \A i \in Ids : Watched(i)' => Allowed(i)
<1> USE DEF userVars, watchVars, lbVars, dnsVars
<1>1. CASE \E h \in Hosts : BackendsForHostname(h)
  BY <1>1, CreateRInv, QuietRInv, Zenon DEF BackendsForHostname
<1>2. CASE \E i \in Ids : Release(i)
  <2>1. UNCHANGED <<pc, handle_weak, watchVars, lbVars>>
    BY <1>2, Zenon DEF Release
  <2> QED
    BY <2>1, <1>2, QuietRInv, Zenon
<1>3. CASE StartDiscoveryLoop
  BY <1>3, StartRInv, Zenon
<1>4. CASE \E l \in Ids : LoopStep(l) \/ LookupSucceeds(l)
  BY <1>4, LoopRInv, Zenon
<1>5. CASE \E h \in Hosts : DnsChange(h)
  <2>1. UNCHANGED <<pc, handle_weak, watchVars, lbVars>>
    BY <1>5, Zenon DEF DnsChange
  <2> QED
    BY <2>1, <1>5, QuietRInv, Zenon
<1>6. CASE UNCHANGED vars
  BY <1>6, QuietRInv, Zenon DEF vars
<1> QED
  BY <1>1, <1>2, <1>3, <1>4, <1>5, <1>6, Zenon DEF Next

(* dns_discovery_loop never rests with an announced change that is not in  *)
(* both load balancers of its handle.                                      *)
THEOREM RestingLoopsHaveStored == Spec => []RestingLoopHasStored
<1>1. Inv /\ RInv /\ [Next]_vars => RInv'
  BY NextInv, NextRInv, Zenon
<1>2. RInv => RestingLoopHasStored
  BY Zenon DEF RInv, Stages, Watched, Stage, RestingLoopHasStored
<1>3. Init => RInv
  BY InitRInv, Zenon
<1> QED
  BY InitInv, NextInv, <1>1, <1>2, <1>3, PTL DEF Spec

(* backends_for_hostname, Service::start and dns_discovery_loop together   *)
(* give each handle in use what Discovery specifies.                       *)
THEOREM DnsImplementsDiscovery == Spec => ImplementsDiscovery
<1> DEFINE Simulates ==
      \A i \in Ids :
        (Alive(i) /\ Sole(i))' =>
          D(i)!DiscoveryNext \/ UNCHANGED D(i)!discoveryVars
<1>1. Inv /\ RInv /\ [Next]_vars => RInv' /\ Simulates
  BY NextInv, NextRInv, Zenon DEF Watched, Allowed
<1>2. Init => RInv /\ \A i \in Ids : D(i)!DiscoveryInit
  BY InitRInv, Zenon
<1>3. Inv /\ RInv /\ [Next]_vars => [Simulates]_vars
  BY <1>1, Zenon
<1> HIDE DEF Simulates
<1>4. Spec => [][Simulates]_vars
  BY InitInv, NextInv, <1>1, <1>2, <1>3, PTL DEF Spec
<1>5. Spec => \A i \in Ids : D(i)!DiscoveryInit
  BY <1>2, PTL DEF Spec
<1> QED
  BY <1>4, <1>5, Zenon DEF ImplementsDiscovery, Simulates

-----------------------------------------------------------------------------
(***************************************************************************)
(* A ready handle has backends to select from (SoleReadyHasBackends).  The *)
(* argument is about Discovery alone: no step it allows signals ready      *)
(* before the stores, announces an empty set or stores one.  It carries    *)
(* over because a handle that is Watched was Watched before, or is new.    *)
(***************************************************************************)

ReadyInv ==
  /\ \A l \in Ids : pc[l] \in Fresh => ready[l] = FALSE
  /\ \A i \in Ids :
       Watched(i) /\ ready[i] = TRUE =>
         backends[i] # {} /\ rr[i] # {} /\ cons[i] # {}

(* Discovery keeps a ready handle's backends.                              *)
LEMMA AllowedKeepsBackends ==
  ASSUME NEW i \in Ids, Allowed(i),
         ready[i] = TRUE =>
           backends[i] # {} /\ rr[i] # {} /\ cons[i] # {}
  PROVE  ready'[i] = TRUE =>
           backends'[i] # {} /\ rr'[i] # {} /\ cons'[i] # {}
<1>1. CASE D(i)!Announce
  BY <1>1, Zenon DEF D!Announce
<1>2. CASE D(i)!StoreRoundRobin
  BY <1>2, Zenon DEF D!StoreRoundRobin
<1>3. CASE D(i)!StoreConsistent
  BY <1>3, Zenon DEF D!StoreConsistent
<1>4. CASE D(i)!SignalReady
  BY <1>4, Zenon DEF D!SignalReady
<1>5. CASE UNCHANGED D(i)!discoveryVars
  BY <1>5, Zenon DEF D!discoveryVars
<1> QED
  BY <1>1, <1>2, <1>3, <1>4, <1>5, Zenon DEF Allowed, D!DiscoveryNext

(* A handle in use that no second loop watches was so before, or is new.   *)
LEMMA WatchedBefore ==
  ASSUME Inv, Inv', RInv, [Next]_vars, NEW i \in Ids, Watched(i)'
  PROVE  Watched(i) \/ (pc[i] = "none" /\ ready' = ready)
<1> USE DEF userVars, watchVars, lbVars, dnsVars
<1>1. TypeOK /\ Unused /\ Pristine
  BY Zenon DEF Inv, RInv
<1>2. ASSUME UNCHANGED <<pc, handle_weak>>, Alive(i)' => Alive(i)
      PROVE  Watched(i)
  BY <1>2, Zenon DEF Watched, Sole
<1>3. ASSUME NEW h \in Hosts, BackendsForHostname(h)
      PROVE  Watched(i) \/ (pc[i] = "none" /\ ready' = ready)
  <2>1. UNCHANGED <<pc, handle_weak>> /\ ready' = ready
    BY <1>3, Zenon DEF BackendsForHostname
  <2>2. CASE Reuse(h)
    <3>1. Alive(i)' => Alive(i)
      BY <2>1, <2>2, <1>1, Zenon DEF Reuse, Reusable, Alive, TypeOK
    <3> QED
      BY <1>2, <2>1, <3>1, Zenon
  <2>3. CASE Create(h)
    <3>1. CASE i = created + 1
      BY <2>1, <3>1, <1>1 DEF Unused, TypeOK
    <3>2. CASE i # created + 1
      <4>1. refs'[i] = refs[i]
        BY <2>3, <3>2, <1>1, Zenon DEF Create, TypeOK
      <4>2. Alive(i)' => Alive(i)
        BY <2>1, <4>1, Zenon DEF Alive
      <4> QED
        BY <1>2, <2>1, <4>2, Zenon
    <3> QED
      BY <3>1, <3>2, Zenon
  <2> QED
    BY <1>3, <2>2, <2>3, Zenon DEF BackendsForHostname
<1>4. ASSUME NEW n \in Ids, Release(n)
      PROVE  Watched(i)
  <2>1. UNCHANGED <<pc, handle_weak>> /\ (Alive(i)' => Alive(i))
    BY <1>4, <1>1, Zenon DEF Release, Alive, TypeOK
  <2> QED
    BY <1>2, <2>1, Zenon
<1>5. CASE StartDiscoveryLoop
  <2>1. \A l \in Ids : pc'[l] \in Holding => pc[l] \in Holding
    BY <1>1, <1>5, Zenon DEF StartDiscoveryLoop, TypeOK, Holding
  <2> QED
    BY <1>5, <2>1, Zenon DEF StartDiscoveryLoop, Watched, Alive, Sole
<1>6. CASE \E l \in Ids : LoopStep(l) \/ LookupSucceeds(l)
  BY <1>6, <1>1, LoopWatched, Zenon
<1>7. CASE (\E h \in Hosts : DnsChange(h)) \/ UNCHANGED vars
  <2>1. UNCHANGED <<pc, handle_weak, refs>>
    BY <1>7, Zenon DEF DnsChange, vars
  <2>2. Alive(i)' => Alive(i)
    BY <2>1, Zenon DEF Alive
  <2> QED
    BY <1>2, <2>1, <2>2, Zenon
<1> QED
  BY <1>3, <1>4, <1>5, <1>6, <1>7, Zenon DEF Next

(* No step of a loop that has not looked its handle up signals ready.      *)
LEMMA FreshNotReady ==
  ASSUME Inv, RInv, [Next]_vars,
         \A l \in Ids : pc[l] \in Fresh => ready[l] = FALSE
  PROVE  \A l \in Ids : pc'[l] \in Fresh => ready'[l] = FALSE
<1> USE DEF userVars, watchVars, lbVars, dnsVars
<1>1. TypeOK
  BY Zenon DEF Inv
<1>2. CASE UNCHANGED <<pc, ready>>
  BY <1>2, Zenon
<1>3. CASE StartDiscoveryLoop
  <2>1. Head(commands) \in Ids /\ Queued(Head(commands))
    BY <1>1, <1>3, QueuedTail, ZenonT(30) DEF StartDiscoveryLoop
  <2> QED
    BY <1>1, <1>3, <2>1, Zenon
    DEF StartDiscoveryLoop, TypeOK, Fresh, RInv, StartedOnce
<1>4. ASSUME NEW k \in Ids, LoopStep(k) \/ LookupSucceeds(k)
      PROVE  /\ \A l \in Ids : pc'[l] \in Fresh => pc[l] \in Fresh /\ l # k
             /\ \A l \in Ids \ {k} : ready'[l] = ready[l]
  BY <1>1, <1>4
  DEF TypeOK, Fresh, Goto, LoopStep, LookupSucceeds, FetchWeak, LookupFails,
      Upgrade, Discover, RoundRobinStore, ConsistentStore, StopLoop,
      SignalReady, Wake
<1>5. CASE \E k \in Ids : LoopStep(k) \/ LookupSucceeds(k)
  BY <1>4, <1>5, Zenon
<1> QED
  BY <1>2, <1>3, <1>5, Zenon
  DEF Next, BackendsForHostname, Release, DnsChange, vars

(* The ready watch of a handle in use that no second loop has adopted says *)
(* what its doc promises.                                                  *)
THEOREM SoleReadyAlwaysHasBackends == Spec => []SoleReadyHasBackends
<1>1. Init => ReadyInv
  BY Zenon DEF Init, ReadyInv
<1>2. ASSUME Inv, Inv', RInv, ReadyInv, [Next]_vars
      PROVE  ReadyInv'
  <2>1. \A l \in Ids : pc'[l] \in Fresh => ready'[l] = FALSE
    BY <1>2, FreshNotReady, Zenon DEF ReadyInv
  <2>2. ASSUME NEW i \in Ids, Watched(i)'
        PROVE  ready'[i] = TRUE =>
                 backends'[i] # {} /\ rr'[i] # {} /\ cons'[i] # {}
    <3>1. Allowed(i)
      BY <1>2, <2>2, NextRInv, Zenon
    <3>2. CASE Watched(i)
      BY <1>2, <3>1, <3>2, AllowedKeepsBackends, Zenon DEF ReadyInv
    <3>3. CASE pc[i] = "none" /\ ready' = ready
      BY <1>2, <3>3, Zenon DEF ReadyInv, Fresh
    <3> QED
      BY <1>2, <2>2, <3>2, <3>3, WatchedBefore, Zenon
  <2> QED
    BY <2>1, <2>2, Zenon DEF ReadyInv
<1>3. Inv /\ RInv /\ ReadyInv /\ [Next]_vars => RInv' /\ ReadyInv'
  BY <1>2, NextInv, NextRInv, Zenon
<1>4. Inv /\ ReadyInv => SoleReadyHasBackends
  BY Zenon DEF Inv, TypeOK, ReadyInv, Watched, Alive, SoleReadyHasBackends
<1>5. Init => RInv
  BY InitRInv, Zenon
<1> QED
  BY InitInv, NextInv, <1>1, <1>3, <1>4, <1>5, PTL DEF Spec

=============================================================================
