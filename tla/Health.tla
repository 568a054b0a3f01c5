------------------------------- MODULE Health -------------------------------
(***************************************************************************)
(* The readiness tracker (grcache-shared/src/health.rs): a counter of      *)
(* endpoints that have not indicated readiness, and a watch that turns     *)
(* true when the counter reaches zero.                                     *)
(*                                                                         *)
(* ready() runs on any thread and is three atomic steps: the swap that     *)
(* lets one call of an endpoint through, the decrement, and the send by    *)
(* the call that took the counter to zero.  A call that loses the swap     *)
(* changes nothing.  Dropping an endpoint calls ready().                   *)
(***************************************************************************)
EXTENDS Naturals, FiniteSets

CONSTANTS
  Endpoints,   \* every HealthEndpoint of a behaviour
  Root         \* the one Health::new returns

ASSUME EndpointsAssumption == IsFiniteSet(Endpoints) /\ Root \in Endpoints

VARIABLES
  ready_blocks,        \* State::ready_blocks
  ready,               \* State::ready
  can_indicate_ready,  \* endpoints whose flag is set
  swapped,             \* endpoints with a call between swap and fetch_sub
  last,                \* endpoints with a call between fetch_sub and send
  live,                \* endpoints that exist and are not dropped
  added,               \* endpoints ever created
  warned               \* add() met a counter that was already zero

vars == <<ready_blocks, ready, can_indicate_ready, swapped, last, live, added,
          warned>>

(* Health::new.                                                            *)
Init ==
  /\ ready_blocks = 1
  /\ ready = FALSE
  /\ can_indicate_ready = {Root}
  /\ swapped = {}
  /\ last = {}
  /\ live = {Root}
  /\ added = {Root}
  /\ warned = FALSE

(* Mutant: the counter is not incremented for the new endpoint.            *)
MutAddBlocking(e) ==
  /\ e \in Endpoints \ added
  /\ can_indicate_ready' = can_indicate_ready \cup {e}
  /\ live' = live \cup {e}
  /\ added' = added \cup {e}
  /\ warned' = (warned \/ ready_blocks = 0)
  /\ UNCHANGED <<ready_blocks, ready, swapped, last>>

(* add(true).                                                              *)
AddBlocking(e) ==
  /\ e \in Endpoints \ added
  /\ ready_blocks' = ready_blocks + 1
  /\ warned' = (warned \/ ready_blocks = 0)
  /\ can_indicate_ready' = can_indicate_ready \cup {e}
  /\ live' = live \cup {e}
  /\ added' = added \cup {e}
  /\ UNCHANGED <<ready, swapped, last>>

(* add(false): the flag is clear, the endpoint never counts.               *)
Add(e) ==
  /\ e \in Endpoints \ added
  /\ live' = live \cup {e}
  /\ added' = added \cup {e}
  /\ UNCHANGED <<ready_blocks, ready, can_indicate_ready, swapped, last,
                 warned>>

(* Mutant: the flag is read but not cleared, so a second call passes too.  *)
MutSwap(e) ==
  /\ e \in can_indicate_ready
  /\ swapped' = swapped \cup {e}
  /\ UNCHANGED can_indicate_ready

(* ready(): the swap.  Two calls cannot both find the flag set.            *)
Swap(e) ==
  /\ e \in can_indicate_ready
  /\ can_indicate_ready' = can_indicate_ready \ {e}
  /\ swapped' = swapped \cup {e}

Ready(e) ==
  /\ e \in live
  /\ Swap(e)
  /\ UNCHANGED <<ready_blocks, ready, last, live, added, warned>>

(* Mutant: the call that finds the counter at zero is taken for the last.  *)
MutIsLast == ready_blocks = 0

(* before_count == 1.                                                      *)
IsLast == ready_blocks = 1

FetchSub(e) ==
  /\ e \in swapped
  /\ swapped' = swapped \ {e}
  /\ ready_blocks' = ready_blocks - 1
  /\ last' = IF IsLast THEN last \cup {e} ELSE last
  /\ UNCHANGED <<ready, can_indicate_ready, live, added, warned>>

Send(e) ==
  /\ e \in last
  /\ last' = last \ {e}
  /\ ready' = TRUE
  /\ UNCHANGED <<ready_blocks, can_indicate_ready, swapped, live, added,
                 warned>>

(* Drop of an endpoint whose flag is clear.  Borrowing rules out a drop    *)
(* while another call is under way; a drop with the flag set is Ready      *)
(* followed by this.                                                       *)
Drop(e) ==
  /\ e \in live \ (can_indicate_ready \cup swapped \cup last)
  /\ live' = live \ {e}
  /\ UNCHANGED <<ready_blocks, ready, can_indicate_ready, swapped, last, added,
                 warned>>

Next ==
  \E e \in Endpoints :
    \/ AddBlocking(e)
    \/ Add(e)
    \/ Ready(e)
    \/ FetchSub(e)
    \/ Send(e)
    \/ Drop(e)

Spec == Init /\ [][Next]_vars

(* A call of ready() that has begun runs to its end.                       *)
FairSpec == Spec /\ \A e \in Endpoints : WF_vars(FetchSub(e) \/ Send(e))

-----------------------------------------------------------------------------
(* Properties.                                                             *)

(* The variables have their types.                                         *)
TypeOK ==
  /\ ready_blocks \in Nat
  /\ ready \in BOOLEAN
  /\ can_indicate_ready \subseteq Endpoints
  /\ swapped \subseteq Endpoints
  /\ last \subseteq Endpoints
  /\ live \subseteq Endpoints
  /\ added \subseteq Endpoints
  /\ warned \in BOOLEAN

(* Endpoints whose decrement is still to come.                             *)
Pending == can_indicate_ready \cup swapped

(* The counter is exactly the number of endpoints that have not been       *)
(* counted off: however the calls of ready(), the drops and the additions  *)
(* interleave it never wraps below zero and never stays above it.          *)
CountsPending == ready_blocks = Cardinality(Pending)

(* The watch is true only after every blocking endpoint has indicated      *)
(* readiness, unless add() has logged its warning: that test of the        *)
(* counter misses no endpoint that comes too late.                         *)
ReadyMeansAll == ready /\ ~warned => Pending = {}

(* The comment in drop: there is no state "where we never indicate ready   *)
(* even if there are no non ready endpoints".                              *)
NeverStuck == (Pending = {}) ~> ready

=============================================================================
