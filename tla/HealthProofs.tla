---------------------------- MODULE HealthProofs ----------------------------
(***************************************************************************)
(* Proofs about Health and Startup, for any finite set of endpoints.       *)
(*                                                                         *)
(* ReadyMeansAll needs to know about calls that have taken the counter to  *)
(* zero and not sent yet (`last'), and that needs the counter to be exact. *)
(***************************************************************************)
EXTENDS Startup, FiniteSetTheorems, TLAPS

(* What a call between its decrement and its send relies on.               *)
LastMeansAll == last # {} /\ ~warned => Pending = {}

(* An endpoint is counted once: its flag is clear while a call runs.       *)
CountedOnce ==
  /\ can_indicate_ready \cap swapped = {}
  /\ Pending \subseteq added

Inv ==
  TypeOK /\ CountedOnce /\ CountsPending /\ LastMeansAll /\ ReadyMeansAll

(* The endpoints still to be counted off are finitely many.                *)
LEMMA PendingFinite ==
  ASSUME TypeOK
  PROVE  IsFiniteSet(Pending) /\ Cardinality(Pending) \in Nat
<1>1. Pending \subseteq Endpoints
  BY DEF TypeOK, Pending
<1>2. IsFiniteSet(Pending)
  BY <1>1, EndpointsAssumption, FS_Subset
<1> QED
  BY <1>2, FS_CardinalityType

(* A counter at zero means that no endpoint is left, and the reverse.      *)
LEMMA ZeroMeansNone ==
  ASSUME TypeOK, CountsPending
  PROVE  ready_blocks = 0 <=> Pending = {}
BY PendingFinite, FS_EmptySet DEF CountsPending

(* Health::new: the root endpoint is the one counted.                      *)
LEMMA InitInv == Init => Inv
<1> SUFFICES ASSUME Init PROVE Inv
  OBVIOUS
<1>1. Pending = {Root}
  BY DEF Init, Pending
<1>2. CountsPending
  BY <1>1, FS_Singleton DEF Init, CountsPending
<1> QED
  BY <1>1, <1>2, EndpointsAssumption
  DEF Init, Inv, TypeOK, CountedOnce, LastMeansAll, ReadyMeansAll, Pending

(* add(true): one more endpoint and one more block, or the warning.        *)
LEMMA AddBlockingInv ==
  ASSUME Inv, NEW e \in Endpoints, AddBlocking(e)
  PROVE  Inv'
<1>1. Pending' = Pending \cup {e} /\ e \notin Pending
  BY DEF AddBlocking, Pending, Inv, CountedOnce
<1>2. CountsPending'
  <2>1. Cardinality(Pending \cup {e}) = Cardinality(Pending) + 1
    BY <1>1, PendingFinite, FS_AddElement DEF Inv
  <2> QED
    BY <1>1, <2>1 DEF AddBlocking, Inv, CountsPending
<1>3. TypeOK' /\ CountedOnce'
  BY <1>1 DEF AddBlocking, Inv, TypeOK, CountedOnce, Pending
<1>4. ~warned' => ~warned /\ Pending # {}
  BY ZeroMeansNone DEF AddBlocking, Inv
<1>5. LastMeansAll' /\ ReadyMeansAll'
  BY <1>4 DEF AddBlocking, Inv, LastMeansAll, ReadyMeansAll
<1> QED
  BY <1>2, <1>3, <1>5 DEF Inv

(* The decrement: the call that sees one is the last of them.              *)
LEMMA FetchSubInv ==
  ASSUME Inv, NEW e \in Endpoints, FetchSub(e)
  PROVE  Inv'
<1>1. Pending' = Pending \ {e} /\ e \in Pending
  BY DEF FetchSub, Pending, Inv, CountedOnce
<1>2. /\ IsFiniteSet(Pending)
      /\ Cardinality(Pending \ {e}) = Cardinality(Pending) - 1
      /\ Cardinality(Pending \ {e}) \in Nat
      /\ ready_blocks = Cardinality(Pending)
  <2>1. IsFiniteSet(Pending) /\ IsFiniteSet(Pending \ {e})
    BY PendingFinite, FS_Subset DEF Inv
  <2> QED
    BY <1>1, <2>1, FS_RemoveElement, FS_CardinalityType DEF Inv, CountsPending
<1>3. CountsPending' /\ ready_blocks' \in Nat
  BY <1>1, <1>2 DEF FetchSub, CountsPending
<1>4. TypeOK' /\ CountedOnce'
  BY <1>1, <1>3 DEF FetchSub, Inv, TypeOK, CountedOnce, Pending
<1>5. IsLast => Pending' = {}
  <2>1. IsLast => Cardinality(Pending \ {e}) = 0
    BY <1>2 DEF IsLast
  <2>2. IsFiniteSet(Pending \ {e})
    BY <1>2, FS_Subset
  <2> QED
    BY <1>1, <2>1, <2>2, FS_EmptySet
<1>6. LastMeansAll' /\ ReadyMeansAll'
  BY <1>1, <1>5 DEF FetchSub, Inv, LastMeansAll, ReadyMeansAll
<1> QED
  BY <1>3, <1>4, <1>6 DEF Inv

(* The other steps leave the endpoints to be counted off as they are.      *)
LEMMA OtherInv ==
  ASSUME Inv, NEW e \in Endpoints, Add(e) \/ Ready(e) \/ Send(e) \/ Drop(e)
  PROVE  Inv'
<1>1. CASE Add(e)
  BY <1>1 DEF Add, Inv, TypeOK, CountedOnce, CountsPending, LastMeansAll,
              ReadyMeansAll, Pending
<1>2. CASE Ready(e)
  <2>1. Pending' = Pending
    BY <1>2 DEF Ready, Swap, Pending
  <2>2. TypeOK' /\ CountedOnce'
    BY <1>2, <2>1 DEF Ready, Swap, Inv, TypeOK, CountedOnce
  <2> QED
    BY <1>2, <2>1, <2>2
    DEF Ready, Inv, CountsPending, LastMeansAll, ReadyMeansAll
<1>3. CASE Send(e)
  <2>1. Pending' = Pending
    BY <1>3 DEF Send, Pending
  <2> QED
    BY <1>3, <2>1 DEF Send, Inv, TypeOK, CountedOnce, CountsPending,
                      LastMeansAll, ReadyMeansAll
<1>4. CASE Drop(e)
  BY <1>4 DEF Drop, Inv, TypeOK, CountedOnce, CountsPending, LastMeansAll,
              ReadyMeansAll, Pending
<1> QED
  BY <1>1, <1>2, <1>3, <1>4

(* Every step preserves the invariant.                                     *)
LEMMA NextInv == Inv /\ [Next]_vars => Inv'
<1> SUFFICES ASSUME Inv, [Next]_vars PROVE Inv'
  OBVIOUS
<1>1. CASE Next
  BY <1>1, AddBlockingInv, FetchSubInv, OtherInv DEF Next
<1>2. CASE UNCHANGED vars
  BY <1>2 DEF vars, Inv, TypeOK, CountedOnce, CountsPending, LastMeansAll,
              ReadyMeansAll, Pending
<1> QED
  BY <1>1, <1>2

(* The inductive invariant, from which the theorems below follow.          *)
LEMMA SpecInv == Spec => []Inv
BY InitInv, NextInv, PTL DEF Spec

(* The state of the tracker keeps its types; in particular ready_blocks    *)
(* never goes below zero.                                                  *)
THEOREM TypeCorrect == Spec => []TypeOK
<1>1. Inv => TypeOK
  BY DEF Inv
<1> QED
  BY <1>1, SpecInv, PTL

(* The counter is exact for any number of endpoints and callers.           *)
THEOREM AlwaysCountsPending == Spec => []CountsPending
<1>1. Inv => CountsPending
  BY DEF Inv
<1> QED
  BY <1>1, SpecInv, PTL

(* The process is reported ready only after every endpoint is, unless      *)
(* add() has warned.                                                       *)
THEOREM ReadyAlwaysMeansAll == Spec => []ReadyMeansAll
<1>1. Inv => ReadyMeansAll
  BY DEF Inv
<1> QED
  BY <1>1, SpecInv, PTL

-----------------------------------------------------------------------------
(* Start-up.                                                               *)

(* What main and its unwinding do to the tracker are operations of Health. *)
LEMMA StartupSteps == [StartupNext]_startupVars => [Next]_vars
<1> SUFFICES ASSUME [StartupNext]_startupVars PROVE [Next]_vars
  OBVIOUS
<1> USE DEF Next
<1>1. CASE AssertFails \/ RunForever \/ ProcessEnds
  BY <1>1 DEF AssertFails, RunForever, ProcessEnds
<1>2. CASE AddConfigService \/ AddRedisBackend
  BY <1>2, Zenon DEF AddConfigService, AddRedisBackend, AddBlocking
<1>3. CASE RootReady
  BY <1>3, EndpointsAssumption DEF RootReady
<1>4. CASE Unwind
  BY <1>4, EndpointsAssumption DEF Unwind
<1>5. CASE CallEnds
  BY <1>5 DEF CallEnds
<1>6. CASE UNCHANGED startupVars
  BY <1>6 DEF startupVars
<1> QED
  BY <1>1, <1>2, <1>3, <1>4, <1>5, <1>6 DEF StartupNext

(* The tracker as main uses it is the tracker of Health, so the theorems   *)
(* above hold of the process, also while it unwinds.                       *)
THEOREM StartupUsesHealth == StartupSpec => Spec
<1>1. StartupInit => Init
  BY DEF StartupInit
<1> QED
  BY <1>1, StartupSteps, PTL DEF StartupSpec, Spec

=============================================================================
