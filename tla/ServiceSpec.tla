---------------------------- MODULE ServiceSpec ----------------------------
(***************************************************************************)
(* How the caching options of a service come out of a descriptor set       *)
(* (grcache-shared/src/service/mod.rs, descriptor_set.rs).                 *)
(*                                                                         *)
(* A descriptor set is the sequence of the services its files declare, in  *)
(* file order, each with the package of its file; a method is a function   *)
(* value: its cache_ttl, Nil without the grcache option.  A source is      *)
(* where a set is loaded from, and what is found there (Nil when that      *)
(* cannot be read, decoded or parsed, or imports a file it lacks).         *)
(***************************************************************************)
EXTENDS Integers, Sequences

CONSTANT Nil

(* descriptor_set::from_source in the proxy, whose DummyPanicContext has   *)
(* no buckets.  Nil is an error or a panic: either ends the load.          *)
FromSource(source) == IF source.kind = "bucket" THEN Nil ELSE source.set

Matches(declared, service) ==
  declared.package = service.package /\ declared.name = service.name

(* find_service: the first declaration that matches.                       *)
FindService(set, service) ==
  LET found == {k \in DOMAIN set : Matches(set[k], service)}
  IN  IF found = {}
      THEN Nil
      ELSE set[CHOOSE k \in found : \A j \in found : k <= j]

(* MethodSpec::build's cache_spec: a negative cache_ttl is a validation    *)
(* error and the method has none, like a method without the option.        *)
CacheSpec(ttl) == IF ttl = Nil \/ ttl < 0 THEN Nil ELSE ttl

(* ServiceSpec::build_passthrough.                                         *)
BuildPassthrough == [methods |-> <<>>]

(* ServiceSpec::build of what from_source loads: Nil ends the load.        *)
Build(source, service) ==
  LET set == FromSource(source)
      declared == FindService(set, service)
  IN  IF set = Nil \/ declared = Nil
      THEN Nil
      ELSE [methods |-> [m \in DOMAIN declared.methods |->
                           CacheSpec(declared.methods[m])]]

=============================================================================
