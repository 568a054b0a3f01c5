---------------------------- MODULE MCRequestPath ----------------------------
(* RequestPath with one service and its requests: with a vary header, with *)
(* a vary value that is not text, without a body, for a method that is not *)
(* cached, and with a path that does not parse.                            *)
EXTENDS RequestPath, TLC

CONSTANTS p, q, s, get, list, malformed, te, lang, b1, b2

MCServices == {[package |-> p, name |-> s]}

Input(method, body, vary) ==
  [path |-> [service |-> [package |-> p, name |-> s], method |-> method],
   body |-> body, headers |-> {te, lang}, vary |-> vary]

MCInputs ==
  {Input(get, b1, {[text |-> TRUE, names |-> {lang}]}),
   Input(get, b2, {[text |-> FALSE, names |-> {lang}]}),
   Input(get, NoBody, {}),
   Input(list, b1, {}),
   [path |-> malformed, body |-> b1, headers |-> {te}, vary |-> {}]}

Declared(package, ttl) ==
  [package |-> package, name |-> s, methods |-> [m \in {get} |-> ttl]]

(* A TTL within the freshness and one above it, the longer one declared    *)
(* again and for a service of the same name too; a TTL that is not valid,  *)
(* with no caching as the result; and sources that cannot be loaded.       *)
MCSources ==
  {[kind |-> "inline", set |-> <<Declared(p, 1)>>],
   [kind |-> "file",
    set |-> <<Declared(q, 0), Declared(p, 2), Declared(p, 0)>>],
   [kind |-> "inline", set |-> <<Declared(q, 3), Declared(p, -1)>>],
   [kind |-> "file", set |-> <<Declared(q, 1)>>],
   [kind |-> "file", set |-> Nil],
   [kind |-> "bucket", set |-> <<Declared(p, 1)>>]}

(* grpc-status: missing, zero, an error, and not a u8.                     *)
MCTrailers == {Absent, 0, 5, 256}

(* Requests and replicas are interchangeable.                              *)
Symmetry == Permutations(Requests) \cup Permutations(Replicas)
=============================================================================
