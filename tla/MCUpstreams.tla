---------------------------- MODULE MCUpstreams ----------------------------
(* Upstreams on one object that is moved between services and hosts.       *)
EXTENDS Upstreams
=============================================================================
