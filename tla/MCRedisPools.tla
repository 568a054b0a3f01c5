---------------------------- MODULE MCRedisPools ----------------------------
(* RedisPools with three replicas.                                         *)
EXTENDS RedisPools
=============================================================================
