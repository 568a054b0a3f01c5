------------------------------ MODULE MCHealth ------------------------------
(* Health with the endpoints of main, the config loop and the Redis        *)
(* backend, and one of a further part.                                     *)
EXTENDS Health
=============================================================================
