--------------------------- MODULE MCServiceStore ---------------------------
(* ServiceStore on two objects that may declare either of two services.    *)
EXTENDS ServiceStore
=============================================================================
