-------------------------- MODULE MCConfigPipeline --------------------------
(* ConfigPipeline on two objects and three names, one without a dot.       *)
EXTENDS ConfigPipeline
=============================================================================
