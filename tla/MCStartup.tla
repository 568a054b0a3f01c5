----------------------------- MODULE MCStartup -----------------------------
(* Startup with the three endpoints of the proxy.                          *)
EXTENDS Startup
=============================================================================
