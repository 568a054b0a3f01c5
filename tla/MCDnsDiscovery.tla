-------------------------- MODULE MCDnsDiscovery --------------------------
(* DnsDiscovery with handles that die and are created again.               *)
EXTENDS DnsDiscovery
=============================================================================
