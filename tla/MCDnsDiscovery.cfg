SPECIFICATION FairSpec
CONSTANTS
  Hosts = {h1}
  Nil = Nil
  Addrs = {a1, a2}
  MaxHandles = 2
  MaxRefs = 2
  MaxDnsChanges = 1
INVARIANTS LiveHandleMaintained RestingLoopHasStored SoleReadyHasBackends
PROPERTIES ImplementsDiscovery LoopsStop BackendsConverge
CHECK_DEADLOCK FALSE
