SPECIFICATION UpstreamsSpec
CONSTANTS
  Refs = {1}
  Names = {a}
  BadNames = {}
  Hosts = {h1, h2}
  Sources = {s1}
  Passthrough = passthrough
  Nil = Nil
  MaxGeneration = 3
  Addrs = {a1}
  MaxHandles = 2
  MaxRefs = 6
  Requests = {q1}
INVARIANTS RoutedIsMaintained RequestKeepsUpstream HeldIsUsed
PROPERTIES ReloadKeepsHandle UsesDiscovery UnusedUpstreamStops RoutedGetsBackends
CHECK_DEADLOCK FALSE
