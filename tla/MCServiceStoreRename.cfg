SPECIFICATION Spec
CONSTANTS
  Refs = {1, 2}
  Names = {a, b, bad}
  BadNames = {bad}
  Hosts = {h1, h2}
  Sources = {s1}
  Passthrough = passthrough
  Nil = Nil
  MaxGeneration = 4
INVARIANT UnloadedWithoutObject
CHECK_DEADLOCK FALSE
