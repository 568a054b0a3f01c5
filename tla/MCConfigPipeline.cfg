SPECIFICATION PipelineSpec
CONSTANTS
  Refs = {1, 2}
  Names = {a, b, bad}
  BadNames = {bad}
  Hosts = {h1}
  Sources = {s1}
  Passthrough = passthrough
  Nil = Nil
  MaxGeneration = 9
  MaxVersion = 3
  MaxErrors = 1
INVARIANTS
  CaughtUp MemoryIsView IndexConsistent NewestWins UnloadedUnlessRenamed
  CaughtUpIsServed
PROPERTIES
  ImplementsView ReadyIsCaughtUp GenerationsAdvance ReadyIsServed
  ObjectsConverge ServicesConverge
CHECK_DEADLOCK FALSE
