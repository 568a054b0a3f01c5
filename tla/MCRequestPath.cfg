SPECIFICATION Spec
CONSTANTS
  p = p
  q = q
  s = s
  get = get
  list = list
  malformed = malformed
  te = te
  lang = lang
  b1 = b1
  b2 = b2
  NoBody = NoBody
  Services <- MCServices
  Methods = {get, list}
  Inputs <- MCInputs
  Core = {te}
  Sources <- MCSources
  Replicas = {p1, p2}
  Nil = Nil
  MaxSkew = 1
  FreshFor = 1
  StaleFor = 1
  Pieces = 1
  Trailers <- MCTrailers
  Requests = {r1, r2}
  MaxReloads = 1
  MaxTime = 3
SYMMETRY Symmetry
INVARIANTS TypeOK UnwrapsHold ServedWithinFreshness StoredAfterTrailers
CHECK_DEADLOCK FALSE
