SPECIFICATION FairSpec
CONSTANTS
  n1 = n1
  n2 = n2
  c1 = c1
  c2 = c2
  c3 = c3
  k1 = k1
  k2 = k2
  Nodes = {n1, n2}
  Calls = {c1, c2, c3}
  Keys = {k1, k2}
  Targets <- TheTargets
  Backends <- BothBackends
  MaxEntries = 1
  MaxIndexed = 2
  MaxExpiries = 1
  MaxFailures = 1
  NoCall = NoCall
  Postgres = Postgres
CHECK_DEADLOCK FALSE
INVARIANTS
  TypeOK
  OncePerNode
  LocksReferenced
  CapHeld
  RunFound
PROPERTIES
  CallsAnswered
