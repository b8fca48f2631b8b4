SPECIFICATION Spec
CONSTANTS
  r1 = r1
  r2 = r2
  c1 = c1
  c2 = c2
  c3 = c3
  Replicas = {r1, r2}
  Callers = {c1, c2}
  Home <- TwoHomes
  Durability <- OnlyDurable
  MaxKeys = 4
  MaxFailures = 0
CHECK_DEADLOCK FALSE
PROPERTIES
  KeysNeverDropped
