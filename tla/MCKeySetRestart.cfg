SPECIFICATION Spec
CONSTANTS
  r1 = r1
  r2 = r2
  c1 = c1
  c2 = c2
  c3 = c3
  Replicas = {r1}
  Callers = {c1}
  Home <- OneHome
  Durability <- OnlyDurable
  MaxKeys = 3
  MaxFailures = 1
CHECK_DEADLOCK FALSE
INVARIANTS
  SignerSurvives
