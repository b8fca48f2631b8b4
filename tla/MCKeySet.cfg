SPECIFICATION FairSpec
CONSTANTS
  r1 = r1
  r2 = r2
  c1 = c1
  c2 = c2
  c3 = c3
  Replicas = {r1}
  Callers = {c1, c2}
  Home <- OneHome
  Durability <- BothDurabilities
  MaxKeys = 3
  MaxFailures = 2
CHECK_DEADLOCK FALSE
INVARIANTS
  TypeOK
  StoreIsCurrent
  SoleSigner
PROPERTIES
  KeysNeverDropped
  CallsReturn
