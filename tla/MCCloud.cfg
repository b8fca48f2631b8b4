SPECIFICATION Spec
CONSTANTS
  Users = {alice, bob}
  Workers = {w1, w2}
  None = None
  Worlds <- MCWorlds
  Origins <- MCOrigins
  Elsewhere <- MCElsewhere
  Fleets <- MCFleets
  Scopes <- MCScopes
  LexicalOrder <- MCLexicalOrder
  MaxFiles = 2
  MaxCommits = 1
  MaxProjects = 2
  MaxAnalyses = 2
SYMMETRY Symmetry
INVARIANTS
  TypeOK
  ServedToOwner
  DriftExplained
  PinnedSync
  MergeFaithful
