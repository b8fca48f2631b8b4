SPECIFICATION Spec
CONSTANTS
  s1 = s1
  s2 = s2
  Snapshotters = {s1, s2}
  Graphs <- MCGraphs
  Trigger <- AllManual
  Backends = {"memory", "postgres"}
  ClockOffset <- Behind
  MaxSnapshots = 3
  MaxChanges = 2
  MaxFailures = 1
CHECK_DEADLOCK FALSE
INVARIANTS
  TypeOK
  BaselineFirst
  BaselineSilent
  EventsExplained
  ResultDurable
  NewContractReported
