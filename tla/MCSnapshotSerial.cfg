SPECIFICATION Spec
CONSTANTS
  s1 = s1
  s2 = s2
  Snapshotters = {s1}
  Graphs <- MCGraphs
  Trigger <- AllManual
  Backends = {"memory", "postgres"}
  ClockOffset <- NoOffset
  MaxSnapshots = 4
  MaxChanges = 3
  MaxFailures = 0
CHECK_DEADLOCK FALSE
PROPERTIES
  ImplementsLog
