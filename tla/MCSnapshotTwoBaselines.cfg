SPECIFICATION Spec
CONSTANTS
  s1 = s1
  s2 = s2
  Snapshotters = {s1, s2}
  Graphs <- MCGraphs
  Trigger <- AllManual
  Backends = {"memory", "postgres"}
  ClockOffset <- NoOffset
  MaxSnapshots = 2
  MaxChanges = 0
  MaxFailures = 0
CHECK_DEADLOCK FALSE
INVARIANTS
  OneBaseline
