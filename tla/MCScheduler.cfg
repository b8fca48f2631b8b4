SPECIFICATION FairSpec
CONSTANTS
  r1 = r1
  r2 = r2
  m1 = m1
  Free = Free
  Orphaned = Orphaned
  Snapshotters = {r1, r2, m1}
  Graphs <- MCGraphs
  Trigger <- MCTrigger
  Backends = {"postgres"}
  ClockOffset <- NoOffset
  MaxSnapshots = 3
  MaxChanges = 1
  MaxFailures = 1
CHECK_DEADLOCK FALSE
INVARIANTS
  SchedulerTypeOK
  SingleWhileSessionsHold
  OneBaselineWhileSessionsHold
  SerialHistory
  NotifiedStored
  ScheduledPaged
PROPERTIES
  Takeover
