CONSTANTS
  Tasks = {t1, t2, t3}
  Runners = {r1, r2}
  Limited = {r1}
  None = None
SPECIFICATION Spec
INVARIANTS TypeOK RunningExact PendingExact NoMissedWork
PROPERTY QuiescentReturn
SYMMETRY Symmetry
CHECK_DEADLOCK FALSE
