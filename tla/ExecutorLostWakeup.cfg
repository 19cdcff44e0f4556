CONSTANTS
  Tasks = {t1, t2}
  Runners = {r1, r2}
  Limited = {r2}
  None = None
SPECIFICATION Spec
INVARIANT PostWakes
CHECK_DEADLOCK FALSE
