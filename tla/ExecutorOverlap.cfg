CONSTANTS
  Tasks = {t1}
  Runners = {r1, r2}
  Limited = {}
  None = None
SPECIFICATION LiveSpec
PROPERTY RunEnds
CHECK_DEADLOCK FALSE
