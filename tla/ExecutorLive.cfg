CONSTANTS
  Tasks = {t1, t2, t3}
  Runners = {r1}
  Limited = {r1}
  None = None
SPECIFICATION LiveSpec
PROPERTIES PostedExecuted DeadlineHonoured RunEnds
CHECK_DEADLOCK FALSE
