CONSTANTS
  Tasks = {t1, t2}
  Runners = {r1}
  Limited = {}
  None = None
SPECIFICATION Spec
PROPERTY ErrorReported
CHECK_DEADLOCK FALSE
