CONSTANTS
  Tasks = {s1, u1, h1, h2}
  Scheduled = {s1}
  Handlers = {h1, h2}
  Plain = {h1}
  First = first
  Second = second
  Runners = {first, second}
  Limited = {}
  None = None
SPECIFICATION InstanceLiveSpec
INVARIANTS InstanceTypeOK ResolvedComplete ExitReachesAll
PROPERTY InitiateSettles
CHECK_DEADLOCK FALSE
