CONSTANTS
  Keys = {k1, k2, k3}
  Vals = {n1, n2, n3}
  Names = {a1, a2, a3}
  Data = {d1, d2}
  Undefined = undefined
  Capacity = 2
  Callbacks = {c1, c2}
  Nobody = null
  MaxTimeout = 2
  Delays = {0, 1, 3}
  Early = 1
  MaxNow = 5
  Ids = {t1, t2, t3}
  NoId = noid
  Segments = {"a", "b", "c", "d"}
  x = x
  y = y
  Params = {x, y}
  Star = star
  Patterns <- MCPatterns
  Requests <- MCRequests
  MaxRoutes = 4
  Limit = 2
  MaxLines = 5
SPECIFICATION MCSpec
INVARIANTS BiMapConsistent RecentStays TimeoutExact ResolveSound ResolveComplete LogHistory
PROPERTIES LRUImplementsCache TimerImplementsDeadline TimerFires
CHECK_DEADLOCK FALSE
