CONSTANTS
  Tasks = {main, unlisten, closer}
  Scheduled = {main}
  Handlers = {unlisten, closer}
  Plain = {unlisten, closer}
  Main = main
  Unlisten = unlisten
  Closer = closer
  First = first
  Second = second
  Runners = {first, second}
  Limited = {}
  None = None
  Conns = {c1}
  Requests = {q1}
  Chain = 1
  MaxHops = 1
  MaxSource = 1
  Numbers <- MCNumbers
  OldLines <- MCOldLines
SPECIFICATION MCSpec
INVARIANT MiddlewareBlocks
CHECK_DEADLOCK FALSE
