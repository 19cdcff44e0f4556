CONSTANTS
  Tasks = {main, unlisten, closer}
  Scheduled = {main}
  Handlers = {unlisten, closer}
  Plain = {unlisten, closer}
  Main = main
  Unlisten = unlisten
  Closer = closer
  First = first
  Second = second
  Runners = {first, second}
  Limited = {}
  None = None
  Conns = {c1, c2}
  Requests = {q1, q2}
  Chain = 2
  MaxHops = 1
  MaxSource = 2
  Numbers <- MCNumbers
  OldLines <- MCOldLines
SPECIFICATION MCSpec
INVARIANTS ServiceTypeOK ServiceReleased StatusTells RouterBlocks RenewFresh CountConsistent AnsweredReported
PROPERTIES StopsWhenTerminated EvaluateCurrent AnsweredInTheEnd
CHECK_DEADLOCK FALSE
