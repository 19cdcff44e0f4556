--------------------------- MODULE ServiceLogger ----------------------------
(***************************************************************************)
(* packages/service/Logger.mjs: lines go to the console and into a queue   *)
(* of the last ones, once the service Process is there, which the first    *)
(* line asks for.  Lines are numbered in the order in which they are       *)
(* logged; the queue is the FIFO that Queue implements.                    *)
(***************************************************************************)
EXTENDS Naturals, Sequences

CONSTANTS Limit,    \* limit
          MaxLines  \* bound on lines logged

ASSUME LoggerAssumption == Limit \in Nat /\ MaxLines \in Nat

VARIABLES process,    \* what the cache of resolve() holds for Process
          lines,      \* history: how many have been logged
          waiting,    \* lines whose then() has not been called yet
          queue,
          delivered   \* history: lines pushed since the last read

loggerVars == <<process, lines, waiting, queue, delivered>>

LoggerInit ==
  /\ process = "absent" /\ lines = 0
  /\ waiting = <<>> /\ queue = <<>> /\ delivered = <<>>

\* Mutated form of Push, for LogHistory: the oldest line goes before the new
\* one is counted.
PushLate(n) ==
  /\ queue' = IF Limit < Len(queue) THEN Append(Tail(queue), n) ELSE Append(queue, n)
  /\ delivered' = Append(delivered, n)

Push(n) ==
  /\ queue' = IF Limit < Len(queue) + 1 THEN Tail(Append(queue, n)) ELSE Append(queue, n)
  /\ delivered' = Append(delivered, n)

\* The environment of the pair is undefined: env.TEST throws before the limit is
\* looked at.
PushThrows(n) ==
  /\ queue' = Append(queue, n)
  /\ delivered' = Append(delivered, n)

-----------------------------------------------------------------------------
\* proxy().  The first line has Process constructed: at once, in vain, which
\* throws and caches nothing, or later: what is cached then is a promise.
Log ==
  LET n == lines + 1
  IN /\ lines < MaxLines
     /\ lines' = n
     /\ \/ /\ process = "absent" /\ process' = "ready"
           /\ Push(n) /\ UNCHANGED waiting
        \/ /\ process = "absent"
           /\ UNCHANGED <<process, waiting, queue, delivered>>
        \/ /\ process \in {"absent", "promise"} /\ process' = "promise"
           /\ waiting' = Append(waiting, n)
           /\ UNCHANGED <<queue, delivered>>
        \/ /\ process = "ready"
           /\ Push(n) /\ UNCHANGED <<process, waiting>>
        \/ /\ process = "pair"
           /\ PushThrows(n) /\ UNCHANGED <<process, waiting>>

\* $get() is Instance.get(), whose promise gives the pair of value and error
\* (Executor.mjs:69), whatever became of the construction; the reaction caches
\* that.  What waits for the promise is called after it, line by line, and
\* lines may be logged in between.
Constructed ==
  /\ process = "promise" /\ process' = "pair"
  /\ UNCHANGED <<lines, waiting, queue, delivered>>

Deliver ==
  /\ process = "pair" /\ waiting # <<>>
  /\ PushThrows(Head(waiting)) /\ waiting' = Tail(waiting)
  /\ UNCHANGED <<process, lines>>

\* "Can only be used once (will clear the logs)"
GetRecentLogs ==
  /\ queue' = <<>> /\ delivered' = <<>>
  /\ UNCHANGED <<process, lines, waiting>>

LoggerNext == Log \/ Constructed \/ Deliver \/ GetRecentLogs

LoggerSpec == LoggerInit /\ [][LoggerNext]_loggerVars

-----------------------------------------------------------------------------
\* "The most recent console logs" (Logger.mjs:55) are the newest lines since the
\* last read, as many as there are up to the limit, in the order in which they
\* were logged, if Process was constructed at once.  If it was not, the limit
\* never applies, and nothing is forgotten that reached the queue.
LogHistory ==
  LET n == Len(delivered)
  IN IF process = "ready"
       THEN /\ queue = SubSeq(delivered, IF n > Limit THEN n - Limit + 1 ELSE 1, n)
            /\ \A i, j \in 1 .. n : i < j => delivered[i] < delivered[j]
       ELSE queue = delivered
=============================================================================
