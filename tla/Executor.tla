------------------------------ MODULE Executor ------------------------------
(***************************************************************************)
(* packages/core/Executor.mjs: a queue of callbacks and a list of pending  *)
(* promises, driven by run().  JavaScript runs one turn at a time: stack   *)
(* is the call stack of the turn in progress, innermost frame last, and a  *)
(* promise reaction (Settle, Resume, FireTimer) waits until it is empty.   *)
(* While a callback is on top, its body may call the executor again.       *)
(*                                                                         *)
(* Only what the executor can tell apart is kept of a callback: whether it *)
(* returns, throws or gives a promise, and how that promise settles.       *)
(***************************************************************************)
EXTENDS Naturals, Sequences, FiniteSets

CONSTANTS Tasks,     \* the callbacks, each handed to the executor once
          Runners,   \* the calls of run()
          Limited,   \* those whose time argument can run out
          None

ASSUME ExecutorAssumption ==
  /\ IsFiniteSet(Tasks) /\ IsFiniteSet(Runners)
  /\ Limited \subseteq Runners
  /\ None \notin Runners

VARIABLES queue,     \* callbacks waiting to be executed
          pending,   \* the promises in this.pending
          wakeup,    \* whose race _wakeup resolves; None when it is noop
          running,   \* the counter _running
          stack,     \* frames of run(), poll() and callbacks in execution
          run,       \* where each run() stands
          race,      \* the promises given to the last Promise.race of a run
          outcome,   \* how that race is decided
          settled,   \* fired timers and called wakeups
          task,      \* what became of each callback
          expired    \* runs whose time is up

vars == <<queue, pending, wakeup, running, stack, run, race, outcome, settled,
          task, expired>>

Task(t) == <<"task", t>>     \* the promise wrapped of exec()
Timer(r) == <<"timer", r>>   \* the promise of the DeadlineTimer of a run
Wake(r) == <<"wake", r>>     \* the promise a waiting run resolves by _wakeup

Promises == {Task(t) : t \in Tasks} \cup {Timer(r) : r \in Runners}
              \cup {Wake(r) : r \in Runners}

Frame(kind, id, left, ran) == [kind |-> kind, id |-> id, left |-> left, ran |-> ran]
TaskFrame(t) == Frame("task", t, 0, FALSE)
RunFrame(r) == Frame("run", r, 0, FALSE)
\* left callbacks of the round remain, and one has been executed if ran.
PollFrame(r, left, ran) == Frame("poll", r, left, ran)

\* Below the last frame is the event loop.
EventLoopFrame == Frame("loop", None, 0, FALSE)
FrameAt(i) == IF i \in DOMAIN stack THEN stack[i] ELSE EventLoopFrame
Top == FrameAt(Len(stack))
Caller == FrameAt(Len(stack) - 1)
Idle == Top.kind = "loop"
Enter(frame) == stack' = Append(stack, frame)
Leave(n) == stack' = SubSeq(stack, 1, Len(stack) - n)

\* Code outside the executor is running: a turn of its own, or a callback.
UserCode == Top.kind \in {"loop", "task"}

Active(r) == run[r] \in {"running", "waiting"}

Init ==
  /\ queue = <<>> /\ pending = {} /\ wakeup = None /\ running = 0 /\ stack = <<>>
  /\ run = [r \in Runners |-> "idle"]
  /\ race = [r \in Runners |-> {}]
  /\ outcome = [r \in Runners |-> "open"]
  /\ settled = {}
  /\ task = [t \in Tasks |-> "new"]
  /\ expired = {}

-----------------------------------------------------------------------------
\* A promise settles: the first to settle decides each open race it is in.
Decided(p, how) ==
  [r \in Runners |-> IF run[r] = "waiting" /\ outcome[r] = "open" /\ p \in race[r]
                       THEN how ELSE outcome[r]]

CallWakeup ==
  \/ wakeup = None /\ UNCHANGED <<settled, outcome>>
  \/ /\ wakeup # None
     /\ settled' = settled \cup {Wake(wakeup)}
     /\ outcome' = Decided(Wake(wakeup), "resolved")

\* Mutated form of Post, for PostedExecuted: the run is not woken up.
PostSilently(t) ==
  /\ UserCode /\ task[t] = "new"
  /\ queue' = Append(queue, t)
  /\ task' = [task EXCEPT ![t] = "queued"]
  /\ UNCHANGED <<pending, wakeup, running, stack, run, race, expired, settled, outcome>>

Post(t) ==
  /\ UserCode /\ task[t] = "new"
  /\ queue' = Append(queue, t)
  /\ task' = [task EXCEPT ![t] = "queued"]
  /\ CallWakeup
  /\ UNCHANGED <<pending, wakeup, running, stack, run, race, expired>>

\* exec() calls the callback at once; Returns, Throws or Suspends ends the call.
Exec(t) ==
  /\ UserCode /\ task[t] = "new"
  /\ task' = [task EXCEPT ![t] = "called"]
  /\ Enter(TaskFrame(t))
  /\ UNCHANGED <<queue, pending, wakeup, running, run, race, outcome, settled, expired>>

Dispatch(t) ==
  /\ UserCode /\ task[t] = "new"
  /\ \/ running > 0 /\ Exec(t)
     \/ /\ running = 0
        /\ queue' = Append(queue, t)
        /\ task' = [task EXCEPT ![t] = "queued"]
        /\ UNCHANGED <<pending, wakeup, running, stack, run, race, outcome, settled, expired>>

-----------------------------------------------------------------------------
(* run() and poll().                                                       *)

Start(r) ==
  /\ UserCode /\ run[r] = "idle"
  /\ run' = [run EXCEPT ![r] = "running"]
  /\ running' = running + 1
  /\ pending' = pending \cup {Timer(r)}
  /\ Enter(RunFrame(r))
  /\ UNCHANGED <<queue, wakeup, race, outcome, settled, task, expired>>

\* Mutated form of End, for PendingExact: the timer stays in pending.
EndKeepsTimer(r, how) ==
  /\ run' = [run EXCEPT ![r] = how]
  /\ pending' = pending \ {Wake(r)}

\* The two finally blocks, left with or without an exception.
End(r, how) ==
  /\ run' = [run EXCEPT ![r] = how]
  /\ pending' = pending \ {Timer(r), Wake(r)}

\* Mutated form of RunReturns, for TypeOK: both finally blocks count down.
RunReturnsTwice(r) ==
  /\ Top = RunFrame(r)
  /\ r \in expired \/ (queue = <<>> /\ Cardinality(pending) <= 1)
  /\ End(r, "returned") /\ running' = running - 2
  /\ Leave(1)
  /\ UNCHANGED <<queue, wakeup, race, outcome, settled, task, expired>>

\* Mutated form of RunReturns, for QuiescentReturn: pending is not waited for.
RunReturnsEarly(r) ==
  /\ Top = RunFrame(r)
  /\ r \in expired \/ queue = <<>>
  /\ End(r, "returned") /\ running' = running - 1
  /\ Leave(1)
  /\ UNCHANGED <<queue, wakeup, race, outcome, settled, task, expired>>

\* 1 < pending.length: the timer of this run is always in pending.
RunReturns(r) ==
  /\ Top = RunFrame(r)
  /\ r \in expired \/ (queue = <<>> /\ Cardinality(pending) <= 1)
  /\ End(r, "returned") /\ running' = running - 1
  /\ Leave(1)
  /\ UNCHANGED <<queue, wakeup, race, outcome, settled, task, expired>>

\* this.poll(remaining) from the loop of run().
RunPolls(r) ==
  /\ Top = RunFrame(r)
  /\ r \notin expired /\ (queue # <<>> \/ Cardinality(pending) > 1)
  /\ running' = running + 1
  /\ Enter(PollFrame(r, 0, FALSE))
  /\ UNCHANGED <<queue, pending, wakeup, run, race, outcome, settled, task, expired>>

\* poll() called by other code.  On an empty queue it would change nothing.
Poll ==
  /\ UserCode /\ queue # <<>>
  /\ running' = running + 1
  /\ Enter(PollFrame(None, 0, FALSE))
  /\ UNCHANGED <<queue, pending, wakeup, run, race, outcome, settled, task, expired>>

Polling == Top.kind = "poll"

\* A round executes as many callbacks as were queued when it began.
PollRound ==
  /\ Polling /\ Top.left = 0 /\ queue # <<>> /\ Top.id \notin expired
  /\ stack' = [stack EXCEPT ![Len(stack)].left = Len(queue)]
  /\ UNCHANGED <<queue, pending, wakeup, running, run, race, outcome, settled, task, expired>>

\* A nested poll() may have emptied the queue: shift() gives undefined, and
\* exec(undefined) calls noop.
PollTask ==
  /\ Polling /\ Top.left > 0
  /\ LET counted == [stack EXCEPT ![Len(stack)] = PollFrame(Top.id, Top.left - 1, TRUE)]
     IN \/ /\ queue = <<>>
           /\ stack' = counted
           /\ UNCHANGED <<queue, task>>
        \/ /\ queue # <<>>
           /\ stack' = Append(counted, TaskFrame(Head(queue)))
           /\ task' = [task EXCEPT ![Head(queue)] = "called"]
           /\ queue' = Tail(queue)
  /\ UNCHANGED <<pending, wakeup, running, run, race, outcome, settled, expired>>

\* The queue is empty or the time is up.  The time given to a poll() from
\* other code is any positive one, so it can be up after the first round.
PollDone ==
  /\ Polling /\ Top.left = 0
  /\ \/ queue = <<>>
     \/ Top.id \in expired
     \/ Top.id = None /\ Top.ran

PollReturns ==
  /\ PollDone /\ (Top.id = None \/ Top.ran)
  /\ running' = running - 1
  /\ Leave(1)
  /\ UNCHANGED <<queue, pending, wakeup, run, race, outcome, settled, task, expired>>

\* Mutated form of Await, for DeadlineHonoured: the timer is not in the race.
AwaitWithoutTimer(r) ==
  /\ PollDone /\ Top.id = r /\ ~Top.ran
  /\ running' = running - 1
  /\ Leave(2)
  /\ pending' = pending \cup {Wake(r)}
  /\ wakeup' = r
  /\ run' = [run EXCEPT ![r] = "waiting"]
  /\ race' = [race EXCEPT ![r] = pending' \ {Timer(r)}]
  /\ outcome' = [outcome EXCEPT ![r] = "open"]
  /\ UNCHANGED <<queue, settled, task, expired>>

\* poll() executed nothing: wait for the first promise to settle.
Await(r) ==
  /\ PollDone /\ Top.id = r /\ ~Top.ran
  /\ running' = running - 1
  /\ Leave(2)
  /\ pending' = pending \cup {Wake(r)}
  /\ wakeup' = r
  /\ run' = [run EXCEPT ![r] = "waiting"]
  /\ race' = [race EXCEPT ![r] = pending']
  /\ outcome' = [outcome EXCEPT ![r] =
                   IF pending' \cap settled # {} THEN "resolved" ELSE "open"]
  /\ UNCHANGED <<queue, settled, task, expired>>

\* The await continues: both finally blocks, and the outer ones if it throws.
\* The promise of this wait is garbage from here on.
Resume(r) ==
  /\ Idle /\ run[r] = "waiting" /\ outcome[r] # "open"
  /\ wakeup' = None
  /\ settled' = settled \ {Wake(r)}
  /\ race' = [q \in Runners |-> IF q = r THEN {} ELSE race[q] \ {Wake(r)}]
  /\ outcome' = [outcome EXCEPT ![r] = "open"]
  /\ \/ /\ outcome[r] = "resolved"
        /\ run' = [run EXCEPT ![r] = "running"]
        /\ pending' = pending \ {Wake(r)}
        /\ Enter(RunFrame(r))
        /\ UNCHANGED running
     \/ /\ outcome[r] = "rejected"
        /\ End(r, "threw") /\ running' = running - 1
        /\ UNCHANGED stack
  /\ UNCHANGED <<queue, task, expired>>

-----------------------------------------------------------------------------
(* What the callbacks do.                                                  *)

Calling(t) == Top = TaskFrame(t)

Returns(t) ==
  /\ Calling(t)
  /\ task' = [task EXCEPT ![t] = "done"]
  /\ Leave(1)
  /\ UNCHANGED <<queue, pending, wakeup, running, run, race, outcome, settled, expired>>

\* Mutated form of Suspends, for NoMissedWork: the run is not woken up.
SuspendsSilently(t) ==
  /\ Calling(t)
  /\ task' = [task EXCEPT ![t] = "async"]
  /\ Leave(1)
  /\ pending' = pending \cup {Task(t)}
  /\ UNCHANGED <<queue, wakeup, running, run, race, expired, settled, outcome>>

\* The callback gave a promise, which joins pending.
Suspends(t) ==
  /\ Calling(t)
  /\ task' = [task EXCEPT ![t] = "async"]
  /\ Leave(1)
  /\ pending' = pending \cup {Task(t)}
  /\ CallWakeup
  /\ UNCHANGED <<queue, wakeup, running, run, race, expired>>

\* Mutated form of Throws, for RunningExact: poll() counts down only when it
\* returns.
ThrowsPastFinally(t) ==
  /\ Calling(t)
  /\ task' = [task EXCEPT ![t] = "raised"]
  /\ \/ /\ Caller.kind \in {"loop", "task"}
        /\ Leave(1)
        /\ UNCHANGED <<run, pending, running>>
     \/ /\ Caller.kind = "poll" /\ Caller.id = None
        /\ Leave(2)
        /\ UNCHANGED <<run, pending, running>>
     \/ /\ Caller.kind = "poll" /\ Caller.id # None
        /\ Leave(3)
        /\ running' = running - 1
        /\ End(Caller.id, "threw")
  /\ UNCHANGED <<queue, wakeup, race, outcome, settled, expired>>

\* The exception goes to the code that called exec(), dispatch() or poll(),
\* or through poll() to the run, which rejects; the queue stays as it is.
Throws(t) ==
  /\ Calling(t)
  /\ task' = [task EXCEPT ![t] = "raised"]
  /\ \/ /\ Caller.kind \in {"loop", "task"}
        /\ Leave(1)
        /\ UNCHANGED <<run, pending, running>>
     \/ /\ Caller.kind = "poll" /\ Caller.id = None
        /\ Leave(2)
        /\ running' = running - 1
        /\ UNCHANGED <<run, pending>>
     \/ /\ Caller.kind = "poll" /\ Caller.id # None
        /\ Leave(3)
        /\ running' = running - 2
        /\ End(Caller.id, "threw")
  /\ UNCHANGED <<queue, wakeup, race, outcome, settled, expired>>

\* Mutated form of Settle, for RunEnds: the promise stays in pending.
SettleKeepsPending(t, ok) ==
  /\ Idle /\ task[t] = "async"
  /\ outcome' = Decided(Task(t), IF ok THEN "resolved" ELSE "rejected")
  /\ task' = [task EXCEPT ![t] = IF ok THEN "done"
                                 ELSE IF outcome' # outcome THEN "raised" ELSE "lost"]
  /\ UNCHANGED <<queue, wakeup, running, stack, run, race, settled, expired, pending>>

\* The promise of a callback settles.  A rejection that decides no race is
\* lost: some race had it and forgets it, or it is an unhandled rejection.
Settle(t, ok) ==
  /\ Idle /\ task[t] = "async"
  /\ pending' = pending \ {Task(t)}
  /\ outcome' = Decided(Task(t), IF ok THEN "resolved" ELSE "rejected")
  /\ task' = [task EXCEPT ![t] = IF ok THEN "done"
                                 ELSE IF outcome' # outcome THEN "raised" ELSE "lost"]
  /\ UNCHANGED <<queue, wakeup, running, stack, run, race, settled, expired>>

-----------------------------------------------------------------------------
(* Time.  DeadlineTimer never calls back before the deadline, and a timer  *)
(* waits until the promise reactions that are due have run.                *)

Expire(r) ==
  /\ r \in Limited /\ Active(r) /\ r \notin expired
  /\ expired' = expired \cup {r}
  /\ UNCHANGED <<queue, pending, wakeup, running, stack, run, race, outcome, settled, task>>

FireTimer(r) ==
  /\ Idle /\ r \in expired /\ run[r] = "waiting" /\ Timer(r) \notin settled
  /\ \A q \in Runners : outcome[q] = "open"
  /\ settled' = settled \cup {Timer(r)}
  /\ outcome' = Decided(Timer(r), "resolved")
  /\ UNCHANGED <<queue, pending, wakeup, running, stack, run, race, task, expired>>

RunStep(r) == RunReturns(r) \/ RunPolls(r) \/ Await(r) \/ Resume(r) \/ FireTimer(r)

PollStep == PollRound \/ PollTask \/ PollReturns

TaskStep(t) == Returns(t) \/ Suspends(t) \/ Throws(t)

Next ==
  \/ \E t \in Tasks : \/ Post(t) \/ Exec(t) \/ Dispatch(t) \/ TaskStep(t)
                      \/ \E ok \in BOOLEAN : Settle(t, ok)
  \/ \E r \in Runners : Start(r) \/ RunStep(r) \/ Expire(r)
  \/ Poll \/ PollStep

Spec == Init /\ [][Next]_vars

\* Callbacks return to their caller, and the event loop goes on: what the
\* language guarantees of programs whose callbacks do not loop.  Reactions run
\* in the order in which they became due, so a run that may continue does,
\* although turns of other code come in between: strong fairness.
EventLoop ==
  /\ WF_vars(PollStep)
  /\ \A r \in Runners : WF_vars(RunStep(r)) /\ SF_vars(Resume(r))
  /\ \A t \in Tasks : WF_vars(TaskStep(t))

\* Every promise given to the executor settles: an assumption on its users.
PromisesSettle == \A t \in Tasks : WF_vars(Settle(t, TRUE) \/ Settle(t, FALSE))

LiveSpec == Spec /\ EventLoop

-----------------------------------------------------------------------------
Frames == [kind : {"task", "run", "poll"}, id : Tasks \cup Runners \cup {None},
           left : Nat, ran : BOOLEAN]

\* All variables but the counter, whose range rests on RunningExact.
DataOK ==
  /\ queue \in Seq(Tasks)
  /\ pending \subseteq Promises
  /\ wakeup \in Runners \cup {None}
  /\ stack \in Seq(Frames)
  /\ run \in [Runners -> {"idle", "running", "waiting", "returned", "threw"}]
  /\ race \in [Runners -> SUBSET Promises]
  /\ outcome \in [Runners -> {"open", "resolved", "rejected"}]
  /\ settled \subseteq Promises
  /\ task \in [Tasks -> {"new", "queued", "called", "async", "done", "raised", "lost"}]
  /\ expired \subseteq Limited

\* The types of the variables (Executor.mjs:32-38): the counter is never negative.
TypeOK == DataOK /\ running \in Nat

Async == {t \in Tasks : task[t] = "async"}

\* _running counts the runs and polls in progress, however they are left
\* (Executor.mjs:127, 182: both decrement in a finally block).  dispatch()
\* decides by it whether to call or to queue.
RunningExact ==
  running = Cardinality({r \in Runners : Active(r)})
              + Cardinality({i \in 1 .. Len(stack) : stack[i].kind = "poll"})

\* pending holds the promises of the suspended callbacks, of the timers of the
\* runs in progress and of the runs that wait, and nothing else: a promise left
\* behind by a run that ended keeps every later run from returning
\* (Executor.mjs:57-60, 169, 175-179 remove them).
PendingExact ==
  pending = {Task(t) : t \in Async}
              \cup {Timer(r) : r \in {q \in Runners : Active(q)}}
              \cup {Wake(r) : r \in {q \in Runners : run[q] = "waiting"}}

\* The run that _wakeup belongs to misses nothing: while it waits and its time
\* is not up, no callback is queued, and every suspended callback is in its
\* race, those included that other code suspended since.
NoMissedWork ==
  \A r \in Runners :
    wakeup = r /\ outcome[r] = "open" /\ r \notin expired
      => queue = <<>> /\ \A t \in Async : Task(t) \in race[r]

\* run() "Executes all queued tasks and waits for pending promises"
\* (Executor.mjs:134): unless its time is up it returns normally only when no
\* callback is queued or suspended.
QuiescentReturn ==
  [][\A r \in Runners :
       run[r] = "running" /\ run'[r] = "returned" /\ r \notin expired
         => queue = <<>> /\ Async = {}]_vars

\* A posted callback is executed by a run in progress even when no promise ever
\* settles (Executor.mjs:95 "Queues a callback for later execution and wakes up
\* the executor"), unless the run ends in an error or in a time out.
PostedExecuted ==
  \A t \in Tasks, r \in Runners :
    task[t] = "queued" /\ Active(r) ~> task[t] # "queued" \/ run[r] = "threw" \/ r \in expired

\* A run whose time is up ends, whatever its promises do (Executor.mjs:136
\* "Maximum time to spend executing").
DeadlineHonoured ==
  \A r \in Runners : r \in expired ~> ~Active(r)

\* A run ends when every promise given to the executor settles
\* (Executor.mjs:134), although each wait ends at the first of them and other
\* code keeps adding more: no settled promise keeps the loop of line 150 going.
RunEnds ==
  PromisesSettle => \A r \in Runners : Active(r) ~> ~Active(r)

\* The rejection of a callback's promise while a run waits is reported by that
\* run (Executor.mjs:58-64 rethrows it for the run to see).
ErrorReported ==
  [][\A t \in Tasks : task[t] = "async" /\ task'[t] = "lost"
                       => \A r \in Runners : run[r] # "waiting"]_vars

\* While a run waits, post() leaves no callback queued without waking a run.
PostWakes ==
  queue # <<>> => \A r \in Runners : run[r] = "waiting" /\ outcome[r] = "open"
                                       => r \in expired \/ \E q \in Runners : run[q] = "running" \/ outcome[q] # "open"
=============================================================================
