--------------------------- MODULE ExecutorProofs ---------------------------
(***************************************************************************)
(* Safety of the executor for any number of callbacks and of overlapping   *)
(* runs.  The inductive invariant says what the frames of the call stack   *)
(* and the queue know about the callbacks and the runs; the counter and    *)
(* the list of pending promises are exact because of it, and no work is    *)
(* missed because of both.                                                 *)
(***************************************************************************)
EXTENDS Executor, FiniteSetTheorems, SequenceTheorems, TLAPS

\* A frame of a callback, or of a run, is that of one called, or in progress;
\* a poll() is called by other code or by the run whose frame it lies on.
FrameOK ==
  \A i \in 1 .. Len(stack) :
    /\ stack[i].kind = "task" => stack[i].id \in Tasks /\ task[stack[i].id] = "called"
    /\ stack[i].kind = "run" => stack[i].id \in Runners /\ run[stack[i].id] = "running"
    /\ stack[i].kind = "poll" =>
         \/ stack[i].id = None
         \/ /\ stack[i].id \in Runners /\ i > 1
            /\ stack[i - 1].kind = "run" /\ stack[i - 1].id = stack[i].id

\* No callback and no run is in execution twice.
FramesDistinct ==
  \A i, j \in 1 .. Len(stack) :
    i < j /\ stack[i].kind = stack[j].kind /\ stack[i].kind # "poll"
      => stack[i].id # stack[j].id

\* The queue holds callbacks that are queued, each once.
QueueOK ==
  /\ \A i \in 1 .. Len(queue) : task[queue[i]] = "queued"
  /\ \A i, j \in 1 .. Len(queue) : i < j => queue[i] # queue[j]

WakeupOK ==
  wakeup # None => run[wakeup] = "waiting" /\ Wake(wakeup) \in race[wakeup]

StackInv == DataOK /\ FrameOK /\ FramesDistinct /\ QueueOK

-----------------------------------------------------------------------------
(* The frames at the end of the stack, and what pushing and popping do.    *)

LEMMA TopFacts ==
  ASSUME DataOK, Top.kind # "loop"
  PROVE  /\ Len(stack) \in Nat \ {0} /\ Len(stack) \in 1 .. Len(stack)
         /\ Top = stack[Len(stack)] /\ Top \in Frames
  BY DEF DataOK, Top, FrameAt, EventLoopFrame, Frame

LEMMA CallerFacts ==
  ASSUME DataOK, Top.kind # "loop", Caller.kind # "loop"
  PROVE  /\ Len(stack) - 1 \in 1 .. Len(stack)
         /\ Caller = stack[Len(stack) - 1] /\ Caller \in Frames
  BY TopFacts DEF DataOK, Caller, FrameAt, EventLoopFrame, Frame

LEMMA Pushed ==
  ASSUME DataOK, NEW f \in Frames, Enter(f)
  PROVE  /\ stack' \in Seq(Frames) /\ Len(stack') = Len(stack) + 1
         /\ \A i \in 1 .. Len(stack) : stack'[i] = stack[i]
         /\ stack'[Len(stack) + 1] = f
  BY DEF DataOK, Enter

LEMMA Popped ==
  ASSUME DataOK, NEW n \in 0 .. Len(stack), Leave(n)
  PROVE  /\ stack' \in Seq(Frames) /\ Len(stack') = Len(stack) - n
         /\ \A i \in 1 .. Len(stack') : stack'[i] = stack[i]
  <1>1. \A i \in 1 .. Len(stack) - n : stack[i] \in Frames
    BY DEF DataOK
  <1>2. Len(stack) \in Nat /\ Len(stack) - n \in Nat
    BY DEF DataOK
  <1> QED BY <1>1, <1>2, SubSeqProperties DEF Leave

LEMMA FrameTypes ==
  /\ \A t \in Tasks : TaskFrame(t) \in Frames /\ TaskFrame(t).kind = "task" /\ TaskFrame(t).id = t
  /\ \A r \in Runners : RunFrame(r) \in Frames /\ RunFrame(r).kind = "run" /\ RunFrame(r).id = r
  /\ \A r \in Runners \cup {None}, n \in Nat, b \in BOOLEAN :
       /\ PollFrame(r, n, b) \in Frames /\ PollFrame(r, n, b).kind = "poll"
       /\ PollFrame(r, n, b).id = r
  BY DEF TaskFrame, RunFrame, PollFrame, Frame, Frames

-----------------------------------------------------------------------------
(* What a change of the stack must leave true of the frames that stay.     *)

Kept(i) ==
  /\ stack'[i].kind = stack[i].kind /\ stack'[i].id = stack[i].id
  /\ stack[i].kind = "task" => task'[stack[i].id] = "called"
  /\ stack[i].kind = "run" => run'[stack[i].id] = "running"

LEMMA FramesPopped ==
  ASSUME DataOK, FrameOK, FramesDistinct,
         Len(stack') \in Nat, Len(stack') <= Len(stack),
         \A i \in 1 .. Len(stack') : Kept(i)
  PROVE  FrameOK' /\ FramesDistinct'
  <1>1. Len(stack) \in Nat
    BY DEF DataOK
  <1>2. \A i \in 1 .. Len(stack') : i \in 1 .. Len(stack)
    BY <1>1
  <1>3. FrameOK'
    <2> SUFFICES ASSUME NEW i \in 1 .. Len(stack')
                 PROVE  /\ stack'[i].kind = "task" => stack'[i].id \in Tasks /\ task'[stack'[i].id] = "called"
                        /\ stack'[i].kind = "run" => stack'[i].id \in Runners /\ run'[stack'[i].id] = "running"
                        /\ stack'[i].kind = "poll" =>
                             \/ stack'[i].id = None
                             \/ /\ stack'[i].id \in Runners /\ i > 1
                                /\ stack'[i - 1].kind = "run" /\ stack'[i - 1].id = stack'[i].id
      BY DEF FrameOK
    <2>1. Kept(i) /\ i \in 1 .. Len(stack)
      BY <1>2
    <2>2. i > 1 => i - 1 \in 1 .. Len(stack')
      OBVIOUS
    <2> QED BY <2>1, <2>2 DEF FrameOK, Kept
  <1>4. FramesDistinct'
    BY <1>2 DEF FramesDistinct, Kept
  <1> QED BY <1>3, <1>4

LEMMA FramesPushed ==
  ASSUME DataOK, FrameOK, FramesDistinct,
         NEW f \in Frames, Len(stack') = Len(stack) + 1, stack'[Len(stack) + 1] = f,
         \A i \in 1 .. Len(stack) : Kept(i),
         f.kind = "task" => f.id \in Tasks /\ task'[f.id] = "called",
         f.kind = "run" => f.id \in Runners /\ run'[f.id] = "running",
         f.kind = "poll" => \/ f.id = None
                            \/ /\ f.id \in Runners /\ Len(stack) > 0
                               /\ stack[Len(stack)].kind = "run" /\ stack[Len(stack)].id = f.id,
         f.kind # "poll" =>
           \A i \in 1 .. Len(stack) : stack[i].kind = f.kind => stack[i].id # f.id
  PROVE  FrameOK' /\ FramesDistinct'
  <1>1. Len(stack) \in Nat /\ Len(stack) + 1 - 1 = Len(stack)
    BY DEF DataOK
  <1>2. \A i \in 1 .. Len(stack') : i \in 1 .. Len(stack) \/ i = Len(stack) + 1
    BY <1>1
  <1>3. FrameOK'
    <2> SUFFICES ASSUME NEW i \in 1 .. Len(stack')
                 PROVE  /\ stack'[i].kind = "task" => stack'[i].id \in Tasks /\ task'[stack'[i].id] = "called"
                        /\ stack'[i].kind = "run" => stack'[i].id \in Runners /\ run'[stack'[i].id] = "running"
                        /\ stack'[i].kind = "poll" =>
                             \/ stack'[i].id = None
                             \/ /\ stack'[i].id \in Runners /\ i > 1
                                /\ stack'[i - 1].kind = "run" /\ stack'[i - 1].id = stack'[i].id
      BY DEF FrameOK
    <2>1. CASE i \in 1 .. Len(stack)
      <3>1. i > 1 => i - 1 \in 1 .. Len(stack)
        BY <2>1
      <3> QED BY <2>1, <3>1 DEF FrameOK, Kept
    <2>2. CASE i = Len(stack) + 1
      <3>1. Len(stack) > 0 => Len(stack) \in 1 .. Len(stack)
        BY <1>1
      <3> QED BY <1>1, <2>2, <3>1 DEF Kept
    <2> QED BY <1>2, <2>1, <2>2
  <1>4. FramesDistinct'
    <2> SUFFICES ASSUME NEW i \in 1 .. Len(stack'), NEW j \in 1 .. Len(stack'), i < j,
                        stack'[i].kind = stack'[j].kind, stack'[i].kind # "poll"
                 PROVE  stack'[i].id # stack'[j].id
      BY DEF FramesDistinct
    <2>1. i \in 1 .. Len(stack)
      BY <1>1
    <2>2. CASE j \in 1 .. Len(stack)
      BY <2>1, <2>2 DEF FramesDistinct, Kept
    <2>3. CASE j = Len(stack) + 1
      BY <2>1, <2>3 DEF Kept
    <2> QED BY <1>2, <2>2, <2>3
  <1> QED BY <1>3, <1>4

-----------------------------------------------------------------------------
(* What happens to the queue.                                              *)

LEMMA QueueKept ==
  ASSUME DataOK, QueueOK, queue' = queue,
         \A t \in Tasks : task[t] = "queued" => task'[t] = "queued"
  PROVE  QueueOK'
  <1>1. \A i \in 1 .. Len(queue) : queue[i] \in Tasks
    BY DEF DataOK
  <1> QED BY <1>1 DEF QueueOK

LEMMA QueueAppended ==
  ASSUME DataOK, QueueOK, NEW t \in Tasks, task[t] = "new",
         queue' = Append(queue, t), task' = [task EXCEPT ![t] = "queued"]
  PROVE  QueueOK'
  <1>1. \A i \in 1 .. Len(queue) : queue[i] \in Tasks /\ queue[i] # t
    BY DEF DataOK, QueueOK
  <1>2. /\ Len(queue) \in Nat /\ Len(queue') = Len(queue) + 1
        /\ \A i \in 1 .. Len(queue) : queue'[i] = queue[i]
        /\ queue'[Len(queue) + 1] = t
    BY DEF DataOK
  <1>3. \A i \in 1 .. Len(queue') : i \in 1 .. Len(queue) \/ i = Len(queue) + 1
    BY <1>2
  <1>4. \A i \in 1 .. Len(queue') : task'[queue'[i]] = "queued"
    BY <1>1, <1>2, <1>3 DEF DataOK, QueueOK
  <1>5. ASSUME NEW i \in 1 .. Len(queue'), NEW j \in 1 .. Len(queue'), i < j
        PROVE  queue'[i] # queue'[j]
    <2>1. i \in 1 .. Len(queue)
      BY <1>2, <1>5
    <2>2. CASE j \in 1 .. Len(queue)
      BY <1>2, <1>5, <2>1, <2>2 DEF QueueOK
    <2>3. CASE j = Len(queue) + 1
      BY <1>1, <1>2, <2>1, <2>3
    <2> QED BY <1>3, <2>2, <2>3
  <1> QED BY <1>4, <1>5 DEF QueueOK

LEMMA QueueShifted ==
  ASSUME DataOK, QueueOK, queue # <<>>,
         queue' = Tail(queue), task' = [task EXCEPT ![Head(queue)] = "called"]
  PROVE  /\ QueueOK' /\ Head(queue) \in Tasks /\ task[Head(queue)] = "queued"
         /\ queue' \in Seq(Tasks)
  <1>1. /\ Len(queue) \in Nat \ {0} /\ Head(queue) = queue[1] /\ Head(queue) \in Tasks
        /\ queue' \in Seq(Tasks) /\ Len(queue') = Len(queue) - 1
        /\ \A i \in 1 .. Len(queue') : queue'[i] = queue[i + 1]
    BY HeadTailProperties DEF DataOK
  <1>2. \A i \in 1 .. Len(queue') : i + 1 \in 1 .. Len(queue) /\ 1 < i + 1
    BY <1>1
  <1>3. 1 \in 1 .. Len(queue)
    BY <1>1
  <1>4. \A i \in 1 .. Len(queue') : queue[i + 1] # Head(queue) /\ queue[i + 1] \in Tasks
    BY <1>1, <1>2, <1>3 DEF QueueOK, DataOK
  <1>5. \A i \in 1 .. Len(queue') : task'[queue'[i]] = "queued"
    BY <1>1, <1>2, <1>4 DEF QueueOK, DataOK
  <1>6. ASSUME NEW i \in 1 .. Len(queue'), NEW j \in 1 .. Len(queue'), i < j
        PROVE  queue'[i] # queue'[j]
    <2>1. i + 1 < j + 1
      BY <1>6
    <2> QED BY <1>1, <1>2, <2>1 DEF QueueOK
  <1> QED BY <1>1, <1>3, <1>5, <1>6 DEF QueueOK

-----------------------------------------------------------------------------
(* The frames and the queue, action by action.                             *)

LEMMA SettledTypes ==
  ASSUME DataOK, CallWakeup
  PROVE  settled' \subseteq Promises /\ outcome' \in [Runners -> {"open", "resolved", "rejected"}]
  BY DEF DataOK, CallWakeup, Decided, Promises

LEMMA DecidedType ==
  ASSUME DataOK, NEW p, NEW how \in {"resolved", "rejected"}
  PROVE  Decided(p, how) \in [Runners -> {"open", "resolved", "rejected"}]
  BY DEF DataOK, Decided

LEMMA StackInit == Init => StackInv
  <1> SUFFICES ASSUME Init PROVE StackInv
    OBVIOUS
  <1>1. DataOK
    BY DEF Init, DataOK
  <1>2. Len(stack) = 0 /\ Len(queue) = 0
    BY DEF Init
  <1> QED BY <1>1, <1>2 DEF StackInv, FrameOK, FramesDistinct, QueueOK

LEMMA StackPost ==
  ASSUME StackInv, NEW t \in Tasks, Post(t) \/ (Dispatch(t) /\ running = 0)
  PROVE  StackInv'
  <1> USE DEF StackInv
  <1>1. /\ task[t] = "new" /\ queue' = Append(queue, t)
        /\ task' = [task EXCEPT ![t] = "queued"]
        /\ UNCHANGED <<pending, wakeup, stack, run, race, expired>>
        /\ CallWakeup \/ UNCHANGED <<settled, outcome>>
    BY DEF Post, Dispatch
  <1>2. DataOK'
    <2>1. queue' \in Seq(Tasks)
      BY <1>1 DEF DataOK
    <2>2. settled' \subseteq Promises /\ outcome' \in [Runners -> {"open", "resolved", "rejected"}]
      BY <1>1, SettledTypes DEF DataOK
    <2>3. task' \in [Tasks -> {"new", "queued", "called", "async", "done", "raised", "lost"}]
      BY <1>1 DEF DataOK
    <2> QED BY <1>1, <2>1, <2>2, <2>3 DEF DataOK
  <1>3. QueueOK'
    BY <1>1, QueueAppended
  <1>4. FrameOK' /\ FramesDistinct'
    <2>1. \A i \in 1 .. Len(stack') : Kept(i)
      BY <1>1 DEF Kept, FrameOK, DataOK
    <2>2. Len(stack') \in Nat /\ Len(stack') <= Len(stack)
      BY <1>1 DEF DataOK
    <2> QED BY <2>1, <2>2, FramesPopped
  <1> QED BY <1>2, <1>3, <1>4

LEMMA StackExec ==
  ASSUME StackInv, NEW t \in Tasks, Exec(t)
  PROVE  StackInv'
  <1> USE DEF StackInv
  <1>1. /\ task[t] = "new" /\ task' = [task EXCEPT ![t] = "called"]
        /\ Enter(TaskFrame(t))
        /\ UNCHANGED <<queue, pending, wakeup, run, race, outcome, settled, expired>>
    BY DEF Exec
  <1>2. /\ stack' \in Seq(Frames) /\ Len(stack') = Len(stack) + 1
        /\ \A i \in 1 .. Len(stack) : stack'[i] = stack[i]
        /\ stack'[Len(stack) + 1] = TaskFrame(t)
    BY <1>1, FrameTypes, Pushed
  <1>3. DataOK'
    BY <1>1, <1>2 DEF DataOK
  <1>4. QueueOK'
    BY <1>1, QueueKept DEF DataOK
  <1>5. FrameOK' /\ FramesDistinct'
    <2>1. \A i \in 1 .. Len(stack) : Kept(i)
      BY <1>1, <1>2 DEF Kept, FrameOK, DataOK
    <2>2. \A i \in 1 .. Len(stack) : stack[i].kind = "task" => stack[i].id # t
      BY <1>1 DEF FrameOK
    <2>3. task'[t] = "called"
      BY <1>1 DEF DataOK
    <2> QED BY <1>2, <2>1, <2>2, <2>3, FrameTypes, FramesPushed
  <1> QED BY <1>3, <1>4, <1>5

LEMMA StackStart ==
  ASSUME StackInv, NEW r \in Runners, Start(r)
  PROVE  StackInv'
  <1> USE DEF StackInv
  <1>1. /\ run[r] = "idle" /\ run' = [run EXCEPT ![r] = "running"]
        /\ Enter(RunFrame(r)) /\ pending' = pending \cup {Timer(r)}
        /\ UNCHANGED <<queue, wakeup, race, outcome, settled, task, expired>>
    BY DEF Start
  <1>2. /\ stack' \in Seq(Frames) /\ Len(stack') = Len(stack) + 1
        /\ \A i \in 1 .. Len(stack) : stack'[i] = stack[i]
        /\ stack'[Len(stack) + 1] = RunFrame(r)
    BY <1>1, FrameTypes, Pushed
  <1>3. DataOK'
    BY <1>1, <1>2 DEF DataOK, Promises
  <1>4. QueueOK'
    BY <1>1, QueueKept DEF DataOK
  <1>5. FrameOK' /\ FramesDistinct'
    <2>1. \A i \in 1 .. Len(stack) : Kept(i)
      BY <1>1, <1>2 DEF Kept, FrameOK, DataOK
    <2>2. \A i \in 1 .. Len(stack) : stack[i].kind = "run" => stack[i].id # r
      BY <1>1 DEF FrameOK
    <2>3. run'[r] = "running"
      BY <1>1 DEF DataOK
    <2> QED BY <1>2, <2>1, <2>2, <2>3, FrameTypes, FramesPushed
  <1> QED BY <1>3, <1>4, <1>5

\* A run that returns is the one on top, so no other frame is its own.
LEMMA StackRunReturns ==
  ASSUME StackInv, NEW r \in Runners, RunReturns(r)
  PROVE  StackInv' /\ run[r] = "running"
  <1> USE DEF StackInv
  <1>1. /\ Top = RunFrame(r) /\ Leave(1)
        /\ run' = [run EXCEPT ![r] = "returned"]
        /\ pending' = pending \ {Timer(r), Wake(r)}
        /\ UNCHANGED <<queue, wakeup, race, outcome, settled, task, expired>>
    BY DEF RunReturns, End
  <1>2. /\ Len(stack) \in 1 .. Len(stack) /\ Len(stack) \in Nat \ {0}
        /\ stack[Len(stack)].kind = "run" /\ stack[Len(stack)].id = r
    BY <1>1, FrameTypes, TopFacts
  <1>3. /\ stack' \in Seq(Frames) /\ Len(stack') = Len(stack) - 1
        /\ \A i \in 1 .. Len(stack') : stack'[i] = stack[i]
    BY <1>1, <1>2, Popped
  <1>4. DataOK'
    BY <1>1, <1>3 DEF DataOK
  <1>5. QueueOK'
    BY <1>1, QueueKept DEF DataOK
  <1>6. \A i \in 1 .. Len(stack') : i \in 1 .. Len(stack) /\ i < Len(stack)
    BY <1>2, <1>3
  <1>7. \A i \in 1 .. Len(stack') : stack[i].kind = "run" => stack[i].id # r
    BY <1>2, <1>6 DEF FramesDistinct
  <1>8. \A i \in 1 .. Len(stack') : Kept(i)
    BY <1>1, <1>3, <1>6, <1>7 DEF Kept, FrameOK, DataOK
  <1>9. FrameOK' /\ FramesDistinct'
    BY <1>2, <1>3, <1>8, FramesPopped
  <1> QED BY <1>2, <1>4, <1>5, <1>9 DEF FrameOK

LEMMA StackPoll ==
  ASSUME StackInv, Poll \/ (\E r \in Runners : RunPolls(r))
  PROVE  StackInv'
  <1> USE DEF StackInv
  <1>1. PICK id \in Runners \cup {None} :
          /\ id # None => id \in Runners /\ Top = RunFrame(id)
          /\ Enter(PollFrame(id, 0, FALSE))
          /\ UNCHANGED <<queue, pending, wakeup, run, race, outcome, settled, task, expired>>
    BY DEF Poll, RunPolls
  <1> DEFINE f == PollFrame(id, 0, FALSE)
  <1>2. f \in Frames /\ f.kind = "poll" /\ f.id = id
    BY FrameTypes
  <1>3. /\ stack' \in Seq(Frames) /\ Len(stack') = Len(stack) + 1
        /\ \A i \in 1 .. Len(stack) : stack'[i] = stack[i]
        /\ stack'[Len(stack) + 1] = f
    BY <1>1, <1>2, Pushed
  <1> HIDE DEF f
  <1>4. DataOK'
    BY <1>1, <1>3 DEF DataOK
  <1>5. QueueOK'
    BY <1>1, QueueKept DEF DataOK
  <1>6. ASSUME id # None
        PROVE  /\ id \in Runners /\ Len(stack) > 0
               /\ stack[Len(stack)].kind = "run" /\ stack[Len(stack)].id = id
    BY <1>1, <1>6, FrameTypes, TopFacts
  <1>7. \A i \in 1 .. Len(stack) : Kept(i)
    BY <1>1, <1>3 DEF Kept, FrameOK, DataOK
  <1>8. FrameOK' /\ FramesDistinct'
    BY <1>2, <1>3, <1>6, <1>7, FramesPushed
  <1> QED BY <1>4, <1>5, <1>8

\* A poll() counts down on its own frame.
CountedStack(left, ran) ==
  [stack EXCEPT ![Len(stack)] = PollFrame(Top.id, left, ran)]

LEMMA Counted ==
  ASSUME DataOK, Top.kind = "poll", NEW left \in Nat, NEW ran \in BOOLEAN
  PROVE  LET s == CountedStack(left, ran) IN
         /\ s \in Seq(Frames) /\ Len(s) = Len(stack)
         /\ \A i \in 1 .. Len(stack) :
              s[i] \in Frames /\ s[i].kind = stack[i].kind /\ s[i].id = stack[i].id
  <1> DEFINE s == CountedStack(left, ran)
  <1>1. /\ Len(stack) \in 1 .. Len(stack) /\ Top = stack[Len(stack)] /\ Top \in Frames
    BY TopFacts
  <1>2. PollFrame(Top.id, left, ran) \in Frames
    BY <1>1 DEF PollFrame, Frame, Frames
  <1>3. /\ s \in Seq(Frames) /\ Len(s) = Len(stack)
        /\ \A i \in 1 .. Len(stack) :
             s[i] = IF i = Len(stack) THEN PollFrame(Top.id, left, ran) ELSE stack[i]
    BY <1>1, <1>2, ExceptSeq DEF DataOK, CountedStack
  <1>4. PollFrame(Top.id, left, ran).kind = "poll" /\ PollFrame(Top.id, left, ran).id = Top.id
    BY DEF PollFrame, Frame
  <1>5. \A i \in 1 .. Len(stack) : stack[i] \in Frames
    BY DEF DataOK
  <1>6. ASSUME NEW i \in 1 .. Len(stack)
        PROVE  s[i] \in Frames /\ s[i].kind = stack[i].kind /\ s[i].id = stack[i].id
    <2>1. CASE i = Len(stack)
      BY <1>1, <1>2, <1>3, <1>4, <2>1
    <2>2. CASE i # Len(stack)
      BY <1>3, <1>5, <2>2
    <2> QED BY <2>1, <2>2
  <1> QED BY <1>3, <1>6

LEMMA StackPollRound ==
  ASSUME StackInv, PollRound
  PROVE  StackInv'
  <1> USE DEF StackInv
  <1>1. /\ Top.kind = "poll" /\ stack' = [stack EXCEPT ![Len(stack)].left = Len(queue)]
        /\ UNCHANGED <<queue, pending, wakeup, run, race, outcome, settled, task, expired>>
    BY DEF PollRound, Polling
  <1>2. /\ Len(stack) \in 1 .. Len(stack) /\ Top = stack[Len(stack)] /\ Top \in Frames
    BY <1>1, TopFacts
  <1>3. [Top EXCEPT !.left = Len(queue)] = PollFrame(Top.id, Len(queue), Top.ran)
    BY <1>1, <1>2 DEF PollFrame, Frame, Frames
  <1>4. stack' = CountedStack(Len(queue), Top.ran)
    BY <1>1, <1>2, <1>3 DEF CountedStack
  <1>5. Len(queue) \in Nat /\ Top.ran \in BOOLEAN
    BY <1>2 DEF DataOK, Frames
  <1>6. /\ stack' \in Seq(Frames) /\ Len(stack') = Len(stack)
        /\ \A i \in 1 .. Len(stack) : stack'[i].kind = stack[i].kind /\ stack'[i].id = stack[i].id
    <2> HIDE DEF StackInv
    <2>1. DataOK
      BY DEF StackInv
    <2>2. Top.kind = "poll"
      BY <1>1
    <2> DEFINE s == CountedStack(Len(queue), Top.ran)
    <2>3. /\ s \in Seq(Frames) /\ Len(s) = Len(stack)
          /\ \A i \in 1 .. Len(stack) : s[i].kind = stack[i].kind /\ s[i].id = stack[i].id
      BY <1>5, <2>1, <2>2, Counted
    <2>4. stack' = s
      BY <1>4
    <2> HIDE DEF s
    <2> QED BY <2>3, <2>4
  <1>7. DataOK'
    BY <1>1, <1>6 DEF DataOK
  <1>8. QueueOK'
    BY <1>1, QueueKept DEF DataOK
  <1>9. \A i \in 1 .. Len(stack') : Kept(i)
    BY <1>1, <1>6 DEF Kept, FrameOK
  <1>10. Len(stack') \in Nat /\ Len(stack') <= Len(stack)
    BY <1>6 DEF DataOK
  <1> QED BY <1>7, <1>8, <1>9, <1>10, FramesPopped

LEMMA StackPollTask ==
  ASSUME StackInv, PollTask
  PROVE  StackInv'
  <1> USE DEF StackInv
  <1> DEFINE s == CountedStack(Top.left - 1, TRUE)
  <1>1. /\ Top.kind = "poll" /\ Top.left > 0
        /\ UNCHANGED <<pending, wakeup, run, race, outcome, settled, expired>>
    BY DEF PollTask, Polling
  <1>2. Top.left - 1 \in Nat
    BY <1>1, TopFacts DEF Frames
  <1>3. /\ s \in Seq(Frames) /\ Len(s) = Len(stack) /\ Len(stack) \in Nat
        /\ \A i \in 1 .. Len(stack) : s[i].kind = stack[i].kind /\ s[i].id = stack[i].id
    <2>1. Len(stack) \in Nat
      BY DEF DataOK
    <2> HIDE DEF StackInv
    <2>2. DataOK
      BY DEF StackInv
    <2> QED BY <1>1, <1>2, <2>1, <2>2, Counted
  <1>4. CASE queue = <<>> /\ stack' = s /\ UNCHANGED <<queue, task>>
    <2> HIDE DEF s
    <2>1. DataOK'
      BY <1>1, <1>3, <1>4 DEF DataOK
    <2>2. QueueOK'
      BY <1>4, QueueKept DEF DataOK
    <2>3. \A i \in 1 .. Len(stack') : Kept(i)
      BY <1>1, <1>3, <1>4 DEF Kept, FrameOK
    <2>4. Len(stack') \in Nat /\ Len(stack') <= Len(stack)
      BY <1>3, <1>4 DEF DataOK
    <2> QED BY <2>1, <2>2, <2>3, <2>4, FramesPopped
  <1>5. CASE /\ queue # <<>> /\ stack' = Append(s, TaskFrame(Head(queue)))
             /\ task' = [task EXCEPT ![Head(queue)] = "called"]
             /\ queue' = Tail(queue)
    <2> DEFINE t == Head(queue)
    <2>1. /\ QueueOK' /\ t \in Tasks /\ task[t] = "queued" /\ queue' \in Seq(Tasks)
      BY <1>5, QueueShifted
    <2> HIDE DEF s
    <2>2. TaskFrame(t) \in Frames /\ TaskFrame(t).kind = "task" /\ TaskFrame(t).id = t
      BY <2>1, FrameTypes
    <2>3. /\ stack' \in Seq(Frames) /\ Len(stack') = Len(stack) + 1
          /\ \A i \in 1 .. Len(stack) : stack'[i] = s[i]
          /\ stack'[Len(stack) + 1] = TaskFrame(t)
      BY <1>3, <1>5, <2>2
    <2>4. task' = [task EXCEPT ![t] = "called"]
      BY <1>5
    <2> HIDE DEF t
    <2>5. DataOK'
      BY <1>1, <2>1, <2>3, <2>4 DEF DataOK
    <2>6. \A i \in 1 .. Len(stack) : Kept(i)
      BY <1>1, <1>3, <2>3, <2>4 DEF Kept, FrameOK, DataOK
    <2>7. \A i \in 1 .. Len(stack) : stack[i].kind = "task" => stack[i].id # t
      BY <2>1 DEF FrameOK
    <2>8. task'[t] = "called"
      BY <2>1, <2>4 DEF DataOK
    <2>9. FrameOK' /\ FramesDistinct'
      BY <2>1, <2>2, <2>3, <2>6, <2>7, <2>8, FramesPushed
    <2> QED BY <2>1, <2>5, <2>9
  <1> QED BY <1>4, <1>5 DEF PollTask, CountedStack

LEMMA StackPollReturns ==
  ASSUME StackInv, PollReturns
  PROVE  StackInv'
  <1> USE DEF StackInv
  <1>1. /\ Top.kind = "poll" /\ Leave(1)
        /\ UNCHANGED <<queue, pending, wakeup, run, race, outcome, settled, task, expired>>
    BY DEF PollReturns, PollDone, Polling
  <1>2. Len(stack) \in Nat \ {0} /\ 1 \in 0 .. Len(stack)
    BY <1>1, TopFacts
  <1>3. /\ stack' \in Seq(Frames) /\ Len(stack') = Len(stack) - 1
        /\ \A i \in 1 .. Len(stack') : stack'[i] = stack[i]
    BY <1>1, <1>2, Popped
  <1>4. DataOK'
    BY <1>1, <1>3 DEF DataOK
  <1>5. QueueOK'
    BY <1>1, QueueKept DEF DataOK
  <1>6. \A i \in 1 .. Len(stack') : i \in 1 .. Len(stack)
    BY <1>2, <1>3
  <1>7. \A i \in 1 .. Len(stack') : Kept(i)
    BY <1>1, <1>3, <1>6 DEF Kept, FrameOK
  <1> QED BY <1>2, <1>3, <1>4, <1>5, <1>7, FramesPopped

\* The run below a poll() of its own is in progress.
LEMMA PolledRun ==
  ASSUME StackInv, NEW i \in 1 .. Len(stack), stack[i].kind = "poll", stack[i].id # None
  PROVE  /\ i - 1 \in 1 .. Len(stack) /\ stack[i - 1].kind = "run"
         /\ stack[i - 1].id = stack[i].id
         /\ stack[i].id \in Runners /\ run[stack[i].id] = "running"
  <1>1. /\ stack[i].id \in Runners /\ i > 1
        /\ stack[i - 1].kind = "run" /\ stack[i - 1].id = stack[i].id
    BY DEF StackInv, FrameOK
  <1>2. i - 1 \in 1 .. Len(stack)
    BY <1>1
  <1> QED BY <1>1, <1>2 DEF StackInv, FrameOK

LEMMA StackAwait ==
  ASSUME StackInv, NEW r \in Runners, Await(r)
  PROVE  StackInv' /\ run[r] = "running"
  <1> USE DEF StackInv
  <1>1. /\ Top.kind = "poll" /\ Top.id = r /\ Leave(2)
        /\ pending' = pending \cup {Wake(r)} /\ wakeup' = r
        /\ run' = [run EXCEPT ![r] = "waiting"]
        /\ race' = [race EXCEPT ![r] = pending']
        /\ outcome' = [outcome EXCEPT ![r] = IF pending' \cap settled # {} THEN "resolved" ELSE "open"]
        /\ UNCHANGED <<queue, settled, task, expired>>
    BY DEF Await, PollDone, Polling
  <1>2. /\ Len(stack) \in 1 .. Len(stack) /\ Len(stack) \in Nat \ {0}
        /\ stack[Len(stack)].kind = "poll" /\ stack[Len(stack)].id = r /\ r # None
    BY <1>1, TopFacts, ExecutorAssumption
  <1>3. /\ Len(stack) - 1 \in 1 .. Len(stack) /\ stack[Len(stack) - 1].kind = "run"
        /\ stack[Len(stack) - 1].id = r /\ run[r] = "running"
    BY <1>2, PolledRun
  <1>4. 2 \in 0 .. Len(stack)
    BY <1>2, <1>3
  <1>5. /\ stack' \in Seq(Frames) /\ Len(stack') = Len(stack) - 2
        /\ \A i \in 1 .. Len(stack') : stack'[i] = stack[i]
    BY <1>1, <1>4, Popped
  <1>6. pending' \subseteq Promises
    BY <1>1 DEF DataOK, Promises
  <1>7. DataOK'
    <2>1. race' \in [Runners -> SUBSET Promises]
      BY <1>1, <1>6 DEF DataOK
    <2>2. outcome' \in [Runners -> {"open", "resolved", "rejected"}]
      BY <1>1 DEF DataOK
    <2>3. run' \in [Runners -> {"idle", "running", "waiting", "returned", "threw"}]
      BY <1>1 DEF DataOK
    <2> QED BY <1>1, <1>5, <1>6, <2>1, <2>2, <2>3 DEF DataOK
  <1>8. QueueOK'
    BY <1>1, QueueKept DEF DataOK
  <1>9. \A i \in 1 .. Len(stack') : i \in 1 .. Len(stack) /\ i < Len(stack) - 1
    BY <1>2, <1>5
  <1>10. \A i \in 1 .. Len(stack') : stack[i].kind = "run" => stack[i].id # r
    BY <1>3, <1>9 DEF FramesDistinct
  <1>11. \A i \in 1 .. Len(stack') : Kept(i)
    BY <1>1, <1>5, <1>9, <1>10 DEF Kept, FrameOK, DataOK
  <1>12. Len(stack') \in Nat /\ Len(stack') <= Len(stack)
    BY <1>2, <1>4, <1>5
  <1> QED BY <1>3, <1>7, <1>8, <1>11, <1>12, FramesPopped

LEMMA StackResume ==
  ASSUME StackInv, NEW r \in Runners, Resume(r)
  PROVE  StackInv'
  <1> USE DEF StackInv
  <1>1. /\ run[r] = "waiting" /\ wakeup' = None /\ settled' = settled \ {Wake(r)}
        /\ race' = [q \in Runners |-> IF q = r THEN {} ELSE race[q] \ {Wake(r)}]
        /\ outcome' = [outcome EXCEPT ![r] = "open"]
        /\ UNCHANGED <<queue, task, expired>>
    BY DEF Resume
  <1>2. QueueOK'
    BY <1>1, QueueKept DEF DataOK
  <1>3. /\ settled' \subseteq Promises /\ race' \in [Runners -> SUBSET Promises]
        /\ outcome' \in [Runners -> {"open", "resolved", "rejected"}]
    BY <1>1 DEF DataOK
  <1>4. \A i \in 1 .. Len(stack) : stack[i].kind = "run" => stack[i].id # r
    BY <1>1 DEF FrameOK
  <1>5. CASE /\ run' = [run EXCEPT ![r] = "running"] /\ Enter(RunFrame(r))
             /\ pending' = pending \ {Wake(r)}
    <2>1. /\ stack' \in Seq(Frames) /\ Len(stack') = Len(stack) + 1
          /\ \A i \in 1 .. Len(stack) : stack'[i] = stack[i]
          /\ stack'[Len(stack) + 1] = RunFrame(r)
      BY <1>5, FrameTypes, Pushed
    <2>2. DataOK'
      BY <1>1, <1>3, <1>5, <2>1 DEF DataOK
    <2>3. \A i \in 1 .. Len(stack) : Kept(i)
      BY <1>1, <1>5, <2>1 DEF Kept, FrameOK, DataOK
    <2>4. run'[r] = "running"
      BY <1>5 DEF DataOK
    <2>5. FrameOK' /\ FramesDistinct'
      BY <1>4, <2>1, <2>3, <2>4, FrameTypes, FramesPushed
    <2> QED BY <1>2, <2>2, <2>5
  <1>6. CASE /\ run' = [run EXCEPT ![r] = "threw"] /\ UNCHANGED stack
             /\ pending' = pending \ {Timer(r), Wake(r)}
    <2>1. DataOK'
      BY <1>1, <1>3, <1>6 DEF DataOK
    <2>2. \A i \in 1 .. Len(stack') : Kept(i)
      BY <1>1, <1>4, <1>6 DEF Kept, FrameOK, DataOK
    <2>3. Len(stack') \in Nat /\ Len(stack') <= Len(stack)
      BY <1>6 DEF DataOK
    <2> QED BY <1>2, <2>1, <2>2, <2>3, FramesPopped
  <1> QED BY <1>5, <1>6 DEF Resume, End

\* The callback whose frame is on top is called, and no other frame is its own.
LEMMA CallingFacts ==
  ASSUME StackInv, NEW t \in Tasks, Calling(t)
  PROVE  /\ Len(stack) \in Nat \ {0} /\ Len(stack) \in 1 .. Len(stack)
         /\ stack[Len(stack)].kind = "task" /\ stack[Len(stack)].id = t
         /\ Top.kind = "task" /\ task[t] = "called"
         /\ \A i \in 1 .. Len(stack) - 1 : stack[i].kind = "task" => stack[i].id # t
  <1> USE DEF StackInv
  <1>1. /\ Top.kind = "task" /\ Top.id = t
    BY FrameTypes DEF Calling
  <1>2. /\ Len(stack) \in Nat \ {0} /\ Len(stack) \in 1 .. Len(stack)
        /\ stack[Len(stack)].kind = "task" /\ stack[Len(stack)].id = t
    BY <1>1, TopFacts
  <1>3. task[t] = "called"
    BY <1>2 DEF FrameOK
  <1>4. \A i \in 1 .. Len(stack) - 1 : i \in 1 .. Len(stack) /\ i < Len(stack)
    BY <1>2
  <1> QED BY <1>1, <1>2, <1>3, <1>4 DEF FramesDistinct

LEMMA StackTaskEnds ==
  ASSUME StackInv, NEW t \in Tasks, Returns(t) \/ Suspends(t)
  PROVE  StackInv'
  <1> USE DEF StackInv
  <1>1. /\ Calling(t) /\ Leave(1)
        /\ task' = [task EXCEPT ![t] = "done"] \/ task' = [task EXCEPT ![t] = "async"]
        /\ pending' = pending \/ pending' = pending \cup {Task(t)}
        /\ CallWakeup \/ UNCHANGED <<settled, outcome>>
        /\ UNCHANGED <<queue, wakeup, run, race, expired>>
    BY DEF Returns, Suspends
  <1>2. /\ Len(stack) \in Nat \ {0} /\ task[t] = "called"
        /\ \A i \in 1 .. Len(stack) - 1 : stack[i].kind = "task" => stack[i].id # t
    BY <1>1, CallingFacts
  <1>3. 1 \in 0 .. Len(stack)
    BY <1>2
  <1>4. /\ stack' \in Seq(Frames) /\ Len(stack') = Len(stack) - 1
        /\ \A i \in 1 .. Len(stack') : stack'[i] = stack[i]
    BY <1>1, <1>3, Popped
  <1>5. DataOK'
    <2>1. settled' \subseteq Promises /\ outcome' \in [Runners -> {"open", "resolved", "rejected"}]
      BY <1>1, SettledTypes DEF DataOK
    <2>2. task' \in [Tasks -> {"new", "queued", "called", "async", "done", "raised", "lost"}]
      BY <1>1 DEF DataOK
    <2>3. pending' \subseteq Promises
      BY <1>1 DEF DataOK, Promises
    <2> QED BY <1>1, <1>4, <2>1, <2>2, <2>3 DEF DataOK
  <1>6. QueueOK'
    <2>1. \A u \in Tasks : task[u] = "queued" => task'[u] = "queued"
      BY <1>1, <1>2 DEF DataOK
    <2> QED BY <1>1, <2>1, QueueKept
  <1>7. \A i \in 1 .. Len(stack') : i \in 1 .. Len(stack) /\ i \in 1 .. Len(stack) - 1
    BY <1>2, <1>4
  <1>8. \A i \in 1 .. Len(stack') : Kept(i)
    BY <1>1, <1>2, <1>4, <1>7 DEF Kept, FrameOK, DataOK
  <1> QED BY <1>2, <1>4, <1>5, <1>6, <1>8, FramesPopped

\* The caller of a callback that throws: other code, a poll() called by other
\* code, or the poll() of a run, whose frame lies below it.
LEMMA ThrowFacts ==
  ASSUME StackInv, NEW t \in Tasks, Calling(t), Caller.kind = "poll"
  PROVE  /\ Len(stack) - 1 \in 1 .. Len(stack)
         /\ stack[Len(stack) - 1].kind = "poll" /\ stack[Len(stack) - 1].id = Caller.id
         /\ Caller.id # None =>
              /\ Len(stack) - 2 \in 1 .. Len(stack)
              /\ stack[Len(stack) - 2].kind = "run" /\ stack[Len(stack) - 2].id = Caller.id
              /\ Caller.id \in Runners /\ run[Caller.id] = "running"
              /\ \A i \in 1 .. Len(stack) - 3 : stack[i].kind = "run" => stack[i].id # Caller.id
  <1>1. DataOK /\ FramesDistinct
    BY DEF StackInv
  <1>2. Top.kind = "task" /\ Len(stack) \in Nat
    BY CallingFacts
  <1>3. /\ Len(stack) - 1 \in 1 .. Len(stack)
        /\ stack[Len(stack) - 1].kind = "poll" /\ stack[Len(stack) - 1].id = Caller.id
    BY <1>1, <1>2, CallerFacts
  <1>4. ASSUME Caller.id # None
        PROVE  /\ Len(stack) - 2 \in 1 .. Len(stack)
               /\ stack[Len(stack) - 2].kind = "run" /\ stack[Len(stack) - 2].id = Caller.id
               /\ Caller.id \in Runners /\ run[Caller.id] = "running"
               /\ \A i \in 1 .. Len(stack) - 3 : stack[i].kind = "run" => stack[i].id # Caller.id
    <2>1. (Len(stack) - 1) - 1 = Len(stack) - 2
      BY <1>2
    <2>2. /\ Len(stack) - 2 \in 1 .. Len(stack)
          /\ stack[Len(stack) - 2].kind = "run" /\ stack[Len(stack) - 2].id = Caller.id
          /\ Caller.id \in Runners /\ run[Caller.id] = "running"
      BY <1>3, <1>4, <2>1, PolledRun
    <2>3. \A i \in 1 .. Len(stack) - 3 : i \in 1 .. Len(stack) /\ i < Len(stack) - 2
      BY <1>2
    <2> QED BY <1>1, <2>2, <2>3 DEF FramesDistinct
  <1> QED BY <1>3, <1>4

LEMMA StackThrows ==
  ASSUME StackInv, NEW t \in Tasks, Throws(t)
  PROVE  StackInv'
  <1> USE DEF StackInv
  <1>1. /\ Calling(t) /\ task' = [task EXCEPT ![t] = "raised"]
        /\ UNCHANGED <<queue, wakeup, race, outcome, settled, expired>>
    BY DEF Throws
  <1>2. /\ Len(stack) \in Nat \ {0} /\ task[t] = "called"
        /\ \A i \in 1 .. Len(stack) - 1 : stack[i].kind = "task" => stack[i].id # t
    BY <1>1, CallingFacts
  <1>3. QueueOK'
    <2>1. \A u \in Tasks : task[u] = "queued" => task'[u] = "queued"
      BY <1>1, <1>2 DEF DataOK
    <2> QED BY <1>1, <2>1, QueueKept
  <1>4. PICK n \in 1 .. 3 :
          /\ Leave(n) /\ n \in 0 .. Len(stack)
          /\ \/ UNCHANGED <<run, pending>>
             \/ /\ Caller.id \in Runners /\ run[Caller.id] = "running"
                /\ \A i \in 1 .. Len(stack) - n : stack[i].kind = "run" => stack[i].id # Caller.id
                /\ End(Caller.id, "threw")
    <2>1. CASE Caller.kind \in {"loop", "task"} /\ Leave(1) /\ UNCHANGED <<run, pending>>
      <3>1. 1 \in 0 .. Len(stack) /\ 1 \in 1 .. 3
        BY <1>2
      <3> QED BY <2>1, <3>1
    <2>2. CASE Caller.kind = "poll" /\ Caller.id = None /\ Leave(2) /\ UNCHANGED <<run, pending>>
      <3>1. 2 \in 0 .. Len(stack) /\ 2 \in 1 .. 3
        BY <1>1, <1>2, <2>2, ThrowFacts
      <3> QED BY <2>2, <3>1
    <2>3. CASE Caller.kind = "poll" /\ Caller.id # None /\ Leave(3) /\ End(Caller.id, "threw")
      <3>1. 3 \in 0 .. Len(stack) /\ 3 \in 1 .. 3
        BY <1>1, <1>2, <2>3, ThrowFacts
      <3> QED BY <1>1, <2>3, <3>1, ThrowFacts
    <2> QED BY <2>1, <2>2, <2>3 DEF Throws
  <1>5. /\ stack' \in Seq(Frames) /\ Len(stack') = Len(stack) - n
        /\ \A i \in 1 .. Len(stack') : stack'[i] = stack[i]
    BY <1>4, Popped
  <1>6. DataOK'
    <2>1. run' \in [Runners -> {"idle", "running", "waiting", "returned", "threw"}]
      BY <1>4 DEF DataOK, End
    <2>2. pending' \subseteq Promises
      BY <1>4 DEF DataOK, End
    <2> QED BY <1>1, <1>5, <2>1, <2>2 DEF DataOK
  <1>7. \A i \in 1 .. Len(stack') : /\ i \in 1 .. Len(stack) /\ i \in 1 .. Len(stack) - 1
                                   /\ i \in 1 .. Len(stack) - n
    BY <1>2, <1>4, <1>5
  <1>8. \A i \in 1 .. Len(stack') : stack[i].kind = "run" => run'[stack[i].id] = "running"
    <2>1. CASE UNCHANGED run
      BY <1>7, <2>1 DEF FrameOK
    <2>2. CASE /\ \A i \in 1 .. Len(stack) - n : stack[i].kind = "run" => stack[i].id # Caller.id
               /\ Caller.id \in Runners /\ run' = [run EXCEPT ![Caller.id] = "threw"]
      BY <1>7, <2>2 DEF FrameOK, DataOK
    <2> QED BY <1>4, <2>1, <2>2 DEF End
  <1>9. \A i \in 1 .. Len(stack') : Kept(i)
    BY <1>1, <1>2, <1>5, <1>7, <1>8 DEF Kept, FrameOK, DataOK
  <1>10. Len(stack') \in Nat /\ Len(stack') <= Len(stack)
    BY <1>2, <1>4, <1>5
  <1> QED BY <1>3, <1>6, <1>9, <1>10, FramesPopped

\* Promise reactions and time leave the stack alone.
LEMMA StackQuiet ==
  ASSUME StackInv, UNCHANGED <<queue, stack, run>>, DataOK',
         \A t \in Tasks : task[t] \in {"queued", "called"} => task'[t] = task[t]
  PROVE  StackInv'
  <1> USE DEF StackInv
  <1>1. QueueOK'
    BY QueueKept
  <1>2. \A i \in 1 .. Len(stack') : Kept(i)
    BY DEF Kept, FrameOK
  <1>3. Len(stack') \in Nat /\ Len(stack') <= Len(stack)
    BY DEF DataOK
  <1> QED BY <1>1, <1>2, <1>3, FramesPopped

LEMMA StackSettle ==
  ASSUME StackInv, NEW t \in Tasks, NEW ok \in BOOLEAN, Settle(t, ok)
  PROVE  StackInv'
  <1>1. DataOK
    BY DEF StackInv
  <1>2. outcome' \in [Runners -> {"open", "resolved", "rejected"}]
    BY <1>1, DecidedType DEF Settle
  <1>3. /\ task[t] = "async"
        /\ \E how \in {"done", "raised", "lost"} : task' = [task EXCEPT ![t] = how]
    BY DEF Settle
  <1>4. pending' = pending \ {Task(t)} /\ UNCHANGED <<queue, wakeup, stack, run, race, settled, expired>>
    BY DEF Settle
  <1>5. DataOK'
    BY <1>1, <1>2, <1>3, <1>4 DEF DataOK
  <1>6. \A u \in Tasks : task[u] \in {"queued", "called"} => task'[u] = task[u]
    BY <1>1, <1>3 DEF DataOK
  <1> QED BY <1>4, <1>5, <1>6, StackQuiet

LEMMA StackTime ==
  ASSUME StackInv, NEW r \in Runners, Expire(r) \/ FireTimer(r)
  PROVE  StackInv'
  <1>1. DataOK
    BY DEF StackInv
  <1>2. UNCHANGED <<queue, pending, wakeup, stack, run, race, task>>
    BY DEF Expire, FireTimer
  <1>3. expired' \subseteq Limited
    BY <1>1 DEF Expire, FireTimer, DataOK
  <1>4. settled' \subseteq Promises
    BY <1>1 DEF Expire, FireTimer, DataOK, Promises
  <1>5. outcome' \in [Runners -> {"open", "resolved", "rejected"}]
    BY <1>1, DecidedType DEF Expire, FireTimer, DataOK
  <1>6. DataOK'
    BY <1>1, <1>2, <1>3, <1>4, <1>5 DEF DataOK
  <1> QED BY <1>2, <1>6, StackQuiet

LEMMA StackStutter ==
  ASSUME StackInv, UNCHANGED vars
  PROVE  StackInv'
  BY DEF StackInv, vars, DataOK, FrameOK, FramesDistinct, QueueOK

LEMMA DispatchCases ==
  ASSUME NEW t \in Tasks, Dispatch(t)
  PROVE  Exec(t) \/ (Dispatch(t) /\ running = 0)
  BY DEF Dispatch

LEMMA StackNext == StackInv /\ [Next]_vars => StackInv'
  <1> SUFFICES ASSUME StackInv, [Next]_vars PROVE StackInv'
    OBVIOUS
  <1>1. ASSUME NEW t \in Tasks, Post(t) \/ Exec(t) \/ Dispatch(t) PROVE StackInv'
    BY <1>1, StackPost, StackExec, DispatchCases
  <1>2. ASSUME NEW t \in Tasks, TaskStep(t) PROVE StackInv'
    BY <1>2, StackTaskEnds, StackThrows DEF TaskStep
  <1>3. ASSUME NEW t \in Tasks, NEW ok \in BOOLEAN, Settle(t, ok) PROVE StackInv'
    BY <1>3, StackSettle
  <1>4. ASSUME NEW r \in Runners, Start(r) \/ RunStep(r) \/ Expire(r) PROVE StackInv'
    BY <1>4, StackStart, StackRunReturns, StackPoll, StackAwait, StackResume, StackTime
       DEF RunStep
  <1>5. ASSUME Poll \/ PollStep PROVE StackInv'
    BY <1>5, StackPoll, StackPollRound, StackPollTask, StackPollReturns DEF PollStep
  <1>6. ASSUME UNCHANGED vars PROVE StackInv'
    BY <1>6, StackStutter
  <1> QED BY <1>1, <1>2, <1>3, <1>4, <1>5, <1>6 DEF Next

-----------------------------------------------------------------------------
(* The counter _running.                                                   *)

ActiveRuns == {r \in Runners : Active(r)}
Polls == {i \in 1 .. Len(stack) : stack[i].kind = "poll"}

LEMMA CountsFinite ==
  /\ IsFiniteSet(ActiveRuns) /\ IsFiniteSet(ActiveRuns')
  /\ DataOK => IsFiniteSet(Polls)
  /\ DataOK' => IsFiniteSet(Polls')
  <1>1. \A S \in SUBSET Runners : IsFiniteSet(S)
    BY ExecutorAssumption, FS_Subset
  <1>2. ASSUME NEW n \in Nat, NEW S \in SUBSET (1 .. n) PROVE IsFiniteSet(S)
    <2>1. IsFiniteSet(1 .. n)
      BY FS_Interval
    <2> QED BY <2>1, FS_Subset
  <1>3. DataOK => Len(stack) \in Nat /\ Polls \in SUBSET (1 .. Len(stack))
    BY DEF DataOK, Polls
  <1>4. DataOK' => Len(stack') \in Nat /\ Polls' \in SUBSET (1 .. Len(stack'))
    BY DEF DataOK, Polls
  <1>5. ActiveRuns \in SUBSET Runners /\ ActiveRuns' \in SUBSET Runners
    BY DEF ActiveRuns
  <1> QED BY <1>1, <1>2, <1>3, <1>4, <1>5

\* The counter is exact after a step that counts what it does to the sets.
LEMMA CountedStep ==
  ASSUME StackInv, StackInv', RunningExact,
         NEW a \in {0, 1, -1}, NEW p \in {0, 1, -1}, NEW r, NEW i,
         running' = running + a + p,
         a = 0 => ActiveRuns' = ActiveRuns,
         a = 1 => r \notin ActiveRuns /\ ActiveRuns' = ActiveRuns \cup {r},
         a = -1 => r \in ActiveRuns /\ ActiveRuns' = ActiveRuns \ {r},
         p = 0 => Polls' = Polls,
         p = 1 => i \notin Polls /\ Polls' = Polls \cup {i},
         p = -1 => i \in Polls /\ Polls' = Polls \ {i}
  PROVE  RunningExact'
  <1>1. IsFiniteSet(ActiveRuns) /\ IsFiniteSet(Polls)
    BY CountsFinite DEF StackInv
  <1>2. Cardinality(ActiveRuns) \in Nat /\ Cardinality(Polls) \in Nat
    BY <1>1, FS_CardinalityType
  <1>3. running = Cardinality(ActiveRuns) + Cardinality(Polls)
    BY DEF RunningExact, ActiveRuns, Polls
  <1>4. Cardinality(ActiveRuns') = Cardinality(ActiveRuns) + a
    BY <1>1, <1>2, FS_AddElement, FS_RemoveElement
  <1>5. Cardinality(Polls') = Cardinality(Polls) + p
    BY <1>1, <1>2, FS_AddElement, FS_RemoveElement
  <1>6. running' = Cardinality(ActiveRuns') + Cardinality(Polls')
    BY <1>2, <1>3, <1>4, <1>5
  <1> QED BY <1>6 DEF RunningExact, ActiveRuns, Polls

LEMMA PollsPushed ==
  ASSUME DataOK, NEW f \in Frames, Enter(f)
  PROVE  /\ f.kind # "poll" => Polls' = Polls
         /\ f.kind = "poll" => Polls' = Polls \cup {Len(stack) + 1}
         /\ Len(stack) + 1 \notin Polls
  <1>1. /\ Len(stack) \in Nat /\ Len(stack') = Len(stack) + 1
        /\ \A i \in 1 .. Len(stack) : stack'[i] = stack[i]
        /\ stack'[Len(stack) + 1] = f
    BY Pushed DEF DataOK
  <1> QED BY <1>1 DEF Polls

\* Of the frames popped, at most the one at i is that of a poll().
LEMMA PollsPopped ==
  ASSUME DataOK, NEW n \in 0 .. Len(stack), Leave(n), NEW i,
         \A j \in Len(stack) - n + 1 .. Len(stack) : stack[j].kind = "poll" => j = i,
         i \in 1 .. Len(stack) => i > Len(stack) - n
  PROVE  Polls' = Polls \ {i}
  <1>1. /\ Len(stack) \in Nat /\ Len(stack') = Len(stack) - n
        /\ \A j \in 1 .. Len(stack') : stack'[j] = stack[j]
    BY Popped DEF DataOK
  <1> QED BY <1>1 DEF Polls

LEMMA CountInit == Init => RunningExact
  <1> SUFFICES ASSUME Init PROVE RunningExact
    OBVIOUS
  <1>1. ActiveRuns = {} /\ Polls = {}
    BY DEF Init, Active, ActiveRuns, Polls
  <1>2. Cardinality(ActiveRuns) = 0 /\ Cardinality(Polls) = 0
    BY <1>1, FS_EmptySet
  <1>3. running = Cardinality(ActiveRuns) + Cardinality(Polls)
    BY <1>2 DEF Init
  <1> QED BY <1>3 DEF RunningExact, ActiveRuns, Polls

LEMMA CountNext ==
  ASSUME StackInv, StackInv', RunningExact, TypeOK, [Next]_vars
  PROVE  RunningExact'
  <1> USE DEF StackInv
  <1>1. running \in Nat
    BY DEF TypeOK
  <1>2. ASSUME UNCHANGED <<stack, run, running>> PROVE RunningExact'
    BY <1>2 DEF RunningExact, Active
  <1>3. ASSUME NEW t \in Tasks, Post(t) PROVE RunningExact'
    BY <1>2, <1>3 DEF Post
  <1>4. ASSUME NEW t \in Tasks, Exec(t) PROVE RunningExact'
    <2>1. ActiveRuns' = ActiveRuns /\ running' = running + 0 + 0
      BY <1>1, <1>4 DEF Exec, ActiveRuns, Active
    <2>2. Polls' = Polls
      BY <1>4, FrameTypes, PollsPushed DEF Exec
    <2> QED BY <2>1, <2>2, CountedStep
  <1>5. ASSUME NEW t \in Tasks, Dispatch(t) PROVE RunningExact'
    BY <1>2, <1>4, <1>5 DEF Dispatch
  <1>6. ASSUME NEW r \in Runners, Start(r) PROVE RunningExact'
    <2>1. r \notin ActiveRuns /\ ActiveRuns' = ActiveRuns \cup {r} /\ running' = running + 1 + 0
      BY <1>1, <1>6 DEF Start, ActiveRuns, Active, DataOK
    <2>2. Polls' = Polls
      BY <1>6, FrameTypes, PollsPushed DEF Start
    <2> QED BY <2>1, <2>2, CountedStep
  <1>7. ASSUME NEW r \in Runners, RunReturns(r) PROVE RunningExact'
    <2>1. r \in ActiveRuns /\ ActiveRuns' = ActiveRuns \ {r} /\ running' = running + (-1) + 0
      <3>1. /\ run[r] = "running" /\ run' = [run EXCEPT ![r] = "returned"]
            /\ running' = running - 1
        BY <1>7, StackRunReturns DEF RunReturns, End
      <3>2. \A q \in Runners : Active(q)' <=> Active(q) /\ q # r
        BY <3>1 DEF DataOK, Active
      <3> QED BY <1>1, <3>1, <3>2 DEF ActiveRuns, Active
    <2>2. Top = RunFrame(r) /\ Leave(1)
      BY <1>7 DEF RunReturns
    <2>3. Len(stack) \in Nat \ {0} /\ stack[Len(stack)].kind = "run"
      BY <2>2, FrameTypes, TopFacts
    <2>4. Polls' = Polls \ {Len(stack)} /\ Len(stack) \notin Polls
      BY <2>2, <2>3, PollsPopped DEF Polls
    <2> QED BY <2>1, <2>4, CountedStep
  <1>8. ASSUME Poll \/ \E r \in Runners : RunPolls(r) PROVE RunningExact'
    <2>1. PICK id \in Runners \cup {None} :
            Enter(PollFrame(id, 0, FALSE)) /\ running' = running + 1 /\ UNCHANGED run
      BY <1>8 DEF Poll, RunPolls
    <2>2. ActiveRuns' = ActiveRuns /\ running' = running + 0 + 1
      BY <1>1, <2>1 DEF ActiveRuns, Active
    <2>3. Len(stack) + 1 \notin Polls /\ Polls' = Polls \cup {Len(stack) + 1}
      <3> DEFINE f == PollFrame(id, 0, FALSE)
      <3>1. f \in Frames /\ f.kind = "poll"
        BY FrameTypes
      <3>2. Enter(f)
        BY <2>1
      <3> HIDE DEF f
      <3> QED BY <3>1, <3>2, PollsPushed
    <2> QED BY <2>2, <2>3, CountedStep
  <1>9. ASSUME PollRound PROVE RunningExact'
    <2>1. ActiveRuns' = ActiveRuns /\ running' = running + 0 + 0
      BY <1>1, <1>9 DEF PollRound, ActiveRuns, Active
    <2>2. /\ Top.kind = "poll" /\ stack' = [stack EXCEPT ![Len(stack)].left = Len(queue)]
      BY <1>9 DEF PollRound, Polling
    <2>3. /\ Len(stack) \in 1 .. Len(stack) /\ Top = stack[Len(stack)] /\ Top \in Frames
      BY <2>2, TopFacts
    <2>4. [Top EXCEPT !.left = Len(queue)] = PollFrame(Top.id, Len(queue), Top.ran)
      BY <2>2, <2>3 DEF PollFrame, Frame, Frames
    <2>5. stack' = CountedStack(Len(queue), Top.ran)
      BY <2>2, <2>3, <2>4 DEF CountedStack
    <2>6. Len(queue) \in Nat /\ Top.ran \in BOOLEAN
      BY <2>3 DEF DataOK, Frames
    <2>7. Len(stack') = Len(stack) /\ \A i \in 1 .. Len(stack) : stack'[i].kind = stack[i].kind
      <3> DEFINE s == CountedStack(Len(queue), Top.ran)
      <3>1. Len(s) = Len(stack) /\ \A i \in 1 .. Len(stack) : s[i].kind = stack[i].kind
        BY <2>2, <2>6, Counted
      <3> HIDE DEF s
      <3> QED BY <2>5, <3>1 DEF s
    <2>8. Polls' = Polls
      BY <2>7 DEF Polls
    <2> QED BY <2>1, <2>8, CountedStep
  <1>10. ASSUME PollTask PROVE RunningExact'
    <2>1. ActiveRuns' = ActiveRuns /\ running' = running + 0 + 0
      BY <1>1, <1>10 DEF PollTask, ActiveRuns, Active
    <2> DEFINE s == CountedStack(Top.left - 1, TRUE)
    <2>2. Top.kind = "poll" /\ Top.left > 0
      BY <1>10 DEF PollTask, Polling
    <2>3. Top.left - 1 \in Nat
      BY <2>2, TopFacts DEF Frames
    <2>4. /\ s \in Seq(Frames) /\ Len(s) = Len(stack) /\ Len(stack) \in Nat
          /\ \A i \in 1 .. Len(stack) : s[i].kind = stack[i].kind
      <3>1. DataOK /\ Len(stack) \in Nat
        BY DEF DataOK
      <3> HIDE DEF StackInv
      <3> QED BY <2>2, <2>3, <3>1, Counted
    <2>5. stack' = s \/ (queue # <<>> /\ stack' = Append(s, TaskFrame(Head(queue))))
      BY <1>10 DEF PollTask, CountedStack
    <2> HIDE DEF s
    <2>6. Polls' = Polls
      <3>1. CASE stack' = s
        BY <2>4, <3>1 DEF Polls
      <3>2. CASE queue # <<>> /\ stack' = Append(s, TaskFrame(Head(queue)))
        <4>1. TaskFrame(Head(queue)) \in Frames /\ TaskFrame(Head(queue)).kind = "task"
          BY <3>2, FrameTypes DEF DataOK
        <4>2. /\ Len(stack') = Len(stack) + 1
              /\ \A i \in 1 .. Len(stack) : stack'[i] = s[i]
              /\ stack'[Len(stack) + 1].kind = "task"
          BY <2>4, <3>2, <4>1
        <4> QED BY <2>4, <4>2 DEF Polls
      <3> QED BY <2>5, <3>1, <3>2
    <2> QED BY <2>1, <2>6, CountedStep
  <1>11. ASSUME PollReturns PROVE RunningExact'
    <2>1. ActiveRuns' = ActiveRuns /\ running' = running + 0 + (-1)
      BY <1>1, <1>11 DEF PollReturns, ActiveRuns, Active
    <2>2. Top.kind = "poll" /\ Leave(1)
      BY <1>11 DEF PollReturns, PollDone, Polling
    <2>3. Len(stack) \in Nat \ {0} /\ stack[Len(stack)].kind = "poll"
      BY <2>2, TopFacts
    <2>4. Len(stack) \in Polls /\ Polls' = Polls \ {Len(stack)}
      BY <2>2, <2>3, PollsPopped DEF Polls
    <2> QED BY <2>1, <2>4, CountedStep
  <1>12. ASSUME NEW r \in Runners, Await(r) PROVE RunningExact'
    <2>1. ActiveRuns' = ActiveRuns /\ running' = running + 0 + (-1)
      <3>1. /\ run[r] = "running" /\ run' = [run EXCEPT ![r] = "waiting"]
            /\ running' = running - 1
        BY <1>12, StackAwait DEF Await
      <3>2. \A q \in Runners : Active(q)' <=> Active(q)
        BY <3>1 DEF DataOK, Active
      <3> QED BY <1>1, <3>1, <3>2 DEF ActiveRuns
    <2>2. Top.kind = "poll" /\ Top.id = r /\ Leave(2) /\ r # None
      BY <1>12, ExecutorAssumption DEF Await, PollDone, Polling
    <2>3. /\ Len(stack) \in Nat \ {0} /\ Len(stack) \in 1 .. Len(stack)
          /\ stack[Len(stack)].kind = "poll" /\ stack[Len(stack)].id = r
      BY <2>2, TopFacts
    <2>4. Len(stack) - 1 \in 1 .. Len(stack) /\ stack[Len(stack) - 1].kind = "run"
      BY <2>2, <2>3, PolledRun
    <2>5. 2 \in 0 .. Len(stack) /\ \A j \in Len(stack) - 2 + 1 .. Len(stack) :
                                    j = Len(stack) \/ j = Len(stack) - 1
      BY <2>3, <2>4
    <2>6. Len(stack) \in Polls /\ Polls' = Polls \ {Len(stack)}
      <3>1. \A j \in Len(stack) - 2 + 1 .. Len(stack) : stack[j].kind = "poll" => j = Len(stack)
        BY <2>4, <2>5
      <3>2. Len(stack) > Len(stack) - 2 /\ Len(stack) \in Polls
        BY <2>3 DEF Polls
      <3> QED BY <2>2, <2>5, <3>1, <3>2, PollsPopped
    <2> QED BY <2>1, <2>6, CountedStep
  <1>13. ASSUME NEW r \in Runners, Resume(r) PROVE RunningExact'
    <2>1. CASE /\ run' = [run EXCEPT ![r] = "running"] /\ Enter(RunFrame(r)) /\ UNCHANGED running
      <3>1. ActiveRuns' = ActiveRuns /\ running' = running + 0 + 0
        BY <1>1, <1>13, <2>1 DEF Resume, ActiveRuns, Active, DataOK
      <3>2. Polls' = Polls
        BY <2>1, FrameTypes, PollsPushed
      <3> QED BY <3>1, <3>2, CountedStep
    <2>2. CASE /\ run' = [run EXCEPT ![r] = "threw"] /\ UNCHANGED stack /\ running' = running - 1
      <3>1. r \in ActiveRuns /\ ActiveRuns' = ActiveRuns \ {r} /\ running' = running + (-1) + 0
        BY <1>1, <1>13, <2>2 DEF Resume, ActiveRuns, Active, DataOK
      <3>2. Polls' = Polls
        BY <2>2 DEF Polls
      <3> QED BY <3>1, <3>2, CountedStep
    <2> QED BY <1>13, <2>1, <2>2 DEF Resume, End
  <1>14. ASSUME NEW t \in Tasks, Returns(t) \/ Suspends(t) PROVE RunningExact'
    <2>1. ActiveRuns' = ActiveRuns /\ running' = running + 0 + 0
      BY <1>1, <1>14 DEF Returns, Suspends, ActiveRuns, Active
    <2>2. Calling(t) /\ Leave(1)
      BY <1>14 DEF Returns, Suspends
    <2>3. Len(stack) \in Nat \ {0} /\ stack[Len(stack)].kind = "task"
      BY <2>2, CallingFacts
    <2>4. Polls' = Polls \ {Len(stack)} /\ Len(stack) \notin Polls
      BY <2>2, <2>3, PollsPopped DEF Polls
    <2> QED BY <2>1, <2>4, CountedStep
  <1>15. ASSUME NEW t \in Tasks, Throws(t) PROVE RunningExact'
    <2>1. /\ Calling(t) /\ Len(stack) \in Nat \ {0} /\ Len(stack) \in 1 .. Len(stack)
          /\ stack[Len(stack)].kind = "task"
      BY <1>15, CallingFacts DEF Throws
    <2>2. CASE /\ Leave(1) /\ UNCHANGED <<run, running>>
      <3>1. ActiveRuns' = ActiveRuns /\ running' = running + 0 + 0
        BY <1>1, <2>2 DEF ActiveRuns, Active
      <3>2. Polls' = Polls \ {Len(stack)} /\ Len(stack) \notin Polls
        BY <2>1, <2>2, PollsPopped DEF Polls
      <3> QED BY <3>1, <3>2, CountedStep
    <2>3. CASE /\ Caller.kind = "poll" /\ Leave(2) /\ UNCHANGED run /\ running' = running - 1
      <3>1. ActiveRuns' = ActiveRuns /\ running' = running + 0 + (-1)
        BY <1>1, <2>3 DEF ActiveRuns, Active
      <3>2. Len(stack) - 1 \in 1 .. Len(stack) /\ stack[Len(stack) - 1].kind = "poll"
        BY <2>1, <2>3, ThrowFacts
      <3>3. 2 \in 0 .. Len(stack) /\ \A j \in Len(stack) - 2 + 1 .. Len(stack) :
                                      j = Len(stack) \/ j = Len(stack) - 1
        BY <2>1, <3>2
      <3>4. Len(stack) - 1 \in Polls /\ Polls' = Polls \ {Len(stack) - 1}
        <4>1. \A j \in Len(stack) - 2 + 1 .. Len(stack) :
                stack[j].kind = "poll" => j = Len(stack) - 1
          BY <2>1, <3>2, <3>3
        <4>2. Len(stack) - 1 > Len(stack) - 2 /\ Len(stack) - 1 \in Polls
          BY <2>1, <3>2 DEF Polls
        <4> QED BY <2>3, <3>3, <4>1, <4>2, PollsPopped
      <3> QED BY <3>1, <3>4, CountedStep
    <2>4. CASE /\ Caller.kind = "poll" /\ Caller.id # None /\ Leave(3)
               /\ running' = running - 2 /\ run' = [run EXCEPT ![Caller.id] = "threw"]
      <3>1. /\ Len(stack) - 1 \in 1 .. Len(stack) /\ stack[Len(stack) - 1].kind = "poll"
            /\ Len(stack) - 2 \in 1 .. Len(stack) /\ stack[Len(stack) - 2].kind = "run"
            /\ Caller.id \in Runners /\ run[Caller.id] = "running"
        BY <2>1, <2>4, ThrowFacts
      <3>2. /\ Caller.id \in ActiveRuns /\ ActiveRuns' = ActiveRuns \ {Caller.id}
            /\ running' = running + (-1) + (-1)
        BY <1>1, <2>4, <3>1 DEF ActiveRuns, Active, DataOK
      <3>3. 3 \in 0 .. Len(stack) /\ \A j \in Len(stack) - 3 + 1 .. Len(stack) :
                     j = Len(stack) \/ j = Len(stack) - 1 \/ j = Len(stack) - 2
        BY <2>1, <3>1
      <3>4. Len(stack) - 1 \in Polls /\ Polls' = Polls \ {Len(stack) - 1}
        <4>1. \A j \in Len(stack) - 3 + 1 .. Len(stack) :
                stack[j].kind = "poll" => j = Len(stack) - 1
          BY <2>1, <3>1, <3>3
        <4>2. Len(stack) - 1 > Len(stack) - 3 /\ Len(stack) - 1 \in Polls
          BY <2>1, <3>1 DEF Polls
        <4> QED BY <2>4, <3>3, <4>1, <4>2, PollsPopped
      <3> QED BY <3>2, <3>4, CountedStep
    <2> QED BY <1>15, <2>2, <2>3, <2>4 DEF Throws, End
  <1>16. ASSUME NEW t \in Tasks, NEW ok \in BOOLEAN, Settle(t, ok) PROVE RunningExact'
    BY <1>2, <1>16 DEF Settle
  <1>17. ASSUME NEW r \in Runners, Expire(r) \/ FireTimer(r) PROVE RunningExact'
    BY <1>2, <1>17 DEF Expire, FireTimer
  <1>18. ASSUME UNCHANGED vars PROVE RunningExact'
    BY <1>2, <1>18 DEF vars
  <1> QED BY <1>3, <1>4, <1>5, <1>6, <1>7, <1>8, <1>9, <1>10, <1>11, <1>12, <1>13, <1>14,
             <1>15, <1>16, <1>17, <1>18 DEF Next, RunStep, PollStep, TaskStep

\* An exact counter counts finite sets.
LEMMA CountIsNatural ==
  /\ StackInv /\ RunningExact => TypeOK
  /\ StackInv' /\ RunningExact' => TypeOK'
  <1>1. \A S : IsFiniteSet(S) => Cardinality(S) \in Nat
    BY FS_CardinalityType
  <1>2. StackInv /\ RunningExact => TypeOK
    BY <1>1, CountsFinite DEF StackInv, TypeOK, RunningExact, ActiveRuns, Polls
  <1>3. StackInv' /\ RunningExact' => TypeOK'
    BY <1>1, CountsFinite DEF StackInv, TypeOK, RunningExact, ActiveRuns, Polls
  <1> QED BY <1>2, <1>3

LEMMA CountInvariant == Spec => [](StackInv /\ RunningExact /\ TypeOK)
  <1>1. Init => StackInv /\ RunningExact /\ TypeOK
    BY StackInit, CountInit, CountIsNatural
  <1>2. StackInv /\ RunningExact /\ TypeOK /\ [Next]_vars
          => (StackInv /\ RunningExact /\ TypeOK)'
    BY StackNext, CountNext, CountIsNatural
  <1> QED BY <1>1, <1>2, PTL DEF Spec

\* The variables keep their types: the counter, in particular, is never
\* decremented once too often.
THEOREM TypeCorrect == Spec => []TypeOK
  BY CountInvariant, PTL

\* _running is the number of runs and polls in progress, however each of them
\* is left, for any number of overlapping runs and nested calls.
THEOREM RunningIsExact == Spec => []RunningExact
  BY CountInvariant, PTL

-----------------------------------------------------------------------------
(* The list of pending promises.                                           *)

LEMMA PromisesDiffer ==
  /\ \A t \in Tasks, r \in Runners : Task(t) # Timer(r) /\ Task(t) # Wake(r)
  /\ \A r, q \in Runners : Timer(r) # Wake(q)
  /\ \A t, u \in Tasks : Task(t) = Task(u) => t = u
  /\ \A r, q \in Runners : Timer(r) = Timer(q) => r = q
  /\ \A r, q \in Runners : Wake(r) = Wake(q) => r = q
  BY DEF Task, Timer, Wake

\* PendingExact promise by promise.
PendingEach ==
  /\ \A t \in Tasks : Task(t) \in pending <=> task[t] = "async"
  /\ \A r \in Runners : Timer(r) \in pending <=> run[r] \in {"running", "waiting"}
  /\ \A r \in Runners : Wake(r) \in pending <=> run[r] = "waiting"

LEMMA PendingEquiv ==
  /\ DataOK => (PendingExact <=> PendingEach)
  /\ DataOK' => (PendingExact' <=> PendingEach')
  <1>1. ASSUME DataOK PROVE PendingExact <=> PendingEach
    <2>1. \A p \in pending : \/ \E t \in Tasks : p = Task(t)
                             \/ \E r \in Runners : p = Timer(r) \/ p = Wake(r)
      <3>1. pending \subseteq Promises
        BY <1>1 DEF DataOK
      <3>2. TAKE p \in pending
      <3>3. p \in Promises
        BY <3>1
      <3>4. \/ p \in {Task(t) : t \in Tasks}
            \/ p \in {Timer(r) : r \in Runners}
            \/ p \in {Wake(r) : r \in Runners}
        BY <3>3, Zenon DEF Promises
      <3> QED BY <3>4, Zenon
    <2>2. PendingExact => PendingEach
      BY PromisesDiffer DEF PendingExact, PendingEach, Async, Active
    <2>3. PendingEach => PendingExact
      BY <2>1 DEF PendingExact, PendingEach, Async, Active
    <2> QED BY <2>2, <2>3
  <1>2. (DataOK => (PendingExact <=> PendingEach))'
    BY <1>1, PTL
  <1> QED BY <1>1, <1>2

LEMMA PendingInit == Init => PendingEach
  BY DEF Init, PendingEach

LEMMA PendingNext ==
  ASSUME StackInv, PendingEach, [Next]_vars
  PROVE  PendingEach'
  <1>0. DataOK
    BY DEF StackInv
  <1> USE PromisesDiffer
  <1>1. ASSUME UNCHANGED <<pending, run>>,
               \A t \in Tasks : task'[t] = "async" <=> task[t] = "async"
        PROVE  PendingEach'
    BY <1>1 DEF PendingEach
  <1>2. ASSUME NEW t \in Tasks, Post(t) \/ Exec(t) \/ Dispatch(t) PROVE PendingEach'
    BY <1>0, <1>1, <1>2 DEF Post, Exec, Dispatch, DataOK
  <1>3. ASSUME NEW r \in Runners, Start(r) PROVE PendingEach'
    BY <1>0, <1>3 DEF Start, PendingEach, DataOK
  <1>4. ASSUME NEW r \in Runners, RunReturns(r) PROVE PendingEach'
    BY <1>0, <1>4 DEF RunReturns, End, PendingEach, DataOK
  <1>5. ASSUME Poll \/ PollRound \/ PollReturns \/ \E r \in Runners : RunPolls(r)
        PROVE  PendingEach'
    BY <1>1, <1>5 DEF Poll, PollRound, PollReturns, RunPolls
  <1>6. ASSUME PollTask PROVE PendingEach'
    <2>1. \/ UNCHANGED task
          \/ /\ Head(queue) \in Tasks /\ task[Head(queue)] = "queued"
             /\ task' = [task EXCEPT ![Head(queue)] = "called"]
      BY <1>6, QueueShifted DEF PollTask, StackInv
    <2>2. UNCHANGED <<pending, run>>
      BY <1>6 DEF PollTask
    <2> QED BY <1>0, <1>1, <2>1, <2>2 DEF DataOK
  <1>7. ASSUME NEW r \in Runners, Await(r) PROVE PendingEach'
    <2>1. /\ run[r] = "running" /\ run' = [run EXCEPT ![r] = "waiting"]
          /\ pending' = pending \cup {Wake(r)} /\ UNCHANGED task
      BY <1>7, StackAwait DEF Await
    <2> QED BY <1>0, <2>1 DEF PendingEach, DataOK
  <1>8. ASSUME NEW r \in Runners, Resume(r) PROVE PendingEach'
    <2>1. /\ run[r] = "waiting" /\ UNCHANGED task
          /\ \/ run' = [run EXCEPT ![r] = "running"] /\ pending' = pending \ {Wake(r)}
             \/ run' = [run EXCEPT ![r] = "threw"] /\ pending' = pending \ {Timer(r), Wake(r)}
      BY <1>8 DEF Resume, End
    <2> QED BY <1>0, <2>1 DEF PendingEach, DataOK
  <1>9. ASSUME NEW t \in Tasks, Returns(t) PROVE PendingEach'
    <2>1. task[t] = "called" /\ task' = [task EXCEPT ![t] = "done"] /\ UNCHANGED <<pending, run>>
      BY <1>9, CallingFacts DEF Returns
    <2> QED BY <1>0, <1>1, <2>1 DEF DataOK
  <1>10. ASSUME NEW t \in Tasks, Suspends(t) PROVE PendingEach'
    BY <1>0, <1>10 DEF Suspends, PendingEach, DataOK
  <1>11. ASSUME NEW t \in Tasks, Throws(t) PROVE PendingEach'
    <2>1. Calling(t) /\ task[t] = "called" /\ task' = [task EXCEPT ![t] = "raised"]
      BY <1>11, CallingFacts DEF Throws
    <2>2. \A u \in Tasks : task'[u] = "async" <=> task[u] = "async"
      BY <1>0, <2>1 DEF DataOK
    <2>3. CASE UNCHANGED <<run, pending>>
      BY <1>1, <2>2, <2>3
    <2>4. CASE Caller.kind = "poll" /\ Caller.id # None /\ End(Caller.id, "threw")
      <3>1. Caller.id \in Runners /\ run[Caller.id] = "running"
        BY <2>1, <2>4, ThrowFacts
      <3>2. /\ run' = [run EXCEPT ![Caller.id] = "threw"]
            /\ pending' = pending \ {Timer(Caller.id), Wake(Caller.id)}
        BY <2>4 DEF End
      <3> QED BY <1>0, <2>2, <3>1, <3>2 DEF PendingEach, DataOK
    <2> QED BY <1>11, <2>3, <2>4 DEF Throws
  <1>12. ASSUME NEW t \in Tasks, NEW ok \in BOOLEAN, Settle(t, ok) PROVE PendingEach'
    <2>1. /\ task[t] = "async" /\ pending' = pending \ {Task(t)} /\ UNCHANGED run
          /\ \E how \in {"done", "raised", "lost"} : task' = [task EXCEPT ![t] = how]
      BY <1>12 DEF Settle
    <2> QED BY <1>0, <2>1 DEF PendingEach, DataOK
  <1>13. ASSUME NEW r \in Runners, Expire(r) \/ FireTimer(r) PROVE PendingEach'
    BY <1>1, <1>13 DEF Expire, FireTimer
  <1>14. ASSUME UNCHANGED vars PROVE PendingEach'
    BY <1>1, <1>14 DEF vars
  <1> QED BY <1>2, <1>3, <1>4, <1>5, <1>6, <1>7, <1>8, <1>9, <1>10, <1>11, <1>12, <1>13, <1>14
          DEF Next, RunStep, PollStep, TaskStep

LEMMA CountAndPending == Spec => [](StackInv /\ RunningExact /\ TypeOK /\ PendingEach)
  <1>1. StackInv /\ PendingEach /\ [Next]_vars => PendingEach'
    BY PendingNext
  <1> QED BY <1>1, PendingInit, CountInvariant, PTL DEF Spec

\* No promise is left behind in pending and none is dropped from it, for any
\* number of callbacks and overlapping runs and whichever way each ends.
THEOREM PendingIsExact == Spec => []PendingExact
  <1>1. StackInv /\ PendingEach => PendingExact
    BY PendingEquiv DEF StackInv
  <1> QED BY <1>1, CountAndPending, PTL

LEMMA PromisesFinite == IsFiniteSet(Promises)
  <1> DEFINE T == {Task(t) : t \in Tasks}
             I == {Timer(r) : r \in Runners}
             W == {Wake(r) : r \in Runners}
  <1>1. IsFiniteSet(T)
    <2>1. [t \in Tasks |-> Task(t)] \in Surjection(Tasks, T)
      BY DEF Surjection
    <2> QED BY <2>1, ExecutorAssumption, FS_Surjection
  <1>2. IsFiniteSet(I)
    <2>1. [r \in Runners |-> Timer(r)] \in Surjection(Runners, I)
      BY DEF Surjection
    <2> QED BY <2>1, ExecutorAssumption, FS_Surjection
  <1>3. IsFiniteSet(W)
    <2>1. [r \in Runners |-> Wake(r)] \in Surjection(Runners, W)
      BY DEF Surjection
    <2> QED BY <2>1, ExecutorAssumption, FS_Surjection
  <1>4. Promises = (T \cup I) \cup W
    BY DEF Promises
  <1> HIDE DEF T, I, W
  <1> QED BY <1>1, <1>2, <1>3, <1>4, FS_Union

\* What may become of a run, and by which step.
LEMMA RunChanges ==
  ASSUME StackInv, [Next]_vars, NEW r \in Runners, run'[r] # run[r]
  PROVE  \/ run[r] = "idle" /\ run'[r] = "running" /\ Start(r)
         \/ run[r] = "running" /\ run'[r] = "returned" /\ RunReturns(r)
         \/ run[r] = "running" /\ run'[r] = "waiting" /\ Await(r)
         \/ run[r] = "waiting" /\ run'[r] \in {"running", "threw"} /\ Resume(r)
         \/ run[r] = "running" /\ run'[r] = "threw" /\ \E t \in Tasks : Throws(t)
  <1>1. DataOK
    BY DEF StackInv
  <1>2. ASSUME NEW q \in Runners, NEW how, run' = [run EXCEPT ![q] = how] PROVE q = r /\ run'[r] = how
    BY <1>1, <1>2 DEF DataOK
  <1>3. ASSUME NEW q \in Runners, Start(q)
        PROVE  run[r] = "idle" /\ run'[r] = "running" /\ Start(r)
    BY <1>2, <1>3 DEF Start
  <1>4. ASSUME NEW q \in Runners, RunReturns(q)
        PROVE  run[r] = "running" /\ run'[r] = "returned" /\ RunReturns(r)
    <2>1. q = r /\ run'[r] = "returned"
      BY <1>2, <1>4 DEF RunReturns, End
    <2> QED BY <1>4, <2>1, StackRunReturns
  <1>5. ASSUME NEW q \in Runners, Await(q)
        PROVE  run[r] = "running" /\ run'[r] = "waiting" /\ Await(r)
    <2>1. q = r /\ run'[r] = "waiting"
      BY <1>2, <1>5 DEF Await
    <2> QED BY <1>5, <2>1, StackAwait
  <1>6. ASSUME NEW q \in Runners, Resume(q)
        PROVE  run[r] = "waiting" /\ run'[r] \in {"running", "threw"} /\ Resume(r)
    <2>1. \E how \in {"running", "threw"} : run' = [run EXCEPT ![q] = how]
      BY <1>6 DEF Resume, End
    <2>2. q = r /\ run'[r] \in {"running", "threw"}
      BY <1>2, <2>1
    <2> QED BY <1>6, <2>2 DEF Resume
  <1>7. ASSUME NEW t \in Tasks, Throws(t)
        PROVE  run[r] = "running" /\ run'[r] = "threw"
    <2>1. Caller.kind = "poll" /\ Caller.id # None /\ run' = [run EXCEPT ![Caller.id] = "threw"]
      BY <1>7 DEF Throws, End
    <2>2. Caller.id \in Runners /\ run[Caller.id] = "running"
      BY <1>7, <2>1, ThrowFacts DEF Throws
    <2>3. Caller.id = r /\ run'[r] = "threw"
      BY <1>2, <2>1, <2>2
    <2> QED BY <2>2, <2>3
  <1>8. ASSUME UNCHANGED run PROVE FALSE
    BY <1>8
  <1>9. ASSUME NEW t \in Tasks, Post(t) \/ Exec(t) \/ Dispatch(t) \/ Returns(t) \/ Suspends(t)
        PROVE  FALSE
    BY <1>8, <1>9 DEF Post, Exec, Dispatch, Returns, Suspends
  <1>10. ASSUME NEW t \in Tasks, NEW ok \in BOOLEAN, Settle(t, ok) PROVE FALSE
    BY <1>8, <1>10 DEF Settle
  <1>11. ASSUME NEW q \in Runners, RunPolls(q) \/ FireTimer(q) \/ Expire(q) PROVE FALSE
    BY <1>8, <1>11 DEF RunPolls, FireTimer, Expire
  <1>12. ASSUME Poll \/ PollStep \/ UNCHANGED vars PROVE FALSE
    BY <1>8, <1>12 DEF Poll, PollStep, PollRound, PollTask, PollReturns, vars
  <1> QED BY <1>3, <1>4, <1>5, <1>6, <1>7, <1>9, <1>10, <1>11, <1>12 DEF Next, RunStep, TaskStep

\* A run returns with nothing queued and nothing suspended: its own timer is the
\* one promise that may remain.
LEMMA ReturnsQuiet ==
  ASSUME StackInv, PendingEach, NEW r \in Runners, run[r] = "running", r \notin expired,
         RunReturns(r)
  PROVE  queue = <<>> /\ Async = {}
  <1>1. DataOK
    BY DEF StackInv
  <1>2. queue = <<>> /\ Cardinality(pending) <= 1
    BY DEF RunReturns
  <1>3. Timer(r) \in pending
    BY DEF PendingEach
  <1>4. IsFiniteSet(pending)
    BY <1>1, PromisesFinite, FS_Subset DEF DataOK
  <1>5. \A p \in pending : p = Timer(r)
    <2> SUFFICES ASSUME NEW p \in pending, p # Timer(r) PROVE FALSE
      OBVIOUS
    <2>1. IsFiniteSet({Timer(r)}) /\ Cardinality({Timer(r)}) = 1
      BY FS_Singleton, Zenon
    <2>2. p \notin {Timer(r)}
      OBVIOUS
    <2>3. /\ IsFiniteSet({Timer(r)} \cup {p})
          /\ Cardinality({Timer(r)} \cup {p}) = Cardinality({Timer(r)}) + 1
      BY <2>1, <2>2, FS_AddElement, Zenon
    <2>4. {Timer(r)} \cup {p} \in SUBSET pending
      BY <1>3
    <2>5. 2 <= Cardinality(pending) /\ Cardinality(pending) \in Nat
      BY <1>4, <2>1, <2>3, <2>4, FS_Subset, FS_CardinalityType
    <2> QED BY <1>2, <2>5
  <1>6. \A t \in Tasks : Task(t) \notin pending
    BY <1>5, PromisesDiffer
  <1> QED BY <1>2, <1>6 DEF PendingEach, Async

\* A run that returns before its time is up leaves no callback queued and none
\* suspended.
THEOREM RunsToQuiescence == Spec => QuiescentReturn
  <1>1. ASSUME StackInv, PendingEach, [Next]_vars, NEW r \in Runners,
               run[r] = "running", run'[r] = "returned", r \notin expired
        PROVE  queue = <<>> /\ Async = {}
    <2>1. RunReturns(r)
      BY <1>1, RunChanges
    <2> QED BY <1>1, <2>1, ReturnsQuiet
  <1>2. StackInv /\ PendingEach /\ [Next]_vars
          => [\A r \in Runners : run[r] = "running" /\ run'[r] = "returned" /\ r \notin expired
                                => queue = <<>> /\ Async = {}]_vars
    BY <1>1
  <1> QED BY <1>2, CountAndPending, PTL DEF Spec, QuiescentReturn

-----------------------------------------------------------------------------
(* The wakeup.                                                             *)

LEMMA WakeupInit == Init => WakeupOK /\ NoMissedWork
  BY ExecutorAssumption DEF Init, WakeupOK, NoMissedWork

\* Calling _wakeup decides the race of the run it belongs to.
LEMMA CalledWakeup ==
  ASSUME StackInv, WakeupOK, CallWakeup, NEW r \in Runners, wakeup = r
  PROVE  outcome'[r] # "open"
  <1>1. r # None
    BY ExecutorAssumption
  <1>2. run[r] = "waiting" /\ Wake(r) \in race[r]
    BY <1>1 DEF WakeupOK
  <1>3. outcome' = Decided(Wake(r), "resolved")
    BY <1>1 DEF CallWakeup
  <1> QED BY <1>2, <1>3 DEF Decided

LEMMA DecidedStays ==
  ASSUME NEW p, NEW how \in {"resolved", "rejected"}, NEW r \in Runners,
         Decided(p, how)[r] = "open"
  PROVE  outcome[r] = "open"
  BY DEF Decided

LEMMA WakeupNext ==
  ASSUME StackInv, WakeupOK, [Next]_vars
  PROVE  WakeupOK'
  <1>0. DataOK
    BY DEF StackInv
  <1>1. ASSUME UNCHANGED <<wakeup, run, race>> PROVE WakeupOK'
    BY <1>1 DEF WakeupOK, Wake
  <1>2. ASSUME NEW t \in Tasks, Post(t) \/ Exec(t) \/ Dispatch(t) \/ Returns(t) \/ Suspends(t)
        PROVE  WakeupOK'
    BY <1>1, <1>2 DEF Post, Exec, Dispatch, Returns, Suspends
  <1>3. ASSUME NEW t \in Tasks, NEW ok \in BOOLEAN, Settle(t, ok) PROVE WakeupOK'
    BY <1>1, <1>3 DEF Settle
  <1>4. ASSUME Poll \/ PollStep \/ UNCHANGED vars PROVE WakeupOK'
    BY <1>1, <1>4 DEF Poll, PollStep, PollRound, PollTask, PollReturns, vars
  <1>5. ASSUME NEW r \in Runners, run[r] # "waiting",
               NEW how, run' = [run EXCEPT ![r] = how], UNCHANGED <<wakeup, race>>
        PROVE  WakeupOK'
    BY <1>0, <1>5 DEF WakeupOK, DataOK, Wake
  <1>6. ASSUME NEW r \in Runners, Start(r) PROVE WakeupOK'
    BY <1>5, <1>6 DEF Start
  <1>7. ASSUME NEW r \in Runners, RunReturns(r) PROVE WakeupOK'
    BY <1>5, <1>7, StackRunReturns DEF RunReturns, End
  <1>8. ASSUME NEW r \in Runners, RunPolls(r) \/ Expire(r) \/ FireTimer(r) PROVE WakeupOK'
    BY <1>1, <1>8 DEF RunPolls, Expire, FireTimer
  <1>9. ASSUME NEW r \in Runners, Await(r) PROVE WakeupOK'
    <2>1. /\ wakeup' = r /\ run' = [run EXCEPT ![r] = "waiting"]
          /\ race' = [race EXCEPT ![r] = pending'] /\ Wake(r) \in pending'
      BY <1>9 DEF Await
    <2> QED BY <1>0, <2>1 DEF WakeupOK, DataOK, Wake
  <1>10. ASSUME NEW r \in Runners, Resume(r) PROVE WakeupOK'
    BY <1>10 DEF Resume, WakeupOK
  <1>11. ASSUME NEW t \in Tasks, Throws(t) PROVE WakeupOK'
    <2>1. CASE UNCHANGED run
      BY <1>1, <1>11, <2>1 DEF Throws
    <2>2. CASE Caller.kind = "poll" /\ Caller.id # None /\ run' = [run EXCEPT ![Caller.id] = "threw"]
      <3>1. Caller.id \in Runners /\ run[Caller.id] = "running"
        BY <1>11, <2>2, ThrowFacts DEF Throws
      <3> QED BY <1>5, <1>11, <2>2, <3>1 DEF Throws
    <2> QED BY <1>11, <2>1, <2>2 DEF Throws, End
  <1> QED BY <1>2, <1>3, <1>4, <1>6, <1>7, <1>8, <1>9, <1>10, <1>11 DEF Next, RunStep, TaskStep

\* While a run is in progress dispatch() calls, so it queues only when no
\* _wakeup is set.
LEMMA NotRunning ==
  ASSUME StackInv, RunningExact, WakeupOK, running = 0
  PROVE  wakeup = None
  <1>1. IsFiniteSet(ActiveRuns) /\ IsFiniteSet(Polls)
    BY CountsFinite DEF StackInv
  <1>2. Cardinality(ActiveRuns) \in Nat /\ Cardinality(Polls) \in Nat
    BY <1>1, FS_CardinalityType
  <1>3. running = Cardinality(ActiveRuns) + Cardinality(Polls)
    BY DEF RunningExact, ActiveRuns, Polls
  <1>4. Cardinality(ActiveRuns) = 0
    BY <1>2, <1>3
  <1>5. ActiveRuns = {}
    BY <1>1, <1>4, FS_EmptySet
  <1>6. wakeup # None => wakeup \in ActiveRuns
    BY DEF StackInv, DataOK, WakeupOK, ActiveRuns, Active
  <1> QED BY <1>5, <1>6

LEMMA MissedNext ==
  ASSUME StackInv, RunningExact, PendingEach, WakeupOK, NoMissedWork, [Next]_vars
  PROVE  NoMissedWork'
  <1>0. DataOK
    BY DEF StackInv
  <1> SUFFICES ASSUME NEW r \in Runners, wakeup' = r, outcome'[r] = "open", r \notin expired'
               PROVE  queue' = <<>> /\ \A t \in Tasks : task'[t] = "async" => Task(t) \in race'[r]
    BY DEF NoMissedWork, Async, Task
  <1> DEFINE Fine == queue' = <<>> /\ \A t \in Tasks : task'[t] = "async" => Task(t) \in race'[r]
  <1>1. ASSUME wakeup = r, outcome[r] = "open", r \notin expired
        PROVE  queue = <<>> /\ \A t \in Tasks : task[t] = "async" => Task(t) \in race[r]
    BY <1>1 DEF NoMissedWork, Async
  <1>2. ASSUME UNCHANGED <<queue, wakeup, race>>, outcome[r] = "open", r \notin expired,
               \A t \in Tasks : task'[t] = "async" => task[t] = "async"
        PROVE  Fine
    BY <1>1, <1>2
  <1>3. ASSUME NEW t \in Tasks, Post(t) \/ Suspends(t) PROVE FALSE
    BY <1>3, CalledWakeup DEF Post, Suspends
  <1>4. ASSUME NEW t \in Tasks, Exec(t) PROVE Fine
    BY <1>0, <1>2, <1>4 DEF Exec, DataOK
  <1>5. ASSUME NEW t \in Tasks, Dispatch(t), running = 0 PROVE FALSE
    <2>1. wakeup = None
      BY <1>5, NotRunning
    <2> QED BY <1>5, <2>1, ExecutorAssumption DEF Dispatch
  <1>6. ASSUME NEW t \in Tasks, Returns(t) \/ Throws(t) PROVE Fine
    <2>1. UNCHANGED <<queue, wakeup, race, outcome, expired>>
      BY <1>6 DEF Returns, Throws
    <2>2. \E how \in {"done", "raised"} : task' = [task EXCEPT ![t] = how]
      BY <1>6 DEF Returns, Throws
    <2> QED BY <1>0, <1>2, <2>1, <2>2 DEF DataOK
  <1>7. ASSUME NEW t \in Tasks, NEW ok \in BOOLEAN, Settle(t, ok) PROVE Fine
    <2>1. UNCHANGED <<queue, wakeup, race, expired>>
      BY <1>7 DEF Settle
    <2>2. \E how \in {"done", "raised", "lost"} : task' = [task EXCEPT ![t] = how]
      BY <1>7 DEF Settle
    <2>3. outcome[r] = "open"
      BY <1>7, DecidedStays DEF Settle
    <2> QED BY <1>0, <1>2, <2>1, <2>2, <2>3 DEF DataOK
  <1>8. ASSUME NEW q \in Runners, Start(q) \/ RunReturns(q) \/ RunPolls(q) PROVE Fine
    BY <1>2, <1>8 DEF Start, RunReturns, RunPolls
  <1>9. ASSUME Poll \/ PollRound \/ PollReturns PROVE Fine
    BY <1>2, <1>9 DEF Poll, PollRound, PollReturns
  <1>10. ASSUME PollTask PROVE Fine
    <2>1. UNCHANGED <<wakeup, race, outcome, expired>>
      BY <1>10 DEF PollTask
    <2>2. queue = <<>>
      BY <1>1, <2>1
    <2>3. UNCHANGED <<queue, task>>
      BY <1>10, <2>2 DEF PollTask
    <2> QED BY <1>2, <2>1, <2>3
  <1>11. ASSUME NEW q \in Runners, Await(q) PROVE Fine
    <2>1. /\ q = r /\ UNCHANGED <<queue, task, expired>>
          /\ race' = [race EXCEPT ![q] = pending'] /\ pending' = pending \cup {Wake(q)}
          /\ queue = <<>> \/ Top.id \in expired \/ Top.id = None
          /\ Top.id = q
      BY <1>11 DEF Await, PollDone
    <2>2. queue = <<>>
      BY <2>1, ExecutorAssumption
    <2>3. race'[r] = pending'
      BY <1>0, <2>1 DEF DataOK
    <2> QED BY <2>1, <2>2, <2>3 DEF PendingEach
  <1>12. ASSUME NEW q \in Runners, Resume(q) PROVE FALSE
    BY <1>12, ExecutorAssumption DEF Resume
  <1>13. ASSUME NEW q \in Runners, Expire(q) \/ FireTimer(q) PROVE Fine
    <2>1. UNCHANGED <<queue, wakeup, race, task>>
      BY <1>13 DEF Expire, FireTimer
    <2>2. outcome[r] = "open" /\ r \notin expired
      BY <1>13, DecidedStays DEF Expire, FireTimer
    <2> QED BY <1>2, <2>1, <2>2
  <1>14. ASSUME UNCHANGED vars PROVE Fine
    BY <1>2, <1>14 DEF vars
  <1> QED BY <1>3, <1>4, <1>5, <1>6, <1>7, <1>8, <1>9, <1>10, <1>11, <1>12, <1>13, <1>14,
             DispatchCases DEF Next, RunStep, PollStep, TaskStep

\* The run that _wakeup belongs to never waits while a callback is queued nor
\* without a suspended callback in its race, for any number of callbacks and
\* whatever other runs and polls do meanwhile.
THEOREM NoWorkIsMissed == Spec => []NoMissedWork
  <1>1. StackInv /\ WakeupOK /\ [Next]_vars => WakeupOK'
    BY WakeupNext
  <1>2. StackInv /\ RunningExact /\ PendingEach /\ WakeupOK /\ NoMissedWork /\ [Next]_vars
          => NoMissedWork'
    BY MissedNext
  <1> QED BY <1>1, <1>2, WakeupInit, CountAndPending, PTL DEF Spec

-----------------------------------------------------------------------------
(* No callback is forgotten: one that is called has a frame, and one that  *)
(* is queued is in the queue.                                              *)

Held ==
  \A t \in Tasks :
    /\ task[t] = "called" => \E i \in 1 .. Len(stack) : stack[i].kind = "task" /\ stack[i].id = t
    /\ task[t] = "queued" => \E i \in 1 .. Len(queue) : queue[i] = t

\* The first n frames stay.
Below(n) == \A i \in 1 .. n : stack'[i].kind = stack[i].kind /\ stack'[i].id = stack[i].id

StaysSame ==
  /\ Len(stack') = Len(stack) /\ Below(Len(stack))
  /\ \A t \in Tasks : task'[t] = "called" => task[t] = "called"

Pushes(kind, id) ==
  /\ Len(stack') = Len(stack) + 1 /\ Below(Len(stack))
  /\ stack'[Len(stack) + 1].kind = kind /\ stack'[Len(stack) + 1].id = id
  /\ \A t \in Tasks : task'[t] = "called" => task[t] = "called" \/ (kind = "task" /\ id = t)

\* What is popped are not the frames of callbacks that are still called.
Pops(n) ==
  /\ n \in 1 .. Len(stack) /\ Len(stack') = Len(stack) - n /\ Below(Len(stack) - n)
  /\ \A t \in Tasks : task'[t] = "called" =>
       /\ task[t] = "called"
       /\ \A i \in Len(stack) - n + 1 .. Len(stack) : stack[i].kind = "task" => stack[i].id # t

LEMMA MoveQuiet ==
  ASSUME StackInv, UNCHANGED stack,
         \A t \in Tasks : task'[t] = "called" => task[t] = "called"
  PROVE  StaysSame
  BY DEF StaysSame, Below

LEMMA MoveExec ==
  ASSUME StackInv, NEW t \in Tasks, Exec(t)
  PROVE  Pushes("task", t)
  <1>1. DataOK /\ task' = [task EXCEPT ![t] = "called"] /\ Enter(TaskFrame(t))
    BY DEF StackInv, Exec
  <1>2. \A u \in Tasks : task'[u] = "called" => task[u] = "called" \/ u = t
    BY <1>1 DEF DataOK
  <1> QED BY <1>1, <1>2, FrameTypes, Pushed DEF Pushes, Below

LEMMA MoveEnter ==
  ASSUME StackInv, UNCHANGED task,
         NEW f \in Frames, Enter(f)
  PROVE  Pushes(f.kind, f.id)
  <1>1. DataOK
    BY DEF StackInv
  <1> QED BY <1>1, Pushed DEF Pushes, Below

LEMMA MoveStart ==
  ASSUME StackInv, NEW r \in Runners, Start(r) \/ (Resume(r) /\ ~UNCHANGED stack)
  PROVE  Pushes("run", r)
  <1>1. Enter(RunFrame(r)) /\ UNCHANGED task
    BY DEF Start, Resume
  <1>2. RunFrame(r) \in Frames /\ RunFrame(r).kind = "run" /\ RunFrame(r).id = r
    BY FrameTypes
  <1>3. Pushes(RunFrame(r).kind, RunFrame(r).id)
    BY <1>1, <1>2, MoveEnter
  <1> QED BY <1>2, <1>3

LEMMA MovePolls ==
  ASSUME StackInv, NEW id \in Runners \cup {None},
         UNCHANGED task, Enter(PollFrame(id, 0, FALSE))
  PROVE  Pushes("poll", id)
  <1> DEFINE f == PollFrame(id, 0, FALSE)
  <1>1. f \in Frames /\ f.kind = "poll" /\ f.id = id
    BY FrameTypes
  <1>2. Enter(f)
    OBVIOUS
  <1> HIDE DEF f
  <1>3. Pushes(f.kind, f.id)
    BY <1>1, <1>2, MoveEnter
  <1> QED BY <1>1, <1>3

LEMMA MoveRound ==
  ASSUME StackInv, PollRound
  PROVE  StaysSame
  <1>1. DataOK /\ Top.kind = "poll" /\ UNCHANGED task
        /\ stack' = [stack EXCEPT ![Len(stack)].left = Len(queue)]
    BY DEF StackInv, PollRound, Polling
  <1>2. /\ Len(stack) \in 1 .. Len(stack) /\ Top = stack[Len(stack)] /\ Top \in Frames
    BY <1>1, TopFacts
  <1>3. \A i \in 1 .. Len(stack) : stack[i] \in Frames
    BY <1>1 DEF DataOK
  <1>4. Len(stack') = Len(stack)
    BY <1>1 DEF DataOK
  <1>5. ASSUME NEW i \in 1 .. Len(stack)
        PROVE  stack'[i].kind = stack[i].kind /\ stack'[i].id = stack[i].id
    <2>1. CASE i = Len(stack)
      <3>1. stack'[i] = [stack[i] EXCEPT !.left = Len(queue)]
        BY <1>1, <1>2, <2>1 DEF DataOK
      <3> QED BY <1>3, <3>1 DEF Frames
    <2>2. CASE i # Len(stack)
      BY <1>1, <2>2 DEF DataOK
    <2> QED BY <2>1, <2>2
  <1> QED BY <1>1, <1>4, <1>5 DEF StaysSame, Below

LEMMA MoveTask ==
  ASSUME StackInv, PollTask
  PROVE  \/ StaysSame /\ UNCHANGED <<queue, task>>
         \/ /\ queue # <<>> /\ Pushes("task", Head(queue))
            /\ queue' = Tail(queue) /\ task' = [task EXCEPT ![Head(queue)] = "called"]
  <1> DEFINE s == CountedStack(Top.left - 1, TRUE)
  <1>1. DataOK /\ QueueOK /\ Top.kind = "poll" /\ Top.left > 0 /\ Len(stack) \in Nat
    BY DEF StackInv, PollTask, Polling, DataOK
  <1>2. Top.left - 1 \in Nat
    BY <1>1, TopFacts DEF Frames
  <1>3. /\ s \in Seq(Frames) /\ Len(s) = Len(stack)
        /\ \A i \in 1 .. Len(stack) : s[i].kind = stack[i].kind /\ s[i].id = stack[i].id
    BY <1>1, <1>2, Counted
  <1>4. \/ queue = <<>> /\ stack' = s /\ UNCHANGED <<queue, task>>
        \/ /\ queue # <<>> /\ stack' = Append(s, TaskFrame(Head(queue)))
           /\ task' = [task EXCEPT ![Head(queue)] = "called"] /\ queue' = Tail(queue)
    BY DEF PollTask, CountedStack
  <1> HIDE DEF s
  <1>5. CASE queue = <<>> /\ stack' = s /\ UNCHANGED <<queue, task>>
    BY <1>3, <1>5 DEF StaysSame, Below
  <1>6. CASE /\ queue # <<>> /\ stack' = Append(s, TaskFrame(Head(queue)))
             /\ task' = [task EXCEPT ![Head(queue)] = "called"] /\ queue' = Tail(queue)
    <2>1. Head(queue) \in Tasks
      BY <1>1, <1>6, QueueShifted
    <2>2. PICK h \in Tasks : h = Head(queue)
      BY <2>1
    <2>3. TaskFrame(h) \in Frames /\ TaskFrame(h).kind = "task" /\ TaskFrame(h).id = h
      BY FrameTypes
    <2>4. /\ Len(stack') = Len(stack) + 1 /\ stack'[Len(stack) + 1] = TaskFrame(h)
          /\ \A i \in 1 .. Len(stack) : stack'[i] = s[i]
      BY <1>1, <1>3, <1>6, <2>2, <2>3
    <2>5. \A u \in Tasks : task'[u] = "called" => task[u] = "called" \/ u = h
      BY <1>1, <1>6, <2>2 DEF DataOK
    <2>6. Pushes("task", h)
      BY <1>3, <2>3, <2>4, <2>5 DEF Pushes, Below
    <2> QED BY <1>6, <2>2, <2>6
  <1> QED BY <1>4, <1>5, <1>6

\* Popping frames of runs and polls.
LEMMA MoveLeave ==
  ASSUME StackInv, NEW n \in 1 .. Len(stack), Leave(n),
         \A t \in Tasks : task'[t] = "called" =>
           /\ task[t] = "called"
           /\ \A i \in Len(stack) - n + 1 .. Len(stack) : stack[i].kind = "task" => stack[i].id # t
  PROVE  Pops(n)
  <1>1. DataOK /\ Len(stack) \in Nat /\ n \in 0 .. Len(stack)
    BY DEF StackInv, DataOK
  <1>2. Len(stack') = Len(stack) - n /\ \A i \in 1 .. Len(stack') : stack'[i] = stack[i]
    BY <1>1, Popped
  <1> QED BY <1>1, <1>2 DEF Pops, Below

LEMMA MoveReturns ==
  ASSUME StackInv, PollReturns \/ \E r \in Runners : RunReturns(r)
  PROVE  Pops(1)
  <1>1. DataOK /\ Top.kind \in {"run", "poll"} /\ Leave(1) /\ UNCHANGED task
    BY FrameTypes DEF StackInv, PollReturns, PollDone, Polling, RunReturns
  <1>2. /\ Len(stack) \in Nat \ {0} /\ Top = stack[Len(stack)] /\ 1 \in 1 .. Len(stack)
    BY <1>1, TopFacts
  <1>3. \A i \in Len(stack) - 1 + 1 .. Len(stack) : stack[i].kind # "task"
    BY <1>1, <1>2
  <1> QED BY <1>1, <1>2, <1>3, MoveLeave

LEMMA MoveAwait ==
  ASSUME StackInv, NEW r \in Runners, Await(r)
  PROVE  Pops(2)
  <1>1. DataOK /\ Top.kind = "poll" /\ Top.id = r /\ Leave(2) /\ UNCHANGED task /\ r # None
    BY ExecutorAssumption DEF StackInv, Await, PollDone, Polling
  <1>2. /\ Len(stack) \in Nat /\ Len(stack) \in 1 .. Len(stack) /\ Top = stack[Len(stack)]
    BY <1>1, TopFacts
  <1>3. Len(stack) - 1 \in 1 .. Len(stack) /\ stack[Len(stack) - 1].kind = "run"
    BY <1>1, <1>2, PolledRun
  <1>4. \A i \in Len(stack) - 2 + 1 .. Len(stack) : i = Len(stack) \/ i = Len(stack) - 1
    BY <1>2
  <1>5. \A i \in Len(stack) - 2 + 1 .. Len(stack) : stack[i].kind # "task"
    BY <1>1, <1>2, <1>3, <1>4
  <1>6. 2 \in 1 .. Len(stack)
    BY <1>2, <1>3
  <1> QED BY <1>1, <1>5, <1>6, MoveLeave

\* A callback that ends leaves the stack, with the poll() and the run that its
\* exception goes through.
LEMMA MoveEnds ==
  ASSUME StackInv, NEW t \in Tasks, TaskStep(t)
  PROVE  \E n \in 1 .. 3 : Pops(n)
  <1>1. /\ DataOK /\ Calling(t)
        /\ \E how \in {"done", "async", "raised"} : task' = [task EXCEPT ![t] = how]
    BY DEF StackInv, TaskStep, Returns, Suspends, Throws
  <1>2. /\ Len(stack) \in Nat \ {0} /\ Len(stack) \in 1 .. Len(stack)
        /\ stack[Len(stack)].kind = "task" /\ stack[Len(stack)].id = t
    BY <1>1, CallingFacts
  <1>3. \A u \in Tasks : task'[u] = "called" => task[u] = "called" /\ u # t
    BY <1>1 DEF DataOK
  <1>4. PICK n \in 1 .. 3 :
          /\ Leave(n) /\ n \in 1 .. Len(stack)
          /\ \A i \in Len(stack) - n + 1 .. Len(stack) : i = Len(stack) \/ stack[i].kind # "task"
    <2>1. CASE Leave(1)
      <3>1. 1 \in 1 .. 3 /\ 1 \in 1 .. Len(stack) /\ \A i \in Len(stack) - 1 + 1 .. Len(stack) : i = Len(stack)
        BY <1>2
      <3> QED BY <2>1, <3>1
    <2>2. CASE Caller.kind = "poll" /\ Caller.id = None /\ Leave(2)
      <3>1. Len(stack) - 1 \in 1 .. Len(stack) /\ stack[Len(stack) - 1].kind = "poll"
        BY <1>1, <2>2, ThrowFacts
      <3>2. \A i \in Len(stack) - 2 + 1 .. Len(stack) : i = Len(stack) \/ i = Len(stack) - 1
        BY <1>2
      <3>3. 2 \in 1 .. 3 /\ 2 \in 1 .. Len(stack)
        BY <1>2, <3>1
      <3> QED BY <2>2, <3>1, <3>2, <3>3
    <2>3. CASE Caller.kind = "poll" /\ Caller.id # None /\ Leave(3)
      <3>1. /\ Len(stack) - 1 \in 1 .. Len(stack) /\ stack[Len(stack) - 1].kind = "poll"
            /\ Len(stack) - 2 \in 1 .. Len(stack) /\ stack[Len(stack) - 2].kind = "run"
        BY <1>1, <2>3, ThrowFacts
      <3>2. \A i \in Len(stack) - 3 + 1 .. Len(stack) :
              i = Len(stack) \/ i = Len(stack) - 1 \/ i = Len(stack) - 2
        BY <1>2
      <3>3. 3 \in 1 .. 3 /\ 3 \in 1 .. Len(stack)
        BY <1>2, <3>1
      <3> QED BY <2>3, <3>1, <3>2, <3>3
    <2> QED BY <2>1, <2>2, <2>3 DEF TaskStep, Returns, Suspends, Throws
  <1>5. \A u \in Tasks : task'[u] = "called" =>
          /\ task[u] = "called"
          /\ \A i \in Len(stack) - n + 1 .. Len(stack) : stack[i].kind = "task" => stack[i].id # u
    BY <1>2, <1>3, <1>4
  <1> QED BY <1>4, <1>5, MoveLeave


\* A called callback keeps its frame until it ends.
LEMMA CalledKept ==
  ASSUME StackInv, Held, StaysSame \/ (\E k, id : Pushes(k, id)) \/ \E n \in 1 .. 3 : Pops(n),
         NEW t \in Tasks, task'[t] = "called"
  PROVE  \E i \in 1 .. Len(stack') : stack'[i].kind = "task" /\ stack'[i].id = t
  <1>1. Len(stack) \in Nat
    BY DEF StackInv, DataOK
  <1>2. ASSUME task[t] = "called", Below(Len(stack)), Len(stack') >= Len(stack), Len(stack') \in Nat
        PROVE  \E i \in 1 .. Len(stack') : stack'[i].kind = "task" /\ stack'[i].id = t
    <2>1. PICK i \in 1 .. Len(stack) : stack[i].kind = "task" /\ stack[i].id = t
      BY <1>2 DEF Held
    <2>2. i \in 1 .. Len(stack') /\ stack'[i].kind = "task" /\ stack'[i].id = t
      BY <1>1, <1>2, <2>1 DEF Below
    <2> QED BY <2>2
  <1>3. CASE StaysSame
    BY <1>1, <1>2, <1>3 DEF StaysSame
  <1>4. CASE \E k, id : Pushes(k, id)
    <2>1. PICK k, id : Pushes(k, id)
      BY <1>4
    <2>2. Len(stack') = Len(stack) + 1 /\ Below(Len(stack)) /\ Len(stack') \in Nat
      BY <1>1, <2>1 DEF Pushes
    <2>3. CASE task[t] = "called"
      BY <1>1, <1>2, <2>2, <2>3
    <2>4. CASE k = "task" /\ id = t
      <3>1. Len(stack) + 1 \in 1 .. Len(stack')
        BY <1>1, <2>2
      <3> QED BY <2>1, <2>4, <3>1 DEF Pushes
    <2> QED BY <2>1, <2>3, <2>4 DEF Pushes
  <1>5. CASE \E n \in 1 .. 3 : Pops(n)
    <2>1. PICK n \in 1 .. 3 : Pops(n)
      BY <1>5
    <2>2. /\ n \in 1 .. Len(stack) /\ Len(stack') = Len(stack) - n /\ Below(Len(stack) - n)
          /\ task[t] = "called"
          /\ \A i \in Len(stack) - n + 1 .. Len(stack) : stack[i].kind = "task" => stack[i].id # t
      BY <2>1 DEF Pops
    <2>3. PICK i \in 1 .. Len(stack) : stack[i].kind = "task" /\ stack[i].id = t
      BY <2>2 DEF Held
    <2>4. i \in 1 .. Len(stack) - n
      BY <1>1, <2>2, <2>3
    <2>5. i \in 1 .. Len(stack') /\ stack'[i].kind = "task" /\ stack'[i].id = t
      BY <2>2, <2>3, <2>4 DEF Below
    <2> QED BY <2>5
  <1> QED BY <1>3, <1>4, <1>5

LEMMA StackMoves ==
  ASSUME StackInv, [Next]_vars
  PROVE  StaysSame \/ (\E k, id : Pushes(k, id)) \/ \E n \in 1 .. 3 : Pops(n)
  <1> USE DEF StackInv
  <1>0. DataOK
    OBVIOUS
  <1>1. ASSUME NEW t \in Tasks, Post(t) PROVE StaysSame
    BY <1>0, <1>1, MoveQuiet DEF Post, DataOK
  <1>2. ASSUME NEW t \in Tasks, Exec(t) PROVE Pushes("task", t)
    BY <1>2, MoveExec
  <1>3. ASSUME NEW t \in Tasks, Dispatch(t) PROVE StaysSame \/ Pushes("task", t)
    <2>1. CASE Exec(t)
      BY <2>1, MoveExec
    <2>2. CASE task' = [task EXCEPT ![t] = "queued"] /\ UNCHANGED stack
      BY <1>0, <2>2, MoveQuiet DEF DataOK
    <2> QED BY <1>3, <2>1, <2>2 DEF Dispatch
  <1>4. ASSUME NEW t \in Tasks, TaskStep(t) PROVE \E n \in 1 .. 3 : Pops(n)
    BY <1>4, MoveEnds
  <1>5. ASSUME NEW t \in Tasks, NEW ok \in BOOLEAN, Settle(t, ok) PROVE StaysSame
    <2>1. /\ UNCHANGED stack
          /\ \E how \in {"done", "raised", "lost"} : task' = [task EXCEPT ![t] = how]
      BY <1>5 DEF Settle
    <2> QED BY <1>0, <2>1, MoveQuiet DEF DataOK
  <1>6. ASSUME NEW r \in Runners, Start(r) PROVE Pushes("run", r)
    BY <1>6, MoveStart
  <1>7. ASSUME NEW r \in Runners, RunReturns(r) PROVE Pops(1)
    BY <1>7, MoveReturns
  <1>8. ASSUME NEW r \in Runners, RunPolls(r) PROVE Pushes("poll", r)
    BY <1>8, MovePolls DEF RunPolls
  <1>9. ASSUME NEW r \in Runners, Await(r) PROVE Pops(2)
    BY <1>9, MoveAwait
  <1>10. ASSUME NEW r \in Runners, Resume(r) PROVE StaysSame \/ Pushes("run", r)
    <2>1. CASE UNCHANGED stack
      BY <1>10, <2>1, MoveQuiet DEF Resume
    <2> QED BY <1>10, <2>1, MoveStart
  <1>11. ASSUME NEW r \in Runners, FireTimer(r) \/ Expire(r) PROVE StaysSame
    BY <1>11, MoveQuiet DEF FireTimer, Expire
  <1>12. ASSUME Poll PROVE Pushes("poll", None)
    BY <1>12, MovePolls DEF Poll
  <1>13. ASSUME PollStep PROVE StaysSame \/ Pushes("task", Head(queue)) \/ Pops(1)
    BY <1>13, MoveRound, MoveTask, MoveReturns DEF PollStep
  <1>14. ASSUME UNCHANGED vars PROVE StaysSame
    BY <1>14, MoveQuiet DEF vars
  <1>15. 1 \in 1 .. 3 /\ 2 \in 1 .. 3
    OBVIOUS
  <1> HIDE DEF StackInv
  <1> QED BY <1>1, <1>2, <1>3, <1>4, <1>5, <1>6, <1>7, <1>8, <1>9, <1>10, <1>11, <1>12, <1>13, <1>14,
             <1>15 DEF Next, RunStep

\* A queued callback stays in the queue until it is shifted out.
LEMMA QueuedKept ==
  ASSUME StackInv, Held, [Next]_vars, NEW t \in Tasks, task'[t] = "queued"
  PROVE  \E i \in 1 .. Len(queue') : queue'[i] = t
  <1>0. DataOK /\ QueueOK /\ Len(queue) \in Nat
    BY DEF StackInv, DataOK
  <1>1. ASSUME queue' = queue, task[t] = "queued"
        PROVE  \E i \in 1 .. Len(queue') : queue'[i] = t
    BY <1>1 DEF Held
  <1>2. ASSUME NEW u \in Tasks, queue' = Append(queue, u), task' = [task EXCEPT ![u] = "queued"]
        PROVE  \E i \in 1 .. Len(queue') : queue'[i] = t
    <2>1. /\ Len(queue') = Len(queue) + 1 /\ queue'[Len(queue) + 1] = u
          /\ \A i \in 1 .. Len(queue) : queue'[i] = queue[i]
      BY <1>0, <1>2 DEF DataOK
    <2>2. CASE t = u
      <3>1. Len(queue) + 1 \in 1 .. Len(queue')
        BY <1>0, <2>1
      <3> QED BY <2>1, <2>2, <3>1
    <2>3. CASE t # u
      <3>1. task[t] = "queued"
        BY <1>0, <1>2, <2>3 DEF DataOK
      <3>2. PICK i \in 1 .. Len(queue) : queue[i] = t
        BY <3>1 DEF Held
      <3>3. i \in 1 .. Len(queue') /\ queue'[i] = t
        BY <1>0, <2>1, <3>2
      <3> QED BY <3>3
    <2> QED BY <2>2, <2>3
  <1>3. ASSUME NEW u \in Tasks, Post(u) \/ Exec(u) \/ Dispatch(u)
        PROVE  \E i \in 1 .. Len(queue') : queue'[i] = t
    <2>1. \/ queue' = Append(queue, u) /\ task' = [task EXCEPT ![u] = "queued"]
          \/ queue' = queue /\ task' = [task EXCEPT ![u] = "called"]
      BY <1>3 DEF Post, Exec, Dispatch
    <2>2. CASE queue' = queue /\ task' = [task EXCEPT ![u] = "called"]
      <3>1. task[t] = "queued"
        BY <1>0, <2>2 DEF DataOK
      <3> QED BY <1>1, <2>2, <3>1
    <2> QED BY <1>2, <2>1, <2>2
  <1>4. ASSUME PollTask PROVE \E i \in 1 .. Len(queue') : queue'[i] = t
    <2>1. CASE UNCHANGED <<queue, task>>
      BY <1>1, <2>1
    <2>2. CASE /\ queue # <<>> /\ queue' = Tail(queue)
               /\ task' = [task EXCEPT ![Head(queue)] = "called"]
      <3>1. task[t] = "queued" /\ t # Head(queue)
        <4>1. Head(queue) \in Tasks
          BY <1>0, <2>2, QueueShifted
        <4> QED BY <1>0, <2>2, <4>1 DEF DataOK
      <3>2. PICK i \in 1 .. Len(queue) : queue[i] = t
        BY <3>1 DEF Held
      <3>3. /\ Head(queue) = queue[1] /\ Len(queue') = Len(queue) - 1
            /\ \A j \in 1 .. Len(queue') : queue'[j] = queue[j + 1]
        BY <1>0, <2>2, HeadTailProperties DEF DataOK
      <3>4. i # 1
        BY <3>1, <3>2, <3>3
      <3>5. i - 1 \in 1 .. Len(queue') /\ (i - 1) + 1 = i
        BY <1>0, <3>2, <3>3, <3>4
      <3>6. queue'[i - 1] = t
        BY <3>2, <3>3, <3>5
      <3> QED BY <3>5, <3>6
    <2> QED BY <1>4, <2>1, <2>2 DEF PollTask
  <1>5. ASSUME NEW u \in Tasks, NEW how \in {"done", "async", "raised", "lost"},
               task' = [task EXCEPT ![u] = how]
        PROVE  task[t] = "queued"
    BY <1>0, <1>5 DEF DataOK
  <1>6. ASSUME NEW u \in Tasks, NEW ok \in BOOLEAN, TaskStep(u) \/ Settle(u, ok)
        PROVE  \E i \in 1 .. Len(queue') : queue'[i] = t
    <2>1. /\ \E how \in {"done", "async", "raised", "lost"} : task' = [task EXCEPT ![u] = how]
          /\ queue' = queue
      BY <1>6 DEF TaskStep, Returns, Suspends, Throws, Settle
    <2> QED BY <1>1, <1>5, <2>1
  <1>7. ASSUME UNCHANGED <<queue, task>> PROVE \E i \in 1 .. Len(queue') : queue'[i] = t
    BY <1>1, <1>7
  <1>8. ASSUME NEW r \in Runners, Start(r) \/ RunStep(r) \/ Expire(r)
        PROVE  UNCHANGED <<queue, task>>
    BY <1>8 DEF Start, RunStep, RunReturns, RunPolls, Await, Resume, FireTimer, Expire
  <1>9. ASSUME Poll \/ PollRound \/ PollReturns \/ UNCHANGED vars
        PROVE  UNCHANGED <<queue, task>>
    BY <1>9 DEF Poll, PollRound, PollReturns, vars
  <1> QED BY <1>3, <1>4, <1>6, <1>7, <1>8, <1>9 DEF Next, PollStep

\* Every callback handed over is where the code will find it: with its frame
\* on the call stack while it is called, and in the queue while it is queued.
THEOREM NoneForgotten == Spec => []Held
  <1>1. Init => Held
    BY DEF Init, Held
  <1>2. StackInv /\ Held /\ [Next]_vars => Held'
    BY StackMoves, CalledKept, QueuedKept DEF Held
  <1>3. Spec => []StackInv
    BY CountInvariant, PTL
  <1> QED BY <1>1, <1>2, <1>3, PTL DEF Spec

-----------------------------------------------------------------------------
(* What a step leaves of a callback and of a run that is over.             *)

LEMMA TaskGoesOn ==
  ASSUME StackInv, [Next]_vars, NEW t \in Tasks
  PROVE  /\ task[t] \in {"done", "raised", "lost"} => task'[t] = task[t]
         /\ task[t] # "new" => task'[t] # "new"
  <1>1. DataOK /\ QueueOK
    BY DEF StackInv
  <1>2. ASSUME NEW u \in Tasks, task[u] \in {"new", "queued", "called", "async"},
               NEW how \in {"queued", "called", "done", "async", "raised", "lost"},
               task' = [task EXCEPT ![u] = how]
        PROVE  /\ task[t] \in {"done", "raised", "lost"} => task'[t] = task[t]
               /\ task[t] # "new" => task'[t] # "new"
    BY <1>1, <1>2 DEF DataOK
  <1>3. ASSUME NEW u \in Tasks, Post(u) \/ Exec(u) \/ Dispatch(u)
        PROVE  task[u] = "new" /\ \E how \in {"queued", "called"} : task' = [task EXCEPT ![u] = how]
    BY <1>3 DEF Post, Exec, Dispatch
  <1>4. ASSUME NEW u \in Tasks, TaskStep(u)
        PROVE  task[u] = "called" /\ \E how \in {"done", "async", "raised"} : task' = [task EXCEPT ![u] = how]
    BY <1>4, CallingFacts DEF TaskStep, Returns, Suspends, Throws
  <1>5. ASSUME NEW u \in Tasks, NEW ok \in BOOLEAN, Settle(u, ok)
        PROVE  task[u] = "async" /\ \E how \in {"done", "raised", "lost"} : task' = [task EXCEPT ![u] = how]
    BY <1>5 DEF Settle
  <1>6. ASSUME PollTask
        PROVE  \/ UNCHANGED task
               \/ /\ Head(queue) \in Tasks /\ task[Head(queue)] = "queued"
                  /\ task' = [task EXCEPT ![Head(queue)] = "called"]
    BY <1>1, <1>6, QueueShifted DEF PollTask
  <1>7. ASSUME NEW r \in Runners, Start(r) \/ RunStep(r) \/ Expire(r) PROVE UNCHANGED task
    BY <1>7 DEF Start, RunStep, RunReturns, RunPolls, Await, Resume, FireTimer, Expire
  <1>8. ASSUME Poll \/ PollRound \/ PollReturns \/ UNCHANGED vars PROVE UNCHANGED task
    BY <1>8 DEF Poll, PollRound, PollReturns, vars
  <1> QED BY <1>2, <1>3, <1>4, <1>5, <1>6, <1>7, <1>8 DEF Next, PollStep
=============================================================================
