--------------------------- MODULE InstanceProofs ---------------------------
(***************************************************************************)
(* An instance drives its executor only by what Executor specifies, so     *)
(* what is proved of every executor holds of the executor of an instance.  *)
(* For that the forEach of publish() must belong to a call that is still   *)
(* on the stack, below which nothing is popped before it is over.  On top  *)
(* of that, what initiate() promises when it resolves.                     *)
(***************************************************************************)
EXTENDS Instance, ExecutorProofs

\* The code below depth is the event loop or a callback that is still called.
Above(depth) == depth <= Len(stack) /\ (depth > 0 => stack[depth].kind = "task")

WalkOK ==
  /\ exits \in Seq(Handlers)
  /\ walk \in [next : Nat \ {0}, last : Nat, depth : Nat, on : BOOLEAN]
  /\ walk.on => Above(walk.depth) /\ walk.next <= walk.last + 1

Flags ==
  /\ life \in {"new", "first", "publishing", "second", "resolved", "rejected"}
  /\ terminated \in BOOLEAN /\ disturbed \in BOOLEAN
  /\ audience \subseteq Handlers

InstanceInv == StackInv /\ WalkOK /\ Flags

-----------------------------------------------------------------------------
(* Each step of the instance is a step of its executor, or none.           *)

LEMMA FirstAndSecond == First \in Runners /\ Second \in Runners
  BY InstanceAssumption

LEMMA VisitedHandler ==
  ASSUME WalkOK, Before(walk.next)
  PROVE  exits[walk.next] \in Handlers /\ exits[walk.next] \in Tasks
  <1>1. walk.next \in 1 .. Len(exits)
    BY DEF WalkOK, Before
  <1>2. exits[walk.next] \in Handlers
    BY <1>1 DEF WalkOK
  <1> QED BY <1>2, InstanceAssumption

LEMMA InstanceStep ==
  ASSUME WalkOK, [InstanceNext]_allVars
  PROVE  [Next]_vars
  <1> USE FirstAndSecond
  <1>1. ASSUME Begin PROVE Next
    BY <1>1 DEF Begin, Next
  <1>2. ASSUME Continue PROVE [Next]_vars
    BY <1>2 DEF Continue, Next
  <1>3. ASSUME Conclude \/ Terminate PROVE UNCHANGED vars
    BY <1>3 DEF Conclude, Terminate
  <1>4. ASSUME WalkOn PROVE Next
    <2>1. exits[walk.next] \in Tasks
      BY <1>4, VisitedHandler DEF WalkOn
    <2> QED BY <1>4, <2>1 DEF WalkOn, Next
  <1>5. ASSUME WalkDone PROVE [Next]_vars
    BY <1>5 DEF WalkDone, Next
  <1>6. ASSUME PollGoesOn PROVE Next
    BY <1>6 DEF PollGoesOn, Next
  <1>7. ASSUME NEW t \in Tasks, Schedule(t) \/ Call(t) PROVE Next
    BY <1>7 DEF Schedule, Call, Next
  <1>8. ASSUME NEW t \in Tasks, Subscribe(t) \/ Unsubscribe(t) PROVE UNCHANGED vars
    BY <1>8 DEF Subscribe, Unsubscribe
  <1>9. ASSUME NEW t \in Tasks, CallbackStep(t) PROVE Next
    BY <1>9 DEF CallbackStep, Invoked, WalkThrows, TaskStep, Next
  <1>10. ASSUME NEW t \in Tasks, Settles(t) PROVE Next
    BY <1>10 DEF Settles, Next
  <1>11. ASSUME NEW r \in Runners, Running(r) PROVE Next
    BY <1>11 DEF Running, RunStep, Next
  <1>12. ASSUME UNCHANGED allVars PROVE UNCHANGED vars
    BY <1>12 DEF allVars
  <1> QED BY <1>1, <1>2, <1>3, <1>4, <1>5, <1>6, <1>7, <1>8, <1>9, <1>10, <1>11, <1>12
          DEF InstanceNext

-----------------------------------------------------------------------------
(* What a step of the executor leaves of the stack above the forEach.      *)

LEMMA AbovePushed ==
  ASSUME StackInv, NEW d \in Nat, Above(d), NEW f, Enter(f)
  PROVE  Above(d)'
  <1>1. Len(stack) \in Nat /\ stack \in Seq(Frames)
    BY DEF StackInv, DataOK
  <1>2. Len(stack') = Len(stack) + 1 /\ \A i \in 1 .. Len(stack) : stack'[i] = stack[i]
    BY <1>1 DEF Enter
  <1>3. d > 0 => d \in 1 .. Len(stack)
    BY <1>1 DEF Above
  <1> QED BY <1>1, <1>2, <1>3 DEF Above

LEMMA AbovePopped ==
  ASSUME StackInv, NEW d \in Nat, Above(d), NEW n \in Nat, n + d <= Len(stack), Leave(n)
  PROVE  Above(d)'
  <1>1. Len(stack) \in Nat /\ n \in 0 .. Len(stack) /\ DataOK
    BY DEF StackInv, DataOK
  <1>2. Len(stack') = Len(stack) - n /\ \A i \in 1 .. Len(stack') : stack'[i] = stack[i]
    BY <1>1, Popped
  <1>3. d <= Len(stack') /\ (d > 0 => d \in 1 .. Len(stack'))
    BY <1>1, <1>2
  <1> QED BY <1>2, <1>3 DEF Above

LEMMA AbovePolls ==
  ASSUME StackInv, NEW d \in Nat, Above(d), Len(stack) # d, PollStep
  PROVE  Above(d)'
  <1>1. Top.kind = "poll"
    BY DEF PollStep, PollRound, PollTask, PollReturns, PollDone, Polling
  <1>2. /\ DataOK /\ Len(stack) \in 1 .. Len(stack) /\ Len(stack) \in Nat
        /\ Top = stack[Len(stack)] /\ Top \in Frames
    BY <1>1, TopFacts DEF StackInv
  <1>3. d < Len(stack) /\ (d > 0 => d \in 1 .. Len(stack))
    BY <1>2 DEF Above
  <1>4. CASE PollRound
    <2>1. stack' = [stack EXCEPT ![Len(stack)].left = Len(queue)]
      BY <1>4 DEF PollRound
    <2>2. Len(stack') = Len(stack)
      BY <1>2, <2>1 DEF DataOK
    <2>3. d > 0 => stack'[d] = stack[d]
      BY <1>2, <1>3, <2>1 DEF DataOK
    <2> QED BY <1>3, <2>2, <2>3 DEF Above
  <1>5. CASE PollTask
    <2> DEFINE s == CountedStack(Top.left - 1, TRUE)
    <2>1. Top.left - 1 \in Nat
      BY <1>2, <1>5 DEF PollTask, Frames
    <2>2. /\ s \in Seq(Frames) /\ Len(s) = Len(stack)
          /\ \A i \in 1 .. Len(stack) : s[i].kind = stack[i].kind
      BY <1>1, <1>2, <2>1, Counted
    <2>3. stack' = s \/ \E f : stack' = Append(s, f)
      BY <1>5 DEF PollTask, CountedStack
    <2> HIDE DEF s
    <2>4. Len(stack') >= Len(stack) /\ \A i \in 1 .. Len(stack) : stack'[i] = s[i]
      BY <1>2, <2>2, <2>3
    <2> QED BY <1>2, <1>3, <2>2, <2>4 DEF Above
  <1>6. CASE PollReturns
    BY <1>2, <1>3, <1>6, AbovePopped DEF PollReturns
  <1> QED BY <1>4, <1>5, <1>6 DEF PollStep

LEMMA AboveRuns ==
  ASSUME StackInv, NEW d \in Nat, Above(d), Len(stack) # d, NEW r \in Runners,
         RunReturns(r) \/ RunPolls(r) \/ Await(r) \/ Resume(r)
  PROVE  Above(d)'
  <1>1. CASE RunPolls(r)
    BY <1>1, AbovePushed DEF RunPolls
  <1>2. CASE RunReturns(r)
    <2>1. Len(stack) \in Nat
      BY DEF StackInv, DataOK
    <2>2. 1 + d <= Len(stack)
      BY <2>1 DEF Above
    <2> QED BY <1>2, <2>2, AbovePopped DEF RunReturns
  <1>3. CASE Await(r)
    <2>1. Top.kind = "poll" /\ Top.id # None /\ DataOK
      BY <1>3, ExecutorAssumption DEF Await, PollDone, Polling, StackInv
    <2>2. Len(stack) \in 1 .. Len(stack) /\ Top = stack[Len(stack)] /\ Len(stack) \in Nat
      BY <2>1, TopFacts
    <2>3. Len(stack) - 1 \in 1 .. Len(stack) /\ stack[Len(stack) - 1].kind = "run"
      BY <2>1, <2>2, PolledRun
    <2>4. d # Len(stack) - 1
      BY <2>3 DEF Above
    <2>5. 2 + d <= Len(stack)
      BY <2>2, <2>4 DEF Above
    <2> QED BY <1>3, <2>5, AbovePopped DEF Await
  <1>4. CASE Resume(r)
    <2>1. CASE UNCHANGED stack
      BY <2>1 DEF Above
    <2>2. CASE Enter(RunFrame(r))
      BY <2>2, AbovePushed
    <2> QED BY <1>4, <2>1, <2>2 DEF Resume
  <1> QED BY <1>1, <1>2, <1>3, <1>4

LEMMA AboveCallbacks ==
  ASSUME StackInv, NEW d \in Nat, Above(d), Len(stack) # d, NEW t \in Tasks, TaskStep(t)
  PROVE  Above(d)'
  <1>1. Calling(t)
    BY DEF TaskStep, Returns, Suspends, Throws
  <1>2. Len(stack) \in Nat \ {0} /\ 1 + d <= Len(stack)
    BY <1>1, CallingFacts DEF Above
  <1>3. CASE Returns(t) \/ Suspends(t)
    BY <1>2, <1>3, AbovePopped DEF Returns, Suspends
  <1>4. CASE Throws(t)
    <2>1. CASE Leave(1)
      BY <1>2, <2>1, AbovePopped
    <2>2. CASE Caller.kind = "poll" /\ Caller.id = None /\ Leave(2)
      <3>1. Len(stack) - 1 \in 1 .. Len(stack) /\ stack[Len(stack) - 1].kind = "poll"
        BY <1>1, <2>2, ThrowFacts
      <3>2. d # Len(stack) - 1
        BY <3>1 DEF Above
      <3>3. 2 + d <= Len(stack)
        BY <1>2, <3>2
      <3> QED BY <2>2, <3>3, AbovePopped
    <2>3. CASE Caller.kind = "poll" /\ Caller.id # None /\ Leave(3)
      <3>1. /\ Len(stack) - 1 \in 1 .. Len(stack) /\ stack[Len(stack) - 1].kind = "poll"
            /\ Len(stack) - 2 \in 1 .. Len(stack) /\ stack[Len(stack) - 2].kind = "run"
        BY <1>1, <2>3, ThrowFacts
      <3>2. d # Len(stack) - 1 /\ d # Len(stack) - 2
        BY <3>1 DEF Above
      <3>3. 3 + d <= Len(stack)
        BY <1>2, <3>2
      <3> QED BY <2>3, <3>3, AbovePopped
    <2> QED BY <1>4, <2>1, <2>2, <2>3 DEF Throws
  <1> QED BY <1>3, <1>4 DEF TaskStep

-----------------------------------------------------------------------------
(* The invariant.                                                          *)

LEMMA InstanceInvInit == InstanceInit => InstanceInv
  <1> SUFFICES ASSUME InstanceInit PROVE InstanceInv
    OBVIOUS
  <1>1. StackInv
    BY StackInit DEF InstanceInit
  <1>2. NoWalk \in [next : Nat \ {0}, last : Nat, depth : Nat, on : BOOLEAN] /\ ~NoWalk.on
    BY DEF NoWalk
  <1>3. WalkOK
    BY <1>2 DEF InstanceInit, WalkOK
  <1>4. Flags
    BY DEF InstanceInit, Flags
  <1> QED BY <1>1, <1>3, <1>4 DEF InstanceInv

\* A forEach that starts walks the handlers above the code that starts it.
LEMMA PublishOK ==
  ASSUME StackInv, Publish, UserCode, UNCHANGED stack, WalkOK, Flags
  PROVE  WalkOK' /\ terminated' \in BOOLEAN /\ audience' \subseteq Handlers
         /\ UNCHANGED disturbed
  <1>1. Len(exits) \in Nat /\ Len(stack) \in Nat
    BY DEF WalkOK, StackInv, DataOK
  <1>2. Above(Len(stack))
    <2>1. CASE Len(stack) = 0
      BY <2>1 DEF Above
    <2>2. CASE Len(stack) # 0
      <3>1. Len(stack) \in DOMAIN stack /\ Len(stack) \in 1 .. Len(stack)
        BY <1>1, <2>2 DEF StackInv, DataOK
      <3>2. Top = stack[Len(stack)] /\ stack[Len(stack)] \in Frames
        BY <3>1 DEF Top, FrameAt, StackInv, DataOK
      <3>3. stack[Len(stack)].kind = "task"
        BY <3>2 DEF UserCode, Frames
      <3> QED BY <1>1, <3>3 DEF Above
    <2> QED BY <2>1, <2>2
  <1>3. Above(Len(stack))'
    BY <1>2 DEF Above
  <1>4. walk' = [next |-> 1, last |-> Len(exits), depth |-> Len(stack), on |-> TRUE]
    BY DEF Publish
  <1>5. audience' \subseteq Handlers
    BY DEF Publish, WalkOK
  <1> QED BY <1>1, <1>3, <1>4, <1>5 DEF Publish, WalkOK, Flags, Above

\* A step of the executor alone that keeps what the forEach stands on.
LEMMA WalkKept ==
  ASSUME WalkOK, Flags, UNCHANGED instanceVars,
         walk.on => Above(walk.depth)'
  PROVE  WalkOK' /\ Flags'
  BY DEF WalkOK, Flags, instanceVars, Above

LEMMA InstanceInvNext == InstanceInv /\ [InstanceNext]_allVars => InstanceInv'
  <1> SUFFICES ASSUME InstanceInv, [InstanceNext]_allVars PROVE InstanceInv'
    OBVIOUS
  <1>1. StackInv /\ WalkOK /\ Flags
    BY DEF InstanceInv
  <1>2. StackInv'
    BY <1>1, InstanceStep, StackNext
  <1>3. /\ walk.depth \in Nat /\ walk.next \in Nat \ {0} /\ walk.last \in Nat
        /\ walk.on \in BOOLEAN /\ (walk.on => Above(walk.depth))
        /\ walk.on => walk.next <= walk.last + 1
    BY <1>1 DEF WalkOK
  <1>4. NoWalk \in [next : Nat \ {0}, last : Nat, depth : Nat, on : BOOLEAN] /\ ~NoWalk.on
    BY DEF NoWalk
  <1>5. ASSUME ~Walking, walk.on PROVE Len(stack) # walk.depth
    BY <1>5 DEF Walking
  <1>6. ASSUME Begin PROVE WalkOK' /\ Flags'
    <2>1. Enter(RunFrame(First)) /\ UNCHANGED walk
      BY <1>6 DEF Begin, Start
    <2>2. walk.on => Above(walk.depth)'
      BY <1>1, <1>3, <2>1, AbovePushed
    <2> QED BY <1>1, <1>6, <2>2 DEF Begin, WalkOK, Flags, Above
  <1>7. ASSUME Continue PROVE WalkOK' /\ Flags'
    <2>1. CASE Publish /\ life' = "publishing" /\ UNCHANGED vars
      <3>1. UserCode /\ UNCHANGED stack
        BY <1>7, <2>1 DEF Continue, Idle, UserCode, vars
      <3>2. WalkOK' /\ terminated' \in BOOLEAN /\ audience' \subseteq Handlers
            /\ UNCHANGED disturbed
        BY <1>1, <2>1, <3>1, PublishOK
      <3> QED BY <1>1, <2>1, <3>2 DEF Flags
    <2>2. CASE /\ life' = "second" /\ Start(Second)
               /\ UNCHANGED <<terminated, exits, walk, audience, disturbed>>
      <3>1. walk.on => Above(walk.depth)'
        BY <1>1, <1>3, <2>2, AbovePushed DEF Start
      <3> QED BY <1>1, <2>2, <3>1 DEF WalkOK, Flags, Above
    <2> QED BY <1>7, <2>1, <2>2 DEF Continue
  <1>8. ASSUME Terminate PROVE WalkOK' /\ Flags'
    <2>1. Publish /\ UserCode /\ UNCHANGED stack /\ UNCHANGED life
      BY <1>8 DEF Terminate, Injected, vars
    <2>2. WalkOK' /\ terminated' \in BOOLEAN /\ audience' \subseteq Handlers
          /\ UNCHANGED disturbed
      BY <1>1, <2>1, PublishOK
    <2> QED BY <1>1, <2>1, <2>2 DEF Flags
  <1>9. ASSUME Conclude PROVE WalkOK' /\ Flags'
    BY <1>1, <1>9 DEF Conclude, WalkOK, Flags, Above, vars
  <1>10. ASSUME WalkOn PROVE WalkOK' /\ Flags'
    <2>1. /\ walk.on /\ walk.next <= walk.last
          /\ walk' = [walk EXCEPT !.next = @ + 1]
          /\ UNCHANGED <<life, terminated, exits, audience, disturbed>>
      BY <1>10 DEF WalkOn, Walking, Before
    <2>2. Above(walk.depth)'
      <3>1. CASE UNCHANGED stack
        BY <1>3, <2>1, <3>1 DEF Above
      <3>2. CASE \E f : Enter(f)
        <4>1. PICK f : Enter(f)
          BY <3>2
        <4>2. \A d \in Nat : Above(d) => d <= Len(stack') /\ (d > 0 => stack'[d].kind = "task")
          BY <1>1, <4>1, AbovePushed DEF Above
        <4> QED BY <1>3, <2>1, <4>2 DEF Above, WalkOK
      <3> QED BY <1>10, <3>1, <3>2 DEF WalkOn, Post, Exec
    <2> QED BY <1>1, <1>3, <2>1, <2>2 DEF WalkOK, Flags, Above
  <1>11. ASSUME WalkDone PROVE WalkOK' /\ Flags'
    BY <1>1, <1>4, <1>11 DEF WalkDone, WalkOK, Flags
  <1>12. ASSUME PollGoesOn PROVE WalkOK' /\ Flags'
    <2>1. walk.on => Above(walk.depth)'
      BY <1>1, <1>3, <1>5, <1>12, AbovePolls DEF PollGoesOn, instanceVars
    <2> QED BY <1>1, <1>12, <2>1, WalkKept DEF PollGoesOn
  <1>13. ASSUME NEW t \in Tasks, Schedule(t) \/ Call(t) PROVE WalkOK' /\ Flags'
    <2>1. UNCHANGED stack \/ Enter(TaskFrame(t))
      BY <1>13 DEF Schedule, Call, Post, Exec
    <2>2. UNCHANGED instanceVars
      BY <1>13 DEF Schedule, Call
    <2>3. walk.on => Above(walk.depth)'
      <3>1. CASE UNCHANGED stack
        BY <1>3, <2>2, <3>1 DEF Above, instanceVars
      <3>2. CASE Enter(TaskFrame(t))
        BY <1>1, <1>3, <2>2, <3>2, AbovePushed DEF instanceVars
      <3> QED BY <2>1, <3>1, <3>2
    <2> QED BY <1>1, <2>2, <2>3, WalkKept
  <1>14. ASSUME NEW t \in Tasks, Subscribe(t) PROVE WalkOK' /\ Flags'
    BY <1>1, <1>14 DEF Subscribe, WalkOK, Flags, Above, vars
  <1>15. ASSUME NEW t \in Tasks, Unsubscribe(t) PROVE WalkOK' /\ Flags'
    <2>1. PICK i \in DOMAIN exits :
            exits' = SubSeq(exits, 1, i - 1) \o SubSeq(exits, i + 1, Len(exits))
      BY <1>15 DEF Unsubscribe
    <2>2. /\ i \in 1 .. Len(exits) /\ Len(exits) \in Nat
          /\ \A j \in 1 .. Len(exits) : exits[j] \in Handlers
      BY <1>1, <2>1 DEF WalkOK
    <2>3. SubSeq(exits, 1, i - 1) \in Seq(Handlers) /\ SubSeq(exits, i + 1, Len(exits)) \in Seq(Handlers)
      BY <2>2, SubSeqProperties
    <2>4. exits' \in Seq(Handlers)
      BY <2>1, <2>3
    <2>5. audience' \subseteq Handlers /\ disturbed' \in BOOLEAN
      BY <1>1, <1>3, <1>15 DEF Unsubscribe, Flags
    <2> QED BY <1>1, <1>15, <2>4, <2>5 DEF Unsubscribe, WalkOK, Flags, Above, vars
  <1>16. ASSUME NEW t \in Tasks, Invoked(t) PROVE WalkOK' /\ Flags'
    <2>1. TaskStep(t) /\ ~Walking /\ UNCHANGED instanceVars
      BY <1>16 DEF Invoked, TaskStep
    <2>2. walk.on => Above(walk.depth)'
      BY <1>1, <1>3, <1>5, <2>1, AboveCallbacks DEF instanceVars
    <2> QED BY <1>1, <2>1, <2>2, WalkKept
  <1>17. ASSUME NEW t \in Tasks, WalkThrows(t) PROVE WalkOK' /\ Flags'
    BY <1>1, <1>4, <1>17 DEF WalkThrows, WalkOK, Flags
  <1>18. ASSUME NEW t \in Tasks, Settles(t) PROVE WalkOK' /\ Flags'
    BY <1>1, <1>18, WalkKept DEF Settles, Settle, Above, instanceVars, WalkOK
  <1>19. ASSUME NEW r \in Runners, Running(r) PROVE WalkOK' /\ Flags'
    <2>1. walk.on => Above(walk.depth)'
      BY <1>1, <1>3, <1>5, <1>19, AboveRuns DEF Running, instanceVars
    <2> QED BY <1>1, <1>19, <2>1, WalkKept DEF Running
  <1>20. ASSUME UNCHANGED allVars PROVE WalkOK' /\ Flags'
    BY <1>1, <1>20 DEF allVars, vars, instanceVars, WalkOK, Flags, Above
  <1> QED BY <1>2, <1>6, <1>7, <1>8, <1>9, <1>10, <1>11, <1>12, <1>13, <1>14, <1>15, <1>16,
             <1>17, <1>18, <1>19, <1>20 DEF InstanceInv, InstanceNext, CallbackStep

LEMMA InstanceInvariant == InstanceSpec => []InstanceInv
  BY InstanceInvInit, InstanceInvNext, PTL DEF InstanceSpec

\* An instance runs its executor by the operations of Executor alone: its
\* constructor, the two runs, publish(), get(), invoke() and construct() never
\* reach a state that an executor on its own could not.
THEOREM InstanceRunsExecutor == InstanceSpec => Spec
  <1>1. InstanceInit => Init
    BY DEF InstanceInit
  <1>2. InstanceInv /\ [InstanceNext]_allVars => [Next]_vars
    BY InstanceStep DEF InstanceInv
  <1> QED BY <1>1, <1>2, InstanceInvariant, PTL DEF InstanceSpec, Spec

\* The fields of an instance keep their types, and the forEach of publish()
\* stands on a call in progress, whatever the handlers and callbacks do.
THEOREM InstanceTypeCorrect == InstanceSpec => []InstanceTypeOK
  <1>1. InstanceInv /\ TypeOK => InstanceTypeOK
    BY DEF InstanceInv, WalkOK, Flags, Above, InstanceTypeOK
  <1> QED BY <1>1, InstanceInvariant, InstanceRunsExecutor, TypeCorrect, PTL

\* In an instance, too, a waiting run misses no callback, and when executor.run()
\* returns nothing is queued or suspended (Module.mjs:245, 251 rely on it).
THEOREM InstanceMissesNothing == InstanceSpec => []NoMissedWork /\ QuiescentReturn
  BY InstanceRunsExecutor, NoWorkIsMissed, RunsToQuiescence

-----------------------------------------------------------------------------
(* What initiate() promises.  A run lies on the event loop alone, and a    *)
(* scheduled callback on the poll() of a run: so nothing is in execution   *)
(* when a run returns, and what a scheduled callback throws ends a run.    *)

Final(t) == task[t] \in {"done", "raised", "lost"}

Bottom ==
  \A i \in 1 .. Len(stack) :
    /\ stack[i].kind = "run" => i = 1
    /\ stack[i].kind = "poll" => stack[i].id # None
    /\ stack[i].kind = "task" /\ stack[i].id \in Scheduled =>
         i > 1 /\ stack[i - 1].kind = "poll"

\* What a forEach on the event loop calls are handlers.
OnTheLoop == walk.on /\ walk.depth = 0 /\ Len(stack) > 0 => stack[1].kind = "task"

Unborn ==
  /\ life = "new" =>
       /\ Len(stack) = 0 /\ ~walk.on /\ \A r \in Runners : run[r] = "idle"
       /\ \A t \in Tasks : task[t] \in {"new", "queued"}
  /\ life # "new" => \A t \in Scheduled : task[t] # "new"

Stages ==
  /\ life = "first" => run[Second] = "idle"
  /\ life \in {"publishing", "second", "resolved"} => terminated /\ Ended(First)
  /\ life = "publishing" => walk.on /\ walk.depth = 0
  /\ run[Second] # "idle" => terminated
  /\ life = "resolved" => run[First] = "returned" /\ run[Second] = "returned"

\* An error of a scheduled callback is that of a run, or about to be.
Blamed ==
  \A t \in Scheduled : task[t] = "raised" =>
    \E r \in Runners : run[r] = "threw" \/ (run[r] = "waiting" /\ outcome[r] = "rejected")

FirstEnds == run[First] = "returned" => \A t \in Scheduled : Final(t)

\* Each subscriber has been called or is still before the forEach.
Reached ==
  ~disturbed => \A h \in audience :
    \/ task[h] # "new"
    \/ walk.on /\ \E i \in 1 .. Len(exits) : walk.next <= i /\ i <= walk.last /\ exits[i] = h

SecondEnds == ~disturbed /\ run[Second] = "returned" => \A h \in audience : Final(h)

LifeInv ==
  /\ Bottom /\ OnTheLoop /\ Unborn /\ Stages
  /\ Blamed /\ FirstEnds /\ Reached /\ SecondEnds

LEMMA IdleIsEmpty ==
  ASSUME StackInv, Idle
  PROVE  Len(stack) = 0
  <1>1. stack \in Seq(Frames) /\ Len(stack) \in Nat
    BY DEF StackInv, DataOK
  <1>2. ASSUME Len(stack) # 0 PROVE FALSE
    <2>1. Len(stack) \in DOMAIN stack /\ stack[Len(stack)] \in Frames
      BY <1>1, <1>2
    <2>2. Top = stack[Len(stack)]
      BY <2>1 DEF Top, FrameAt
    <2> QED BY <2>1, <2>2 DEF Idle, Frames
  <1> QED BY <1>2

\* On the event loop, and not in a forEach that stands there, none is going on.
LEMMA IdleWalksNot ==
  ASSUME InstanceInv, Idle, ~Walking
  PROVE  ~walk.on /\ Len(stack) = 0
  <1>1. StackInv /\ WalkOK
    BY DEF InstanceInv
  <1>2. Len(stack) = 0
    BY <1>1, IdleIsEmpty
  <1> QED BY <1>1, <1>2 DEF WalkOK, Above, Walking

\* How the stack moves in an instance.
Moves ==
  \/ StaysSame \/ \E n \in 1 .. 3 : Pops(n)
  \/ \E r \in Runners : Pushes("run", r) /\ Len(stack) = 0 /\ ~walk'.on
  \/ \E r \in Runners : Pushes("poll", r) /\ Len(stack) > 0
  \/ \E t \in Tasks : Pushes("task", t) /\ (t \in Scheduled =>
                        Len(stack) > 0 /\ stack[Len(stack)].kind = "poll")

LEMMA InstanceMoves ==
  ASSUME InstanceInv, Unborn, Stages, [InstanceNext]_allVars
  PROVE  Moves
  <1>0. StackInv /\ WalkOK /\ DataOK
    BY DEF InstanceInv, StackInv
  <1>1. ASSUME Begin PROVE Moves
    <2>1. Pushes("run", First) /\ Len(stack) = 0 /\ ~walk'.on
      BY <1>0, <1>1, MoveStart, FirstAndSecond DEF Begin, Unborn
    <2> QED BY <2>1, FirstAndSecond DEF Moves
  <1>2. ASSUME UNCHANGED vars PROVE Moves
    BY <1>0, <1>2, MoveQuiet DEF vars, Moves
  <1>3. ASSUME Continue PROVE Moves
    <2>1. CASE Start(Second) /\ UNCHANGED walk
      <3>1. Pushes("run", Second) /\ Len(stack) = 0 /\ ~walk'.on
        BY <1>0, <1>3, <2>1, MoveStart, FirstAndSecond, IdleWalksNot DEF Continue
      <3> QED BY <3>1, FirstAndSecond DEF Moves
    <2> QED BY <1>2, <1>3, <2>1 DEF Continue
  <1>4. ASSUME NEW t \in Tasks, Post(t) PROVE Moves
    BY <1>0, <1>4, MoveQuiet DEF Post, DataOK, Moves
  <1>5. ASSUME NEW t \in Tasks, Exec(t), t \notin Scheduled PROVE Moves
    BY <1>0, <1>5, MoveExec DEF Moves
  <1>6. ASSUME WalkOn PROVE Moves
    <2>1. exits[walk.next] \in Handlers /\ exits[walk.next] \in Tasks
      BY <1>0, <1>6, VisitedHandler DEF WalkOn
    <2>2. exits[walk.next] \notin Scheduled
      BY <2>1, InstanceAssumption
    <2> QED BY <1>4, <1>5, <1>6, <2>1, <2>2 DEF WalkOn
  <1>7. ASSUME PollGoesOn PROVE Moves
    <2>1. Top.kind = "poll" /\ PollStep
      BY <1>7 DEF PollGoesOn, PollStep, PollRound, PollTask, PollReturns, PollDone, Polling
    <2>2. Len(stack) > 0 /\ stack[Len(stack)].kind = "poll"
      BY <1>0, <2>1, TopFacts
    <2>3. CASE PollRound
      BY <1>0, <2>3, MoveRound DEF Moves
    <2>4. CASE PollReturns
      BY <1>0, <2>4, MoveReturns DEF Moves
    <2>5. CASE PollTask
      <3>1. CASE StaysSame
        BY <3>1 DEF Moves
      <3>2. CASE queue # <<>> /\ Pushes("task", Head(queue))
        <4>1. Head(queue) \in Tasks
          BY <1>0, <3>2, HeadTailProperties DEF DataOK
        <4> QED BY <2>2, <3>2, <4>1 DEF Moves
      <3> QED BY <1>0, <2>5, <3>1, <3>2, MoveTask
    <2> QED BY <2>1, <2>3, <2>4, <2>5 DEF PollStep
  <1>8. ASSUME NEW t \in Tasks, CallbackStep(t) PROVE Moves
    BY <1>0, <1>8, MoveEnds DEF CallbackStep, Invoked, WalkThrows, TaskStep, Moves
  <1>9. ASSUME NEW t \in Tasks, Settles(t) PROVE Moves
    <2>1. /\ UNCHANGED stack
          /\ \E how \in {"done", "raised", "lost"} : task' = [task EXCEPT ![t] = how]
      BY <1>9 DEF Settles, Settle
    <2> QED BY <1>0, <2>1, MoveQuiet DEF DataOK, Moves
  <1>10. ASSUME NEW r \in Runners, Running(r) PROVE Moves
    <2>0. UNCHANGED walk
      BY <1>10 DEF Running, instanceVars
    <2>1. CASE RunReturns(r)
      BY <1>0, <2>1, MoveReturns DEF Moves
    <2>2. CASE RunPolls(r)
      <3>1. Pushes("poll", r)
        BY <1>0, <2>2, MovePolls DEF RunPolls
      <3>2. Len(stack) > 0
        BY <1>0, <2>2, TopFacts, FrameTypes DEF RunPolls
      <3> QED BY <3>1, <3>2 DEF Moves
    <2>3. CASE Await(r)
      BY <1>0, <2>3, MoveAwait DEF Moves
    <2>4. CASE Resume(r)
      <3>1. ~walk.on /\ Len(stack) = 0
        BY <1>10, <2>4, IdleWalksNot DEF Running, Resume
      <3>2. CASE UNCHANGED stack
        BY <1>0, <2>4, <3>2, MoveQuiet DEF Resume, Moves
      <3>3. CASE ~UNCHANGED stack
        BY <1>0, <2>4, <2>0, <3>1, <3>3, MoveStart DEF Moves
      <3> QED BY <3>2, <3>3
    <2> QED BY <1>10, <2>1, <2>2, <2>3, <2>4 DEF Running
  <1>11. ASSUME WalkDone PROVE Moves
    <2>1. CASE life = "publishing" /\ Start(Second)
      <3>1. Len(stack) = 0
        BY <1>11, <2>1 DEF WalkDone, Walking, Stages
      <3>2. ~walk'.on
        BY <1>11 DEF WalkDone, NoWalk
      <3> QED BY <1>0, <2>1, <3>1, <3>2, MoveStart, FirstAndSecond DEF Moves
    <2> QED BY <1>2, <1>11, <2>1 DEF WalkDone
  <1> QED BY <1>1, <1>2, <1>3, <1>4, <1>5, <1>6, <1>7, <1>8, <1>9, <1>10, <1>11
          DEF InstanceNext, Conclude, Terminate, Schedule, Subscribe, Unsubscribe, Call, allVars


LEMMA BottomKept ==
  ASSUME InstanceInv, Bottom, Moves
  PROVE  Bottom'
  <1>0. Len(stack) \in Nat /\ None \notin Runners
    BY ExecutorAssumption DEF InstanceInv, StackInv, DataOK
  <1>1. CASE StaysSame
    BY <1>0, <1>1 DEF StaysSame, Below, Bottom
  <1>2. CASE \E n \in 1 .. 3 : Pops(n)
    <2>1. PICK n \in 1 .. 3 : Pops(n)
      BY <1>2
    <2>2. /\ Len(stack') = Len(stack) - n /\ n \in 1 .. Len(stack)
          /\ \A i \in 1 .. Len(stack') : stack'[i].kind = stack[i].kind /\ stack'[i].id = stack[i].id
      BY <1>0, <2>1 DEF Pops, Below
    <2> QED BY <1>0, <2>2 DEF Bottom
  <1>3. ASSUME NEW k, NEW x, Pushes(k, x),
               k = "run" => Len(stack) = 0,
               k = "poll" => x # None,
               k = "task" /\ x \in Scheduled => Len(stack) > 0 /\ stack[Len(stack)].kind = "poll"
        PROVE  Bottom'
    <2>1. /\ Len(stack') = Len(stack) + 1
          /\ \A i \in 1 .. Len(stack) : stack'[i].kind = stack[i].kind /\ stack'[i].id = stack[i].id
          /\ stack'[Len(stack) + 1].kind = k /\ stack'[Len(stack) + 1].id = x
      BY <1>3 DEF Pushes, Below
    <2> SUFFICES ASSUME NEW i \in 1 .. Len(stack')
                 PROVE  /\ stack'[i].kind = "run" => i = 1
                        /\ stack'[i].kind = "poll" => stack'[i].id # None
                        /\ stack'[i].kind = "task" /\ stack'[i].id \in Scheduled =>
                             i > 1 /\ stack'[i - 1].kind = "poll"
      BY DEF Bottom
    <2>2. CASE i \in 1 .. Len(stack)
      BY <1>0, <2>1, <2>2 DEF Bottom
    <2>3. CASE i = Len(stack) + 1
      <3>1. i - 1 = Len(stack) /\ (Len(stack) > 0 => i > 1 /\ Len(stack) \in 1 .. Len(stack))
        BY <1>0, <2>3
      <3> QED BY <1>3, <2>1, <2>3, <3>1
    <2> QED BY <1>0, <2>1, <2>2, <2>3
  <1>4. CASE \E r \in Runners : Pushes("run", r) /\ Len(stack) = 0
    BY <1>3, <1>4
  <1>5. CASE \E r \in Runners : Pushes("poll", r)
    BY <1>0, <1>3, <1>5
  <1>6. CASE \E t \in Tasks : Pushes("task", t) /\ (t \in Scheduled =>
                        Len(stack) > 0 /\ stack[Len(stack)].kind = "poll")
    BY <1>3, <1>6
  <1> QED BY <1>1, <1>2, <1>4, <1>5, <1>6 DEF Moves

\* How the forEach moves: it starts on what is on top, and goes on.
LEMMA WalkMoves ==
  ASSUME InstanceInv, [InstanceNext]_allVars
  PROVE  \/ walk'.on = walk.on /\ walk'.depth = walk.depth
         \/ ~walk'.on
         \/ walk'.depth = Len(stack) /\ UNCHANGED vars /\ UserCode /\ Publish
  <1>1. walk \in [next : Nat \ {0}, last : Nat, depth : Nat, on : BOOLEAN] /\ ~NoWalk.on
    BY DEF InstanceInv, WalkOK, NoWalk
  <1>2. ASSUME Publish PROVE walk'.depth = Len(stack)
    BY <1>2 DEF Publish
  <1>3. CASE Begin \/ Conclude \/ PollGoesOn \/ UNCHANGED allVars
    BY <1>3 DEF Begin, Conclude, PollGoesOn, allVars, instanceVars
  <1>4. CASE Continue \/ Terminate
    BY <1>2, <1>4 DEF Continue, Terminate, Injected, Idle, UserCode
  <1>5. CASE WalkOn
    BY <1>1, <1>5 DEF WalkOn
  <1>6. CASE WalkDone
    BY <1>1, <1>6 DEF WalkDone
  <1>7. ASSUME NEW t \in Tasks, Schedule(t) \/ Subscribe(t) \/ Unsubscribe(t) \/ Call(t)
                                \/ Invoked(t) \/ Settles(t)
        PROVE  UNCHANGED walk
    BY <1>7 DEF Schedule, Subscribe, Unsubscribe, Call, Invoked, Settles, instanceVars
  <1>8. ASSUME NEW t \in Tasks, WalkThrows(t) PROVE ~walk'.on
    BY <1>1, <1>8 DEF WalkThrows
  <1>9. ASSUME NEW r \in Runners, Running(r) PROVE UNCHANGED walk
    BY <1>9 DEF Running, instanceVars
  <1> QED BY <1>3, <1>4, <1>5, <1>6, <1>7, <1>8, <1>9 DEF InstanceNext, CallbackStep

LEMMA OnTheLoopKept ==
  ASSUME InstanceInv, OnTheLoop, Moves, [InstanceNext]_allVars
  PROVE  OnTheLoop'
  <1>0. Len(stack) \in Nat
    BY DEF InstanceInv, StackInv, DataOK
  <1> SUFFICES ASSUME walk'.on, walk'.depth = 0, Len(stack') > 0 PROVE stack'[1].kind = "task"
    BY DEF OnTheLoop
  <1>1. CASE walk'.depth = Len(stack) /\ UNCHANGED vars
    BY <1>1 DEF vars
  <1>2. CASE walk.on /\ walk.depth = 0
    <2>1. Len(stack) > 0 => stack[1].kind = "task"
      BY <1>2 DEF OnTheLoop
    <2>2. CASE StaysSame
      <3>1. 1 \in 1 .. Len(stack) /\ Len(stack) > 0
        BY <1>0, <2>2 DEF StaysSame
      <3> QED BY <2>1, <2>2, <3>1 DEF StaysSame, Below
    <2>3. CASE \E n \in 1 .. 3 : Pops(n)
      <3>1. PICK n \in 1 .. 3 : Pops(n)
        BY <2>3
      <3>2. 1 \in 1 .. Len(stack) - n /\ Len(stack) > 0
        BY <1>0, <3>1 DEF Pops
      <3> QED BY <2>1, <3>1, <3>2 DEF Pops, Below
    <2>4. ASSUME NEW k, NEW x, Pushes(k, x), Len(stack) > 0 PROVE stack'[1].kind = "task"
      <3>1. 1 \in 1 .. Len(stack)
        BY <1>0, <2>4
      <3> QED BY <2>1, <2>4, <3>1 DEF Pushes, Below
    <2>5. ASSUME NEW t \in Tasks, Pushes("task", t) PROVE stack'[1].kind = "task"
      <3>1. CASE Len(stack) = 0
        BY <2>5, <3>1 DEF Pushes
      <3>2. CASE Len(stack) > 0
        BY <2>4, <2>5, <3>2
      <3> QED BY <1>0, <3>1, <3>2
    <2> QED BY <2>2, <2>3, <2>4, <2>5 DEF Moves
  <1> QED BY <1>1, <1>2, WalkMoves

\* Nothing is new or begun before run() starts.
LEMMA UnbornKept ==
  ASSUME InstanceInv, Unborn, [InstanceNext]_allVars
  PROVE  Unborn'
  <1>0. StackInv /\ DataOK /\ Len(stack) \in Nat /\ [Next]_vars
    BY InstanceStep DEF InstanceInv, StackInv, DataOK
  <1>1. ASSUME life # "new", UNCHANGED life \/ life' # "new" PROVE Unborn'
    <2>1. \A t \in Scheduled : t \in Tasks /\ task[t] # "new"
      BY <1>1, InstanceAssumption DEF Unborn
    <2>2. \A t \in Scheduled : task'[t] # "new"
      BY <1>0, <2>1, TaskGoesOn
    <2> QED BY <1>1, <2>2 DEF Unborn
  <1>2. ASSUME Begin PROVE Unborn'
    BY <1>2 DEF Begin, Start, Unborn
  <1>3. ASSUME NEW t \in Tasks, Schedule(t) PROVE Unborn'
    <2>1. /\ UNCHANGED <<life, walk, stack, run>> /\ life = "new"
          /\ task' = [task EXCEPT ![t] = "queued"]
      BY <1>3 DEF Schedule, Post, instanceVars
    <2> QED BY <1>0, <2>1 DEF Unborn, DataOK
  <1>4. ASSUME UNCHANGED allVars PROVE Unborn'
    BY <1>4 DEF allVars, vars, instanceVars, Unborn
  <1>5. ASSUME Continue \/ Conclude \/ Terminate PROVE life # "new" /\ (UNCHANGED life \/ life' # "new")
    BY <1>5 DEF Continue, Conclude, Terminate, Injected
  <1>6. ASSUME WalkOn \/ WalkDone PROVE life # "new" /\ (UNCHANGED life \/ life' # "new")
    BY <1>6 DEF WalkOn, WalkDone, Walking, Unborn
  <1>7. ASSUME life = "new" PROVE Top.kind = "loop" /\ \A t \in Tasks : task[t] # "async"
    <2>1. Len(stack) = 0 /\ \A t \in Tasks : task[t] \in {"new", "queued"}
      BY <1>7 DEF Unborn
    <2>2. Top = EventLoopFrame
      BY <1>0, <2>1 DEF Top, FrameAt, DataOK
    <2> QED BY <2>1, <2>2 DEF EventLoopFrame, Frame
  <1>8. ASSUME PollGoesOn PROVE life # "new" /\ UNCHANGED life
    BY <1>7, <1>8 DEF PollGoesOn, PollStep, PollRound, PollTask, PollReturns, PollDone, Polling, instanceVars
  <1>9. ASSUME NEW t \in Tasks, Subscribe(t) \/ Unsubscribe(t) \/ Call(t)
        PROVE  life # "new" /\ UNCHANGED life
    BY <1>9 DEF Subscribe, Unsubscribe, Call, Injected, instanceVars
  <1>10. ASSUME NEW t \in Tasks, CallbackStep(t)
        PROVE  life # "new" /\ (UNCHANGED life \/ life' # "new")
    <2>1. Top = TaskFrame(t)
      BY <1>10 DEF CallbackStep, Invoked, WalkThrows, Returns, Suspends, Throws, Calling
    <2>2. life # "new"
      BY <1>7, <2>1, FrameTypes
    <2> QED BY <1>10, <2>2 DEF CallbackStep, Invoked, WalkThrows, instanceVars
  <1>11. ASSUME NEW t \in Tasks, Settles(t) PROVE life # "new" /\ UNCHANGED life
    BY <1>7, <1>11 DEF Settles, Settle, instanceVars
  <1>12. ASSUME NEW r \in Runners, Running(r) PROVE life # "new" /\ UNCHANGED life
    <2>1. Top.kind # "loop" \/ run[r] = "waiting"
      BY <1>12, FrameTypes DEF Running, RunReturns, RunPolls, Await, PollDone, Polling, Resume
    <2> QED BY <1>7, <1>12, <2>1 DEF Running, instanceVars, Unborn
  <1> QED BY <1>1, <1>2, <1>3, <1>4, <1>5, <1>6, <1>8, <1>9, <1>10, <1>11, <1>12 DEF InstanceNext


\* A run that has not begun begins by Begin, Continue and WalkDone alone.
LEMMA IdleStays ==
  ASSUME StackInv, NEW r \in Runners, run[r] = "idle",
         \/ UNCHANGED run \/ PollStep
         \/ \E t \in Tasks : TaskStep(t) \/ Post(t) \/ Exec(t) \/ \E ok \in BOOLEAN : Settle(t, ok)
         \/ \E q \in Runners : RunReturns(q) \/ RunPolls(q) \/ Await(q) \/ Resume(q)
  PROVE  run'[r] = "idle"
  <1>1. DataOK
    BY DEF StackInv
  <1>2. ASSUME NEW q \in Runners, run[q] # "idle", NEW how, run' = [run EXCEPT ![q] = how]
        PROVE  run'[r] = "idle"
    BY <1>1, <1>2 DEF DataOK
  <1>3. ASSUME NEW q \in Runners, RunReturns(q) \/ Await(q) PROVE run'[r] = "idle"
    <2>1. run[q] = "running"
      BY <1>3, StackRunReturns, StackAwait
    <2>2. \E how : run' = [run EXCEPT ![q] = how]
      BY <1>3 DEF RunReturns, Await, End
    <2> QED BY <1>2, <2>1, <2>2
  <1>4. ASSUME NEW q \in Runners, Resume(q) PROVE run'[r] = "idle"
    <2>1. run[q] = "waiting" /\ \E how : run' = [run EXCEPT ![q] = how]
      BY <1>4 DEF Resume, End
    <2> QED BY <1>2, <2>1
  <1>5. ASSUME NEW t \in Tasks, Throws(t) PROVE run'[r] = "idle"
    <2>1. CASE UNCHANGED run
      BY <2>1
    <2>2. CASE Caller.kind = "poll" /\ Caller.id # None /\ run' = [run EXCEPT ![Caller.id] = "threw"]
      <3>1. Caller.id \in Runners /\ run[Caller.id] = "running"
        BY <1>5, <2>2, ThrowFacts DEF Throws
      <3> QED BY <1>2, <2>2, <3>1
    <2> QED BY <1>5, <2>1, <2>2 DEF Throws, End
  <1>6. ASSUME UNCHANGED run PROVE run'[r] = "idle"
    BY <1>6
  <1>7. ASSUME NEW t \in Tasks, Returns(t) \/ Suspends(t) \/ Post(t) \/ Exec(t) \/ \E ok \in BOOLEAN : Settle(t, ok)
        PROVE  UNCHANGED run
    BY <1>7 DEF Returns, Suspends, Post, Exec, Settle
  <1>8. ASSUME NEW q \in Runners, RunPolls(q) PROVE UNCHANGED run
    BY <1>8 DEF RunPolls
  <1>9. ASSUME PollStep PROVE UNCHANGED run
    BY <1>9 DEF PollStep, PollRound, PollTask, PollReturns
  <1> QED BY <1>3, <1>4, <1>5, <1>6, <1>7, <1>8, <1>9 DEF TaskStep

LEMMA EndedStays ==
  ASSUME StackInv, [Next]_vars, NEW r \in Runners, Ended(r)
  PROVE  run'[r] = run[r]
  BY RunChanges DEF Ended

\* A step in which run() does not go on.
LEMMA StagesStay ==
  ASSUME StackInv, [Next]_vars, Stages, UNCHANGED <<life, terminated>>,
         run[Second] = "idle" => run'[Second] = "idle",
         life = "publishing" => walk'.on = walk.on /\ walk'.depth = walk.depth
  PROVE  Stages'
  <1>1. \A r \in Runners : Ended(r) => run'[r] = run[r]
    BY EndedStays
  <1>2. life \in {"publishing", "second", "resolved"} => run'[First] = run[First]
    BY <1>1, FirstAndSecond DEF Stages
  <1>3. run[Second] = "returned" => run'[Second] = "returned"
    BY <1>1, FirstAndSecond DEF Ended
  <1> QED BY <1>2, <1>3 DEF Stages, Ended

LEMMA StagesKept ==
  ASSUME InstanceInv, Stages, Unborn, [InstanceNext]_allVars
  PROVE  Stages'
  <1>0. StackInv /\ DataOK /\ [Next]_vars /\ walk \in [next : Nat \ {0}, last : Nat, depth : Nat, on : BOOLEAN]
    BY InstanceStep DEF InstanceInv, StackInv, WalkOK
  <1> USE FirstAndSecond
  <1>1. ASSUME Begin PROVE Stages'
    <2>1. /\ life' = "first" /\ run' = [run EXCEPT ![First] = "running"] /\ First # Second
          /\ run[Second] = "idle"
      BY <1>1, InstanceAssumption DEF Begin, Start, Unborn
    <2>2. run'[Second] = "idle"
      BY <1>0, <2>1 DEF DataOK
    <2> QED BY <2>1, <2>2 DEF Stages
  <1>2. ASSUME Continue PROVE Stages'
    <2>1. Ended(First)' /\ life = "first" /\ Len(stack) = 0
      <3>1. Ended(First) /\ life = "first" /\ Idle
        BY <1>2 DEF Continue
      <3>2. run'[First] = run[First]
        BY <1>0, <3>1, EndedStays
      <3> QED BY <1>0, <3>1, <3>2, IdleIsEmpty DEF Ended
    <2>2. CASE Publish /\ life' = "publishing" /\ UNCHANGED vars
      <3>1. terminated' /\ walk'.on /\ walk'.depth = 0
        BY <2>1, <2>2 DEF Publish
      <3> QED BY <2>1, <2>2, <3>1 DEF Stages
    <2>3. CASE terminated /\ life' = "second" /\ UNCHANGED terminated
      BY <2>1, <2>3 DEF Stages
    <2> QED BY <1>2, <2>2, <2>3 DEF Continue
  <1>3. ASSUME Conclude PROVE Stages'
    <2>1. /\ life = "second" /\ Ended(Second) /\ Ended(First) /\ terminated /\ UNCHANGED <<vars, terminated>>
          /\ life' = "resolved" => run[First] # "threw" /\ run[Second] # "threw"
          /\ life' \in {"resolved", "rejected"}
      BY <1>3 DEF Conclude, Stages
    <2>2. UNCHANGED run
      BY <2>1 DEF vars
    <2> QED BY <2>1, <2>2 DEF Stages, Ended
  <1>4. ASSUME WalkDone PROVE Stages'
    <2>1. CASE life = "publishing" /\ life' = "second" /\ Start(Second) /\ UNCHANGED terminated
      <3>1. terminated /\ Ended(First)
        BY <2>1 DEF Stages
      <3>2. run'[First] = run[First]
        BY <1>0, <3>1, EndedStays
      <3> QED BY <2>1, <3>1, <3>2 DEF Stages, Ended
    <2>2. CASE life # "publishing" /\ UNCHANGED <<life, vars, terminated>>
      BY <1>0, <2>2, StagesStay DEF vars
    <2> QED BY <1>4, <2>1, <2>2 DEF WalkDone
  <1>5. ASSUME Terminate PROVE Stages'
    <2>1. terminated' /\ ~terminated /\ UNCHANGED <<run, life>>
      BY <1>5 DEF Terminate, Publish, vars
    <2> QED BY <2>1 DEF Stages, Ended
  <1>6. ASSUME NEW t \in Tasks, WalkThrows(t) PROVE Stages'
    <2>1. Throws(t) /\ UNCHANGED terminated
      BY <1>6 DEF WalkThrows
    <2>2. run[Second] = "idle" => run'[Second] = "idle"
      BY <1>0, <2>1, IdleStays DEF TaskStep
    <2>3. CASE life = "publishing"
      <3>1. life' = "rejected" /\ terminated'
        BY <1>6, <2>1, <2>3 DEF WalkThrows, Stages
      <3> QED BY <3>1 DEF Stages
    <2>4. CASE life # "publishing"
      <3>1. UNCHANGED life
        BY <1>6, <2>4 DEF WalkThrows
      <3> QED BY <1>0, <2>1, <2>2, <2>4, <3>1, StagesStay
    <2> QED BY <2>3, <2>4
  <1>7. ASSUME WalkOn PROVE Stages'
    <2>1. UNCHANGED <<life, terminated>> /\ walk'.on = walk.on /\ walk'.depth = walk.depth
      BY <1>0, <1>7 DEF WalkOn
    <2>2. exits[walk.next] \in Tasks
      BY <1>7, VisitedHandler DEF WalkOn, InstanceInv
    <2>3. run[Second] = "idle" => run'[Second] = "idle"
      BY <1>0, <1>7, <2>2, IdleStays DEF WalkOn
    <2> QED BY <1>0, <2>1, <2>3, StagesStay
  <1>8. ASSUME UNCHANGED <<life, terminated, walk>>, run[Second] = "idle" => run'[Second] = "idle"
        PROVE  Stages'
    BY <1>0, <1>8, StagesStay
  <1>9. ASSUME PollGoesOn PROVE Stages'
    BY <1>0, <1>8, <1>9, IdleStays DEF PollGoesOn, instanceVars
  <1>10. ASSUME NEW t \in Tasks, Schedule(t) \/ Call(t) PROVE Stages'
    BY <1>0, <1>8, <1>10, IdleStays DEF Schedule, Call, instanceVars
  <1>11. ASSUME NEW t \in Tasks, Subscribe(t) \/ Unsubscribe(t) PROVE Stages'
    BY <1>8, <1>11 DEF Subscribe, Unsubscribe, vars
  <1>12. ASSUME NEW t \in Tasks, Invoked(t) PROVE Stages'
    BY <1>0, <1>8, <1>12, IdleStays DEF Invoked, instanceVars, TaskStep
  <1>13. ASSUME NEW t \in Tasks, Settles(t) PROVE Stages'
    BY <1>0, <1>8, <1>13, IdleStays DEF Settles, instanceVars
  <1>14. ASSUME NEW r \in Runners, Running(r) PROVE Stages'
    BY <1>0, <1>8, <1>14, IdleStays DEF Running, instanceVars
  <1>15. ASSUME UNCHANGED allVars PROVE Stages'
    BY <1>8, <1>15 DEF allVars, vars, instanceVars
  <1> QED BY <1>1, <1>2, <1>3, <1>4, <1>5, <1>6, <1>7, <1>9, <1>10, <1>11, <1>12, <1>13, <1>14, <1>15
          DEF InstanceNext, CallbackStep

\* A race that was lost stays lost until the run goes on.
LEMMA RejectedStays ==
  ASSUME StackInv, [Next]_vars, NEW r \in Runners,
         run[r] = "waiting", outcome[r] = "rejected", ~Resume(r)
  PROVE  outcome'[r] = "rejected"
  <1>1. DataOK
    BY DEF StackInv
  <1>2. ASSUME NEW p, NEW how, outcome' = Decided(p, how) PROVE outcome'[r] = "rejected"
    BY <1>2 DEF Decided
  <1>3. ASSUME NEW q \in Runners, Await(q) \/ Resume(q) PROVE outcome'[r] = "rejected"
    <2>1. q # r
      BY <1>3, StackAwait
    <2>2. \E how : outcome' = [outcome EXCEPT ![q] = how]
      BY <1>3 DEF Await, Resume
    <2> QED BY <1>1, <2>1, <2>2 DEF DataOK
  <1>4. ASSUME UNCHANGED outcome PROVE outcome'[r] = "rejected"
    BY <1>4
  <1>5. ASSUME CallWakeup PROVE outcome'[r] = "rejected"
    BY <1>2, <1>4, <1>5 DEF CallWakeup
  <1>6. ASSUME NEW t \in Tasks, Post(t) \/ Exec(t) \/ Dispatch(t) \/ TaskStep(t)
        PROVE  outcome'[r] = "rejected"
    BY <1>4, <1>5, <1>6 DEF Post, Exec, Dispatch, TaskStep, Returns, Suspends, Throws
  <1>7. ASSUME NEW t \in Tasks, NEW ok \in BOOLEAN, Settle(t, ok) PROVE outcome'[r] = "rejected"
    BY <1>2, <1>7 DEF Settle
  <1>8. ASSUME NEW q \in Runners, FireTimer(q) PROVE outcome'[r] = "rejected"
    BY <1>2, <1>8 DEF FireTimer
  <1>9. ASSUME NEW q \in Runners, Start(q) \/ RunReturns(q) \/ RunPolls(q) \/ Expire(q)
        PROVE  UNCHANGED outcome
    BY <1>9 DEF Start, RunReturns, RunPolls, Expire
  <1>10. ASSUME Poll \/ PollStep \/ UNCHANGED vars PROVE UNCHANGED outcome
    BY <1>10 DEF Poll, PollStep, PollRound, PollTask, PollReturns, vars
  <1> QED BY <1>3, <1>4, <1>6, <1>7, <1>8, <1>9, <1>10 DEF Next, RunStep

\* An error comes from a callback that throws, or from a promise that a
\* waiting run learns of.
LEMMA RaisedBy ==
  ASSUME StackInv, [Next]_vars, NEW t \in Tasks, task[t] # "raised", task'[t] = "raised"
  PROVE  \/ Throws(t)
         \/ \E r \in Runners : run[r] = "waiting" /\ run'[r] = "waiting" /\ outcome'[r] = "rejected"
  <1>1. DataOK /\ QueueOK
    BY DEF StackInv
  <1>2. ASSUME NEW u \in Tasks, NEW how, task' = [task EXCEPT ![u] = how]
        PROVE  u = t /\ how = "raised"
    BY <1>1, <1>2 DEF DataOK
  <1>3. ASSUME UNCHANGED task PROVE FALSE
    BY <1>3
  <1>4. ASSUME NEW u \in Tasks, Throws(u) PROVE Throws(t)
    BY <1>2, <1>4 DEF Throws
  <1>5. ASSUME NEW u \in Tasks, NEW ok \in BOOLEAN, Settle(u, ok)
        PROVE  \E r \in Runners : run[r] = "waiting" /\ run'[r] = "waiting" /\ outcome'[r] = "rejected"
    <2>1. PICK how : task' = [task EXCEPT ![u] = how] /\
                     how = IF ok THEN "done" ELSE IF outcome' # outcome THEN "raised" ELSE "lost"
      BY <1>5 DEF Settle
    <2>2. ~ok /\ outcome' # outcome
      BY <1>2, <2>1
    <2>3. outcome' = Decided(Task(u), "rejected") /\ UNCHANGED run
      BY <1>5, <2>2 DEF Settle
    <2>4. outcome \in [Runners -> {"open", "resolved", "rejected"}] /\ outcome' \in [Runners -> {"open", "resolved", "rejected"}]
      BY <1>1, <2>3, DecidedType DEF DataOK
    <2>5. PICK r \in Runners : outcome'[r] # outcome[r]
      BY <2>2, <2>4
    <2>6. run[r] = "waiting" /\ outcome'[r] = "rejected"
      BY <2>3, <2>5 DEF Decided
    <2> QED BY <2>3, <2>6
  <1>6. ASSUME NEW u \in Tasks, Post(u) \/ Exec(u) \/ Dispatch(u) \/ Returns(u) \/ Suspends(u)
        PROVE  FALSE
    <2>1. \E how \in {"queued", "called", "done", "async"} : task' = [task EXCEPT ![u] = how]
      BY <1>6 DEF Post, Exec, Dispatch, Returns, Suspends
    <2> QED BY <1>2, <2>1
  <1>7. ASSUME PollTask PROVE FALSE
    <2>1. UNCHANGED task \/ (Head(queue) \in Tasks /\ task' = [task EXCEPT ![Head(queue)] = "called"])
      BY <1>1, <1>7, QueueShifted DEF PollTask
    <2> QED BY <1>2, <1>3, <2>1
  <1>8. ASSUME NEW r \in Runners, Start(r) \/ RunStep(r) \/ Expire(r) PROVE FALSE
    BY <1>3, <1>8 DEF Start, RunStep, RunReturns, RunPolls, Await, Resume, FireTimer, Expire
  <1>9. ASSUME Poll \/ PollRound \/ PollReturns \/ UNCHANGED vars PROVE FALSE
    BY <1>3, <1>9 DEF Poll, PollRound, PollReturns, vars
  <1> QED BY <1>4, <1>5, <1>6, <1>7, <1>8, <1>9 DEF Next, PollStep, TaskStep

LEMMA BlamedKept ==
  ASSUME StackInv, Bottom, Blamed, [Next]_vars
  PROVE  Blamed'
  <1> SUFFICES ASSUME NEW t \in Scheduled, task'[t] = "raised"
               PROVE  \E r \in Runners : run'[r] = "threw" \/ (run'[r] = "waiting" /\ outcome'[r] = "rejected")
    BY DEF Blamed
  <1>1. t \in Tasks
    BY InstanceAssumption
  <1>2. CASE task[t] = "raised"
    <2>1. PICK r \in Runners : run[r] = "threw" \/ (run[r] = "waiting" /\ outcome[r] = "rejected")
      BY <1>2 DEF Blamed
    <2>2. CASE run[r] = "threw"
      BY <2>2, EndedStays DEF Ended
    <2>3. CASE run[r] = "waiting" /\ outcome[r] = "rejected"
      <3>1. CASE Resume(r)
        <4>1. run' = [run EXCEPT ![r] = "threw"] /\ run \in [Runners -> {"idle", "running", "waiting", "returned", "threw"}]
          BY <2>3, <3>1 DEF Resume, End, StackInv, DataOK
        <4> QED BY <4>1
      <3>2. CASE ~Resume(r)
        <4>1. outcome'[r] = "rejected"
          BY <2>3, <3>2, RejectedStays
        <4>2. run'[r] = run[r]
          BY <2>3, <3>2, RunChanges
        <4> QED BY <2>3, <4>1, <4>2
      <3> QED BY <3>1, <3>2
    <2> QED BY <2>1, <2>2, <2>3
  <1>3. CASE task[t] # "raised" /\ Throws(t)
    <2>1. /\ Calling(t) /\ Len(stack) \in Nat \ {0} /\ Len(stack) \in 1 .. Len(stack)
          /\ stack[Len(stack)].kind = "task" /\ stack[Len(stack)].id = t
      BY <1>1, <1>3, CallingFacts DEF Throws
    <2>2. Len(stack) > 1 /\ stack[Len(stack) - 1].kind = "poll"
      BY <2>1 DEF Bottom
    <2>3. Len(stack) - 1 \in 1 .. Len(stack) /\ stack[Len(stack) - 1].id # None
      BY <2>1, <2>2 DEF Bottom
    <2>4. Caller = stack[Len(stack) - 1]
      BY <2>3 DEF Caller, FrameAt, StackInv, DataOK
    <2>5. run' = [run EXCEPT ![Caller.id] = "threw"]
      BY <1>3, <2>2, <2>3, <2>4 DEF Throws, End
    <2>6. Caller.id \in Runners
      BY <1>1, <2>1, <2>2, <2>3, <2>4, ThrowFacts
    <2>7. run'[Caller.id] = "threw"
      BY <2>5, <2>6 DEF StackInv, DataOK
    <2> QED BY <2>6, <2>7
  <1> QED BY <1>1, <1>2, <1>3, RaisedBy


\* When a run returns, each callback that was handed over has come to its end.
LEMMA ReturnsIdle ==
  ASSUME InstanceInv, Bottom, Held, PendingEach, expired = {},
         NEW r \in Runners, RunReturns(r), run[r] = "running"
  PROVE  /\ Len(stack) = 1 /\ stack[1].kind = "run" /\ UNCHANGED task
         /\ \A t \in Tasks : task[t] # "new" => Final(t)
  <1>1. StackInv /\ DataOK /\ Len(stack) \in Nat
    BY DEF InstanceInv, StackInv, DataOK
  <1>2. queue = <<>> /\ Async = {} /\ UNCHANGED task
    BY <1>1, ReturnsQuiet DEF RunReturns
  <1>3. Top = RunFrame(r) /\ Top.kind = "run"
    BY FrameTypes DEF RunReturns
  <1>4. Len(stack) \in 1 .. Len(stack) /\ stack[Len(stack)].kind = "run"
    BY <1>1, <1>3, TopFacts
  <1>5. Len(stack) = 1 /\ stack[1].kind = "run"
    BY <1>1, <1>4 DEF Bottom
  <1>6. ASSUME NEW t \in Tasks, task[t] # "new" PROVE Final(t)
    <2>1. task[t] # "called"
      BY <1>5 DEF Held
    <2>2. task[t] # "queued"
      BY <1>2 DEF Held
    <2>3. task[t] # "async"
      BY <1>2 DEF Async
    <2> QED BY <1>1, <1>6, <2>1, <2>2, <2>3 DEF DataOK, Final
  <1> QED BY <1>2, <1>5, <1>6

LEMMA FinalStays ==
  ASSUME StackInv, [Next]_vars, NEW t \in Tasks, Final(t)
  PROVE  Final(t)'
  BY TaskGoesOn DEF Final

LEMMA FirstEndsKept ==
  ASSUME InstanceInv, Bottom, Unborn, Held, PendingEach, expired = {}, FirstEnds, [Next]_vars
  PROVE  FirstEnds'
  <1>0. StackInv /\ First \in Runners /\ Scheduled \subseteq Tasks
    BY InstanceAssumption DEF InstanceInv
  <1> SUFFICES ASSUME run'[First] = "returned", NEW t \in Scheduled PROVE Final(t)'
    BY DEF FirstEnds, Final
  <1>1. CASE run[First] = "returned"
    BY <1>0, <1>1, FinalStays DEF FirstEnds
  <1>2. CASE run[First] # "returned"
    <2>1. run[First] = "running" /\ RunReturns(First)
      BY <1>0, <1>2, RunChanges
    <2>2. task[t] # "new"
      BY <1>0, <2>1 DEF Unborn
    <2>3. Final(t) /\ UNCHANGED task
      BY <1>0, <2>1, <2>2, ReturnsIdle
    <2> QED BY <2>3 DEF Final
  <1> QED BY <1>1, <1>2

\* Once 'exit' is published its audience can only get smaller.
LEMMA AudienceStays ==
  ASSUME terminated, [InstanceNext]_allVars
  PROVE  audience' \subseteq audience
  <1>1. ASSUME Begin \/ Conclude \/ WalkOn \/ WalkDone PROVE UNCHANGED audience
    BY <1>1 DEF Begin, Conclude, WalkOn, WalkDone
  <1>2. ASSUME Continue \/ Terminate PROVE UNCHANGED audience
    BY <1>2 DEF Continue, Terminate, Publish
  <1>3. ASSUME PollGoesOn \/ UNCHANGED allVars PROVE UNCHANGED audience
    BY <1>3 DEF PollGoesOn, allVars, instanceVars
  <1>4. ASSUME NEW t \in Tasks, Schedule(t) \/ Subscribe(t) \/ Call(t) \/ CallbackStep(t) \/ Settles(t)
        PROVE  UNCHANGED audience
    BY <1>4 DEF Schedule, Subscribe, Call, CallbackStep, Invoked, WalkThrows, Settles, instanceVars
  <1>5. ASSUME NEW t \in Tasks, Unsubscribe(t) PROVE audience' \subseteq audience
    BY <1>5 DEF Unsubscribe
  <1>6. ASSUME NEW r \in Runners, Running(r) PROVE UNCHANGED audience
    BY <1>6 DEF Running, instanceVars
  <1> QED BY <1>1, <1>2, <1>3, <1>4, <1>5, <1>6 DEF InstanceNext

LEMMA DisturbedStays ==
  ASSUME disturbed, [InstanceNext]_allVars
  PROVE  disturbed'
  <1>1. ASSUME Begin \/ Conclude \/ WalkOn \/ WalkDone PROVE UNCHANGED disturbed
    BY <1>1 DEF Begin, Conclude, WalkOn, WalkDone
  <1>2. ASSUME Continue \/ Terminate PROVE UNCHANGED disturbed
    BY <1>2 DEF Continue, Terminate, Publish
  <1>3. ASSUME PollGoesOn \/ UNCHANGED allVars PROVE UNCHANGED disturbed
    BY <1>3 DEF PollGoesOn, allVars, instanceVars
  <1>4. ASSUME NEW t \in Tasks, Schedule(t) \/ Subscribe(t) \/ Call(t) \/ Invoked(t) \/ Settles(t)
        PROVE  UNCHANGED disturbed
    BY <1>4 DEF Schedule, Subscribe, Call, Invoked, Settles, instanceVars
  <1>5. ASSUME NEW t \in Tasks, Unsubscribe(t) \/ WalkThrows(t) PROVE disturbed'
    BY <1>5 DEF Unsubscribe, WalkThrows
  <1>6. ASSUME NEW r \in Runners, Running(r) PROVE UNCHANGED disturbed
    BY <1>6 DEF Running, instanceVars
  <1> QED BY <1>1, <1>2, <1>3, <1>4, <1>5, <1>6 DEF InstanceNext, CallbackStep

LEMMA SecondEndsKept ==
  ASSUME InstanceInv, Bottom, OnTheLoop, Stages, Reached, Held, PendingEach, expired = {},
         SecondEnds, [InstanceNext]_allVars, [Next]_vars
  PROVE  SecondEnds'
  <1>0. StackInv /\ WalkOK /\ Second \in Runners /\ audience \subseteq Tasks /\ Len(stack) \in Nat
    BY InstanceAssumption DEF InstanceInv, Flags, StackInv, DataOK
  <1> SUFFICES ASSUME ~disturbed', run'[Second] = "returned", NEW h \in audience' PROVE Final(h)'
    BY DEF SecondEnds, Final
  <1>1. run[Second] = "returned" \/ (run[Second] = "running" /\ RunReturns(Second))
    BY <1>0, RunChanges
  <1>2. terminated
    BY <1>1 DEF Stages
  <1>3. h \in audience /\ ~disturbed /\ h \in Tasks
    BY <1>0, <1>2, AudienceStays, DisturbedStays
  <1>4. CASE run[Second] = "returned"
    BY <1>0, <1>3, <1>4, FinalStays DEF SecondEnds
  <1>5. CASE run[Second] = "running" /\ RunReturns(Second)
    <2>1. /\ Len(stack) = 1 /\ stack[1].kind = "run" /\ UNCHANGED task
          /\ task[h] # "new" => Final(h)
      BY <1>0, <1>3, <1>5, ReturnsIdle
    <2>2. ~walk.on
      <3>1. ASSUME walk.on PROVE walk.depth \in Nat /\ walk.depth <= 1 /\ (walk.depth > 0 => stack[walk.depth].kind = "task")
        BY <1>0, <2>1, <3>1 DEF WalkOK, Above
      <3>2. ASSUME walk.on PROVE walk.depth # 0
        BY <2>1, <3>2 DEF OnTheLoop
      <3>3. ASSUME walk.on PROVE walk.depth = 1
        BY <3>1, <3>2, <3>3
      <3> QED BY <2>1, <3>1, <3>3
    <2>3. task[h] # "new"
      BY <1>3, <2>2 DEF Reached
    <2> QED BY <2>1, <2>3 DEF Final
  <1> QED BY <1>1, <1>4, <1>5

LEMMA ReachedKept ==
  ASSUME InstanceInv, Reached, [InstanceNext]_allVars, [Next]_vars
  PROVE  Reached'
  <1>0. /\ StackInv /\ DataOK /\ audience \subseteq Tasks /\ exits \in Seq(Handlers) /\ Len(exits) \in Nat
        /\ walk \in [next : Nat \ {0}, last : Nat, depth : Nat, on : BOOLEAN]
    BY InstanceAssumption DEF InstanceInv, Flags, WalkOK, StackInv
  <1>1. \A h \in audience : task[h] # "new" => task'[h] # "new"
    BY <1>0, TaskGoesOn
  <1>2. ASSUME UNCHANGED <<exits, walk, audience, disturbed>> PROVE Reached'
    BY <1>1, <1>2 DEF Reached
  <1>3. ASSUME Publish PROVE Reached'
    <2>1. /\ walk' = [next |-> 1, last |-> Len(exits), depth |-> Len(stack), on |-> TRUE]
          /\ audience' = {exits[i] : i \in DOMAIN exits} /\ UNCHANGED exits
          /\ DOMAIN exits = 1 .. Len(exits)
      BY <1>0, <1>3 DEF Publish
    <2>2. ASSUME NEW h \in audience'
          PROVE  walk'.on /\ \E i \in 1 .. Len(exits') : walk'.next <= i /\ i <= walk'.last /\ exits'[i] = h
      <3>1. PICK i \in 1 .. Len(exits) : h = exits[i]
        BY <2>1, <2>2
      <3>2. i \in 1 .. Len(exits') /\ walk'.next <= i /\ i <= walk'.last /\ exits'[i] = h
        BY <1>0, <2>1, <3>1
      <3> QED BY <2>1, <3>2
    <2> QED BY <2>2 DEF Reached
  <1>4. ASSUME WalkOn PROVE Reached'
    <2>1. /\ walk.on /\ walk' = [walk EXCEPT !.next = @ + 1] /\ UNCHANGED <<exits, audience, disturbed>>
          /\ walk'.on /\ walk'.next = walk.next + 1 /\ walk'.last = walk.last
      BY <1>0, <1>4 DEF WalkOn, Walking
    <2>2. exits[walk.next] \in Tasks /\ \E how \in {"queued", "called"} : task' = [task EXCEPT ![exits[walk.next]] = how]
      BY <1>4, VisitedHandler DEF WalkOn, Post, Exec, InstanceInv
    <2>3. task'[exits[walk.next]] # "new"
      BY <1>0, <2>2 DEF DataOK
    <2> SUFFICES ASSUME ~disturbed, NEW h \in audience, task'[h] = "new"
                 PROVE  \E i \in 1 .. Len(exits) : walk.next + 1 <= i /\ i <= walk.last /\ exits[i] = h
      BY <2>1 DEF Reached
    <2>4. PICK i \in 1 .. Len(exits) : walk.next <= i /\ i <= walk.last /\ exits[i] = h
      BY <1>1 DEF Reached
    <2>5. i # walk.next
      BY <2>3, <2>4
    <2> QED BY <1>0, <2>4, <2>5
  <1>5. ASSUME WalkDone PROVE Reached'
    <2>1. walk.next > walk.last \/ walk.next > Len(exits)
      BY <1>0, <1>5 DEF WalkDone, Before
    <2>2. UNCHANGED <<exits, audience, disturbed>>
      BY <1>5 DEF WalkDone
    <2>3. ASSUME ~disturbed, NEW h \in audience PROVE task[h] # "new"
      BY <1>0, <2>1, <2>3 DEF Reached
    <2> QED BY <1>1, <2>2, <2>3 DEF Reached
  <1>6. ASSUME NEW t \in Tasks, WalkThrows(t) PROVE Reached'
    BY <1>6 DEF WalkThrows, Reached
  <1>7. ASSUME NEW t \in Tasks, Subscribe(t) PROVE Reached'
    <2>1. /\ exits' = Append(exits, t) /\ UNCHANGED <<walk, audience, disturbed>>
          /\ Len(exits') = Len(exits) + 1 /\ \A i \in 1 .. Len(exits) : exits'[i] = exits[i]
      BY <1>0, <1>7 DEF Subscribe
    <2> SUFFICES ASSUME ~disturbed, NEW h \in audience, task'[h] = "new"
                 PROVE  walk.on /\ \E i \in 1 .. Len(exits') : walk.next <= i /\ i <= walk.last /\ exits'[i] = h
      BY <2>1 DEF Reached
    <2>2. walk.on /\ \E i \in 1 .. Len(exits) : walk.next <= i /\ i <= walk.last /\ exits[i] = h
      BY <1>1 DEF Reached
    <2>3. PICK i \in 1 .. Len(exits) : walk.next <= i /\ i <= walk.last /\ exits[i] = h
      BY <2>2
    <2>4. i \in 1 .. Len(exits') /\ exits'[i] = h
      BY <1>0, <2>1, <2>3
    <2> QED BY <2>2, <2>3, <2>4
  <1>8. ASSUME NEW t \in Tasks, Unsubscribe(t) PROVE Reached'
    <2>1. audience' \subseteq audience /\ (~disturbed' => ~disturbed /\ ~walk.on)
      BY <1>8 DEF Unsubscribe
    <2>2. ~disturbed' => \A h \in audience : task[h] # "new"
      BY <2>1 DEF Reached
    <2> QED BY <1>1, <2>1, <2>2 DEF Reached
  <1>9. CASE Begin \/ Conclude \/ PollGoesOn \/ UNCHANGED allVars
    BY <1>2, <1>9 DEF Begin, Conclude, PollGoesOn, allVars, instanceVars
  <1>10. CASE Continue \/ Terminate
    BY <1>2, <1>3, <1>10 DEF Continue, Terminate
  <1>11. ASSUME NEW t \in Tasks, Schedule(t) \/ Call(t) \/ Invoked(t) \/ Settles(t) PROVE Reached'
    BY <1>2, <1>11 DEF Schedule, Call, Invoked, Settles, instanceVars
  <1>12. ASSUME NEW r \in Runners, Running(r) PROVE Reached'
    BY <1>2, <1>12 DEF Running, instanceVars
  <1> QED BY <1>4, <1>5, <1>6, <1>7, <1>8, <1>9, <1>10, <1>11, <1>12 DEF InstanceNext, CallbackStep

LEMMA LifeInvInit == InstanceInit => LifeInv
  <1> SUFFICES ASSUME InstanceInit PROVE LifeInv
    OBVIOUS
  <1>1. /\ Len(stack) = 0 /\ run = [r \in Runners |-> "idle"] /\ task = [t \in Tasks |-> "new"]
        /\ life = "new" /\ audience = {} /\ ~walk.on
    BY DEF InstanceInit, Init, NoWalk
  <1>2. Scheduled \subseteq Tasks /\ run[First] = "idle" /\ run[Second] = "idle"
    BY <1>1, FirstAndSecond, InstanceAssumption
  <1> QED BY <1>1, <1>2 DEF LifeInv, Bottom, OnTheLoop, Unborn, Stages, Blamed, FirstEnds, Reached, SecondEnds

LEMMA LifeInvNext ==
  InstanceInv /\ Held /\ PendingEach /\ expired = {} /\ LifeInv /\ [InstanceNext]_allVars => LifeInv'
  <1> SUFFICES ASSUME InstanceInv, Held, PendingEach, expired = {}, LifeInv, [InstanceNext]_allVars
               PROVE  LifeInv'
    OBVIOUS
  <1>1. [Next]_vars /\ StackInv
    BY InstanceStep DEF InstanceInv
  <1>2. Bottom /\ OnTheLoop /\ Unborn /\ Stages /\ Blamed /\ FirstEnds /\ Reached /\ SecondEnds
    BY DEF LifeInv
  <1>3. Moves
    BY <1>2, InstanceMoves
  <1>4. Bottom' /\ OnTheLoop'
    BY <1>2, <1>3, BottomKept, OnTheLoopKept
  <1>5. Unborn' /\ Stages'
    BY <1>2, UnbornKept, StagesKept
  <1>6. Blamed' /\ FirstEnds'
    BY <1>1, <1>2, BlamedKept, FirstEndsKept
  <1>7. Reached' /\ SecondEnds'
    BY <1>1, <1>2, ReachedKept, SecondEndsKept
  <1> QED BY <1>4, <1>5, <1>6, <1>7 DEF LifeInv

LEMMA LifeInvariant == InstanceSpec => []LifeInv
  <1>1. InstanceSpec => []InstanceInv
    BY InstanceInvariant
  <1>2. InstanceSpec => []Held
    BY InstanceRunsExecutor, NoneForgotten, PTL
  <1>3. InstanceSpec => []PendingEach
    BY InstanceRunsExecutor, CountAndPending, PTL
  <1>4. InstanceInv => expired = {}
    BY InstanceAssumption DEF InstanceInv, StackInv, DataOK
  <1> QED BY <1>1, <1>2, <1>3, <1>4, LifeInvInit, LifeInvNext, PTL DEF InstanceSpec

\* When initiate() resolves, everything scheduled has been executed and has
\* finished, and nothing of it has thrown: whoever terminated the instance, and
\* whatever was left in the queue when the first run ended.
THEOREM ResolvesComplete == InstanceSpec => []ResolvedComplete
  <1>1. LifeInv => ResolvedComplete
    <2> SUFFICES ASSUME LifeInv, life = "resolved", NEW t \in Scheduled
                 PROVE  task[t] \in {"done", "lost"}
      BY DEF ResolvedComplete
    <2>1. run[First] = "returned" /\ run[Second] = "returned" /\ Runners = {First, Second}
      BY InstanceAssumption DEF LifeInv, Stages
    <2>2. task[t] # "raised"
      BY <2>1 DEF LifeInv, Blamed
    <2> QED BY <2>1, <2>2 DEF LifeInv, FirstEnds, Final
  <1> QED BY <1>1, LifeInvariant, PTL

\* Everybody who is subscribed to 'exit' when the instance is terminated has
\* been called and has finished when initiate() resolves, unless a handler throws
\* or unsubscribes in the middle of the forEach.
THEOREM ExitReaches == InstanceSpec => []ExitReachesAll
  <1>1. LifeInv => ExitReachesAll
    BY DEF LifeInv, Stages, SecondEnds, Final, ExitReachesAll
  <1> QED BY <1>1, LifeInvariant, PTL
=============================================================================
