------------------------------ MODULE Instance ------------------------------
(***************************************************************************)
(* The class Instance of packages/core/Module.mjs: what Module.initiate()  *)
(* starts.  It posts the scheduled callbacks, runs its executor until      *)
(* nothing is left, publishes 'exit' once and runs the executor again for  *)
(* what the subscribers of 'exit' do.  terminate(), which any callback or  *)
(* a signal may call, publishes 'exit' early.                              *)
(*                                                                         *)
(* Every step is a step of its Executor or leaves it alone.  A callback of *)
(* the executor stands for the whole Scope.invoke() around it: injecting,  *)
(* awaiting what is injected, and the call.                                *)
(***************************************************************************)
EXTENDS Executor

CONSTANTS First, Second,   \* the two calls of executor.run() in run()
          Scheduled,       \* the callbacks given to schedule()
          Handlers,        \* the callbacks given to on('exit', ...)
          Plain            \* handlers without injections, once() included

ASSUME InstanceAssumption ==
  /\ First # Second /\ Runners = {First, Second} /\ Limited = {}
  /\ Scheduled \subseteq Tasks /\ Handlers \subseteq Tasks
  /\ Scheduled \cap Handlers = {}
  /\ Plain \subseteq Handlers

VARIABLES life,        \* where run() stands
          terminated,  \* the flag
          exits,       \* subscribers.get('exit')
          walk,        \* the forEach of publish('exit') in progress
          audience,    \* history: who was subscribed when 'exit' was published
          disturbed    \* history: a handler unsubscribed another or threw in
                       \* the middle of the forEach

instanceVars == <<life, terminated, exits, walk, audience, disturbed>>
allVars == <<vars, instanceVars>>

NoWalk == [next |-> 1, last |-> 0, depth |-> 0, on |-> FALSE]

InstanceInit ==
  /\ Init
  /\ life = "new" /\ terminated = FALSE /\ exits = <<>>
  /\ walk = NoWalk /\ audience = {} /\ disturbed = FALSE

\* The code that called publish() goes on when its forEach is over.
Walking == walk.on /\ Len(stack) = walk.depth

\* What is injected ($invoke, $on ...) can be called, by a callback or, from
\* outside, by code that a callback gave it to.
Injected ==
  /\ UserCode /\ ~Walking /\ life # "new"
  /\ \E t \in Tasks : task[t] \notin {"new", "queued"}

-----------------------------------------------------------------------------
(* The constructor and run().                                              *)

Schedule(t) ==
  /\ life = "new" /\ t \in Scheduled
  /\ Post(t)
  /\ UNCHANGED instanceVars

Begin ==
  /\ life = "new" /\ \A t \in Scheduled : task[t] # "new"
  /\ Start(First)
  /\ life' = "first"
  /\ UNCHANGED <<terminated, exits, walk, audience, disturbed>>

Ended(r) == run[r] \in {"returned", "threw"}

Publish ==
  /\ ~terminated /\ terminated' = TRUE
  /\ walk' = [next |-> 1, last |-> Len(exits), depth |-> Len(stack), on |-> TRUE]
  /\ audience' = {exits[i] : i \in DOMAIN exits}
  /\ UNCHANGED <<exits, disturbed>>

\* this.terminate() after the first run, whether it returned or threw.
Continue ==
  /\ Idle /\ ~Walking /\ life = "first" /\ Ended(First)
  /\ \/ /\ Publish /\ life' = "publishing"
        /\ UNCHANGED vars
     \/ /\ terminated /\ life' = "second"
        /\ Start(Second)
        /\ UNCHANGED <<terminated, exits, walk, audience, disturbed>>

\* Mutated form of Conclude, for ExitReachesAll: the second run is not awaited.
ConcludeUnawaited ==
  /\ Idle /\ ~Walking /\ life = "second"
  /\ life' = IF run[First] = "threw" THEN "rejected" ELSE "resolved"
  /\ UNCHANGED <<vars, terminated, exits, walk, audience, disturbed>>

\* Mutated form of Conclude, for ResolvedComplete: the error caught from the
\* first run is forgotten.
ConcludeForgets ==
  /\ Idle /\ ~Walking /\ life = "second" /\ Ended(Second)
  /\ life' = IF run[Second] = "threw" THEN "rejected" ELSE "resolved"
  /\ UNCHANGED <<vars, terminated, exits, walk, audience, disturbed>>

\* The promise of initiate() settles.
Conclude ==
  /\ Idle /\ ~Walking /\ life = "second" /\ Ended(Second)
  /\ life' = IF "threw" \in {run[First], run[Second]} THEN "rejected" ELSE "resolved"
  /\ UNCHANGED <<vars, terminated, exits, walk, audience, disturbed>>

-----------------------------------------------------------------------------
(* terminate(), publish(), on().                                           *)

Terminate ==
  /\ Injected
  /\ Publish
  /\ UNCHANGED <<vars, life>>

\* Mutated form of Before, for InstanceTypeOK: a loop that visits what is
\* subscribed while it runs.
BeforeLive(i) == i <= Len(exits)

Before(i) == i <= walk.last /\ i <= Len(exits)

\* The forEach reads the live array: what an unsubscribe() shifts below the
\* index is not visited.  A plain handler is posted, an injected one invoked.
WalkOn ==
  /\ Walking /\ Before(walk.next)
  /\ LET h == exits[walk.next]
     IN \/ h \in Plain /\ Post(h)
        \/ h \notin Plain /\ Exec(h)
  /\ walk' = [walk EXCEPT !.next = @ + 1]
  /\ UNCHANGED <<life, terminated, exits, audience, disturbed>>

\* Mutated form of WalkDone, for InitiateSettles: the run that called
\* terminate() is not continued.
WalkDoneStops ==
  /\ Walking /\ ~Before(walk.next)
  /\ walk' = NoWalk
  /\ UNCHANGED <<life, vars, terminated, exits, audience, disturbed>>

WalkDone ==
  /\ Walking /\ ~Before(walk.next)
  /\ walk' = NoWalk
  /\ \/ life = "publishing" /\ life' = "second" /\ Start(Second)
     \/ life # "publishing" /\ UNCHANGED <<life, vars>>
  /\ UNCHANGED <<terminated, exits, audience, disturbed>>

\* A handler that publish() invoked throws at once: the forEach is over, and
\* the exception goes to the code that called terminate(); run() rejects.
WalkThrows(h) ==
  /\ walk.on /\ Len(stack) = walk.depth + 1
  /\ Throws(h)
  /\ walk' = NoWalk /\ disturbed' = TRUE
  /\ life' = IF life = "publishing" THEN "rejected" ELSE life
  /\ UNCHANGED <<terminated, exits, audience>>

Subscribe(h) ==
  /\ Injected
  /\ h \in Handlers /\ task[h] = "new" /\ \A i \in DOMAIN exits : exits[i] # h
  /\ exits' = Append(exits, h)
  /\ UNCHANGED <<vars, life, terminated, walk, audience, disturbed>>

Unsubscribe(h) ==
  /\ Injected
  /\ \E i \in DOMAIN exits :
       /\ exits[i] = h
       /\ exits' = SubSeq(exits, 1, i - 1) \o SubSeq(exits, i + 1, Len(exits))
  /\ audience' = IF task[h] = "new" THEN audience \ {h} ELSE audience
  /\ disturbed' = (disturbed \/ walk.on)
  /\ UNCHANGED <<vars, life, terminated, walk>>

-----------------------------------------------------------------------------
(* The executor and the callbacks go on.                                   *)

\* get(), construct() and invoke() execute at once; publish() of any other
\* event posts its plain subscribers.
Call(t) ==
  /\ Injected /\ t \notin Scheduled \cup Handlers
  /\ Post(t) \/ Exec(t)
  /\ UNCHANGED instanceVars

Invoked(t) ==
  /\ ~Walking
  /\ \/ Returns(t)
     \/ Suspends(t)
     \/ Throws(t) /\ ~(walk.on /\ Len(stack) = walk.depth + 1)
  /\ UNCHANGED instanceVars

Settles(t) ==
  /\ ~Walking
  /\ \E ok \in BOOLEAN : Settle(t, ok)
  /\ UNCHANGED instanceVars

Running(r) ==
  /\ ~Walking
  /\ RunReturns(r) \/ RunPolls(r) \/ Await(r) \/ Resume(r)
  /\ UNCHANGED instanceVars

PollGoesOn == ~Walking /\ PollStep /\ UNCHANGED instanceVars

CallbackStep(t) == Invoked(t) \/ WalkThrows(t)

InstanceNext ==
  \/ Begin \/ Continue \/ Conclude \/ Terminate \/ WalkOn \/ WalkDone \/ PollGoesOn
  \/ \E t \in Tasks : \/ Schedule(t) \/ Subscribe(t) \/ Unsubscribe(t)
                      \/ Call(t) \/ CallbackStep(t) \/ Settles(t)
  \/ \E r \in Runners : Running(r)

InstanceSpec == InstanceInit /\ [][InstanceNext]_allVars

\* As in Executor: what has been called returns, and a reaction that is due
\* runs, although turns of other code come in between.
InstanceFair ==
  /\ WF_allVars(Begin) /\ SF_allVars(Continue) /\ SF_allVars(Conclude)
  /\ WF_allVars(WalkOn \/ WalkDone) /\ WF_allVars(PollGoesOn)
  /\ \A t \in Tasks : WF_allVars(Schedule(t)) /\ WF_allVars(CallbackStep(t))
  /\ \A r \in Runners : SF_allVars(Running(r))

InstanceLiveSpec == InstanceSpec /\ InstanceFair

-----------------------------------------------------------------------------
\* The fields of an Instance (Module.mjs:142-159); the forEach of publish()
\* belongs to a call that is still on the stack.
InstanceTypeOK ==
  /\ TypeOK
  /\ life \in {"new", "first", "publishing", "second", "resolved", "rejected"}
  /\ terminated \in BOOLEAN /\ disturbed \in BOOLEAN
  /\ exits \in Seq(Handlers)
  /\ audience \subseteq Handlers
  /\ walk.on => walk.depth <= Len(stack) /\ walk.next <= walk.last + 1

\* initiate() "resolves when the instance completes" (Module.mjs:493): then all
\* scheduled callbacks have been executed and have finished, and none has thrown.
\* A rejection that no race reports is the exception: see ErrorReported.
ResolvedComplete ==
  life = "resolved" => \A t \in Scheduled : task[t] \in {"done", "lost"}

\* Unless a handler that publish() invokes throws or somebody unsubscribes in
\* the middle of the forEach, who was subscribed to 'exit' when the instance
\* was terminated has been called, and has finished, when initiate() resolves
\* (Module.mjs:250-251 runs the executor a second time for this).
ExitReachesAll ==
  life = "resolved" /\ ~disturbed =>
    \A h \in audience : task[h] \in {"done", "raised", "lost"}

\* publish() "Calls all subscribed listeners" (Module.mjs:215).
DeliveredToAll ==
  life = "resolved" => \A h \in audience : task[h] # "new"

\* initiate() settles once the promises of its callbacks do, whether they
\* throw, terminate or subscribe (Module.mjs:242-255): the second run does not
\* wait for anything the first one left behind.
InitiateSettles ==
  (\A t \in Tasks : WF_allVars(Settles(t))) => <>(life \in {"resolved", "rejected"})
=============================================================================
