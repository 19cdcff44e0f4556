---------------------------- MODULE ServiceProofs ----------------------------
(***************************************************************************)
(* The service drives its instance only by what Instance specifies, so     *)
(* what is proved of every instance holds of the life of the service.  On  *)
(* top of that, what has become of the signals and of the port when        *)
(* initiate() settles.                                                     *)
(***************************************************************************)
EXTENDS Service, InstanceProofs

\* Main has not yet left the injected callback.
Early == {"called", "process", "injected"}

\* Process and Server are subscribed to 'exit' as Main goes on.
Progress ==
  /\ phase # "called" => \E i \in 1 .. Len(exits) : exits[i] = Unlisten
  /\ phase \notin {"called", "process"} => \E i \in 1 .. Len(exits) : exits[i] = Closer
  /\ phase \in {"process", "injected"} => task[Main] = "called"

\* A run fails by nothing but a rejection of Main, and the second one never.
Blame(r) == run[r] = "threw" \/ (run[r] = "waiting" /\ outcome[r] = "rejected")

MainFails ==
  /\ Blame(First) => task[Main] = "raised"
  /\ ~Blame(Second)
  /\ run[Second] # "idle" => Final(Main)
  /\ Settled => run[Second] = "returned"

\* Whoever publishes 'exit' does so on the event loop, and both hear of it.
Heard ==
  /\ ~disturbed
  /\ walk.on => walk.depth = 0
  /\ terminated => Unlisten \in audience /\ Closer \in audience

\* What the two handlers stand for.
Port ==
  /\ listeners => phase # "called" /\ task[Unlisten] \in {"new", "queued", "called"}
  /\ net = "closing" => task[Closer] = "async"
  /\ net # "closed" => phase \notin Early \cup {"renewing"}
  /\ task[Closer] = "async" => net \in {"closing", "closed"} /\ phase \notin Early \cup {"renewing"}
  /\ task[Closer] = "done" /\ ~missed => net = "closed" /\ phase \notin Early \cup {"renewing"}
  /\ task[Closer] \notin {"raised", "lost"}

-----------------------------------------------------------------------------
(* Each step of the service is a step of its instance, or none.            *)

LEMMA Callbacks ==
  /\ Main \in Tasks /\ Unlisten \in Tasks /\ Closer \in Tasks
  /\ Main # Unlisten /\ Main # Closer /\ Unlisten # Closer
  /\ First \in Runners /\ Second \in Runners
  BY ServiceAssumption, InstanceAssumption

\* No forEach stands on a callback, so none is in progress in one.
LEMMA CallingWalksNot ==
  ASSUME StackInv, Heard, NEW t \in Tasks, Calling(t)
  PROVE  ~Walking
  BY CallingFacts DEF Heard, Walking

LEMMA ServiceStep ==
  ASSUME InstanceInv, Heard, [ServiceNext]_serviceVars
  PROVE  [InstanceNext]_allVars
  <1> USE Callbacks
  <1>0. StackInv
    BY DEF InstanceInv
  <1>1. ASSUME Lifecycle PROVE InstanceNext
    BY <1>1 DEF Lifecycle, InstanceNext
  <1>2. ASSUME GetProcess \/ GetServer PROVE InstanceNext
    BY <1>2 DEF GetProcess, GetServer, InstanceNext
  <1>3. ASSUME NEW t \in Tasks, Suspends(t) \/ Returns(t), UNCHANGED instanceVars
        PROVE  InstanceNext
    <2>1. ~Walking
      BY <1>0, <1>3, CallingWalksNot DEF Suspends, Returns
    <2> QED BY <1>3, <2>1 DEF Invoked, CallbackStep, InstanceNext
  <1>4. ASSUME NEW t \in Tasks, \E ok \in BOOLEAN : Settle(t, ok), ~Walking, UNCHANGED instanceVars
        PROVE  InstanceNext
    BY <1>4 DEF Settles, InstanceNext
  <1>5. ASSUME CallRenew \/ RunUnlisten \/ RunCloser PROVE InstanceNext
    BY <1>3, <1>5 DEF CallRenew, RunUnlisten, RunCloser
  <1>6. ASSUME WorkEnds \/ Joined \/ CloserEnds PROVE InstanceNext
    <2>1. (joiner = "resolved") \in BOOLEAN
      OBVIOUS
    <2>2. CASE WorkEnds
      BY <1>4, <2>2 DEF WorkEnds
    <2>3. CASE Joined
      BY <1>4, <2>1, <2>3 DEF Joined
    <2>4. CASE CloserEnds
      BY <1>4, <2>4 DEF CloserEnds
    <2> QED BY <1>6, <2>2, <2>3, <2>4
  <1>7. ASSUME Signal PROVE [InstanceNext]_allVars
    BY <1>7 DEF Signal, InstanceNext
  <1>8. ASSUME Renewed \/ Listening \/ CallJoin \/ Clients \/ Closing \/ SomebodyWaits
        PROVE  UNCHANGED allVars
    BY <1>8 DEF Renewed, Listening, CallJoin, Clients, Closing, SomebodyWaits
  <1>9. ASSUME UNCHANGED serviceVars PROVE UNCHANGED allVars
    BY <1>9 DEF serviceVars
  <1> QED BY <1>1, <1>2, <1>5, <1>6, <1>7, <1>8, <1>9 DEF ServiceNext, Due


-----------------------------------------------------------------------------
(* What a step does to the callbacks.                                      *)

\* The instance itself only takes a callback up to where it is called.
Ahead(t) ==
  \/ task'[t] = task[t]
  \/ task[t] = "new" /\ task'[t] = "queued"
  \/ task[t] = "queued" /\ task'[t] = "called"

LEMMA LifecycleAhead ==
  ASSUME StackInv, WalkOK, Lifecycle, NEW t \in Tasks
  PROVE  Ahead(t)
  <1>0. DataOK /\ QueueOK
    BY DEF StackInv
  <1>1. ASSUME NEW u \in Tasks, Post(u) PROVE Ahead(t)
    BY <1>0, <1>1 DEF Post, DataOK, Ahead
  <1>2. ASSUME UNCHANGED task PROVE Ahead(t)
    BY <1>2 DEF Ahead
  <1>3. ASSUME NEW r \in Runners, Start(r) \/ Running(r) PROVE Ahead(t)
    BY <1>2, <1>3 DEF Start, Running, RunReturns, RunPolls, Await, Resume
  <1>4. ASSUME PollTask PROVE Ahead(t)
    <2>1. CASE UNCHANGED task
      BY <1>2, <2>1
    <2>2. CASE queue # <<>> /\ task' = [task EXCEPT ![Head(queue)] = "called"] /\ queue' = Tail(queue)
      <3>1. Head(queue) \in Tasks /\ task[Head(queue)] = "queued"
        BY <1>0, <2>2, QueueShifted
      <3> QED BY <1>0, <2>2, <3>1 DEF DataOK, Ahead
    <2> QED BY <1>4, <2>1, <2>2 DEF PollTask
  <1>5. ASSUME PollGoesOn PROVE Ahead(t)
    BY <1>2, <1>4, <1>5 DEF PollGoesOn, PollStep, PollRound, PollReturns
  <1>6. ASSUME WalkOn PROVE Ahead(t)
    <2>1. exits[walk.next] \in Tasks /\ exits[walk.next] \in Plain
      BY <1>6, VisitedHandler, ServiceAssumption DEF WalkOn
    <2> QED BY <1>1, <1>6, <2>1 DEF WalkOn
  <1>7. ASSUME Begin \/ Continue \/ Conclude \/ WalkDone PROVE Ahead(t)
    BY <1>2, <1>3, <1>7, Callbacks DEF Begin, Continue, Conclude, WalkDone, vars
  <1>8. ASSUME Schedule(Main) PROVE Ahead(t)
    BY <1>1, <1>8, Callbacks DEF Schedule
  <1> QED BY <1>3, <1>5, <1>6, <1>7, <1>8 DEF Lifecycle

LEMMA LifecycleKeeps ==
  ASSUME Lifecycle
  PROVE  UNCHANGED <<exits, disturbed, httpVars, mainVars>>
  <1>1. UNCHANGED <<httpVars, mainVars>>
    BY DEF Lifecycle
  <1>2. ASSUME Begin \/ Continue \/ Conclude \/ WalkOn \/ WalkDone PROVE UNCHANGED <<exits, disturbed>>
    BY <1>2 DEF Begin, Continue, Conclude, WalkOn, WalkDone, Publish
  <1>3. ASSUME Schedule(Main) \/ PollGoesOn PROVE UNCHANGED <<exits, disturbed>>
    BY <1>3 DEF Schedule, PollGoesOn, instanceVars
  <1>4. ASSUME NEW r \in Runners, Running(r) PROVE UNCHANGED <<exits, disturbed>>
    BY <1>4 DEF Running, instanceVars
  <1> QED BY <1>1, <1>2, <1>3, <1>4 DEF Lifecycle

\* One callback is taken to another state, the others stay.
LEMMA OneTask ==
  ASSUME DataOK, NEW t \in Tasks, NEW how, task' = [task EXCEPT ![t] = how]
  PROVE  task'[t] = how /\ \A u \in Tasks \ {t} : task'[u] = task[u]
  BY DEF DataOK

\* How the promise of a callback that fulfils its promise ends.
LEMMA SettledTask ==
  ASSUME DataOK, NEW t \in Tasks, NEW ok, Settle(t, ok)
  PROVE  /\ task[t] = "async" /\ Final(t)' /\ (ok => task'[t] = "done")
         /\ \A u \in Tasks \ {t} : task'[u] = task[u]
  <1>1. PICK how : /\ how = (IF ok THEN "done" ELSE IF outcome' # outcome THEN "raised" ELSE "lost")
                   /\ task' = [task EXCEPT ![t] = how]
    BY DEF Settle
  <1> QED BY <1>1, OneTask DEF Settle, Final

-----------------------------------------------------------------------------
(* The errors of the two runs.                                             *)

\* A run is to blame for nothing but a promise of Main that is rejected.
LEMMA NewBlame ==
  ASSUME InstanceInv, Heard, [ServiceNext]_serviceVars,
         NEW r \in Runners, Blame(r)', ~Blame(r)
  PROVE  run[r] = "waiting" /\ task[Main] = "async" /\ task'[Main] = "raised"
  <1> DEFINE Wanted == run[r] = "waiting" /\ task[Main] = "async" /\ task'[Main] = "raised"
  <1>0. StackInv /\ DataOK /\ WalkOK
    BY DEF InstanceInv, StackInv
  <1>1. ASSUME UNCHANGED <<run, outcome>> PROVE Wanted
    BY <1>1 DEF Blame
  <1>2. ASSUME NEW p, UNCHANGED run, outcome' = Decided(p, "resolved") PROVE Wanted
    BY <1>2 DEF Decided, Blame
  <1>3. ASSUME CallWakeup, UNCHANGED run PROVE Wanted
    BY <1>1, <1>2, <1>3 DEF CallWakeup
  <1>4. ASSUME NEW q \in Runners, NEW how \in {"running", "returned"},
               run' = [run EXCEPT ![q] = how], UNCHANGED outcome
        PROVE  Wanted
    BY <1>0, <1>4 DEF Blame, DataOK
  <1>5. ASSUME NEW q \in Runners, Await(q) PROVE Wanted
    <2>1. PICK how \in {"resolved", "open"} :
            run' = [run EXCEPT ![q] = "waiting"] /\ outcome' = [outcome EXCEPT ![q] = how]
      BY <1>5 DEF Await
    <2> QED BY <1>0, <2>1 DEF Blame, DataOK
  <1>6. ASSUME NEW q \in Runners, Resume(q) PROVE Wanted
    <2>1. /\ outcome' = [outcome EXCEPT ![q] = "open"] /\ run[q] = "waiting"
          /\ \/ run' = [run EXCEPT ![q] = "running"]
             \/ outcome[q] = "rejected" /\ run' = [run EXCEPT ![q] = "threw"]
      BY <1>6 DEF Resume, End
    <2> QED BY <1>0, <2>1 DEF Blame, DataOK
  <1>7. ASSUME NEW t \in Tasks, Post(t) \/ Suspends(t) \/ Returns(t) PROVE Wanted
    BY <1>1, <1>3, <1>7 DEF Post, Suspends, Returns
  <1>8. ASSUME NEW q \in Runners, Start(q) PROVE Wanted
    BY <1>4, <1>8 DEF Start
  <1>9. ASSUME NEW q \in Runners, Running(q) PROVE Wanted
    BY <1>1, <1>4, <1>5, <1>6, <1>9 DEF Running, RunReturns, RunPolls, End
  <1>10. ASSUME Lifecycle PROVE Wanted
    <2>1. ASSUME WalkOn PROVE Wanted
      <3>1. exits[walk.next] \in Tasks /\ exits[walk.next] \in Plain
        BY <1>0, <2>1, VisitedHandler, ServiceAssumption DEF WalkOn
      <3> QED BY <1>7, <2>1, <3>1 DEF WalkOn
    <2>2. ASSUME Begin \/ Continue \/ Conclude \/ WalkDone PROVE Wanted
      BY <1>1, <1>8, <2>2, Callbacks DEF Begin, Continue, Conclude, WalkDone, vars
    <2>3. ASSUME PollGoesOn PROVE Wanted
      BY <1>1, <2>3 DEF PollGoesOn, PollStep, PollRound, PollTask, PollReturns
    <2>4. ASSUME Schedule(Main) PROVE Wanted
      BY <1>7, <2>4, Callbacks DEF Schedule
    <2> QED BY <1>9, <1>10, <2>1, <2>2, <2>3, <2>4 DEF Lifecycle
  <1>11. ASSUME NEW ok \in BOOLEAN, Settle(Main, ok) PROVE Wanted
    <2>1. CASE ok
      <3>1. outcome' = Decided(Task(Main), "resolved") /\ UNCHANGED run
        BY <1>11, <2>1 DEF Settle
      <3> QED BY <1>2, <3>1
    <2>2. CASE ~ok
      <3>1. /\ outcome' = Decided(Task(Main), "rejected") /\ UNCHANGED run /\ task[Main] = "async"
            /\ task' = [task EXCEPT ![Main] = IF outcome' # outcome THEN "raised" ELSE "lost"]
        BY <1>11, <2>2 DEF Settle
      <3>2. outcome' # outcome /\ run[r] = "waiting"
        BY <1>1, <3>1 DEF Blame
      <3>3. task'[Main] = "raised"
        BY <1>0, <3>1, <3>2, OneTask, Callbacks
      <3> QED BY <3>1, <3>2, <3>3
    <2> QED BY <2>1, <2>2
  <1>12. ASSUME Settle(Closer, TRUE) PROVE Wanted
    <2>1. outcome' = Decided(Task(Closer), "resolved") /\ UNCHANGED run
      BY <1>12 DEF Settle
    <2> QED BY <1>2, <2>1
  <1>13. ASSUME CallRenew \/ RunUnlisten \/ RunCloser PROVE Wanted
    BY <1>7, <1>13, Callbacks DEF CallRenew, RunUnlisten, RunCloser
  <1>14. ASSUME WorkEnds \/ Joined \/ CloserEnds PROVE Wanted
    <2>1. (joiner = "resolved") \in BOOLEAN
      OBVIOUS
    <2> QED BY <1>11, <1>12, <1>14, <2>1 DEF WorkEnds, Joined, CloserEnds
  <1>15. ASSUME UNCHANGED vars PROVE Wanted
    BY <1>1, <1>15 DEF vars
  <1>16. ASSUME GetProcess \/ GetServer \/ Signal PROVE UNCHANGED vars
    BY <1>16 DEF GetProcess, GetServer, Subscribe, Signal, Terminate, allVars
  <1>17. ASSUME Renewed \/ Listening \/ CallJoin \/ Clients \/ Closing \/ SomebodyWaits
         PROVE  UNCHANGED vars
    BY <1>17 DEF Renewed, Listening, CallJoin, Clients, Closing, SomebodyWaits, allVars
  <1>18. ASSUME UNCHANGED serviceVars PROVE UNCHANGED vars
    BY <1>18 DEF serviceVars, allVars
  <1> QED BY <1>10, <1>13, <1>14, <1>15, <1>16, <1>17, <1>18 DEF ServiceNext, Due


\* The second run begins after the first one has ended.
LEMMA SecondBegins ==
  ASSUME InstanceInv, Stages, [InstanceNext]_allVars, run[Second] = "idle", run'[Second] # "idle"
  PROVE  Ended(First)
  <1>0. StackInv /\ DataOK /\ WalkOK /\ Second \in Runners /\ First # Second
    BY Callbacks, InstanceAssumption DEF InstanceInv, StackInv
  <1>1. ASSUME Begin PROVE FALSE
    <2>1. run' = [run EXCEPT ![First] = "running"]
      BY <1>1 DEF Begin, Start
    <2> QED BY <1>0, <2>1 DEF DataOK
  <1>2. ASSUME UNCHANGED vars \/ UNCHANGED allVars PROVE FALSE
    BY <1>2 DEF vars, allVars
  <1>3. ASSUME Continue \/ Conclude \/ Terminate PROVE Ended(First)
    BY <1>2, <1>3 DEF Continue, Conclude, Terminate
  <1>4. ASSUME WalkDone PROVE Ended(First)
    BY <1>2, <1>4 DEF WalkDone, Stages
  <1>5. ASSUME WalkOn PROVE FALSE
    <2>1. exits[walk.next] \in Tasks
      BY <1>0, <1>5, VisitedHandler DEF WalkOn
    <2> QED BY <1>0, <1>5, <2>1, IdleStays DEF WalkOn
  <1>6. ASSUME PollGoesOn PROVE FALSE
    BY <1>0, <1>6, IdleStays DEF PollGoesOn
  <1>7. ASSUME NEW t \in Tasks, Schedule(t) \/ Call(t) PROVE FALSE
    BY <1>0, <1>7, IdleStays DEF Schedule, Call
  <1>8. ASSUME NEW t \in Tasks, Subscribe(t) \/ Unsubscribe(t) PROVE FALSE
    BY <1>2, <1>8 DEF Subscribe, Unsubscribe
  <1>9. ASSUME NEW t \in Tasks, CallbackStep(t) PROVE FALSE
    BY <1>0, <1>9, IdleStays DEF CallbackStep, Invoked, WalkThrows, TaskStep
  <1>10. ASSUME NEW t \in Tasks, Settles(t) PROVE FALSE
    BY <1>0, <1>10, IdleStays DEF Settles
  <1>11. ASSUME NEW r \in Runners, Running(r) PROVE FALSE
    BY <1>0, <1>11, IdleStays DEF Running
  <1> QED BY <1>1, <1>2, <1>3, <1>4, <1>5, <1>6, <1>7, <1>8, <1>9, <1>10, <1>11 DEF InstanceNext

\* When the first run has ended, Main has.
LEMMA MainOver ==
  ASSUME FirstEnds, MainFails, Ended(First)
  PROVE  Final(Main)
  <1>1. Main \in Scheduled
    BY ServiceAssumption
  <1> QED BY <1>1 DEF FirstEnds, MainFails, Blame, Ended, Final

\* initiate() settles by Conclude alone.
LEMMA SettledBy ==
  ASSUME [ServiceNext]_serviceVars, Settled'
  PROVE  Settled \/ Conclude
  <1>1. ASSUME UNCHANGED life PROVE Settled
    BY <1>1 DEF Settled
  <1>2. ASSUME Begin \/ Continue PROVE FALSE
    BY <1>2 DEF Begin, Continue, Settled
  <1>3. ASSUME WalkOn \/ WalkDone PROVE Settled
    BY <1>1, <1>3 DEF WalkOn, WalkDone, Settled
  <1>4. ASSUME Schedule(Main) \/ PollGoesOn PROVE Settled
    BY <1>1, <1>4 DEF Schedule, PollGoesOn, instanceVars
  <1>5. ASSUME NEW r \in Runners, Running(r) PROVE Settled
    BY <1>1, <1>5 DEF Running, instanceVars
  <1>6. ASSUME Lifecycle PROVE Settled \/ Conclude
    BY <1>2, <1>3, <1>4, <1>5, <1>6 DEF Lifecycle
  <1>7. ASSUME GetProcess \/ GetServer \/ Signal PROVE Settled
    BY <1>1, <1>7 DEF GetProcess, GetServer, Subscribe, Signal, Terminate, allVars, instanceVars
  <1>8. ASSUME CallRenew \/ RunUnlisten \/ RunCloser \/ WorkEnds \/ Joined \/ CloserEnds PROVE Settled
    BY <1>1, <1>8 DEF CallRenew, RunUnlisten, RunCloser, WorkEnds, Joined, CloserEnds, instanceVars
  <1>9. ASSUME Renewed \/ Listening \/ CallJoin \/ Clients \/ Closing \/ SomebodyWaits PROVE Settled
    BY <1>1, <1>9 DEF Renewed, Listening, CallJoin, Clients, Closing, SomebodyWaits, allVars, instanceVars
  <1>10. ASSUME UNCHANGED serviceVars PROVE Settled
    BY <1>1, <1>10 DEF serviceVars, allVars, instanceVars
  <1> QED BY <1>6, <1>7, <1>8, <1>9, <1>10 DEF ServiceNext, Due

LEMMA MainFailsKept ==
  ASSUME InstanceInv, Heard, Stages, FirstEnds, MainFails, [ServiceNext]_serviceVars
  PROVE  MainFails'
  <1>0. StackInv /\ DataOK /\ [InstanceNext]_allVars /\ [Next]_vars
    BY ServiceStep, InstanceStep DEF InstanceInv, StackInv
  <1> USE Callbacks
  <1>1. Blame(First)' => task'[Main] = "raised"
    <2>1. CASE Blame(First)
      <3>1. task[Main] = "raised"
        BY <2>1 DEF MainFails
      <3> QED BY <1>0, <3>1, TaskGoesOn
    <2>2. CASE ~Blame(First)
      BY <2>2, NewBlame
    <2> QED BY <2>1, <2>2
  <1>2. ~Blame(Second)'
    <2> SUFFICES ASSUME Blame(Second)' PROVE FALSE
      OBVIOUS
    <2>1. ~Blame(Second)
      BY DEF MainFails
    <2>2. run[Second] = "waiting" /\ task[Main] = "async"
      BY <2>1, NewBlame
    <2> QED BY <2>2 DEF MainFails, Final
  <1>3. run'[Second] # "idle" => Final(Main)'
    <2> SUFFICES ASSUME run'[Second] # "idle" PROVE Final(Main)'
      OBVIOUS
    <2>1. Final(Main)
      BY <1>0, SecondBegins, MainOver DEF MainFails
    <2> QED BY <1>0, <2>1, FinalStays
  <1>4. Settled' => run'[Second] = "returned"
    <2> SUFFICES ASSUME Settled' PROVE run'[Second] = "returned"
      OBVIOUS
    <2>1. CASE Settled
      BY <1>0, <2>1, EndedStays DEF MainFails, Ended
    <2>2. CASE Conclude
      BY <2>2 DEF Conclude, Ended, MainFails, Blame, vars
    <2> QED BY <2>1, <2>2, SettledBy
  <1> QED BY <1>1, <1>2, <1>3, <1>4 DEF MainFails

-----------------------------------------------------------------------------
(* The publication of 'exit'.                                              *)

\* It comes from run() or from a signal that Process listens to.
LEMMA PublishedBy ==
  ASSUME [ServiceNext]_serviceVars
  PROVE  /\ UNCHANGED disturbed
         /\ \/ UNCHANGED <<terminated, audience>>
            \/ Publish /\ Idle /\ UNCHANGED vars /\ (Ended(First) \/ listeners)
  <1>1. ASSUME Begin \/ Continue \/ Conclude \/ WalkOn \/ WalkDone
        PROVE  /\ UNCHANGED disturbed
               /\ \/ UNCHANGED <<terminated, audience>>
                  \/ Continue /\ Publish /\ UNCHANGED vars
    BY <1>1 DEF Begin, Continue, Conclude, WalkOn, WalkDone, Publish
  <1>2. ASSUME Schedule(Main) \/ PollGoesOn PROVE UNCHANGED <<terminated, audience, disturbed>>
    BY <1>2 DEF Schedule, PollGoesOn, instanceVars
  <1>3. ASSUME NEW r \in Runners, Running(r) PROVE UNCHANGED <<terminated, audience, disturbed>>
    BY <1>3 DEF Running, instanceVars
  <1>4. ASSUME Continue PROVE Idle /\ Ended(First)
    BY <1>4 DEF Continue
  <1>5. ASSUME Signal
        PROVE  /\ UNCHANGED disturbed
               /\ \/ UNCHANGED <<terminated, audience>>
                  \/ Publish /\ Idle /\ UNCHANGED vars /\ listeners
    BY <1>5 DEF Signal, BetweenTurns, Terminate, Publish, allVars, instanceVars
  <1>6. ASSUME GetProcess \/ GetServer PROVE UNCHANGED <<terminated, audience, disturbed>>
    BY <1>6 DEF GetProcess, GetServer, Subscribe
  <1>7. ASSUME CallRenew \/ RunUnlisten \/ RunCloser \/ WorkEnds \/ Joined \/ CloserEnds
        PROVE  UNCHANGED <<terminated, audience, disturbed>>
    BY <1>7 DEF CallRenew, RunUnlisten, RunCloser, WorkEnds, Joined, CloserEnds, instanceVars
  <1>8. ASSUME Renewed \/ Listening \/ CallJoin \/ Clients \/ Closing \/ SomebodyWaits
        PROVE  UNCHANGED <<terminated, audience, disturbed>>
    BY <1>8 DEF Renewed, Listening, CallJoin, Clients, Closing, SomebodyWaits, allVars, instanceVars
  <1>9. ASSUME UNCHANGED serviceVars PROVE UNCHANGED <<terminated, audience, disturbed>>
    BY <1>9 DEF serviceVars, allVars, instanceVars
  <1>10. ASSUME Lifecycle
         PROVE  /\ UNCHANGED disturbed
                /\ \/ UNCHANGED <<terminated, audience>>
                   \/ Publish /\ Idle /\ UNCHANGED vars /\ Ended(First)
    BY <1>1, <1>2, <1>3, <1>4, <1>10 DEF Lifecycle
  <1> QED BY <1>5, <1>6, <1>7, <1>8, <1>9, <1>10 DEF ServiceNext, Due

LEMMA HeardKept ==
  ASSUME InstanceInv, Held, FirstEnds, MainFails, Progress, Port, ServiceTypeOK, Heard,
         [ServiceNext]_serviceVars
  PROVE  Heard'
  <1>0. StackInv /\ [InstanceNext]_allVars
    BY ServiceStep DEF InstanceInv
  <1> USE Callbacks
  <1>1. ~disturbed'
    BY PublishedBy DEF Heard
  <1>2. ASSUME Publish, Idle, UNCHANGED vars, Ended(First) \/ listeners
        PROVE  Unlisten \in audience' /\ Closer \in audience'
    <2>1. Len(stack) = 0
      BY <1>0, <1>2, IdleIsEmpty
    <2>2. task[Main] # "called"
      BY <2>1 DEF Held
    <2>3. phase \notin Early
      <3>1. CASE Ended(First)
        BY <3>1, MainOver DEF ServiceTypeOK, Final, Early
      <3>2. CASE listeners
        BY <2>2, <3>2 DEF Port, Progress, Early
      <3> QED BY <1>2, <3>1, <3>2
    <2>4. /\ \E i \in 1 .. Len(exits) : exits[i] = Unlisten
          /\ \E i \in 1 .. Len(exits) : exits[i] = Closer
      BY <2>3 DEF Progress, Early
    <2>5. exits \in Seq(Handlers)
      BY DEF InstanceInv, WalkOK
    <2> QED BY <1>2, <2>4, <2>5 DEF Publish
  <1>3. terminated' => Unlisten \in audience' /\ Closer \in audience'
    BY <1>2, PublishedBy DEF Heard
  <1>4. walk'.on => walk'.depth = 0
    <2>1. CASE walk'.on = walk.on /\ walk'.depth = walk.depth
      BY <2>1 DEF Heard
    <2>2. CASE walk'.depth = Len(stack) /\ Publish
      <3>1. Idle
        BY <2>2, PublishedBy DEF Publish
      <3> QED BY <1>0, <2>2, <3>1, IdleIsEmpty
    <2> QED BY <1>0, <2>1, <2>2, WalkMoves
  <1> QED BY <1>1, <1>3, <1>4 DEF Heard


-----------------------------------------------------------------------------
(* What Main, the handlers and the port have to do with each other.        *)

\* The three tie the callbacks to the variables of Service and HttpServer, so
\* a step that leaves both alone keeps them.
LEMMA TiesStay ==
  ASSUME UNCHANGED <<exits, phase, task, listeners, net, missed>>, Progress, Port
  PROVE  Progress' /\ Port'
  BY DEF Progress, Port

LEMMA TiesAhead ==
  ASSUME StackInv, Lifecycle, WalkOK, Progress, Port, ServiceTypeOK
  PROVE  Progress' /\ Port' /\ ServiceTypeOK'
  <1>1. Ahead(Main) /\ Ahead(Unlisten) /\ Ahead(Closer)
    BY LifecycleAhead, Callbacks
  <1>2. /\ UNCHANGED <<exits, phase, listeners, missed, killed>>
        /\ UNCHANGED <<net, sockets, connections, destroyed, waiter, joiner, uncaught>>
    BY LifecycleKeeps DEF httpVars, mainVars
  <1>3. Progress'
    BY <1>1, <1>2 DEF Progress, Ahead
  <1>4. Port'
    BY <1>1, <1>2 DEF Port, Ahead
  <1>5. ServiceTypeOK'
    BY <1>1, <1>2 DEF ServiceTypeOK, Ahead
  <1> QED BY <1>3, <1>4, <1>5

\* The subscriptions of Process and Server.
LEMMA Subscribed ==
  ASSUME WalkOK, NEW h \in Handlers, Subscribe(h)
  PROVE  /\ \E i \in 1 .. Len(exits') : exits'[i] = h
         /\ \A g : (\E i \in 1 .. Len(exits) : exits[i] = g) => \E i \in 1 .. Len(exits') : exits'[i] = g
         /\ task[h] = "new" /\ UNCHANGED task
  <1>1. exits \in Seq(Handlers) /\ exits' = Append(exits, h) /\ task[h] = "new" /\ UNCHANGED task
    BY DEF WalkOK, Subscribe, vars
  <1>2. /\ Len(exits) \in Nat /\ Len(exits') = Len(exits) + 1
        /\ exits'[Len(exits) + 1] = h /\ \A i \in 1 .. Len(exits) : exits'[i] = exits[i]
    BY <1>1
  <1>3. Len(exits) + 1 \in 1 .. Len(exits') /\ \A i \in 1 .. Len(exits) : i \in 1 .. Len(exits')
    BY <1>2
  <1> QED BY <1>1, <1>2, <1>3

\* Main, up to where it has called renew().
LEMMA MainCalls ==
  ASSUME InstanceInv, Heard, Progress, Port, ServiceTypeOK,
         GetProcess \/ GetServer \/ CallRenew
  PROVE  Progress' /\ Port' /\ ServiceTypeOK'
  <1> USE Callbacks
  <1>0. StackInv /\ DataOK /\ WalkOK /\ Unlisten \in Handlers /\ Closer \in Handlers
    BY ServiceAssumption DEF InstanceInv, StackInv
  <1>1. UNCHANGED <<net, sockets, connections, destroyed, waiter, joiner, uncaught>>
    BY DEF GetProcess, GetServer, CallRenew, httpVars
  <1>2. CASE GetProcess
    <2>1. /\ \E i \in 1 .. Len(exits') : exits'[i] = Unlisten
          /\ task[Unlisten] = "new" /\ UNCHANGED task
      BY <1>0, <1>2, Subscribed DEF GetProcess
    <2>2. /\ task[Main] = "called" /\ phase = "called" /\ phase' = "process" /\ listeners' = TRUE
          /\ UNCHANGED <<killed, missed>>
      BY <1>0, <1>2, CallingFacts DEF GetProcess
    <2>3. Progress'
      BY <2>1, <2>2 DEF Progress
    <2>4. Port'
      BY <1>1, <2>1, <2>2 DEF Port, Early
    <2>5. ServiceTypeOK'
      BY <1>1, <2>1, <2>2 DEF ServiceTypeOK
    <2> QED BY <2>3, <2>4, <2>5
  <1>3. CASE GetServer
    <2>1. /\ \E i \in 1 .. Len(exits') : exits'[i] = Closer
          /\ (\E i \in 1 .. Len(exits) : exits[i] = Unlisten)
               => \E i \in 1 .. Len(exits') : exits'[i] = Unlisten
          /\ UNCHANGED task
      BY <1>0, <1>3, Subscribed DEF GetServer
    <2>2. phase = "process" /\ phase' = "injected" /\ UNCHANGED <<listeners, killed, missed>>
      BY <1>3 DEF GetServer
    <2>3. Progress'
      BY <2>1, <2>2 DEF Progress
    <2>4. Port'
      BY <1>1, <2>1, <2>2 DEF Port, Early
    <2>5. ServiceTypeOK'
      BY <1>1, <2>1, <2>2 DEF ServiceTypeOK
    <2> QED BY <2>3, <2>4, <2>5
  <1>4. CASE CallRenew
    <2>1. /\ phase = "injected" /\ phase' = "renewing" /\ UNCHANGED <<exits, listeners, killed, missed>>
          /\ task' = [task EXCEPT ![Main] = "async"]
      BY <1>4 DEF CallRenew, Suspends, instanceVars
    <2>2. /\ task'[Main] = "async"
          /\ task'[Unlisten] = task[Unlisten] /\ task'[Closer] = task[Closer]
      BY <1>0, <2>1, OneTask
    <2>3. Progress'
      BY <2>1 DEF Progress
    <2>4. Port'
      BY <1>1, <2>1, <2>2 DEF Port, Early
    <2>5. ServiceTypeOK'
      BY <1>1, <2>1, <2>2 DEF ServiceTypeOK
    <2> QED BY <2>3, <2>4, <2>5
  <1> QED BY <1>2, <1>3, <1>4

\* Main, after that.
LEMMA MainAwaits ==
  ASSUME InstanceInv, Progress, Port, ServiceTypeOK,
         Renewed \/ Listening \/ CallJoin \/ WorkEnds \/ Joined
  PROVE  Progress' /\ Port' /\ ServiceTypeOK'
  <1> USE Callbacks
  <1>0. DataOK
    BY DEF InstanceInv, StackInv
  <1>1. CASE Renewed
    <2>1. /\ phase = "renewing" /\ phase' = "listening" /\ net = "closed" /\ net' = "opening"
          /\ UNCHANGED <<exits, task, listeners, killed, missed>>
          /\ UNCHANGED <<sockets, connections, destroyed, waiter, joiner, uncaught>>
      BY <1>1 DEF Renewed, Listen, allVars, vars, instanceVars
    <2> QED BY <2>1 DEF Progress, Port, ServiceTypeOK, Early
  <1>2. CASE Listening
    <2>1. /\ phase = "listening" /\ phase' = "listened" /\ net = "opening" /\ net' = "open"
          /\ waiter' = Told(waiter, "resolved")
          /\ UNCHANGED <<exits, task, listeners, killed, missed>>
          /\ UNCHANGED <<sockets, connections, destroyed, joiner, uncaught>>
      BY <1>2 DEF Listening, Opens, allVars, vars, instanceVars
    <2>2. waiter' \in {"none", "waiting", "resolved", "rejected"}
      BY <2>1 DEF Told, ServiceTypeOK
    <2> QED BY <2>1, <2>2 DEF Progress, Port, ServiceTypeOK, Early
  <1>3. CASE CallJoin
    <2>1. /\ phase = "listened" /\ phase' = "joining"
          /\ joiner' = IF net = "open" THEN "waiting" ELSE "resolved"
          /\ UNCHANGED <<exits, task, listeners, killed, missed>>
          /\ UNCHANGED <<net, sockets, connections, destroyed, waiter, uncaught>>
      BY <1>3 DEF CallJoin, Join, allVars, vars, instanceVars
    <2> QED BY <2>1 DEF Progress, Port, ServiceTypeOK, Early
  <1>4. CASE WorkEnds \/ Joined
    <2>1. /\ phase \in {"listened", "joining"} /\ phase' = "over" /\ joiner # "waiting"
          /\ UNCHANGED <<exits, listeners, killed, missed>>
          /\ UNCHANGED <<net, sockets, connections, destroyed, waiter, joiner, uncaught>>
      BY <1>4 DEF WorkEnds, Joined, instanceVars, httpVars, ServiceTypeOK
    <2>2. /\ task'[Main] \in {"done", "raised", "lost"}
          /\ task'[Unlisten] = task[Unlisten] /\ task'[Closer] = task[Closer]
      <3>1. PICK ok : Settle(Main, ok)
        BY <1>4 DEF WorkEnds, Joined
      <3> QED BY <1>0, <3>1, SettledTask DEF Final
    <2> QED BY <2>1, <2>2 DEF Progress, Port, ServiceTypeOK, Early
  <1> QED BY <1>1, <1>2, <1>3, <1>4

\* The handlers of 'exit'.
LEMMA HandlersRun ==
  ASSUME InstanceInv, Progress, Port, ServiceTypeOK, RunUnlisten \/ RunCloser \/ CloserEnds
  PROVE  Progress' /\ Port' /\ ServiceTypeOK'
  <1> USE Callbacks
  <1>0. StackInv /\ DataOK
    BY DEF InstanceInv, StackInv
  <1>1. UNCHANGED <<exits, phase, killed>>
    BY DEF RunUnlisten, RunCloser, CloserEnds, instanceVars, mainVars
  <1>2. CASE RunUnlisten
    <2>1. /\ task' = [task EXCEPT ![Unlisten] = "done"] /\ listeners' = FALSE /\ UNCHANGED missed
          /\ UNCHANGED <<net, sockets, connections, destroyed, waiter, joiner, uncaught>>
      BY <1>2 DEF RunUnlisten, Returns, httpVars
    <2>2. task'[Main] = task[Main] /\ task'[Closer] = task[Closer]
      BY <1>0, <2>1, OneTask
    <2> QED BY <1>1, <2>1, <2>2 DEF Progress, Port, ServiceTypeOK
  <1>3. CASE RunCloser
    <2>0. UNCHANGED <<listeners, sockets, connections, waiter, joiner, uncaught>> /\ missed' = (net # "open")
      BY <1>3 DEF RunCloser, Close
    <2>1. task[Closer] = "called"
      BY <1>0, <1>3, CallingFacts DEF RunCloser, Suspends, Returns
    <2>2. CASE net = "open"
      <3>1. task' = [task EXCEPT ![Closer] = "async"] /\ net' = "closing" /\ destroyed' = connections \cap sockets
        BY <1>3, <2>2 DEF RunCloser, Suspends, Close
      <3>2. task'[Closer] = "async" /\ task'[Main] = task[Main] /\ task'[Unlisten] = task[Unlisten]
        BY <1>0, <3>1, OneTask
      <3> QED BY <1>1, <2>0, <2>2, <3>1, <3>2 DEF Progress, Port, ServiceTypeOK
    <2>3. CASE net # "open"
      <3>1. task' = [task EXCEPT ![Closer] = "done"] /\ UNCHANGED <<net, destroyed>> /\ missed'
        BY <1>3, <2>0, <2>3 DEF RunCloser, Returns, Close
      <3>2. task'[Closer] = "done" /\ task'[Main] = task[Main] /\ task'[Unlisten] = task[Unlisten]
        BY <1>0, <3>1, OneTask
      <3> QED BY <1>1, <2>0, <2>1, <3>1, <3>2 DEF Progress, Port, ServiceTypeOK
    <2> QED BY <2>2, <2>3
  <1>4. CASE CloserEnds
    <2>1. /\ net = "closed" /\ UNCHANGED <<listeners, missed>>
          /\ UNCHANGED <<net, sockets, connections, destroyed, waiter, joiner, uncaught>>
      BY <1>4 DEF CloserEnds, mainVars, httpVars
    <2>2. /\ task[Closer] = "async" /\ task'[Closer] = "done"
          /\ task'[Main] = task[Main] /\ task'[Unlisten] = task[Unlisten]
      BY <1>0, <1>4, SettledTask DEF CloserEnds
    <2> QED BY <1>1, <2>1, <2>2 DEF Progress, Port, ServiceTypeOK
  <1> QED BY <1>2, <1>3, <1>4

\* The surroundings.
LEMMA OthersAct ==
  ASSUME Progress, Port, ServiceTypeOK, Signal \/ Clients \/ Closing \/ SomebodyWaits
  PROVE  Progress' /\ Port' /\ ServiceTypeOK'
  <1>1. UNCHANGED <<exits, phase, task, listeners, missed>> /\ killed' \in BOOLEAN
    BY DEF Signal, Clients, Closing, SomebodyWaits, Terminate, Publish, allVars, vars, instanceVars, mainVars, ServiceTypeOK
  <1>2. ASSUME NEW c, Disconnect(c) PROVE Progress' /\ Port' /\ ServiceTypeOK'
    <2>1. /\ UNCHANGED <<net, waiter, joiner, uncaught>>
          /\ sockets' = sockets \ {c} /\ destroyed' = destroyed \ {c}
          /\ connections' = connections \ {c}
      BY <1>2 DEF Disconnect
    <2> QED BY <1>1, <2>1 DEF Progress, Port, ServiceTypeOK
  <1>3. CASE Signal
    <2>1. UNCHANGED <<net, sockets, connections, destroyed, waiter, joiner, uncaught>>
      BY <1>3 DEF Signal, httpVars
    <2> QED BY <1>1, <2>1 DEF Progress, Port, ServiceTypeOK
  <1>4. CASE SomebodyWaits
    <2>1. UNCHANGED <<net, sockets, connections, destroyed, joiner, uncaught>> /\ waiter = "none" /\ waiter' \in {"waiting", "resolved"}
      BY <1>4 DEF SomebodyWaits, Wait
    <2> QED BY <1>1, <2>1 DEF Progress, Port, ServiceTypeOK
  <1>5. CASE OpenFails
    <2>1. /\ net = "opening" /\ net' = "closed" /\ UNCHANGED <<sockets, connections, destroyed, joiner>>
          /\ waiter' = Told(waiter, "rejected") /\ uncaught' = (waiter # "waiting")
      BY <1>5 DEF OpenFails
    <2>2. /\ waiter' \in {"none", "waiting", "resolved", "rejected"} /\ uncaught' \in BOOLEAN
          /\ uncaught' \/ waiter' = "rejected"
      BY <2>1 DEF Told, ServiceTypeOK
    <2> QED BY <1>1, <2>1, <2>2 DEF Progress, Port, ServiceTypeOK
  <1>6. CASE AcceptFails
    <2>1. /\ net = "open" /\ UNCHANGED <<net, sockets, connections, destroyed, waiter>>
          /\ joiner' = Told(joiner, "rejected") /\ uncaught' \in BOOLEAN
      BY <1>6 DEF AcceptFails
    <2>2. joiner' \in {"none", "resolved", "rejected"}
      BY <2>1 DEF Told, ServiceTypeOK
    <2> QED BY <1>1, <2>1, <2>2 DEF Progress, Port, ServiceTypeOK
  <1>7. ASSUME NEW c \in Conns, Connect(c) PROVE Progress' /\ Port' /\ ServiceTypeOK'
    <2>1. /\ net = "open" /\ sockets' = sockets \cup {c} /\ connections' = connections \cup {c}
          /\ UNCHANGED <<net, destroyed, waiter, joiner, uncaught>>
      BY <1>7 DEF Connect
    <2> QED BY <1>1, <2>1 DEF Progress, Port, ServiceTypeOK
  <1>8. CASE Closed
    <2>1. /\ net = "closing" /\ net' = "closed" /\ sockets = {}
          /\ UNCHANGED <<sockets, connections, destroyed, waiter, uncaught>>
          /\ joiner' = Told(joiner, "resolved")
      BY <1>8 DEF Closed
    <2>2. joiner' \in {"none", "resolved", "rejected"}
      BY <2>1 DEF Told, ServiceTypeOK
    <2> QED BY <1>1, <2>1, <2>2 DEF Progress, Port, ServiceTypeOK
  <1> QED BY <1>2, <1>3, <1>4, <1>5, <1>6, <1>7, <1>8 DEF Clients, Closing


LEMMA TiesKept ==
  ASSUME InstanceInv, Heard, Progress, Port, ServiceTypeOK, [ServiceNext]_serviceVars
  PROVE  Progress' /\ Port' /\ ServiceTypeOK'
  <1>0. StackInv /\ WalkOK
    BY DEF InstanceInv
  <1>1. CASE UNCHANGED serviceVars
    BY <1>1 DEF serviceVars, allVars, vars, instanceVars, httpVars, mainVars, Progress, Port, ServiceTypeOK
  <1>2. CASE Lifecycle
    BY <1>0, <1>2, TiesAhead
  <1> QED BY <1>1, <1>2, MainCalls, MainAwaits, HandlersRun, OthersAct DEF ServiceNext, Due

-----------------------------------------------------------------------------
(* The theorems.                                                           *)

ServiceInv ==
  /\ InstanceInv /\ LifeInv /\ Held /\ PendingEach
  /\ Heard /\ MainFails /\ Progress /\ Port /\ ServiceTypeOK

LEMMA ServiceInvInit == ServiceInit => ServiceInv
  <1> SUFFICES ASSUME ServiceInit PROVE ServiceInv
    OBVIOUS
  <1>1. InstanceInit /\ Init
    BY DEF ServiceInit, InstanceInit
  <1>2. InstanceInv /\ LifeInv /\ StackInv
    BY <1>1, InstanceInvInit, LifeInvInit, StackInit
  <1>3. Held /\ PendingEach
    BY <1>1 DEF Init, Held, PendingEach
  <1>4. /\ task = [t \in Tasks |-> "new"] /\ run = [r \in Runners |-> "idle"]
        /\ life = "new" /\ ~terminated /\ ~disturbed /\ ~walk.on
    BY <1>1 DEF InstanceInit, Init, NoWalk
  <1>5. task[Main] = "new" /\ task[Unlisten] = "new" /\ task[Closer] = "new"
        /\ run[First] = "idle" /\ run[Second] = "idle"
    BY <1>4, Callbacks
  <1>6. Heard /\ MainFails
    BY <1>4, <1>5 DEF Heard, MainFails, Blame, Settled
  <1>7. Progress /\ Port /\ ServiceTypeOK
    BY <1>5 DEF ServiceInit, HttpInit, Progress, Port, ServiceTypeOK
  <1> QED BY <1>2, <1>3, <1>6, <1>7 DEF ServiceInv

LEMMA ServiceInvNext == ServiceInv /\ [ServiceNext]_serviceVars => ServiceInv'
  <1> SUFFICES ASSUME ServiceInv, [ServiceNext]_serviceVars PROVE ServiceInv'
    OBVIOUS
  <1>0. /\ InstanceInv /\ LifeInv /\ Held /\ PendingEach
        /\ Heard /\ MainFails /\ Progress /\ Port /\ ServiceTypeOK
    BY DEF ServiceInv
  <1>1. StackInv /\ WalkOK /\ FirstEnds /\ Stages
    BY <1>0 DEF InstanceInv, LifeInv
  <1>2. [InstanceNext]_allVars
    BY <1>0, ServiceStep
  <1>3. [Next]_vars
    BY <1>1, <1>2, InstanceStep
  <1>4. InstanceInv'
    BY <1>0, <1>2, InstanceInvNext
  <1>5. expired = {}
    BY <1>1, InstanceAssumption DEF StackInv, DataOK
  <1>6. LifeInv'
    BY <1>0, <1>2, <1>5, LifeInvNext
  <1>7. Held'
    BY <1>0, <1>1, <1>3, StackMoves, CalledKept, QueuedKept DEF Held
  <1>8. PendingEach'
    BY <1>0, <1>1, <1>3, PendingNext
  <1>9. Heard' /\ MainFails'
    BY <1>0, <1>1, HeardKept, MainFailsKept
  <1>10. Progress' /\ Port' /\ ServiceTypeOK'
    BY <1>0, TiesKept
  <1> QED BY <1>4, <1>6, <1>7, <1>8, <1>9, <1>10 DEF ServiceInv

LEMMA ServiceInvariant == ServiceSpec => []ServiceInv
  BY ServiceInvInit, ServiceInvNext, PTL DEF ServiceSpec

\* The service, its signals and its port drive the instance by schedule(),
\* run(), terminate(), on() and callbacks alone, so every theorem about
\* instances is one about the service.
THEOREM ServiceRunsInstance == ServiceSpec => InstanceSpec
  <1>1. ServiceInit => InstanceInit
    BY DEF ServiceInit
  <1>2. ServiceInv /\ [ServiceNext]_serviceVars => [InstanceNext]_allVars
    BY ServiceStep DEF ServiceInv
  <1> QED BY <1>1, <1>2, ServiceInvariant, PTL DEF ServiceSpec, InstanceSpec

\* The set that the program keeps is that of the open connections, none outlives
\* the port, whoever joins waits for a port that will close, Main is where its
\* promise says, and a port that could not be opened never goes unnoticed, for any
\* number of connections.
THEOREM ServiceTypeCorrect == ServiceSpec => []ServiceTypeOK
  <1>1. ServiceInv => ServiceTypeOK
    BY DEF ServiceInv
  <1> QED BY <1>1, ServiceInvariant, PTL

\* When initiate() settles, with an error of Main or without, both handlers of
\* 'exit' have finished: nobody listens to the signals, and the port that was
\* open is closed with its last connection gone.
THEOREM ServiceReleases == ServiceSpec => []ServiceReleased
  <1>1. ServiceInv => ServiceReleased
    <2> SUFFICES ASSUME ServiceInv, Settled PROVE ServiceReleased
      BY DEF ServiceReleased
    <2>1. run[Second] = "returned" /\ ~disturbed
      BY DEF ServiceInv, MainFails, Heard
    <2>2. Unlisten \in audience /\ Closer \in audience
      BY <2>1 DEF ServiceInv, LifeInv, Stages, Heard
    <2>3. Final(Unlisten) /\ Final(Closer)
      BY <2>1, <2>2 DEF ServiceInv, LifeInv, SecondEnds
    <2> QED BY <2>3 DEF ServiceInv, Port, ServiceTypeOK, Final, ServiceReleased
  <1> QED BY <1>1, ServiceInvariant, PTL
=============================================================================
