---------------------------- MODULE MCStructures ----------------------------
(***************************************************************************)
(* The data structures side by side: each behaviour exercises one of them, *)
(* the subject, and leaves the others in their initial states.             *)
(***************************************************************************)
EXTENDS BiMap, LRUMap, DeadlineTimer, Router, ServiceLogger

CONSTANTS x, y   \* the names of parameters

VARIABLE subject

Subjects == {"bimap", "lru", "timer", "router", "logger"}

Only(s) ==
  /\ subject = s /\ UNCHANGED subject
  /\ IF s = "bimap" THEN TRUE ELSE UNCHANGED biVars
  /\ IF s = "lru" THEN TRUE ELSE UNCHANGED lruVars
  /\ IF s = "timer" THEN TRUE ELSE UNCHANGED timerVars
  /\ IF s = "router" THEN TRUE ELSE UNCHANGED routerVars
  /\ IF s = "logger" THEN TRUE ELSE UNCHANGED loggerVars

allVars == <<subject, biVars, lruVars, timerVars, routerVars, loggerVars>>

MCInit ==
  /\ subject \in Subjects
  /\ BiMapInit /\ LRUInit /\ TimerInit /\ RouterInit /\ LoggerInit

MCNext ==
  \/ BiMapNext /\ Only("bimap")
  \/ LRUNext /\ Only("lru")
  \/ TimerNext /\ Only("timer")
  \/ RouterNext /\ Only("router")
  \/ LoggerNext /\ Only("logger")

\* Time passes, and a timeout that is due fires in the end.
MCSpec ==
  /\ MCInit /\ [][MCNext]_allVars
  /\ WF_allVars(TimePasses /\ Only("timer"))
  /\ WF_allVars(Timeout /\ Only("timer"))

\* /a/:x/c competes with /:y/b for /a/b, and with /:y/:x/d for /a/b/d.
MCPatterns ==
  {<<"a", "b">>, <<"a", x, "c">>, <<y, "b">>, <<y, x, "d">>, <<x, x>>}

MCRequests ==
  [path : {<<"a", "b">>, <<"d", "b">>, <<"a", "b", "c">>, <<"a", "b", "d">>, <<"c">>},
   search : BOOLEAN]
=============================================================================
