------------------------------ MODULE Service -------------------------------
(***************************************************************************)
(* The life of the service: bin/sample.mjs initiates a module with one     *)
(* scheduled callback, Main, which renews, listens and joins the server.   *)
(* Injecting into it has Process (packages/service/Process.mjs) listen to  *)
(* the signals and Server (packages/service/http/Server.mjs) subscribe to  *)
(* 'exit'.  Instance is the lifecycle underneath, HttpServer the port.     *)
(*                                                                         *)
(* An exception that nobody catches ends the process: the handler of       *)
(* 'uncaughtException' names a variable that does not exist.               *)
(***************************************************************************)
EXTENDS Instance, HttpServer

CONSTANTS Main,      \* the scheduled callback
          Unlisten,  \* the handler of 'exit' of Process
          Closer     \* that of Server

ASSUME ServiceAssumption ==
  /\ Scheduled = {Main} /\ Handlers = {Unlisten, Closer} /\ Plain = Handlers
  /\ Unlisten # Closer

VARIABLES phase,      \* how far Main is
          listeners,  \* Process listens to the signals
          killed,     \* a signal has ended the process
          missed      \* history: Closer found no address to close

mainVars == <<phase, listeners, killed, missed>>
serviceVars == <<allVars, httpVars, mainVars>>

ServiceInit ==
  /\ InstanceInit /\ HttpInit
  /\ phase = "called" /\ listeners = FALSE
  /\ killed = FALSE /\ missed = FALSE

Alive == ~killed /\ ~uncaught
Settled == life \in {"resolved", "rejected"}
BetweenTurns == Idle /\ ~Walking /\ Alive

-----------------------------------------------------------------------------
(* Main: its injections are synchronous, the rest awaits.                  *)

GetProcess ==
  /\ Calling(Main) /\ phase = "called" /\ phase' = "process"
  /\ Subscribe(Unlisten) /\ listeners' = TRUE
  /\ UNCHANGED <<httpVars, killed, missed>>

GetServer ==
  /\ phase = "process" /\ phase' = "injected"
  /\ Subscribe(Closer)
  /\ UNCHANGED <<httpVars, listeners, killed, missed>>

CallRenew ==
  /\ phase = "injected" /\ phase' = "renewing"
  /\ Suspends(Main)
  /\ UNCHANGED <<instanceVars, httpVars, listeners, killed, missed>>

\* renew() catches every error of its own.
Renewed ==
  /\ BetweenTurns /\ phase = "renewing" /\ phase' = "listening"
  /\ Listen
  /\ UNCHANGED <<allVars, listeners, killed, missed>>

Listening ==
  /\ BetweenTurns /\ phase = "listening" /\ phase' = "listened"
  /\ Opens
  /\ UNCHANGED <<allVars, listeners, killed, missed>>

CallJoin ==
  /\ BetweenTurns /\ phase = "listened" /\ phase' = "joining"
  /\ Join
  /\ UNCHANGED <<allVars, listeners, killed, missed>>

\* A program that does not join, like the one of createTestSuite: the end of
\* its work is what has 'exit' published.
WorkEnds ==
  /\ Alive /\ ~Walking /\ phase = "listened" /\ phase' = "over"
  /\ \E ok \in BOOLEAN : Settle(Main, ok)
  /\ UNCHANGED <<instanceVars, httpVars, listeners, killed, missed>>

Joined ==
  /\ Alive /\ ~Walking /\ phase = "joining" /\ phase' = "over"
  /\ joiner # "waiting"
  /\ Settle(Main, joiner = "resolved")
  /\ UNCHANGED <<instanceVars, httpVars, listeners, killed, missed>>

-----------------------------------------------------------------------------
(* The handlers of 'exit'.                                                 *)

RunUnlisten ==
  /\ Returns(Unlisten) /\ listeners' = FALSE
  /\ UNCHANGED <<instanceVars, httpVars, phase, killed, missed>>

\* Mutated form of RunCloser, for ServiceReleased: the handler does not hand
\* the promise of close() on.
RunCloserForgets ==
  /\ Returns(Closer) /\ Close
  /\ missed' = (net # "open")
  /\ UNCHANGED <<instanceVars, phase, listeners, killed>>

RunCloser ==
  /\ IF net = "open" THEN Suspends(Closer) ELSE Returns(Closer)
  /\ Close
  /\ missed' = (net # "open")
  /\ UNCHANGED <<instanceVars, phase, listeners, killed>>

CloserEnds ==
  /\ Alive /\ ~Walking /\ net = "closed"
  /\ Settle(Closer, TRUE)
  /\ UNCHANGED <<instanceVars, httpVars, mainVars>>

-----------------------------------------------------------------------------
(* The surroundings.                                                       *)

\* SIGINT or SIGTERM: $terminate, or the end when nobody listens.
Signal ==
  /\ BetweenTurns /\ ~Settled
  /\ IF listeners THEN Terminate /\ UNCHANGED killed
                  ELSE killed' = TRUE /\ UNCHANGED allVars
  /\ UNCHANGED <<httpVars, phase, listeners, missed>>

Clients ==
  /\ BetweenTurns
  /\ OpenFails \/ AcceptFails \/ \E c \in Conns : Connect(c) \/ Disconnect(c)
  /\ UNCHANGED <<allVars, mainVars>>

\* What close() has begun.
Closing ==
  /\ BetweenTurns
  /\ Closed \/ \E c \in destroyed : Disconnect(c)
  /\ UNCHANGED <<allVars, mainVars>>

\* Other code may wait() for the server once it is constructed.
SomebodyWaits ==
  /\ BetweenTurns /\ task[Main] # "new" /\ phase # "called"
  /\ Wait
  /\ UNCHANGED <<allVars, mainVars>>

Lifecycle ==
  /\ Alive
  /\ \/ Schedule(Main) \/ Begin \/ Continue \/ Conclude
     \/ WalkOn \/ WalkDone \/ PollGoesOn
     \/ \E r \in Runners : Running(r)
  /\ UNCHANGED <<httpVars, mainVars>>

\* What the program itself does next, and the events that its own calls bring
\* about: these are fair.  renew() and opening the port are left to their luck.
Due ==
  \/ Lifecycle
  \/ GetProcess \/ GetServer \/ CallRenew \/ CallJoin \/ Joined
  \/ RunUnlisten \/ RunCloser \/ CloserEnds \/ Closing

ServiceNext == Due \/ Renewed \/ Listening \/ WorkEnds \/ Signal \/ Clients \/ SomebodyWaits

ServiceSpec == ServiceInit /\ [][ServiceNext]_serviceVars

-----------------------------------------------------------------------------
\* The program knows exactly the open connections: it keeps none that is gone and
\* misses none that close() has to destroy, and none outlives the port.  Main is
\* where its promise says; and although listen() hangs when the port could not be
\* opened, that is never silent: who waits for the server is told, and if nobody
\* does, the error ends the process (createNodeServer.mjs:64-112).
ServiceTypeOK ==
  /\ net \in {"closed", "opening", "open", "closing"}
  /\ connections = sockets /\ destroyed \subseteq sockets /\ sockets \subseteq Conns
  /\ net \in {"closed", "opening"} => sockets = {}
  /\ {waiter, joiner} \subseteq {"none", "waiting", "resolved", "rejected"}
  /\ joiner = "waiting" => phase = "joining" /\ net \in {"open", "closing"}
  /\ phase \in {"called", "process", "injected"} <=> task[Main] \in {"new", "queued", "called"}
  /\ phase = "listening" => net \in {"opening", "closed"}
  /\ phase = "listening" /\ net = "closed" => uncaught \/ waiter = "rejected"
  /\ {listeners, killed, missed, uncaught} \subseteq BOOLEAN

\* When initiate() has settled, with or without an error, the signals are not
\* listened to any more and no close() is under way; the port is closed and every
\* connection is gone, unless 'exit' was published before the port was open
\* (Server.mjs:10 hands the promise of close() to the second run,
\* Process.mjs:33-36).
ServiceReleased ==
  Settled =>
    /\ ~listeners /\ net # "closing"
    /\ ~missed => net = "closed" /\ sockets = {}

\* A terminated service whose port is open stops, however long the clients
\* would keep their connections (createNodeServer.mjs:89-91 destroys them),
\* unless something ends the process first.  A port that is only opening when
\* 'exit' is published is not closed by anybody.
StopsWhenTerminated ==
  (walk.on /\ net = "open" /\ Alive) ~> (Settled \/ ~Alive)
=============================================================================
