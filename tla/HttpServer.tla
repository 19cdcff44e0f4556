----------------------------- MODULE HttpServer -----------------------------
(***************************************************************************)
(* The server object of packages/http/createNodeServer.mjs: opening and    *)
(* closing the port, the sockets in between, and the promises of wait()    *)
(* and join().  What node:http does by itself is modelled by its events.   *)
(*                                                                         *)
(* There is an address exactly while the port is open: what close(),       *)
(* wait() and join() ask first.  (It is there one tick before 'listening', *)
(* in which nothing of this program runs.)                                 *)
(***************************************************************************)
CONSTANT Conns   \* connections clients may open

VARIABLES net,        \* the port: closed, opening, open or closing
          sockets,    \* open connections, as node:http knows them
          connections,  \* the set that the program keeps of them
          destroyed,  \* those open ones that close() has destroyed
          waiter,     \* the promise of a call of wait()
          joiner,     \* the promise of a call of join()
          uncaught    \* an 'error' event found no listener

httpVars == <<net, sockets, connections, destroyed, waiter, joiner, uncaught>>

HttpInit ==
  /\ net = "closed" /\ sockets = {} /\ connections = {} /\ destroyed = {}
  /\ waiter = "none" /\ joiner = "none" /\ uncaught = FALSE

Told(promise, how) == IF promise = "waiting" THEN how ELSE promise

-----------------------------------------------------------------------------
(* The methods.                                                            *)

Listen ==
  /\ net = "closed" /\ net' = "opening"
  /\ UNCHANGED <<sockets, connections, destroyed, waiter, joiner, uncaught>>

\* Mutated form of Close, for StopsWhenTerminated: open connections are left
\* to their clients.
ClosePolitely ==
  /\ IF net = "open" THEN net' = "closing" ELSE UNCHANGED net
  /\ UNCHANGED <<sockets, connections, destroyed, waiter, joiner, uncaught>>

\* Without an address it does nothing, an opening in progress included.
Close ==
  /\ IF net = "open" THEN net' = "closing" /\ destroyed' = connections \cap sockets
                     ELSE UNCHANGED <<net, destroyed>>
  /\ UNCHANGED <<sockets, connections, waiter, joiner, uncaught>>

Wait ==
  /\ waiter = "none"
  /\ waiter' = IF net = "open" THEN "resolved" ELSE "waiting"
  /\ UNCHANGED <<net, sockets, connections, destroyed, joiner, uncaught>>

Join ==
  /\ joiner = "none"
  /\ joiner' = IF net = "open" THEN "waiting" ELSE "resolved"
  /\ UNCHANGED <<net, sockets, connections, destroyed, waiter, uncaught>>

-----------------------------------------------------------------------------
(* The events.                                                             *)

Opens ==
  /\ net = "opening" /\ net' = "open"
  /\ waiter' = Told(waiter, "resolved")
  /\ UNCHANGED <<sockets, connections, destroyed, joiner, uncaught>>

\* The callback given to server.listen() only hears of 'listening': when the
\* port is taken, the promise of listen() stays pending.
OpenFails ==
  /\ net = "opening" /\ net' = "closed"
  /\ waiter' = Told(waiter, "rejected")
  /\ uncaught' = (waiter # "waiting")
  /\ UNCHANGED <<sockets, connections, destroyed, joiner>>

\* The port stays open, but a connection could not be accepted.
AcceptFails ==
  /\ net = "open"
  /\ joiner' = Told(joiner, "rejected")
  /\ uncaught' = (joiner # "waiting")
  /\ UNCHANGED <<net, sockets, connections, destroyed, waiter>>

Connect(c) ==
  /\ net = "open" /\ c \notin sockets
  /\ sockets' = sockets \cup {c} /\ connections' = connections \cup {c}
  /\ UNCHANGED <<net, destroyed, waiter, joiner, uncaught>>

\* Mutated form of Disconnect, for ServiceTypeOK: nobody listens to the 'close'
\* of a connection, so that the set keeps it.
DisconnectKeeps(c) ==
  /\ c \in sockets
  /\ sockets' = sockets \ {c} /\ destroyed' = destroyed \ {c}
  /\ UNCHANGED <<net, connections, waiter, joiner, uncaught>>

Disconnect(c) ==
  /\ c \in sockets
  /\ sockets' = sockets \ {c} /\ destroyed' = destroyed \ {c}
  /\ connections' = connections \ {c}
  /\ UNCHANGED <<net, waiter, joiner, uncaught>>

\* 'close' is emitted once the last connection is gone.
Closed ==
  /\ net = "closing" /\ sockets = {}
  /\ net' = "closed"
  /\ joiner' = Told(joiner, "resolved")
  /\ UNCHANGED <<sockets, connections, destroyed, waiter, uncaught>>
=============================================================================
