------------------------------ MODULE Pipeline ------------------------------
(***************************************************************************)
(* The way of a request through packages/http: createNodeServer calls its  *)
(* callback and has the last word on the answer; the callback of the       *)
(* service is createNodeAdapter around Router.resolve(), which runs the    *)
(* middleware and dispatches.  A request comes                             *)
(*   - to the server of the service ("server"),                            *)
(*   - to a server with a callback of its own ("plain"), or                *)
(*   - directly to resolve(), like those of the tests ("direct").          *)
(* What a handler does is left to the module that extends this one.        *)
(***************************************************************************)
EXTENDS Naturals

CONSTANTS Requests,
          Chain,    \* how many callbacks use() was given
          MaxHops   \* bound on internal redirections

ASSUME PipelineAssumption == Chain \in Nat /\ MaxHops \in Nat

VARIABLE req

\* passed are the callbacks that let this request pass; begun is set when a
\* plain callback has sent the head; gave is what the handler or the middleware ended with: the status of its
\* answer, or the one of the error it threw.
Fresh(way, where) ==
  [way |-> way, at |-> where, index |-> 0, passed |-> {}, hops |-> 0,
   status |-> 200, sent |-> "nothing", gone |-> FALSE,
   begun |-> FALSE, gave |-> 0, threw |-> FALSE]

PipelineInit == req = [r \in Requests |-> Fresh("none", "new")]

At(r, where) == req[r].at = where
Becomes(r, q) == req' = [req EXCEPT ![r] = q]

\* What is left of a request that is over.
Over(q) == [q EXCEPT !.at = "done", !.index = 0, !.passed = {}, !.hops = 0, !.gone = FALSE]

\* Nothing reaches a client that is gone.
Reach(q, what) == IF q.gone THEN "cut" ELSE what

-----------------------------------------------------------------------------
(* What comes back from resolve(), and the adapter's part in it.           *)

\* A Response.  Without a body it is complete at once.
Answered(q, code, body) ==
  LET given == [q EXCEPT !.gave = code, !.status = code]
  IN IF q.way = "direct" THEN Over(given)
     ELSE IF body = "some" THEN [given EXCEPT !.at = "writing"]
     ELSE [given EXCEPT !.at = "reacting", !.sent = Reach(q, "all")]

\* Mutated form of Failed, for StatusTells: the catch block only ends the
\* response, whose status is 200 to begin with.
FailedSilently(q, code) ==
  LET thrown == [q EXCEPT !.gave = code, !.threw = TRUE]
  IN CASE q.way = "direct" -> Over(thrown)
       [] q.way = "plain" -> [thrown EXCEPT !.at = "reacting"]
       [] q.way = "server" ->
            [thrown EXCEPT !.at = "reacting", !.sent = Reach(q, "all")]

\* An exception: resolve() rejects, handleRequest sees it later, or the catch
\* block of the adapter makes a 500 of it, whatever its own status is.
Failed(q, code) ==
  LET thrown == [q EXCEPT !.gave = code, !.threw = TRUE]
  IN CASE q.way = "direct" -> Over(thrown)
       [] q.way = "plain" -> [thrown EXCEPT !.at = "reacting"]
       [] q.way = "server" ->
            [thrown EXCEPT !.at = "reacting", !.status = 500, !.sent = Reach(q, "all")]

\* pipeTo() ends, or rejects when the client is gone.
Write(r) ==
  LET q == req[r]
  IN /\ At(r, "writing")
     /\ Becomes(r, [q EXCEPT !.sent = Reach(q, "all"), !.at = "reacting"])

\* The body fails: the response is destroyed.
BodyFails(r) ==
  /\ At(r, "writing")
  /\ Becomes(r, [req[r] EXCEPT !.sent = "cut", !.at = "reacting"])

-----------------------------------------------------------------------------
(* toWhatwgRequest() and Router.resolve().                                 *)

\* What the adapter passes to resolve(), or fails to make of the request.  The
\* second argument of resolve() is skipMiddleware, and the adapter gives its
\* handler two.
Adapted == {Fresh("server", "route"), Failed(Fresh("server", "route"), 500)}

Arrive(r) ==
  /\ At(r, "new")
  /\ \/ \E q \in Adapted : Becomes(r, q)
     \/ Becomes(r, Fresh("direct", "chain"))
     \/ Becomes(r, Fresh("plain", "handling"))

Passes(q) == [q EXCEPT !.index = @ + 1, !.passed = @ \cup {q.index + 1}]

\* Mutated form of Redirected, for RouterBlocks: the other request goes on
\* where this one is.
RedirectedOnwards(q) == [q EXCEPT !.index = @ + 1, !.passed = {}, !.hops = @ + 1]

Redirected(q) == [q EXCEPT !.index = 0, !.passed = {}, !.hops = @ + 1]

\* A callback lets the request pass, answers it, gives another request or
\* throws, at once or in a promise.
Middleware(r) ==
  LET q == req[r]
  IN /\ At(r, "chain") /\ q.index < Chain
     /\ \/ Becomes(r, Passes(q))
        \/ Becomes(r, Answered(q, 403, "some"))
        \/ q.hops < MaxHops /\ Becomes(r, Redirected(q))
        \/ Becomes(r, Failed(q, 500))

ChainEnds(r) ==
  /\ At(r, "chain") /\ req[r].index = Chain
  /\ Becomes(r, [req[r] EXCEPT !.at = "route"])

\* For a method the router has no routes for, the look-up throws.
Look(r, found) ==
  /\ At(r, "route")
  /\ Becomes(r, CASE found = "handler" -> [req[r] EXCEPT !.at = "handling", !.index = 0, !.hops = 0]
                  [] found = "nothing" -> Answered(req[r], 404, "none")
                  [] found = "method" -> Failed(req[r], 500))

-----------------------------------------------------------------------------
(* createNodeServer.                                                       *)

\* The callback of a plain server writes, ends the response or returns
\* without, or throws an HTTP error or another one.
PlainCallback(r) ==
  LET q == req[r]
  IN /\ q.way = "plain" /\ At(r, "handling")
     /\ \/ /\ q.sent = "nothing"
           /\ Becomes(r, [q EXCEPT !.sent = "head", !.begun = TRUE])
        \/ Becomes(r, [q EXCEPT !.gave = 200, !.sent = Reach(q, "all"), !.at = "reacting"])
        \/ Becomes(r, [q EXCEPT !.at = "reacting"])
        \/ \E code \in {409, 500} : Becomes(r, Failed(q, code))

\* Mutated form of Concluded, for AnsweredInTheEnd: the answer is left to the
\* callback.
ConcludedByCallback(q) == IF q.sent \in {"all", "cut"} THEN Over(q) ELSE q

\* What has not been ended is ended here; writeHead() fails after the head.
Concluded(q) ==
  IF q.sent \in {"all", "cut"} THEN Over(q)
  ELSE [Over(q) EXCEPT !.sent = "all",
                       !.status = IF q.sent = "head" THEN @
                                  ELSE IF q.threw THEN q.gave ELSE 404]

React(r) ==
  /\ At(r, "reacting")
  /\ Becomes(r, Concluded(req[r]))

\* The connection is destroyed, by the client or by HttpServer's Close.
Disconnects(r) ==
  LET q == req[r]
  IN /\ q.way \in {"server", "plain"} /\ ~q.gone /\ ~At(r, "done")
     /\ Becomes(r, [q EXCEPT !.gone = TRUE, !.sent = IF @ = "all" THEN @ ELSE "cut"])

-----------------------------------------------------------------------------
\* What a complete response says is what became of the request: the status of
\* the handler's answer, 500 when something under the adapter threw, and from a
\* plain callback the status of its error, or 404 when it leaves without a word;
\* only what the callback has begun itself cannot be taken back
\* (createNodeServer.mjs:28-59, createNodeAdapter.mjs:120-138).
Verdict(q) ==
  IF q.begun THEN 200
  ELSE IF q.threw /\ q.way = "server" THEN 500
  ELSE IF q.gave = 0 THEN 404 ELSE q.gave

StatusTells ==
  \A r \in Requests :
    LET q == req[r]
    IN At(r, "done") /\ q.way # "direct" /\ q.sent = "all" => q.status = Verdict(q)

\* A request given to resolve() reaches a handler only after every middleware
\* has let pass this very request, the one it was redirected to included.
RouterBlocks ==
  \A r \in Requests : req[r].way = "direct" /\ At(r, "handling") => req[r].passed = 1 .. Chain

\* The same of every request, as in "should be able to block the request"
\* (Router.test.mjs:31).
MiddlewareBlocks ==
  \A r \in Requests : req[r].way # "plain" /\ At(r, "handling") => req[r].passed = 1 .. Chain
=============================================================================
