---------------------------- MODULE SampleProofs ----------------------------
(***************************************************************************)
(* The sample service for all sets of requests, lengths of the middleware  *)
(* chain, numbers of redirections and files of earlier reports.            *)
(*                                                                         *)
(* A request only ever goes forward, and until it is handled nothing of it *)
(* is known but its way; RequestOK says this of one request, the rest of   *)
(* the invariant relates the requests to the registry and to the file.     *)
(***************************************************************************)
EXTENDS Sample, SequenceTheorems, WellFoundedInduction, TLAPS

Records ==
  [way : {"none", "server", "plain", "direct"},
   at : {"new", "route", "chain", "handling", "writing", "reacting", "done"},
   index : Nat, passed : SUBSET Nat, hops : Nat, status : Nat,
   sent : {"nothing", "head", "all", "cut"}, gone : BOOLEAN,
   begun : BOOLEAN, gave : Nat, threw : BOOLEAN]

Untouched(q) == q.gave = 0 /\ ~q.threw /\ ~q.begun /\ q.status = 200

\* A request to resolve() alone.
DirectOK(q) ==
  /\ q.at \in {"chain", "route", "handling", "done"}
  /\ q.at # "done" => Untouched(q)
  /\ q.at = "chain" => q.index <= Chain /\ q.passed = 1 .. q.index
  /\ q.at \in {"route", "handling"} => q.passed = 1 .. Chain

\* A request to the server of the service.
ServerOK(q) ==
  /\ q.at \in {"route", "handling", "writing", "reacting", "done"}
  /\ ~q.begun
  /\ q.at \in {"route", "handling"} => Untouched(q) /\ q.sent \in {"nothing", "cut"}
  /\ q.at \in {"writing", "reacting", "done"} =>
       q.gave # 0 /\ q.status = IF q.threw THEN 500 ELSE q.gave
  /\ q.at \in {"reacting", "done"} => q.sent \in {"all", "cut"}

\* A request to a server with a callback of its own.
PlainOK(q) ==
  /\ q.at \in {"handling", "reacting", "done"}
  /\ q.sent = "nothing" => ~q.begun
  /\ q.sent = "head" => q.begun
  /\ q.at = "handling" => q.gave = 0 /\ ~q.threw /\ q.status = 200 /\ q.sent # "all"
  /\ q.at = "reacting" => /\ q.status = 200 /\ (q.threw => q.gave # 0)
                          /\ q.sent = "all" => q.gave = 200 /\ ~q.threw
                          /\ q.sent = "nothing" /\ ~q.threw => q.gave = 0
  /\ q.at = "done" /\ q.sent = "all" => q.status = Verdict(q)

RequestOK(q) ==
  /\ q \in Records
  /\ q.way = "none" => q.at = "new" /\ Untouched(q)
  /\ q.way = "direct" => DirectOK(q)
  /\ q.way = "server" => ServerOK(q)
  /\ q.way = "plain" => PlainOK(q)

RequestsOK == req \in [Requests -> Records] /\ \A r \in Requests : RequestOK(req[r])

-----------------------------------------------------------------------------
(* The steps of a request, one record at a time.                           *)

LEMMA FreshOK ==
  /\ RequestOK(Fresh("none", "new"))
  /\ RequestOK(Fresh("server", "route"))
  /\ RequestOK(Fresh("direct", "chain"))
  /\ RequestOK(Fresh("plain", "handling"))
  BY PipelineAssumption
  DEF Fresh, RequestOK, Records, Untouched, DirectOK, ServerOK, PlainOK

\* What resolve() comes back with.
LEMMA AnsweredOK ==
  ASSUME NEW q, RequestOK(q), q.way \in {"server", "direct"}, q.at \in {"chain", "route", "handling"},
         NEW code \in Nat \ {0},
         NEW a, a = Answered(q, code, "some") \/ a = Answered(q, code, "none")
  PROVE  RequestOK(a) /\ a.gave = code /\ a.at \in {"writing", "reacting", "done"} /\ a.way = q.way
  <1> DEFINE given == [q EXCEPT !.gave = code, !.status = code]
  <1>1. q \in Records /\ Untouched(q)
    BY DEF RequestOK, DirectOK, ServerOK
  <1>2. /\ given \in Records /\ given.gave = code /\ given.status = code /\ given.way = q.way
        /\ ~given.begun /\ ~given.threw
    BY <1>1 DEF Records, Untouched
  <1>3. \/ q.way = "direct" /\ a = Over(given)
        \/ q.way = "server" /\ a = [given EXCEPT !.at = "writing"]
        \/ q.way = "server" /\ a = [given EXCEPT !.at = "reacting", !.sent = Reach(q, "all")]
    BY DEF Answered
  <1> HIDE DEF given
  <1>4. CASE q.way = "direct" /\ a = Over(given)
    <2>1. a \in Records /\ a.gave = code /\ a.way = q.way /\ a.at = "done"
      BY <1>2, <1>4 DEF Over, Records
    <2> QED BY <1>4, <2>1 DEF RequestOK, DirectOK
  <1>5. CASE q.way = "server" /\ a = [given EXCEPT !.at = "writing"]
    <2>1. /\ a \in Records /\ a.gave = code /\ a.status = code /\ a.way = q.way
          /\ ~a.begun /\ ~a.threw /\ a.at = "writing"
      BY <1>2, <1>5 DEF Records
    <2> QED BY <1>5, <2>1 DEF RequestOK, ServerOK
  <1>6. CASE q.way = "server" /\ a = [given EXCEPT !.at = "reacting", !.sent = Reach(q, "all")]
    <2>1. /\ a \in Records /\ a.gave = code /\ a.status = code /\ a.way = q.way
          /\ ~a.begun /\ ~a.threw /\ a.at = "reacting" /\ a.sent \in {"all", "cut"}
      BY <1>2, <1>6 DEF Records, Reach
    <2> QED BY <1>6, <2>1 DEF RequestOK, ServerOK
  <1> QED BY <1>3, <1>4, <1>5, <1>6

LEMMA FailedOK ==
  ASSUME NEW q, RequestOK(q), q.way # "none", q.at \in {"chain", "route", "handling"},
         NEW code \in Nat \ {0}
  PROVE  RequestOK(Failed(q, code)) /\ Failed(q, code).gave = code
         /\ Failed(q, code).at \in {"reacting", "done"} /\ Failed(q, code).way = q.way
  <1> DEFINE a == Failed(q, code)
  <1>1. q \in Records /\ q.way \in {"server", "plain", "direct"}
    BY DEF RequestOK, Records
  <1>2. a \in Records
    <2>1. CASE q.way = "direct"
      BY <1>1, <2>1 DEF Failed, Over, Records
    <2>2. CASE q.way = "plain"
      BY <1>1, <2>2 DEF Failed, Records
    <2>3. CASE q.way = "server"
      <3> DEFINE p == [q EXCEPT !.gave = code, !.threw = TRUE, !.at = "reacting"]
      <3>1. p \in Records
        BY <1>1 DEF Records
      <3> DEFINE fault == 500
      <3>2. a = [p EXCEPT !.status = fault, !.sent = "all"] \/ a = [p EXCEPT !.status = fault, !.sent = "cut"]
        BY <2>3 DEF Failed, Reach
      <3>3. fault \in Nat
        OBVIOUS
      <3> HIDE DEF a, p, fault
      <3> QED BY <3>1, <3>2, <3>3 DEF Records
    <2> QED BY <1>1, <2>1, <2>2, <2>3
  <1>3. a.gave = code /\ a.threw /\ a.way = q.way /\ (a.begun <=> q.begun)
    BY <1>1 DEF Failed, Over, Reach, Records
  <1>4. a.at = IF q.way = "direct" THEN "done" ELSE "reacting"
    BY <1>1 DEF Failed, Over, Reach, Records
  <1>5. a.status = IF q.way = "server" THEN 500 ELSE q.status
    BY <1>1 DEF Failed, Over, Reach, Records
  <1>6. IF q.way = "server" THEN a.sent \in {"all", "cut"} ELSE a.sent = q.sent
    BY <1>1 DEF Failed, Over, Reach, Records
  <1> HIDE DEF a
  <1>7. RequestOK(a)
    BY <1>1, <1>2, <1>3, <1>4, <1>5, <1>6 DEF RequestOK, Untouched, DirectOK, ServerOK, PlainOK
  <1> QED BY <1>3, <1>4, <1>7 DEF a

LEMMA ConcludedOK ==
  ASSUME NEW q, RequestOK(q), q.at = "reacting"
  PROVE  RequestOK(Concluded(q)) /\ Concluded(q).at = "done"
         /\ Concluded(q).way = q.way /\ Concluded(q).gave = q.gave
  <1> DEFINE a == Concluded(q)
  <1>1. q \in Records /\ q.way \in {"server", "plain"}
    BY DEF RequestOK, Records, DirectOK
  <1>2. a \in Records
    <2>1. Over(q) \in Records
      BY <1>1 DEF Over, Records
    <2>2. q.status \in Nat /\ q.gave \in Nat /\ 404 \in Nat
      BY <1>1 DEF Records
    <2> DEFINE o == Over(q)
               s == IF q.sent = "head" THEN o.status ELSE IF q.threw THEN q.gave ELSE 404
    <2>3. s \in Nat
      BY <2>1, <2>2 DEF Records
    <2>4. a = o \/ a = [o EXCEPT !.sent = "all", !.status = s]
      BY DEF Concluded
    <2> HIDE DEF a, o, s
    <2> QED BY <2>1, <2>3, <2>4 DEF o, Records
  <1>3. /\ a.gave = q.gave /\ (a.threw <=> q.threw) /\ a.way = q.way /\ (a.begun <=> q.begun)
        /\ a.at = "done"
    BY <1>1 DEF Concluded, Over, Records
  <1>4. /\ q.sent \in {"all", "cut"} => a.sent = q.sent /\ a.status = q.status
        /\ q.sent = "head" => a.sent = "all" /\ a.status = q.status
        /\ q.sent = "nothing" => a.sent = "all" /\ a.status = IF q.threw THEN q.gave ELSE 404
    BY <1>1 DEF Concluded, Over, Records
  <1> HIDE DEF a
  <1>5. ASSUME q.way = "server" PROVE RequestOK(a)
    <2>1. ServerOK(q)
      BY <1>5 DEF RequestOK
    <2>2. ServerOK(a)
      BY <1>3, <1>4, <2>1 DEF ServerOK
    <2> QED BY <1>2, <1>3, <1>5, <2>2 DEF RequestOK
  <1>6. ASSUME q.way = "plain" PROVE RequestOK(a)
    <2>1. PlainOK(q)
      BY <1>6 DEF RequestOK
    <2>2. PlainOK(a)
      BY <1>1, <1>2, <1>3, <1>4, <1>6, <2>1 DEF PlainOK, Verdict, Records
    <2> QED BY <1>2, <1>3, <1>6, <2>2 DEF RequestOK
  <1> QED BY <1>1, <1>3, <1>5, <1>6 DEF a

LEMMA BecomesOK ==
  ASSUME RequestsOK, NEW r \in Requests, NEW q, RequestOK(q), Becomes(r, q)
  PROVE  RequestsOK' /\ req'[r] = q /\ \A s \in Requests \ {r} : req'[s] = req[s]
  BY DEF RequestsOK, RequestOK, Becomes

-----------------------------------------------------------------------------
(* What is known of the handlers.                                          *)

Apps ==
  [route : {"none", "calc", "evaluate", "renew", "reports"},
   awaits : {"nothing", "fetch", "import", "line", "end"},
   value : Int, read : Nat, from : Nat, since : SUBSET Nat, did : BOOLEAN]

\* Nothing is known of a request before it is handled, nor of one to a plain
\* server; a handler that awaits has not come to its end.
Linked(q, a) ==
  /\ q.at \in {"new", "route", "chain"} \/ q.way = "plain" => a = NoApp
  /\ q.at = "handling" => ~a.did
  /\ q.at = "handling" /\ a.awaits = "nothing" => a.read = 0 /\ a.value = 0
  /\ a.awaits \in {"fetch", "import"} => a.route = "renew"
  /\ a.awaits \in {"line", "end"} => a.route = "reports"
  /\ a.awaits # "nothing" => q.at = "handling"

AppsOK ==
  /\ app \in [Requests -> Apps]
  /\ \A r \in Requests : Linked(req[r], app[r])

Moving == RequestsOK /\ AppsOK

LEMMA NoAppFacts ==
  /\ NoApp \in Apps /\ NoApp.route = "none" /\ NoApp.awaits = "nothing"
  /\ NoApp.read = 0 /\ NoApp.value = 0 /\ ~NoApp.did
  BY DEF NoApp, Apps

LEMMA MovingInit == SampleInit => Moving
  <1> SUFFICES ASSUME SampleInit PROVE Moving
    OBVIOUS
  <1>1. Fresh("none", "new").at = "new" /\ Fresh("none", "new") \in Records
    BY FreshOK DEF Fresh, RequestOK
  <1>2. RequestsOK /\ \A r \in Requests : req[r].at = "new"
    BY <1>1, FreshOK DEF SampleInit, PipelineInit, RequestsOK
  <1>3. app \in [Requests -> Apps] /\ \A r \in Requests : app[r] = NoApp
    BY NoAppFacts DEF SampleInit
  <1>4. \A r \in Requests : Linked(req[r], app[r])
    BY <1>2, <1>3, NoAppFacts DEF Linked
  <1> QED BY <1>2, <1>3, <1>4 DEF Moving, AppsOK

\* A step of one request.
LEMMA Moves ==
  ASSUME Moving, NEW r \in Requests, NEW q, RequestOK(q), Becomes(r, q),
         NEW a \in Apps, Knows(r, a), Linked(q, a)
  PROVE  Moving'
  <1>1. RequestsOK' /\ req'[r] = q /\ \A s \in Requests \ {r} : req'[s] = req[s]
    BY BecomesOK DEF Moving
  <1>2. app' \in [Requests -> Apps] /\ app'[r] = a /\ \A s \in Requests \ {r} : app'[s] = app[s]
    BY DEF Moving, AppsOK, Knows
  <1>3. ASSUME NEW s \in Requests PROVE Linked(req'[s], app'[s])
    BY <1>1, <1>2 DEF Moving, AppsOK
  <1> QED BY <1>1, <1>2, <1>3 DEF Moving, AppsOK

\* One that leaves what is known of the handler.
LEMMA GoesOn ==
  ASSUME Moving, NEW r \in Requests, NEW q, RequestOK(q), Becomes(r, q), UNCHANGED app,
         Linked(q, app[r])
  PROVE  Moving'
  <1>1. app[r] \in Apps /\ Knows(r, app[r])
    BY DEF Moving, AppsOK, Knows
  <1> QED BY <1>1, Moves

\* One within the handler.
LEMMA Works ==
  ASSUME Moving, NEW r \in Requests, UNCHANGED req, NEW a \in Apps, Knows(r, a),
         Linked(req[r], a)
  PROVE  Moving'
  <1>1. RequestOK(req[r]) /\ Becomes(r, req[r])
    BY DEF Moving, RequestsOK, Becomes
  <1> QED BY <1>1, Moves

-----------------------------------------------------------------------------
(* The steps of the pipeline.                                              *)

LEMMA ArriveMoves ==
  ASSUME Moving, NEW r \in Requests, Arrive(r), UNCHANGED app
  PROVE  Moving'
  <1>1. app[r] = NoApp
    BY DEF Arrive, At, Moving, AppsOK, Linked
  <1>2. ASSUME NEW q, RequestOK(q), Becomes(r, q),
               q.at \in {"route", "chain"} \/ q.way = "plain" \/ q.at \in {"reacting", "done"}
        PROVE  Moving'
    <2>1. Linked(q, app[r])
      BY <1>1, NoAppFacts DEF Linked
    <2> QED BY <1>2, <2>1, GoesOn
  <1>3. Fresh("server", "route").at = "route" /\ Fresh("server", "route").way = "server"
    BY DEF Fresh
  <1>4. /\ RequestOK(Failed(Fresh("server", "route"), 500))
        /\ Failed(Fresh("server", "route"), 500).at \in {"reacting", "done"}
    BY <1>3, FreshOK, FailedOK
  <1>5. Fresh("direct", "chain").at = "chain" /\ Fresh("plain", "handling").way = "plain"
    BY DEF Fresh
  <1> QED BY <1>2, <1>3, <1>4, <1>5, FreshOK DEF Arrive, Adapted

LEMMA MiddlewareMoves ==
  ASSUME Moving, NEW r \in Requests, Middleware(r), UNCHANGED app
  PROVE  Moving'
  <1> DEFINE q == req[r]
  <1>1. q.at = "chain" /\ q.index < Chain /\ app[r] = NoApp
    BY DEF Middleware, At, Moving, AppsOK, Linked
  <1>2. q \in Records /\ RequestOK(q) /\ q.way = "direct" /\ DirectOK(q)
    BY <1>1 DEF Moving, RequestsOK, RequestOK, Records, ServerOK, PlainOK
  <1>3. ASSUME NEW p, RequestOK(p), Becomes(r, p),
               p.at \in {"chain", "writing", "reacting", "done"}, p.way = "direct"
        PROVE  Moving'
    <2>1. Linked(p, app[r])
      BY <1>1, <1>3, NoAppFacts DEF Linked
    <2> QED BY <1>3, <2>1, GoesOn
  <1>4. ASSUME NEW p \in Records, p.at = "chain", p.way = "direct", p.index <= Chain,
               p.passed = 1 .. p.index, Untouched(p)
        PROVE  RequestOK(p)
    BY <1>4 DEF RequestOK, DirectOK
  <1>5. ASSUME Becomes(r, Passes(q)) PROVE Moving'
    <2> DEFINE p == Passes(q)
    <2>1. /\ p \in Records /\ p.at = "chain" /\ p.way = "direct" /\ p.index = q.index + 1
          /\ p.passed = q.passed \cup {q.index + 1}
      <3> DEFINE i == q.index + 1
                 passed == q.passed \cup {i}
      <3>1. i \in Nat /\ passed \in SUBSET Nat
        BY <1>2 DEF Records
      <3>2. p = [q EXCEPT !.index = i, !.passed = passed]
        BY <1>2 DEF Passes, Records
      <3> HIDE DEF i, passed, p
      <3>3. p \in Records /\ p.at = "chain" /\ p.way = "direct" /\ p.index = i /\ p.passed = passed
        BY <1>1, <1>2, <3>1, <3>2 DEF Records
      <3> QED BY <3>3 DEF i, passed
    <2>2. Untouched(p)
      BY <1>1, <1>2 DEF Passes, Records, Untouched, DirectOK
    <2> HIDE DEF p
    <2>3. q.index \in Nat /\ Chain \in Nat /\ q.passed = 1 .. q.index
      BY <1>1, <1>2, PipelineAssumption DEF Records, DirectOK
    <2>4. p.index <= Chain /\ p.passed = 1 .. p.index
      BY <1>1, <2>1, <2>3
    <2> QED BY <1>3, <1>4, <1>5, <2>1, <2>2, <2>4 DEF p
  <1>6. ASSUME Becomes(r, Redirected(q)) PROVE Moving'
    <2> DEFINE p == Redirected(q)
    <2>1. /\ p \in Records /\ p.at = "chain" /\ p.way = "direct" /\ p.index = 0
          /\ p.passed = {}
      <3> DEFINE hops == q.hops + 1
                 none == {}
                 start == 0
      <3>1. hops \in Nat /\ none \in SUBSET Nat /\ start \in Nat
        BY <1>2 DEF Records
      <3>2. p = [q EXCEPT !.index = start, !.passed = none, !.hops = hops]
        BY <1>2 DEF Redirected, Records
      <3> HIDE DEF hops, none, start, p
      <3>3. p \in Records /\ p.at = "chain" /\ p.way = "direct" /\ p.index = start /\ p.passed = none
        BY <1>1, <1>2, <3>1, <3>2 DEF Records
      <3> QED BY <3>3 DEF none, start
    <2>2. Untouched(p)
      BY <1>1, <1>2 DEF Redirected, Records, Untouched, DirectOK
    <2> HIDE DEF p
    <2>3. p.index <= Chain /\ p.passed = 1 .. p.index
      BY <2>1, PipelineAssumption
    <2> QED BY <1>3, <1>4, <1>6, <2>1, <2>2, <2>3 DEF p
  <1>7. ASSUME Becomes(r, Answered(q, 403, "some")) PROVE Moving'
    <2>0. PICK a : a = Answered(q, 403, "some")
      OBVIOUS
    <2>1. RequestOK(a) /\ a.at \in {"writing", "reacting", "done"} /\ a.way = q.way
      BY <1>1, <1>2, <2>0, AnsweredOK
    <2>2. Becomes(r, a)
      BY <1>7, <2>0
    <2> QED BY <1>2, <1>3, <2>1, <2>2
  <1>8. ASSUME Becomes(r, Failed(q, 500)) PROVE Moving'
    BY <1>1, <1>2, <1>3, <1>8, FailedOK
  <1> QED BY <1>5, <1>6, <1>7, <1>8 DEF Middleware

LEMMA ChainEndsMoves ==
  ASSUME Moving, NEW r \in Requests, ChainEnds(r), UNCHANGED app
  PROVE  Moving'
  <1> DEFINE q == req[r]
             p == [q EXCEPT !.at = "route"]
  <1>1. q.at = "chain" /\ q.index = Chain /\ app[r] = NoApp /\ Becomes(r, p)
    BY DEF ChainEnds, At, Moving, AppsOK, Linked
  <1>2. q \in Records /\ RequestOK(q) /\ q.way = "direct" /\ DirectOK(q)
    BY <1>1 DEF Moving, RequestsOK, RequestOK, Records, ServerOK, PlainOK
  <1>3. /\ p \in Records /\ p.at = "route" /\ p.way = "direct" /\ p.passed = q.passed
        /\ Untouched(p)
    BY <1>1, <1>2 DEF Records, Untouched, DirectOK
  <1>4. q.passed = 1 .. Chain
    BY <1>1, <1>2 DEF DirectOK
  <1> HIDE DEF p
  <1>5. RequestOK(p) /\ Linked(p, app[r])
    BY <1>1, <1>3, <1>4, NoAppFacts DEF RequestOK, DirectOK, Linked
  <1> QED BY <1>1, <1>5, GoesOn

\* What is looked up leads to a handler, or is answered at once.
LEMMA Looked ==
  ASSUME Moving, NEW r \in Requests, req[r].at = "route"
  PROVE  app[r] = NoApp /\ req[r].way \in {"server", "direct"} /\ RequestOK(req[r])
         /\ req[r] \in Records
  BY DEF Moving, AppsOK, Linked, RequestsOK, RequestOK, Records, PlainOK

LEMMA LookedUp ==
  ASSUME Moving, NEW r \in Requests, req[r].at = "route", Look(r, "handler")
  PROVE  \E p : Becomes(r, p) /\ RequestOK(p) /\ p.at = "handling" /\ p.way = req[r].way
  <1> DEFINE q == req[r]
             p == [q EXCEPT !.at = "handling", !.index = 0, !.hops = 0]
  <1>1. RequestOK(q) /\ q \in Records /\ q.way \in {"server", "direct"}
    BY Looked
  <1>2. /\ p \in Records /\ p.at = "handling" /\ p.way = q.way /\ p.passed = q.passed
        /\ p.gave = q.gave /\ p.status = q.status /\ p.sent = q.sent
        /\ (p.threw <=> q.threw) /\ (p.begun <=> q.begun)
    BY <1>1 DEF Records
  <1>3. Becomes(r, p)
    BY DEF Look
  <1> HIDE DEF p
  <1>4. RequestOK(p)
    BY <1>1, <1>2 DEF RequestOK, ServerOK, DirectOK, Untouched
  <1> QED BY <1>2, <1>3, <1>4

LEMMA LookedInVain ==
  ASSUME Moving, NEW r \in Requests, req[r].at = "route",
         NEW found \in {"nothing", "method"}, Look(r, found)
  PROVE  \E p : /\ Becomes(r, p) /\ RequestOK(p)
                /\ p.at \in {"writing", "reacting", "done"} /\ p.way = req[r].way
  <1> DEFINE q == req[r]
  <1>1. RequestOK(q) /\ q.way \in {"server", "direct"} /\ q.at \in {"chain", "route", "handling"}
    BY Looked
  <1>2. PICK a, f : a = Answered(q, 404, "none") /\ f = Failed(q, 500)
    OBVIOUS
  <1>3. RequestOK(a) /\ a.way = q.way /\ a.at \in {"writing", "reacting", "done"}
    BY <1>1, <1>2, AnsweredOK
  <1>4. RequestOK(f) /\ f.way = q.way /\ f.at \in {"writing", "reacting", "done"}
    BY <1>1, <1>2, FailedOK
  <1>5. Becomes(r, a) \/ Becomes(r, f)
    BY <1>2 DEF Look
  <1> QED BY <1>3, <1>4, <1>5

LEMMA RoutedMoves ==
  ASSUME Moving, NEW r \in Requests, Routed(r)
  PROVE  Moving'
  <1>1. req[r].at = "route"
    BY DEF Routed, Look, At
  <1>2. app[r] = NoApp /\ NoApp \in Apps /\ req[r].way \in {"server", "direct"}
    BY <1>1, Looked, NoAppFacts
  <1>3. ASSUME NEW route \in {"calc", "evaluate", "renew", "reports"},
               Look(r, "handler"), Knows(r, [app[r] EXCEPT !.route = route])
        PROVE  Moving'
    <2> DEFINE a == [app[r] EXCEPT !.route = route]
    <2>1. PICK p : Becomes(r, p) /\ RequestOK(p) /\ p.at = "handling" /\ p.way = req[r].way
      BY <1>1, <1>3, LookedUp
    <2>2. a \in Apps /\ a.awaits = "nothing" /\ a.read = 0 /\ a.value = 0 /\ ~a.did
      BY <1>2, NoAppFacts DEF NoApp, Apps
    <2> HIDE DEF a
    <2>3. Linked(p, a)
      BY <1>2, <2>1, <2>2 DEF Linked
    <2> QED BY <1>3, <2>1, <2>2, <2>3, Moves DEF a
  <1>4. ASSUME NEW found \in {"nothing", "method"}, Look(r, found), UNCHANGED app
        PROVE  Moving'
    <2>1. PICK p : /\ Becomes(r, p) /\ RequestOK(p)
                   /\ p.at \in {"writing", "reacting", "done"} /\ p.way = req[r].way
      BY <1>1, <1>4, LookedInVain
    <2>2. Linked(p, app[r])
      BY <1>2, <2>1, NoAppFacts DEF Linked
    <2> QED BY <1>4, <2>1, <2>2, GoesOn
  <1> QED BY <1>3, <1>4 DEF Routed

LEMMA WriteMoves ==
  ASSUME Moving, NEW r \in Requests, Write(r) \/ BodyFails(r), UNCHANGED app
  PROVE  Moving'
  <1> DEFINE q == req[r]
  <1>1. q.at = "writing" /\ q \in Records /\ RequestOK(q)
    BY DEF Write, BodyFails, At, Moving, RequestsOK, RequestOK
  <1>2. q.way = "server" /\ ServerOK(q) /\ Linked(q, app[r])
    BY <1>1 DEF Moving, AppsOK, RequestOK, Records, DirectOK, PlainOK
  <1>3. ASSUME NEW how \in {"all", "cut"}, Becomes(r, [q EXCEPT !.sent = how, !.at = "reacting"])
        PROVE  Moving'
    <2> DEFINE p == [q EXCEPT !.sent = how, !.at = "reacting"]
    <2>1. /\ p \in Records /\ p.at = "reacting" /\ p.way = q.way /\ p.sent = how
          /\ p.gave = q.gave /\ p.status = q.status
          /\ (p.threw <=> q.threw) /\ (p.begun <=> q.begun)
      BY <1>1 DEF Records
    <2> HIDE DEF p
    <2>2. RequestOK(p)
      BY <1>1, <1>2, <1>3, <2>1 DEF RequestOK, ServerOK
    <2>3. Linked(p, app[r])
      BY <1>1, <1>2, <2>1 DEF Linked
    <2> QED BY <1>3, <2>2, <2>3, GoesOn DEF p
  <1> QED BY <1>3 DEF Write, BodyFails, Reach

LEMMA ReactMoves ==
  ASSUME Moving, NEW r \in Requests, React(r), UNCHANGED app
  PROVE  Moving'
  <1>1. req[r].at = "reacting" /\ RequestOK(req[r]) /\ Linked(req[r], app[r])
        /\ Becomes(r, Concluded(req[r]))
    BY DEF React, At, Moving, RequestsOK, AppsOK
  <1>2. /\ RequestOK(Concluded(req[r])) /\ Concluded(req[r]).at = "done"
        /\ Concluded(req[r]).way = req[r].way
    BY <1>1, ConcludedOK
  <1>3. Linked(Concluded(req[r]), app[r])
    BY <1>1, <1>2 DEF Linked
  <1> QED BY <1>1, <1>2, <1>3, GoesOn

LEMMA PlainMoves ==
  ASSUME Moving, NEW r \in Requests, PlainCallback(r), UNCHANGED app
  PROVE  Moving'
  <1> DEFINE q == req[r]
  <1>1. q.way = "plain" /\ q.at = "handling" /\ q \in Records /\ RequestOK(q)
    BY DEF PlainCallback, At, Moving, RequestsOK
  <1>2. PlainOK(q) /\ Linked(q, app[r]) /\ app[r] = NoApp
    BY <1>1 DEF Moving, AppsOK, RequestOK, Linked
  <1>3. ASSUME NEW p, RequestOK(p), Becomes(r, p), p.way = "plain"
        PROVE  Moving'
    <2>1. Linked(p, app[r])
      BY <1>2, <1>3, NoAppFacts DEF Linked
    <2> QED BY <1>3, <2>1, GoesOn
  <1>4. ASSUME q.sent = "nothing", Becomes(r, [q EXCEPT !.sent = "head", !.begun = TRUE])
        PROVE  Moving'
    <2>1. PICK p : p = [q EXCEPT !.sent = "head", !.begun = TRUE]
      OBVIOUS
    <2>2. /\ p \in Records /\ p.at = q.at /\ p.way = q.way /\ p.sent = "head"
          /\ p.gave = q.gave /\ p.status = q.status /\ (p.threw <=> q.threw) /\ p.begun
      BY <1>1, <2>1 DEF Records
    <2>3. RequestOK(p)
      BY <1>1, <1>2, <2>2 DEF RequestOK, PlainOK
    <2> QED BY <1>1, <1>3, <1>4, <2>1, <2>2, <2>3
  <1>5. ASSUME Becomes(r, [q EXCEPT !.gave = 200, !.sent = Reach(q, "all"), !.at = "reacting"])
        PROVE  Moving'
    <2>a. PICK code, s : code = 200 /\ s = Reach(q, "all")
      OBVIOUS
    <2>1. PICK p : p = [q EXCEPT !.gave = code, !.sent = s, !.at = "reacting"]
      OBVIOUS
    <2>2. code \in Nat /\ s \in {"all", "cut"}
      BY <2>a DEF Reach
    <2>3. /\ p \in Records /\ p.at = "reacting" /\ p.way = q.way /\ p.sent = s
          /\ p.gave = code /\ p.status = q.status /\ (p.threw <=> q.threw) /\ (p.begun <=> q.begun)
      BY <1>1, <2>1, <2>2 DEF Records
    <2>4. RequestOK(p)
      BY <1>1, <1>2, <2>a, <2>2, <2>3 DEF RequestOK, PlainOK
    <2> QED BY <1>1, <1>3, <1>5, <2>a, <2>1, <2>3, <2>4
  <1>6. ASSUME Becomes(r, [q EXCEPT !.at = "reacting"]) PROVE Moving'
    <2>1. PICK p : p = [q EXCEPT !.at = "reacting"]
      OBVIOUS
    <2>2. /\ p \in Records /\ p.at = "reacting" /\ p.way = q.way /\ p.sent = q.sent
          /\ p.gave = q.gave /\ p.status = q.status
          /\ (p.threw <=> q.threw) /\ (p.begun <=> q.begun)
      BY <1>1, <2>1 DEF Records
    <2>3. RequestOK(p)
      BY <1>1, <1>2, <2>2 DEF RequestOK, PlainOK
    <2> QED BY <1>1, <1>3, <1>6, <2>1, <2>2, <2>3
  <1>7. ASSUME NEW code \in {409, 500}, Becomes(r, Failed(q, code)) PROVE Moving'
    <2>1. RequestOK(Failed(q, code)) /\ Failed(q, code).way = q.way
      BY <1>1, <1>7, FailedOK
    <2> QED BY <1>1, <1>3, <1>7, <2>1
  <1> QED BY <1>4, <1>5, <1>6, <1>7 DEF PlainCallback

LEMMA DisconnectsMoves ==
  ASSUME Moving, NEW r \in Requests, Disconnects(r), UNCHANGED app
  PROVE  Moving'
  <1> DEFINE q == req[r]
  <1>a. PICK s : s = (IF q.sent = "all" THEN q.sent ELSE "cut")
    OBVIOUS
  <1>b. PICK p : p = [q EXCEPT !.gone = TRUE, !.sent = s]
    OBVIOUS
  <1>1. q.way \in {"server", "plain"} /\ q \in Records /\ RequestOK(q) /\ Linked(q, app[r])
        /\ q.at # "done" /\ Becomes(r, p)
    BY <1>a, <1>b DEF Disconnects, At, Moving, RequestsOK, RequestOK, AppsOK
  <1>2. s \in {"all", "cut"} /\ (s = "all" => q.sent = "all")
    BY <1>a
  <1>3. /\ p \in Records /\ p.at = q.at /\ p.way = q.way /\ p.sent = s
        /\ p.gave = q.gave /\ p.status = q.status
        /\ (p.threw <=> q.threw) /\ (p.begun <=> q.begun)
    <2>1. p \in Records
      BY <1>b, <1>1, <1>2 DEF Records
    <2>2. p.at = q.at /\ p.way = q.way /\ p.sent = s /\ p.gave = q.gave /\ p.status = q.status
      BY <1>b, <1>1 DEF Records
    <2>3. (p.threw <=> q.threw) /\ (p.begun <=> q.begun)
      BY <1>b, <1>1 DEF Records
    <2> QED BY <2>1, <2>2, <2>3
  <1>4. Linked(p, app[r])
    BY <1>1, <1>3 DEF Linked
  <1>5. RequestOK(p)
    <2>1. CASE q.way = "server"
      <3>1. ServerOK(q)
        BY <1>1, <2>1 DEF RequestOK
      <3>2. ServerOK(p)
        BY <1>2, <1>3, <3>1, s = "cut" \/ s = "all" DEF ServerOK, Untouched
      <3> QED BY <1>3, <2>1, <3>2 DEF RequestOK
    <2>2. CASE q.way = "plain"
      <3>1. PlainOK(q)
        BY <1>1, <2>2 DEF RequestOK
      <3>2. PlainOK(p)
        BY <1>1, <1>2, <1>3, <3>1 DEF PlainOK
      <3> QED BY <1>3, <2>2, <3>2 DEF RequestOK
    <2> QED BY <1>1, <2>1, <2>2
  <1> QED BY <1>1, <1>4, <1>5, GoesOn

LEMMA PassageMoves ==
  ASSUME Moving, NEW r \in Requests, Passage(r) \/ Client(r)
  PROVE  Moving'
  BY ArriveMoves, MiddlewareMoves, ChainEndsMoves, WriteMoves, PlainMoves, ReactMoves,
     DisconnectsMoves DEF Passage, Client

Early == {"new", "route", "chain", "handling"}

\* Outside of the handlers: a request is not unhandled again, and what a handler
\* gave is kept.
LEMMA PassageKeeps ==
  ASSUME Moving, NEW r \in Requests, Passage(r) \/ Client(r)
  PROVE  /\ UNCHANGED <<source, state, cache, lines, app>>
         /\ \A s \in Requests \ {r} : req'[s] = req[s]
         /\ req'[r].at \in Early => req[r].at \in Early
         /\ app[r] = NoApp \/ req'[r].gave = req[r].gave
  <1> DEFINE q == req[r]
  <1>1. UNCHANGED <<source, state, cache, lines, app>>
    BY DEF Passage, Client
  <1>2. q \in Records /\ RequestOK(q) /\ Linked(q, app[r])
    BY DEF Moving, RequestsOK, AppsOK
  <1>3. \E p : Becomes(r, p)
    BY DEF Passage, Client, Middleware, ChainEnds, Write, PlainCallback, React, Arrive,
           Disconnects, BodyFails
  <1>4. \A s \in Requests \ {r} : req'[s] = req[s]
    BY <1>3 DEF Becomes, Moving, RequestsOK
  <1>5. \A p : Becomes(r, p) => req'[r] = p
    BY DEF Becomes, Moving, RequestsOK
  <1>6. CASE Disconnects(r)
    <2>1. PICK s : Becomes(r, [q EXCEPT !.gone = TRUE, !.sent = s])
      BY <1>6 DEF Disconnects
    <2> QED BY <1>1, <1>2, <1>4, <1>5, <2>1 DEF Records
  <1>7. CASE Write(r) \/ BodyFails(r)
    <2>1. PICK s : Becomes(r, [q EXCEPT !.sent = s, !.at = "reacting"])
      BY <1>7 DEF Write, BodyFails
    <2>2. req'[r].at = "reacting" /\ req'[r].gave = q.gave
      BY <1>2, <1>5, <2>1 DEF Records
    <2> QED BY <1>1, <1>4, <2>2 DEF Early
  <1>8. CASE React(r)
    <2>1. Becomes(r, Concluded(q)) /\ q.at = "reacting"
      BY <1>8 DEF React, At
    <2>2. req'[r].at = "done" /\ req'[r].gave = q.gave
      BY <1>2, <1>5, <2>1, ConcludedOK
    <2> QED BY <1>1, <1>4, <2>2 DEF Early
  <1>9. CASE Arrive(r) \/ Middleware(r) \/ ChainEnds(r) \/ PlainCallback(r)
    <2>1. q.at \in Early /\ app[r] = NoApp
      BY <1>2, <1>9 DEF Arrive, Middleware, ChainEnds, PlainCallback, At, Linked, Early
    <2> QED BY <1>1, <1>4, <2>1
  <1> QED BY <1>6, <1>7, <1>8, <1>9 DEF Passage, Client

-----------------------------------------------------------------------------
(* The handlers.                                                           *)

\* A handler has been called with a request that nobody has answered.
LEMMA CalledFacts ==
  ASSUME Moving, NEW r \in Requests, req[r].at = "handling", app[r].route # "none"
  PROVE  /\ req[r].way \in {"server", "direct"} /\ req[r].gave = 0
         /\ RequestOK(req[r]) /\ req[r] \in Records
         /\ app[r] \in Apps /\ ~app[r].did /\ Linked(req[r], app[r])
  <1>1. RequestOK(req[r]) /\ req[r] \in Records /\ app[r] \in Apps /\ Linked(req[r], app[r])
    BY DEF Moving, RequestsOK, AppsOK
  <1>2. req[r].way # "plain" /\ req[r].way # "none" /\ ~app[r].did
    BY <1>1, NoAppFacts DEF Linked, RequestOK
  <1>3. req[r].way \in {"server", "direct"}
    BY <1>1, <1>2 DEF Records
  <1>4. req[r].gave = 0
    BY <1>1, <1>3 DEF RequestOK, ServerOK, DirectOK, Untouched
  <1> QED BY <1>1, <1>2, <1>3, <1>4

\* What it ends with.
LEMMA Ends ==
  ASSUME Moving, NEW r \in Requests, req[r].at = "handling", app[r].route # "none",
         NEW a \in Apps, Knows(r, a), a.awaits = "nothing",
         NEW code \in {200, 400, 500, 501},
         IF code = 200 THEN Responds(r) ELSE Raises(r, code)
  PROVE  /\ Moving'
         /\ req'[r].at \notin Early /\ req'[r].gave = code /\ app'[r] = a
         /\ \A s \in Requests \ {r} : req'[s] = req[s] /\ app'[s] = app[s]
  <1>1. req[r].way \in {"server", "direct"} /\ RequestOK(req[r])
    BY CalledFacts
  <1>2. PICK p : /\ RequestOK(p) /\ p.gave = code /\ p.way = req[r].way
                 /\ p.at \in {"writing", "reacting", "done"} /\ Becomes(r, p)
    <2>1. CASE code = 200
      <3>1. PICK p : p = Answered(req[r], 200, "some")
        OBVIOUS
      <3>2. RequestOK(p) /\ p.gave = 200 /\ p.at \in {"writing", "reacting", "done"} /\ p.way = req[r].way
        BY <1>1, <3>1, AnsweredOK
      <3> QED BY <2>1, <3>1, <3>2 DEF Responds
    <2>2. CASE code # 200
      <3>1. code \in Nat \ {0}
        BY <2>2
      <3>2. PICK p : p = Failed(req[r], code)
        OBVIOUS
      <3>3. RequestOK(p) /\ p.gave = code /\ p.at \in {"reacting", "done"} /\ p.way = req[r].way
        BY <1>1, <3>1, <3>2, FailedOK
      <3> QED BY <2>2, <3>2, <3>3 DEF Raises
    <2> QED BY <2>1, <2>2
  <1>3. Linked(p, a)
    BY <1>1, <1>2 DEF Linked
  <1>4. Moving'
    BY <1>2, <1>3, Moves
  <1>5. req'[r] = p /\ \A s \in Requests \ {r} : req'[s] = req[s]
    BY <1>2, BecomesOK DEF Moving
  <1>6. app'[r] = a /\ \A s \in Requests \ {r} : app'[s] = app[s]
    BY DEF Moving, AppsOK, Knows
  <1> QED BY <1>2, <1>4, <1>5, <1>6 DEF Early

\* One that goes on leaves the request as it is.
LEMMA Continues ==
  ASSUME Moving, NEW r \in Requests, UNCHANGED req, NEW a \in Apps, Knows(r, a),
         Linked(req[r], a)
  PROVE  Moving' /\ app'[r] = a /\ \A s \in Requests \ {r} : app'[s] = app[s]
  <1>1. app'[r] = a /\ \A s \in Requests \ {r} : app'[s] = app[s]
    BY DEF Moving, AppsOK, Knows
  <1> QED BY <1>1, Works


-----------------------------------------------------------------------------
(* What the numbers of a file add up to.  The theorems on induction over   *)
(* the numbers take operators; a set without a least element is empty      *)
(* serves as well.                                                         *)

\* A property of 0 that passes on from each number to the next.
LEMMA Inductive ==
  ASSUME NEW S \in SUBSET Nat, 0 \in S, \A n \in S : n + 1 \in S
  PROVE  S = Nat
  <1> SUFFICES ASSUME Nat \ S # {} PROVE FALSE
    OBVIOUS
  <1>1. PICK x \in Nat \ S : \A y \in Nat \ S : x <= y
    <2>1. PICK x \in Nat \ S : \A y \in Nat \ S : <<y, x>> \notin OpToRel(<, Nat)
      BY WFMin, NatLessThanWellFounded, Zenon
    <2>2. \A y \in Nat \ S : ~ (y < x)
      BY <2>1, Zenon DEF OpToRel
    <2> QED BY <2>2
  <1>2. x - 1 \in S
    BY <1>1
  <1>3. (x - 1) + 1 \in S
    BY <1>2
  <1> QED BY <1>1, <1>3

Lines == [by : Requests \cup {"before"}, number : BOOLEAN, result : Int]

LEMMA AddsInt == \A line \in Lines : Adds(line) \in Int
  BY DEF Lines, Adds

\* f gives the count after each of the first n lines of s.
Adding(f, s, n) ==
  /\ f \in [0 .. n -> Int] /\ f[0] = 0
  /\ \A i \in 1 .. n : f[i] = f[i - 1] + Adds(s[i])

LEMMA Addable ==
  ASSUME NEW s \in Seq(Lines), NEW n \in 0 .. Len(s)
  PROVE  \E f : Adding(f, s, n)
  <1> DEFINE S == {m \in Nat : m <= Len(s) => \E f : Adding(f, s, m)}
  <1>1. 0 \in S
    <2>1. Adding([i \in 0 .. 0 |-> 0], s, 0)
      BY DEF Adding
    <2> QED BY <2>1
  <1>2. ASSUME NEW m \in S PROVE m + 1 \in S
    <2> SUFFICES ASSUME m + 1 <= Len(s) PROVE \E f : Adding(f, s, m + 1)
      OBVIOUS
    <2>1. m \in Nat /\ Len(s) \in Nat
      OBVIOUS
    <2>2. PICK f : Adding(f, s, m)
      BY <2>1
    <2>3. PICK last \in Int : last = f[m] + Adds(s[m + 1])
      <3>1. s[m + 1] \in Lines /\ f[m] \in Int
        BY <2>1, <2>2 DEF Adding
      <3> QED BY <3>1, AddsInt
    <2> DEFINE g == [i \in 0 .. (m + 1) |-> IF i <= m THEN f[i] ELSE last]
    <2>4. g \in [0 .. (m + 1) -> Int] /\ g[0] = 0
      BY <2>1, <2>2 DEF Adding
    <2>5. ASSUME NEW i \in 1 .. (m + 1) PROVE g[i] = g[i - 1] + Adds(s[i])
      <3>1. g[i - 1] = f[i - 1] /\ g[i] = IF i <= m THEN f[i] ELSE last
        BY <2>1
      <3>2. CASE i <= m
        <4>1. i \in 1 .. m
          BY <2>1, <3>2
        <4> QED BY <2>2, <3>1, <3>2, <4>1 DEF Adding
      <3>3. CASE i = m + 1
        BY <2>1, <2>3, <3>1, <3>3
      <3> QED BY <2>1, <3>2, <3>3
    <2> QED BY <2>4, <2>5 DEF Adding
  <1> HIDE DEF S
  <1>3. S \in SUBSET Nat /\ n \in Nat /\ n <= Len(s)
    BY DEF S
  <1>4. S = Nat
    BY <1>1, <1>2, <1>3, Inductive
  <1> QED BY <1>3, <1>4 DEF S

\* A file that begins like another counts the same up to there.
LEMMA SameCounts ==
  ASSUME NEW s, NEW t, NEW n \in Nat, NEW m \in Nat, n <= m,
         \A i \in 1 .. n : t[i] = s[i],
         NEW f, Adding(f, s, n), NEW g, Adding(g, t, m)
  PROVE  \A i \in 0 .. n : g[i] = f[i]
  <1> DEFINE S == {i \in Nat : i <= n => g[i] = f[i]}
  <1>1. 0 \in S
    BY DEF Adding
  <1>2. ASSUME NEW i \in S PROVE i + 1 \in S
    <2> SUFFICES ASSUME i + 1 <= n PROVE g[i + 1] = f[i + 1]
      OBVIOUS
    <2>1. i \in Nat /\ g[i] = f[i]
      OBVIOUS
    <2>2. PICK j : j = i + 1
      OBVIOUS
    <2>3. j \in 1 .. n /\ j \in 1 .. m /\ j - 1 = i
      BY <2>1, <2>2
    <2>4. f[j] = f[j - 1] + Adds(s[j]) /\ g[j] = g[j - 1] + Adds(t[j]) /\ t[j] = s[j]
      BY <2>3 DEF Adding
    <2> QED BY <2>1, <2>2, <2>3, <2>4
  <1> HIDE DEF S
  <1>3. S \in SUBSET Nat
    BY DEF S
  <1>4. S = Nat
    BY <1>1, <1>2, <1>3, Inductive
  <1> QED BY <1>4 DEF S

\* The recursive function, of any file.
CountsOf(s) ==
  LET count[n \in 0 .. Len(s)] == IF n = 0 THEN 0 ELSE count[n - 1] + Adds(s[n])
  IN count

LEMMA CountsAdding ==
  ASSUME NEW s \in Seq(Lines)
  PROVE  Adding(CountsOf(s), s, Len(s))
  <1> DEFINE Step(c) == [n \in 0 .. Len(s) |-> IF n = 0 THEN 0 ELSE c[n - 1] + Adds(s[n])]
  <1>0. Len(s) \in Nat
    OBVIOUS
  <1>1. PICK f : Adding(f, s, Len(s))
    BY <1>0, Addable
  <1>2. f = Step(f)
    <2>1. f = [n \in 0 .. Len(s) |-> f[n]]
      BY <1>1 DEF Adding
    <2>2. \A n \in 0 .. Len(s) : f[n] = IF n = 0 THEN 0 ELSE f[n - 1] + Adds(s[n])
      BY <1>0, <1>1 DEF Adding
    <2> QED BY <2>1, <2>2
  <1>3. CountsOf(s) = CHOOSE c : c = Step(c)
    BY DEF CountsOf
  <1> DEFINE c == CountsOf(s)
  <1>4. c = Step(c)
    BY <1>2, <1>3, Zenon
  <1> HIDE DEF c
  <1>5. DOMAIN c = 0 .. Len(s) /\ c = [n \in 0 .. Len(s) |-> c[n]]
    BY <1>4
  <1>6. \A n \in 0 .. Len(s) : c[n] = IF n = 0 THEN 0 ELSE c[n - 1] + Adds(s[n])
    BY <1>4
  <1>7. c[0] = 0 /\ \A i \in 1 .. Len(s) : c[i] = c[i - 1] + Adds(s[i])
    BY <1>0, <1>6
  <1>8. \A n \in 0 .. Len(s) : c[n] \in Int
    <2> DEFINE S == {n \in Nat : n <= Len(s) => c[n] \in Int}
    <2>1. 0 \in S
      BY <1>7
    <2>2. ASSUME NEW n \in S PROVE n + 1 \in S
      <3> SUFFICES ASSUME n + 1 <= Len(s) PROVE c[n + 1] \in Int
        OBVIOUS
      <3>1. n \in Nat /\ c[n] \in Int
        BY <1>0
      <3>2. PICK i : i = n + 1
        OBVIOUS
      <3>3. i \in 1 .. Len(s) /\ i - 1 = n
        BY <1>0, <3>1, <3>2
      <3>4. c[i] = c[i - 1] + Adds(s[i]) /\ Adds(s[i]) \in Int
        BY <1>7, <3>3, AddsInt
      <3> QED BY <3>1, <3>2, <3>3, <3>4
    <2> HIDE DEF S
    <2>3. S \in SUBSET Nat
      BY DEF S
    <2>4. S = Nat
      BY <2>1, <2>2, <2>3, Inductive
    <2> QED BY <2>4 DEF S
  <1>9. c \in [0 .. Len(s) -> Int]
    BY <1>5, <1>8
  <1> QED BY <1>7, <1>9 DEF Adding, c

-----------------------------------------------------------------------------
(* The registry, the cache and the file.                                   *)

\* What has been compiled under an edition uses that edition.
DataOK ==
  /\ source \in Nat /\ state \in Nat /\ state <= source
  /\ \A c \in cache : c[1] = c[2]
  /\ lines \in Seq(Lines)

LEMMA CountsKnown ==
  ASSUME DataOK
  PROVE  Adding(Counts, lines, Len(lines)) /\ Len(lines) \in Nat
  <1>1. Counts = CountsOf(lines)
    BY DEF Counts, CountsOf
  <1>2. lines \in Seq(Lines) /\ Len(lines) \in Nat
    BY DEF DataOK
  <1> QED BY <1>1, <1>2, CountsAdding

\* Lines are only ever added.
Grown(r) ==
  \/ UNCHANGED lines
  \/ \E number \in BOOLEAN, result \in Int :
       lines' = Append(lines, [by |-> r, number |-> number, result |-> result])

LEMMA LinesGrow ==
  ASSUME DataOK, NEW r \in Requests, Grown(r)
  PROVE  /\ lines' \in Seq(Lines) /\ Len(lines) <= Len(lines')
         /\ Len(lines) \in Nat /\ Len(lines') \in Nat
         /\ \A i \in 1 .. Len(lines) : lines'[i] = lines[i]
         /\ \A i \in 1 .. Len(lines') : i \notin 1 .. Len(lines) => lines'[i].by = r
         /\ \A n \in 0 .. Len(lines) : Counts'[n] = Counts[n]
  <1>1. lines \in Seq(Lines)
    BY DEF DataOK
  <1>2. /\ lines' \in Seq(Lines) /\ Len(lines) <= Len(lines')
        /\ \A i \in 1 .. Len(lines) : lines'[i] = lines[i]
        /\ \A i \in 1 .. Len(lines') : i \notin 1 .. Len(lines) => lines'[i].by = r
    <2>1. CASE UNCHANGED lines
      BY <1>1, <2>1
    <2>2. CASE ~UNCHANGED lines
      <3>1. PICK number \in BOOLEAN, result \in Int :
              lines' = Append(lines, [by |-> r, number |-> number, result |-> result])
        BY <2>2 DEF Grown
      <3>2. PICK line : line = [by |-> r, number |-> number, result |-> result]
        OBVIOUS
      <3>3. line \in Lines /\ line.by = r
        BY <3>2 DEF Lines
      <3> QED BY <1>1, <3>1, <3>2, <3>3
    <2> QED BY <2>1, <2>2
  <1>3. Len(lines) \in Nat /\ Len(lines') \in Nat
    BY <1>1, <1>2
  <1>4. Counts = CountsOf(lines) /\ Counts' = CountsOf(lines')
    BY DEF Counts, CountsOf
  <1>5. Adding(Counts, lines, Len(lines)) /\ Adding(Counts', lines', Len(lines'))
    BY <1>1, <1>2, <1>4, CountsAdding
  <1>6. \A n \in 0 .. Len(lines) : Counts'[n] = Counts[n]
    <2>1. PICK m \in Nat, n \in Nat : m = Len(lines) /\ n = Len(lines')
      BY <1>3
    <2>2. PICK old, new : old = lines /\ new = lines'
      OBVIOUS
    <2>3. PICK f, g : f = Counts /\ g = Counts'
      OBVIOUS
    <2>4. /\ m <= n /\ Adding(f, old, m) /\ Adding(g, new, n)
          /\ \A i \in 1 .. m : new[i] = old[i]
      BY <1>2, <1>5, <2>1, <2>2, <2>3
    <2>5. \A i \in 0 .. m : g[i] = f[i]
      BY <2>4, SameCounts
    <2> QED BY <2>1, <2>3, <2>5
  <1> QED BY <1>2, <1>3, <1>6

-----------------------------------------------------------------------------
(* What the properties rest on, for one request.                           *)

\* Each renewal under way began no later than now; and whoever of them will
\* overwrite the work of a renewal began no earlier than one that this one knows.
RenewalOK(r) ==
  /\ Renewing(r) => app[r].from <= source /\ app[r].from \in app[r].since
  /\ Awaits(r, "import") => app[r].from <= app[r].value /\ app[r].value <= source
  /\ Renewing(r) \/ (app[r].route = "renew" /\ app[r].did) =>
       \A q \in Requests : Renewing(q) => \E e \in app[r].since : e <= app[q].from
  /\ app[r].route = "renew" /\ app[r].did => \E e \in app[r].since : e <= state

\* A reader of the file has the count of what it has read.
ReaderOK(r) ==
  /\ app[r].awaits \in {"line", "end"} =>
       /\ app[r].from <= Len(lines) /\ app[r].read <= Len(lines)
       /\ app[r].value = Counts[app[r].read]
  /\ Awaits(r, "end") => app[r].from <= app[r].read
  /\ app[r].route = "reports" /\ app[r].did =>
       \E n \in app[r].from .. Len(lines) : app[r].value = Counts[n]

\* A request that is not answered has reported nothing.
ReporterOK(r) ==
  /\ req[r].at \in Early => \A i \in 1 .. Len(lines) : lines[i].by # r
  /\ app[r].route \in {"calc", "evaluate"} /\ req[r].gave = 200 =>
       \E i \in 1 .. Len(lines) :
         /\ lines[i].by = r /\ (lines[i].number <=> app[r].did)
         /\ \A j \in 1 .. Len(lines) : lines[j].by = r => j = i

SampleInv ==
  /\ Moving /\ DataOK
  /\ \A r \in Requests : RenewalOK(r) /\ ReaderOK(r) /\ ReporterOK(r)

\* A step of r that is no part of a renewal.
LEMMA RenewalsStay ==
  ASSUME SampleInv, NEW r \in Requests, UNCHANGED <<source, state>>, Moving',
         \A s \in Requests \ {r} : app'[s] = app[s],
         app'[r] = app[r] \/ (app'[r].awaits \notin {"fetch", "import"}
                              /\ ~(app'[r].route = "renew" /\ app'[r].did))
  PROVE  \A s \in Requests : RenewalOK(s)'
  <1>1. ASSUME NEW s \in Requests, Renewing(s)' PROVE Renewing(s) /\ app'[s] = app[s]
    BY <1>1 DEF Renewing, Awaits
  <1>2. ASSUME NEW s \in Requests PROVE RenewalOK(s)'
    <2>1. RenewalOK(s) /\ app[s] \in Apps
      BY DEF SampleInv, Moving, AppsOK
    <2>2. app'[s] = app[s] \/ (app'[s].awaits \notin {"fetch", "import"}
                               /\ ~(app'[s].route = "renew" /\ app'[s].did))
      OBVIOUS
    <2>3. CASE app'[s] = app[s]
      BY <1>1, <2>1, <2>3 DEF RenewalOK, Renewing, Awaits
    <2>4. CASE app'[s].awaits \notin {"fetch", "import"}
               /\ ~(app'[s].route = "renew" /\ app'[s].did)
      BY <2>4 DEF RenewalOK, Renewing, Awaits
    <2> QED BY <2>2, <2>3, <2>4
  <1> QED BY <1>2

\* One that reads no lines, though it may add one.
LEMMA ReadersStay ==
  ASSUME SampleInv, NEW r \in Requests, Grown(r),
         \A s \in Requests \ {r} : app'[s] = app[s],
         app'[r] = app[r] \/ (app'[r].awaits \notin {"line", "end"}
                              /\ ~(app'[r].route = "reports" /\ app'[r].did))
  PROVE  \A s \in Requests : ReaderOK(s)'
  <1>1. ASSUME NEW s \in Requests PROVE ReaderOK(s)'
    <2>1. ReaderOK(s) /\ app[s] \in Apps /\ DataOK
      BY DEF SampleInv, Moving, AppsOK
    <2>2. CASE app'[s] = app[s]
      <3>1. /\ Len(lines) <= Len(lines') /\ Len(lines) \in Nat /\ Len(lines') \in Nat
            /\ \A n \in 0 .. Len(lines) : Counts'[n] = Counts[n]
        BY <2>1, LinesGrow
      <3>2. app[s].from \in Nat /\ app[s].read \in Nat
        BY <2>1 DEF Apps
      <3>3. app[s].awaits \in {"line", "end"} =>
              /\ app[s].from <= Len(lines') /\ app[s].read <= Len(lines')
              /\ app[s].value = Counts'[app[s].read]
        BY <2>1, <3>1, <3>2 DEF ReaderOK
      <3>4. app[s].route = "reports" /\ app[s].did =>
              \E n \in app[s].from .. Len(lines') : app[s].value = Counts'[n]
        <4> SUFFICES ASSUME app[s].route = "reports", app[s].did
                     PROVE  \E n \in app[s].from .. Len(lines') : app[s].value = Counts'[n]
          OBVIOUS
        <4>1. PICK n \in app[s].from .. Len(lines) : app[s].value = Counts[n]
          BY <2>1 DEF ReaderOK
        <4>2. n \in 0 .. Len(lines) /\ n \in app[s].from .. Len(lines')
          BY <3>1, <3>2
        <4> QED BY <3>1, <4>1, <4>2
      <3> QED BY <2>1, <2>2, <3>3, <3>4 DEF ReaderOK, Awaits
    <2>3. CASE app'[s] # app[s]
      BY <2>3 DEF ReaderOK, Awaits
    <2> QED BY <2>2, <2>3
  <1> QED BY <1>1

\* One that adds no line.
LEMMA ReportersStay ==
  ASSUME SampleInv, NEW r \in Requests, UNCHANGED lines,
         \A s \in Requests \ {r} : req'[s] = req[s] /\ app'[s] = app[s],
         req'[r].at \in Early => req[r].at \in Early,
         \/ app'[r] = app[r] /\ req'[r].gave = req[r].gave
         \/ app'[r].route \notin {"calc", "evaluate"}
         \/ req'[r].gave # 200
  PROVE  \A s \in Requests : ReporterOK(s)'
  <1>1. ASSUME NEW s \in Requests PROVE ReporterOK(s)'
    <2>1. ReporterOK(s)
      BY DEF SampleInv
    <2>2. CASE s = r
      BY <2>1, <2>2 DEF ReporterOK
    <2>3. CASE s # r
      BY <2>1, <2>3 DEF ReporterOK
    <2> QED BY <2>2, <2>3
  <1> QED BY <1>1

-----------------------------------------------------------------------------
(* The steps of the handlers.                                              *)

LEMMA DataStays ==
  ASSUME DataOK, NEW r \in Requests, Grown(r), UNCHANGED <<source, state>>,
         \A c \in cache' : c[1] = c[2]
  PROVE  DataOK'
  BY LinesGrow DEF DataOK

\* What calc and evaluate have in common.
LEMMA ReportMoves ==
  ASSUME SampleInv, NEW r \in Requests, req[r].at = "handling",
         app[r].route \in {"calc", "evaluate"},
         NEW a \in Apps, Knows(r, a), a.awaits = "nothing", a.route = app[r].route,
         NEW code \in {200, 400, 500, 501},
         IF code = 200 THEN Responds(r) ELSE Raises(r, code),
         UNCHANGED <<source, state>>, \A c \in cache' : c[1] = c[2],
         NEW n \in Int, NEW line, line = [by |-> r, number |-> a.did, result |-> n],
         lines' = Append(lines, line) \/ (UNCHANGED lines /\ code # 200)
  PROVE  SampleInv' /\ req'[r].gave = code /\ app'[r] = a
  <1>1. Moving /\ DataOK
    BY DEF SampleInv
  <1>2. /\ Moving' /\ req'[r].at \notin Early /\ req'[r].gave = code /\ app'[r] = a
        /\ \A s \in Requests \ {r} : req'[s] = req[s] /\ app'[s] = app[s]
    BY <1>1, Ends
  <1>3. Grown(r)
    <2>1. a.did \in BOOLEAN
      BY DEF Apps
    <2> QED BY <2>1 DEF Grown
  <1>4. DataOK'
    BY <1>1, <1>3, DataStays
  <1>5. \A s \in Requests : RenewalOK(s)' /\ ReaderOK(s)'
    BY <1>2, <1>3, RenewalsStay, ReadersStay
  <1>6. ASSUME NEW s \in Requests \ {r} PROVE ReporterOK(s)'
    <2>1. ReporterOK(s)
      BY DEF SampleInv
    <2>2. Len(lines) \in Nat /\ Len(lines') \in Nat /\ Len(lines) <= Len(lines')
      BY <1>1, <1>3, LinesGrow
    <2>3. \A i \in 1 .. Len(lines) : lines'[i] = lines[i]
      BY <1>1, <1>3, LinesGrow
    <2>4. \A i \in 1 .. Len(lines') : lines'[i].by = s => i \in 1 .. Len(lines)
      BY <1>1, <1>3, LinesGrow
    <2>5. req'[s] = req[s] /\ app'[s] = app[s]
      BY <1>2
    <2> QED BY <2>1, <2>2, <2>3, <2>4, <2>5 DEF ReporterOK
  <1>7. ReporterOK(r)'
    <2>1. ASSUME code = 200
          PROVE  \E i \in 1 .. Len(lines') :
                   /\ lines'[i].by = r /\ (lines'[i].number <=> a.did)
                   /\ \A j \in 1 .. Len(lines') : lines'[j].by = r => j = i
      <3>2. line.by = r /\ (line.number <=> a.did) /\ lines' = Append(lines, line)
        BY <2>1
      <3>3. lines \in Seq(Lines) /\ \A i \in 1 .. Len(lines) : lines[i].by # r
        BY DEF SampleInv, DataOK, ReporterOK, Early
      <3>4. PICK last \in Nat : last = Len(lines) + 1
        BY <3>3
      <3>5. last = Len(lines') /\ lines'[last] = line
        BY <3>2, <3>3, <3>4
      <3>6. \A j \in 1 .. Len(lines') : j # last => lines'[j] = lines[j] /\ j \in 1 .. Len(lines)
        BY <3>2, <3>3, <3>4
      <3> QED BY <3>2, <3>3, <3>4, <3>5, <3>6
    <2> QED BY <1>2, <2>1 DEF ReporterOK
  <1> QED BY <1>2, <1>4, <1>5, <1>6, <1>7 DEF SampleInv

\* The same without the line.
LEMMA Rejects ==
  ASSUME SampleInv, NEW r \in Requests, req[r].at = "handling",
         app[r].route \in {"calc", "evaluate"},
         NEW a \in Apps, Knows(r, a), a.awaits = "nothing", a.route = app[r].route,
         NEW code \in {400, 500}, Raises(r, code),
         UNCHANGED <<source, state, lines>>, \A c \in cache' : c[1] = c[2]
  PROVE  SampleInv' /\ req'[r].gave = code /\ app'[r] = a
  <1>0. PICK n \in Int : TRUE
    BY 0 \in Int
  <1>1. PICK line : line = [by |-> r, number |-> a.did, result |-> n]
    OBVIOUS
  <1>2. code # 200 /\ code \in {200, 400, 500, 501}
    OBVIOUS
  <1> QED BY <1>1, <1>2, ReportMoves

LEMMA Reported ==
  ASSUME SampleInv, NEW r \in Requests, req[r].at = "handling",
         app[r].route \in {"calc", "evaluate"},
         NEW a \in Apps, Knows(r, a), a.awaits = "nothing", a.route = app[r].route,
         Responds(r) \/ Raises(r, 400) \/ Raises(r, 500) \/ Raises(r, 501),
         UNCHANGED <<source, state>>, \A c \in cache' : c[1] = c[2],
         NEW n \in Int, lines' = Append(lines, [by |-> r, number |-> a.did, result |-> n])
  PROVE  SampleInv' /\ app'[r] = a
  <1>1. PICK line : line = [by |-> r, number |-> a.did, result |-> n]
    OBVIOUS
  <1>2. lines' = Append(lines, line)
    BY <1>1
  <1>3. PICK code \in {200, 400, 500, 501} : IF code = 200 THEN Responds(r) ELSE Raises(r, code)
    OBVIOUS
  <1> QED BY <1>1, <1>2, <1>3, ReportMoves

\* The line that a watched result leaves.
LEMMA WatchedAppends ==
  ASSUME NEW r \in Requests, NEW result, NEW reported,
         Watched(r, result, reported), ~Escapes(result, reported)
  PROVE  \E n \in Int :
           lines' = Append(lines, [by |-> r, number |-> result = "number", result |-> n])
  BY SampleAssumption DEF Watched, Escapes

\* Expressions are bound to the edition they were compiled under.
LEMMA CompiledCurrent ==
  ASSUME DataOK
  PROVE  Compiled(state) = state
  BY DEF DataOK, Compiled

LEMMA CalcMoves ==
  ASSUME SampleInv, NEW r \in Requests, Calc(r)
  PROVE  SampleInv'
  <1>1. Moving /\ DataOK /\ UNCHANGED <<source, state, cache>> /\ state \in Nat
        /\ \A c \in cache' : c[1] = c[2]
    BY DEF SampleInv, DataOK, Calc
  <1>2. req[r].at = "handling" /\ app[r].route \in {"calc", "evaluate"} /\ app[r].route = "calc" /\ app[r].awaits = "nothing"
        /\ app[r] \in Apps
    BY <1>1 DEF Calc, Called, At, Awaits, Moving, AppsOK
  <1>3. ASSUME Raises(r, 400), UNCHANGED <<lines, app>> PROVE SampleInv'
    <2>1. Knows(r, app[r])
      BY <1>1, <1>3 DEF Knows, Moving, AppsOK
    <2> QED BY <1>1, <1>2, <1>3, <2>1, Rejects
  <1>4. ASSUME NEW result, NEW reported \in BOOLEAN, Watched(r, result, reported),
               Knows(r, [app[r] EXCEPT !.value = state, !.did = (result = "number")]),
               IF Escapes(result, reported) THEN Raises(r, 500)
               ELSE IF result = "nothing" THEN Raises(r, 501) ELSE Responds(r)
        PROVE  SampleInv'
    <2>n. PICK number \in BOOLEAN : number = (result = "number")
      OBVIOUS
    <2>i. state \in Int
      BY <1>1
    <2>1. PICK a : a = [app[r] EXCEPT !.value = state, !.did = number]
      OBVIOUS
    <2>c. /\ a \in Apps /\ a.awaits = "nothing" /\ a.route = app[r].route
          /\ a.value = state
      BY <1>2, <2>n, <2>1, <2>i DEF Apps
    <2>a. a.did = number
      BY <1>2, <2>1 DEF Apps
    <2>2. /\ a \in Apps /\ a.awaits = "nothing" /\ a.route = app[r].route /\ Knows(r, a)
          /\ a.did = (result = "number")
      BY <1>4, <2>n, <2>1, <2>a, <2>c, Zenon
    <2>3. CASE Escapes(result, reported)
      <3>1. UNCHANGED lines /\ Raises(r, 500)
        BY <1>4, <2>3 DEF Watched
      <3> QED BY <1>1, <1>2, <2>2, <3>1, Rejects
    <2>4. CASE ~Escapes(result, reported)
      <3>1. PICK n \in Int : lines' = Append(lines, [by |-> r, number |-> a.did, result |-> n])
        BY <1>4, <2>2, <2>4, WatchedAppends
      <3>2. Raises(r, 501) \/ Responds(r)
        BY <1>4, <2>4
      <3> QED BY <1>1, <1>2, <2>2, <3>1, <3>2, Reported, Zenon
    <2> QED BY <2>3, <2>4
  <1> QED BY <1>3, <1>4 DEF Calc

\* An evaluation with this result.
Evaluated(r, result, reported) ==
  /\ Watched(r, result, reported)
  /\ cache' = IF result = "syntax" THEN cache ELSE cache \cup {<<state, Compiled(state)>>}
  /\ Knows(r, [app[r] EXCEPT !.value = Compiled(state), !.did = (result = "number")])
  /\ IF Escapes(result, reported) \/ result = "nothing" THEN Raises(r, 400)
     ELSE IF result = "promise" THEN Raises(r, 500) ELSE Responds(r)

\* With what /evaluate uses when it answers.
LEMMA EvaluateMoves ==
  ASSUME SampleInv, NEW r \in Requests, Evaluate(r)
  PROVE  SampleInv' /\ (req'[r].gave = 200 => app'[r].value = state)
  <1>1. Moving /\ DataOK /\ UNCHANGED <<source, state>> /\ state \in Nat
    BY DEF SampleInv, DataOK, Evaluate
  <1>2. req[r].at = "handling" /\ app[r].route \in {"calc", "evaluate"} /\ app[r].route = "evaluate" /\ app[r].awaits = "nothing"
        /\ app[r] \in Apps
    BY <1>1 DEF Evaluate, Called, At, Awaits, Moving, AppsOK
  <1>3. Compiled(state) = state /\ \A c \in cache : c[1] = c[2]
    BY <1>1, CompiledCurrent DEF DataOK
  <1>4. ASSUME Raises(r, 400), UNCHANGED <<lines, app, cache>>
        PROVE  SampleInv' /\ (req'[r].gave = 200 => app'[r].value = state)
    <2>1. Knows(r, app[r])
      BY <1>1, <1>4 DEF Knows, Moving, AppsOK
    <2>2. SampleInv' /\ req'[r].gave = 400
      BY <1>1, <1>2, <1>3, <1>4, <2>1, Rejects
    <2> QED BY <2>2
  <1>5. ASSUME NEW result, NEW reported, Evaluated(r, result, reported)
        PROVE  SampleInv' /\ (req'[r].gave = 200 => app'[r].value = state)
    <2>n. PICK number \in BOOLEAN : number = (result = "number")
      OBVIOUS
    <2>i. state \in Int
      BY <1>1
    <2>1. PICK a : a = [app[r] EXCEPT !.value = state, !.did = number]
      OBVIOUS
    <2>c. /\ a \in Apps /\ a.awaits = "nothing" /\ a.route = app[r].route
          /\ a.value = state
      BY <1>2, <2>n, <2>1, <2>i DEF Apps
    <2>a. a.did = number
      BY <1>2, <2>1 DEF Apps
    <2>b. Knows(r, [app[r] EXCEPT !.value = state, !.did = (result = "number")])
      BY <1>3, <1>5, Zenon DEF Evaluated
    <2>2. /\ a \in Apps /\ a.awaits = "nothing" /\ a.route = app[r].route /\ Knows(r, a)
          /\ a.value = state /\ a.did = (result = "number")
      BY <2>n, <2>1, <2>a, <2>b, <2>c, Zenon
    <2>3. \A c \in cache' : c[1] = c[2]
      BY <1>3, <1>5 DEF Evaluated
    <2>4. CASE Escapes(result, reported)
      <3>1. UNCHANGED lines /\ Raises(r, 400)
        BY <1>5, <2>4 DEF Evaluated, Watched
      <3>2. SampleInv' /\ app'[r] = a
        BY <1>1, <1>2, <2>2, <2>3, <3>1, Rejects
      <3> QED BY <2>2, <3>2
    <2>5. CASE ~Escapes(result, reported)
      <3>1. PICK n \in Int : lines' = Append(lines, [by |-> r, number |-> a.did, result |-> n])
        BY <1>5, <2>2, <2>5, WatchedAppends DEF Evaluated
      <3>2. Responds(r) \/ Raises(r, 400) \/ Raises(r, 500) \/ Raises(r, 501)
        BY <1>5, <2>5 DEF Evaluated
      <3>3. SampleInv' /\ app'[r] = a
        BY <1>1, <1>2, <2>2, <2>3, <3>1, <3>2, Reported, Zenon
      <3> QED BY <2>2, <3>3
    <2> QED BY <2>4, <2>5
  <1>6. CASE Raises(r, 400) /\ UNCHANGED <<lines, app, cache>>
    BY <1>4, <1>6
  <1>7. CASE ~(Raises(r, 400) /\ UNCHANGED <<lines, app, cache>>)
    <2>1. PICK result \in {"syntax", "throws", "nothing", "promise", "number"},
               reported \in BOOLEAN : Evaluated(r, result, reported)
      BY <1>7, Zenon DEF Evaluate, Evaluated
    <2> QED BY <1>5, <2>1
  <1> QED BY <1>6, <1>7

\* A step that neither touches the registry nor the file, nor answers calc or
\* evaluate, nor ends a renewal or a reading of the file.
LEMMA Bystander ==
  ASSUME SampleInv, NEW r \in Requests, Moving', UNCHANGED <<source, state, cache, lines>>,
         \A s \in Requests \ {r} : req'[s] = req[s] /\ app'[s] = app[s],
         req'[r].at \in Early => req[r].at \in Early,
         app'[r] = app[r] \/ (app'[r].awaits \notin {"fetch", "import", "line", "end"} /\ ~app'[r].did),
         \/ app'[r] = app[r] /\ req'[r].gave = req[r].gave
         \/ app'[r].route \notin {"calc", "evaluate"}
         \/ req'[r].gave # 200
  PROVE  SampleInv'
  <1>1. DataOK /\ Grown(r)
    BY DEF SampleInv, Grown
  <1>2. DataOK'
    BY <1>1 DEF DataOK
  <1>3. \A s \in Requests : RenewalOK(s)' /\ ReaderOK(s)' /\ ReporterOK(s)'
    BY <1>1, RenewalsStay, ReadersStay, ReportersStay
  <1> QED BY <1>2, <1>3 DEF SampleInv

LEMMA PassageStays ==
  ASSUME SampleInv, NEW r \in Requests, Passage(r) \/ Client(r)
  PROVE  SampleInv'
  <1>1. Moving
    BY DEF SampleInv
  <1>2. /\ UNCHANGED <<source, state, cache, lines, app>>
        /\ \A s \in Requests \ {r} : req'[s] = req[s]
        /\ req'[r].at \in Early => req[r].at \in Early
        /\ app[r] = NoApp \/ req'[r].gave = req[r].gave
    BY <1>1, PassageKeeps
  <1>3. Moving'
    BY <1>1, PassageMoves
  <1>4. NoApp.route \notin {"calc", "evaluate"}
    BY NoAppFacts
  <1> QED BY <1>2, <1>3, <1>4, Bystander

LEMMA RoutedStays ==
  ASSUME SampleInv, NEW r \in Requests, Routed(r)
  PROVE  SampleInv'
  <1>1. Moving /\ UNCHANGED <<source, state, cache, lines>> /\ req[r].at = "route"
    BY DEF SampleInv, Routed, Look, At
  <1>2. Moving'
    BY <1>1, RoutedMoves
  <1>3. req[r].at \in Early /\ app[r] = NoApp /\ NoApp.route = "none"
    BY <1>1, Looked, NoAppFacts DEF Early
  <1>4. \E p : Becomes(r, p)
    BY DEF Routed, Look
  <1>5. \A s \in Requests \ {r} : req'[s] = req[s]
    BY <1>1, <1>4 DEF Becomes, Moving, RequestsOK
  <1>6. ASSUME NEW found, Look(r, found), UNCHANGED app PROVE SampleInv'
    BY <1>1, <1>2, <1>3, <1>5, <1>6, Bystander
  <1>7. ASSUME NEW route \in {"calc", "evaluate", "renew", "reports"},
               Look(r, "handler"), Knows(r, [app[r] EXCEPT !.route = route])
        PROVE  SampleInv'
    <2>1. PICK a : a = [app[r] EXCEPT !.route = route]
      OBVIOUS
    <2>2. a.awaits = "nothing" /\ ~a.did
      BY <1>3, <2>1, NoAppFacts DEF NoApp
    <2>3. app'[r] = a /\ \A s \in Requests \ {r} : app'[s] = app[s]
      BY <1>1, <1>7, <2>1 DEF Knows, Moving, AppsOK
    <2>4. PICK p : Becomes(r, p) /\ RequestOK(p) /\ p.at = "handling" /\ p.way = req[r].way
      BY <1>1, <1>7, LookedUp
    <2>5. req'[r] = p /\ req[r].way \in {"server", "direct"}
      BY <1>1, <2>4, Looked, BecomesOK DEF Moving
    <2>6. req'[r].gave = 0
      BY <2>4, <2>5 DEF RequestOK, ServerOK, DirectOK, Untouched
    <2> QED BY <1>1, <1>2, <1>3, <1>5, <2>2, <2>3, <2>6, Bystander
  <1> QED BY <1>6, <1>7 DEF Routed

\* A renewal or a reading of the file that ends without its result.
LEMMA EndsInVain ==
  ASSUME SampleInv, NEW r \in Requests, req[r].at = "handling",
         app[r].route \in {"renew", "reports"}, Responds(r),
         UNCHANGED <<source, state, cache, lines>>,
         NEW a \in Apps, Knows(r, a), a.awaits = "nothing", ~a.did, a.route = app[r].route
  PROVE  SampleInv'
  <1>1. Moving
    BY DEF SampleInv
  <1>2. 200 \in {200, 400, 500, 501} /\ app[r].route # "none"
    OBVIOUS
  <1>3. /\ Moving' /\ req'[r].at \notin Early /\ app'[r] = a
        /\ \A s \in Requests \ {r} : req'[s] = req[s] /\ app'[s] = app[s]
    BY <1>1, <1>2, Ends
  <1> QED BY <1>3, Bystander

LEMMA RenewFailsStays ==
  ASSUME SampleInv, NEW r \in Requests, RenewFails(r)
  PROVE  SampleInv'
  <1>1. Moving /\ UNCHANGED <<source, state, cache, lines>> /\ app[r].awaits \in {"fetch", "import"}
        /\ Responds(r)
    BY DEF SampleInv, RenewFails, Renewing, Awaits
  <1>2. app[r] \in Apps /\ Linked(req[r], app[r])
    BY <1>1 DEF Moving, AppsOK
  <1>3. req[r].at = "handling" /\ app[r].route = "renew" /\ ~app[r].did
    BY <1>1, <1>2 DEF Linked
  <1>4. PICK a : a = [app[r] EXCEPT !.awaits = "nothing"]
    OBVIOUS
  <1>5. a \in Apps /\ a.awaits = "nothing" /\ ~a.did /\ a.route = "renew"
    BY <1>2, <1>3, <1>4 DEF Apps
  <1>6. Knows(r, a)
    BY <1>4 DEF RenewFails
  <1> QED BY <1>1, <1>3, <1>5, <1>6, EndsInVain

\* The other handlers that begin or go on leave the requests as they are.
LEMMA ReportersWait ==
  ASSUME SampleInv, UNCHANGED <<req, lines>>,
         \A s \in Requests : app'[s] = app[s] \/ (app'[s].route = app[s].route
                                                  /\ app[s].route \notin {"calc", "evaluate"})
  PROVE  \A s \in Requests : ReporterOK(s)'
  BY DEF SampleInv, ReporterOK

\* A renewal begins, and knows when those under way did.
LEMMA RenewStays ==
  ASSUME SampleInv, NEW r \in Requests, Renew(r)
  PROVE  SampleInv'
  <1> DEFINE others == {q \in Requests : Renewing(q)}
             known == {source} \cup {app[q].from : q \in others}
  <1>1. Moving /\ DataOK /\ UNCHANGED <<source, state, cache, lines>>
        /\ req[r].at = "handling" /\ app[r].route = "renew" /\ app[r].awaits = "nothing"
    BY DEF SampleInv, Renew, Called, At, Awaits
  <1>2. app \in [Requests -> Apps] /\ Linked(req[r], app[r])
    BY <1>1 DEF Moving, AppsOK
  <1>3. ~app[r].did /\ r \notin others /\ req[r].way # "plain"
    BY <1>1, <1>2, NoAppFacts DEF Linked, Renewing, Awaits
  <1>4. ASSUME Responds(r), UNCHANGED app PROVE SampleInv'
    <2>1. Knows(r, app[r]) /\ app[r] \in Apps
      BY <1>2, <1>4 DEF Knows
    <2> QED BY <1>1, <1>3, <1>4, <2>1, EndsInVain
  <1>5. ASSUME UNCHANGED req,
               Knows(r, [app[r] EXCEPT !.awaits = "fetch", !.from = source, !.since = known])
        PROVE  SampleInv'
    <2>1. PICK k : k = known
      OBVIOUS
    <2>2. k \in SUBSET Nat /\ source \in k
      <3>1. \A q \in others : app[q].from \in Nat
        BY <1>2 DEF Apps
      <3> QED BY <1>1, <2>1, <3>1 DEF DataOK
    <2>3. \A q \in Requests : Renewing(q) => app[q].from \in k
      BY <2>1
    <2>4. PICK a : a = [app[r] EXCEPT !.awaits = "fetch", !.from = source, !.since = k]
      OBVIOUS
    <2>5. Knows(r, a)
      BY <1>5, <2>1, <2>4
    <2> HIDE DEF known, others
    <2>6. /\ a \in Apps /\ a.awaits = "fetch" /\ a.from = source /\ a.since = k /\ a.route = "renew"
      BY <1>1, <1>2, <2>2, <2>4 DEF Apps, DataOK
    <2>7. ~a.did
      BY <1>2, <1>3, <2>4 DEF Apps
    <2>8. Linked(req[r], a)
      BY <1>1, <1>3, <2>6, <2>7 DEF Linked
    <2>9. Moving' /\ app'[r] = a /\ \A s \in Requests \ {r} : app'[s] = app[s]
      BY <1>1, <1>5, <2>5, <2>6, <2>8, Continues
    <2>10. ASSUME NEW q \in Requests, Renewing(q)'
           PROVE  (q = r \/ (Renewing(q) /\ app'[q] = app[q])) /\ app'[q].from \in k
      <3>1. q = r => app'[q].from = source
        BY <2>6, <2>9
      <3>2. q # r => Renewing(q) /\ app'[q] = app[q]
        BY <2>9, <2>10 DEF Renewing, Awaits
      <3> QED BY <2>2, <2>3, <3>1, <3>2
    <2>11. ASSUME NEW s \in Requests PROVE RenewalOK(s)'
      <3>1. CASE s = r
        <4>1. ~Awaits(s, "import")' /\ ~app'[s].did /\ app'[s].from = source /\ app'[s].since = k
          BY <2>6, <2>7, <2>9, <3>1 DEF Awaits
        <4>2. \A q \in Requests : Renewing(q)' => \E e \in k : e <= app'[q].from
          <5>1. \A e \in k : e <= e
            BY <2>2
          <5> QED BY <2>10, <5>1
        <4> QED BY <1>1, <2>2, <4>1, <4>2 DEF RenewalOK, DataOK
      <3>2. CASE s # r
        <4>1. RenewalOK(s) /\ app'[s] = app[s] /\ app[s] \in Apps
          BY <1>2, <2>9, <3>2 DEF SampleInv
        <4>2. Renewing(s)' = Renewing(s) /\ Awaits(s, "import")' = Awaits(s, "import")
          BY <4>1 DEF Renewing, Awaits
        <4>3. ASSUME Renewing(s) \/ (app[s].route = "renew" /\ app[s].did),
                     NEW q \in Requests, Renewing(q)'
              PROVE  \E e \in app[s].since : e <= app'[q].from
          <5>1. CASE q = r
            <6>1. app'[q].from = source /\ source \in Nat /\ state \in Nat /\ state <= source
              BY <1>1, <2>6, <2>9, <5>1 DEF DataOK
            <6>2. \E e \in app[s].since : e <= source
              <7>1. \A e \in app[s].since : e \in Nat
                BY <4>1 DEF Apps
              <7> QED BY <4>1, <4>3, <6>1, <7>1 DEF RenewalOK
            <6> QED BY <6>1, <6>2
          <5>2. CASE q # r
            BY <2>10, <4>1, <4>3, <5>2 DEF RenewalOK
          <5> QED BY <5>1, <5>2
        <4> QED BY <1>1, <4>1, <4>2, <4>3 DEF RenewalOK
      <3> QED BY <3>1, <3>2
    <2>12. \A s \in Requests : ReaderOK(s)'
      BY <1>1, <2>6, <2>9, ReadersStay DEF Grown
    <2>13. \A s \in Requests : ReporterOK(s)'
      BY <1>1, <1>5, <2>6, <2>9, ReportersWait
    <2>14. DataOK'
      BY <1>1 DEF DataOK
    <2> QED BY <2>9, <2>11, <2>12, <2>13, <2>14 DEF SampleInv
  <1> QED BY <1>4, <1>5 DEF Renew

\* A handler that waits for a server.
LEMMA RenewingFacts ==
  ASSUME SampleInv, NEW r \in Requests, app[r].awaits \in {"fetch", "import"}
  PROVE  /\ Moving /\ DataOK /\ app[r] \in Apps /\ ~app[r].did /\ app[r].route = "renew"
         /\ req[r].at = "handling" /\ req[r].way # "plain" /\ Linked(req[r], app[r])
         /\ RenewalOK(r) /\ Renewing(r)
  <1>1. Moving /\ DataOK /\ app[r] \in Apps /\ Linked(req[r], app[r]) /\ RenewalOK(r)
    BY DEF SampleInv, Moving, AppsOK
  <1>2. Renewing(r)
    BY DEF Renewing, Awaits
  <1> QED BY <1>1, <1>2, NoAppFacts DEF Linked

LEMMA FetchedStays ==
  ASSUME SampleInv, NEW r \in Requests, Fetched(r)
  PROVE  SampleInv'
  <1>1. /\ app[r].awaits = "fetch" /\ UNCHANGED <<req, source, state, cache, lines>>
        /\ Knows(r, [app[r] EXCEPT !.awaits = "import", !.value = source])
    BY DEF Fetched, Awaits
  <1>2. /\ Moving /\ DataOK /\ app[r] \in Apps /\ ~app[r].did /\ app[r].route = "renew"
        /\ req[r].at = "handling" /\ req[r].way # "plain" /\ Linked(req[r], app[r])
        /\ RenewalOK(r) /\ Renewing(r)
    BY <1>1, RenewingFacts
  <1>3. PICK a : a = [app[r] EXCEPT !.awaits = "import", !.value = source]
    OBVIOUS
  <1>4. /\ a \in Apps /\ a.awaits = "import" /\ a.value = source /\ a.from = app[r].from
        /\ a.since = app[r].since /\ a.route = "renew"
    <2>1. source \in Int
      BY <1>2 DEF DataOK
    <2> QED BY <1>2, <1>3, <2>1 DEF Apps
  <1>5. ~a.did
    BY <1>2, <1>3 DEF Apps
  <1>6. Knows(r, a)
    BY <1>1, <1>3
  <1>7. Linked(req[r], a)
    BY <1>2, <1>4, <1>5 DEF Linked
  <1>8. Moving' /\ app'[r] = a /\ \A s \in Requests \ {r} : app'[s] = app[s]
    BY <1>1, <1>2, <1>4, <1>6, <1>7, Continues
  <1>9. \A s \in Requests : (Renewing(s)' <=> Renewing(s)) /\ app'[s].from = app[s].from
                              /\ app'[s].since = app[s].since
    BY <1>1, <1>4, <1>8 DEF Renewing, Awaits
  <1>10. ASSUME NEW s \in Requests PROVE RenewalOK(s)'
    <2>1. CASE s = r
      BY <1>1, <1>2, <1>4, <1>5, <1>8, <1>9, <2>1 DEF RenewalOK, DataOK, Apps
    <2>2. CASE s # r
      <3>1. RenewalOK(s)
        BY DEF SampleInv
      <3> QED BY <1>1, <1>8, <1>9, <2>2, <3>1 DEF RenewalOK, Awaits
    <2> QED BY <2>1, <2>2
  <1>11. \A s \in Requests : ReaderOK(s)'
    BY <1>1, <1>4, <1>8, ReadersStay DEF Grown
  <1>12. \A s \in Requests : app'[s] = app[s] \/ (app'[s].route = app[s].route
                                                  /\ app[s].route \notin {"calc", "evaluate"})
    BY <1>2, <1>4, <1>8
  <1>13. \A s \in Requests : ReporterOK(s)'
    BY <1>1, <1>12, ReportersWait
  <1>14. DataOK'
    BY <1>1, <1>2 DEF DataOK
  <1> QED BY <1>8, <1>10, <1>11, <1>13, <1>14 DEF SampleInv

\* A renewal has worked: what it leaves is no older than its own beginning, which
\* whoever worked before it knows or began before.
LEMMA ImportedStays ==
  ASSUME SampleInv, NEW r \in Requests, Imported(r)
  PROVE  SampleInv'
  <1>1. /\ app[r].awaits = "import" /\ UNCHANGED <<source, cache, lines>> /\ state' = app[r].value
        /\ Knows(r, [app[r] EXCEPT !.awaits = "nothing", !.did = TRUE]) /\ Responds(r)
    BY DEF Imported, Awaits
  <1>2. /\ Moving /\ DataOK /\ app[r] \in Apps /\ app[r].route = "renew"
        /\ req[r].at = "handling" /\ RenewalOK(r) /\ Renewing(r)
    BY <1>1, RenewingFacts
  <1>3. PICK a : a = [app[r] EXCEPT !.awaits = "nothing", !.did = TRUE]
    OBVIOUS
  <1>4. /\ a \in Apps /\ a.awaits = "nothing" /\ a.value = app[r].value /\ a.from = app[r].from
        /\ a.since = app[r].since /\ a.route = "renew"
    BY <1>2, <1>3 DEF Apps
  <1>6. Knows(r, a) /\ 200 \in {200, 400, 500, 501} /\ app[r].route # "none"
    BY <1>1, <1>2, <1>3
  <1>7. /\ Moving' /\ req'[r].at \notin Early /\ app'[r] = a
        /\ \A s \in Requests \ {r} : req'[s] = req[s] /\ app'[s] = app[s]
    BY <1>1, <1>2, <1>4, <1>6, Ends
  <1>8. \A s \in Requests : Renewing(s)' <=> Renewing(s) /\ s # r
    BY <1>4, <1>7 DEF Renewing, Awaits
  <1>9. app[r].from <= state' /\ state' <= source /\ state' \in Nat /\ source \in Nat
    BY <1>1, <1>2 DEF RenewalOK, Awaits, DataOK, Apps
  <1>5. \A q \in Requests : Renewing(q)' => Renewing(q) /\ app'[q].from = app[q].from
    BY <1>7, <1>8
  <1>10. ASSUME NEW s \in Requests PROVE RenewalOK(s)'
    <2>1. CASE s = r
      <3>1. \E e \in a.since : e <= state'
        BY <1>2, <1>4, <1>9 DEF RenewalOK
      <3>2. ~Renewing(r)' /\ ~Awaits(r, "import")'
        BY <1>8 DEF Renewing
      <3>3. \A q \in Requests : Renewing(q)' => \E e \in a.since : e <= app'[q].from
        BY <1>2, <1>4, <1>5 DEF RenewalOK
      <3> QED BY <1>7, <2>1, <3>1, <3>2, <3>3 DEF RenewalOK
    <2>2. CASE s # r
      <3>1. RenewalOK(s) /\ app'[s] = app[s] /\ app[s] \in Apps
        BY <1>2, <1>7, <2>2 DEF SampleInv, Moving, AppsOK
      <3>2. ASSUME app[s].route = "renew", app[s].did PROVE \E e \in app[s].since : e <= state'
        <4>1. PICK e \in app[s].since : e <= app[r].from
          BY <1>2, <3>1, <3>2 DEF RenewalOK
        <4>2. e \in Nat /\ app[r].from \in Nat
          BY <1>2, <3>1 DEF Apps
        <4> QED BY <1>9, <4>1, <4>2
      <3>3. Renewing(s)' <=> Renewing(s)
        BY <1>8, <2>2
      <3>4. Awaits(s, "import")' <=> Awaits(s, "import")
        BY <3>1 DEF Awaits
      <3> QED BY <1>1, <1>5, <3>1, <3>2, <3>3, <3>4 DEF RenewalOK
    <2> QED BY <2>1, <2>2
  <1>11. \A s \in Requests : ReaderOK(s)'
    BY <1>1, <1>4, <1>7, ReadersStay DEF Grown
  <1>12. \A s \in Requests : ReporterOK(s)'
    BY <1>1, <1>4, <1>7, ReportersStay
  <1>13. DataOK'
    BY <1>1, <1>2, <1>9 DEF DataOK
  <1> QED BY <1>7, <1>10, <1>11, <1>12, <1>13 DEF SampleInv

\* A reader of the file goes on, or ends with its sum.
LEMMA ReaderMoves ==
  ASSUME SampleInv, NEW r \in Requests, app[r].route = "reports",
         UNCHANGED <<source, state, cache, lines>>, Moving',
         \A s \in Requests \ {r} : req'[s] = req[s] /\ app'[s] = app[s],
         req'[r].at \in Early => req[r].at \in Early,
         app'[r].route = "reports", app'[r].awaits \notin {"fetch", "import"},
         ReaderOK(r)'
  PROVE  SampleInv'
  <1>1. \A s \in Requests : RenewalOK(s)' /\ ReporterOK(s)'
    BY RenewalsStay, ReportersStay
  <1>2. ASSUME NEW s \in Requests \ {r} PROVE ReaderOK(s)'
    <2>1. ReaderOK(s) /\ app'[s] = app[s]
      BY DEF SampleInv
    <2> QED BY <2>1 DEF ReaderOK, Awaits, Counts
  <1>3. DataOK'
    BY DEF SampleInv, DataOK
  <1> QED BY <1>1, <1>2, <1>3 DEF SampleInv

LEMMA ReportsStays ==
  ASSUME SampleInv, NEW r \in Requests, Reports(r)
  PROVE  SampleInv'
  <1>1. /\ req[r].at = "handling" /\ app[r].route = "reports" /\ app[r].awaits = "nothing"
        /\ UNCHANGED <<req, source, state, cache, lines>> /\ Moving /\ DataOK
    BY DEF SampleInv, Reports, Called, At, Awaits
  <1>2. /\ app[r] \in Apps /\ ~app[r].did /\ app[r].read = 0 /\ app[r].value = 0
        /\ Linked(req[r], app[r]) /\ req[r].way # "plain"
    BY <1>1, NoAppFacts DEF Moving, AppsOK, Linked
  <1>3. PICK n \in Nat : n = Len(lines)
    BY <1>1, CountsKnown
  <1>4. PICK a : a = [app[r] EXCEPT !.awaits = "line", !.from = n]
    OBVIOUS
  <1>5. /\ a \in Apps /\ a.awaits = "line" /\ a.from = n /\ a.value = 0 /\ a.read = 0
        /\ a.route = "reports"
    BY <1>1, <1>2, <1>3, <1>4 DEF Apps
  <1>6. ~a.did
    BY <1>2, <1>4 DEF Apps
  <1>7. Knows(r, a)
    BY <1>3, <1>4, Zenon DEF Reports
  <1>8. Linked(req[r], a)
    BY <1>1, <1>2, <1>5, <1>6 DEF Linked
  <1>9. Moving' /\ app'[r] = a /\ \A s \in Requests \ {r} : app'[s] = app[s]
    BY <1>1, <1>5, <1>7, <1>8, Continues
  <1>10. Counts' = Counts /\ Counts[0] = 0
    BY <1>1, CountsKnown DEF Counts, Adding
  <1>11. ReaderOK(r)'
    BY <1>1, <1>3, <1>5, <1>6, <1>9, <1>10 DEF ReaderOK, Awaits
  <1> QED BY <1>1, <1>5, <1>9, <1>11, ReaderMoves

LEMMA ReadingFacts ==
  ASSUME SampleInv, NEW r \in Requests, app[r].awaits \in {"line", "end"}
  PROVE  /\ Moving /\ DataOK /\ app[r] \in Apps /\ ~app[r].did /\ app[r].route = "reports"
         /\ req[r].at = "handling" /\ req[r].way # "plain"
         /\ app[r].from <= Len(lines) /\ app[r].read <= Len(lines)
         /\ app[r].value = Counts[app[r].read]
         /\ app[r].awaits = "end" => app[r].from <= app[r].read
         /\ app[r].read \in Nat /\ app[r].value \in Int /\ app[r].from \in Nat
         /\ Len(lines) \in Nat
  <1>1. Moving /\ DataOK /\ app[r] \in Apps /\ Linked(req[r], app[r]) /\ ReaderOK(r)
    BY DEF SampleInv, Moving, AppsOK
  <1>2. app[r].read \in Nat /\ app[r].value \in Int /\ app[r].from \in Nat
    BY <1>1 DEF Apps
  <1>3. /\ app[r].from <= Len(lines) /\ app[r].read <= Len(lines)
        /\ app[r].value = Counts[app[r].read]
        /\ app[r].awaits = "end" => app[r].from <= app[r].read
    BY <1>1 DEF ReaderOK, Awaits
  <1>4. Len(lines) \in Nat
    BY <1>1, CountsKnown
  <1> QED BY <1>1, <1>2, <1>3, <1>4, NoAppFacts DEF Linked

LEMMA ReadLineStays ==
  ASSUME SampleInv, NEW r \in Requests, ReadLine(r)
  PROVE  SampleInv'
  <1>1. /\ app[r].awaits = "line" /\ app[r].read < Len(lines)
        /\ UNCHANGED <<req, source, state, cache, lines>>
    BY DEF ReadLine, Awaits
  <1>2. /\ Moving /\ DataOK /\ app[r] \in Apps /\ ~app[r].did /\ app[r].route = "reports"
        /\ req[r].at = "handling" /\ req[r].way # "plain"
        /\ app[r].from <= Len(lines) /\ app[r].value = Counts[app[r].read]
        /\ app[r].read \in Nat /\ app[r].value \in Int /\ Len(lines) \in Nat
    BY <1>1, ReadingFacts
  <1>3. PICK n \in 1 .. Len(lines) : n = app[r].read + 1
    BY <1>1, <1>2
  <1>4. Counts[n] = Counts[n - 1] + Adds(lines[n]) /\ Counts[n] \in Int
    BY <1>2, <1>3, CountsKnown DEF Adding
  <1>5. PICK v \in Int : v = Counts[n]
    BY <1>4
  <1>6. v = app[r].value + Adds(lines[app[r].read + 1])
    BY <1>2, <1>3, <1>4, <1>5
  <1>7. PICK a : a = [app[r] EXCEPT !.read = n, !.value = v]
    OBVIOUS
  <1>8. Knows(r, a)
    <2>1. a = [app[r] EXCEPT !.read = @ + 1, !.value = @ + Adds(lines[app[r].read + 1])]
      BY <1>2, <1>3, <1>6, <1>7 DEF Apps
    <2> QED BY <2>1 DEF ReadLine
  <1>9. /\ a \in Apps /\ a.awaits = "line" /\ a.from = app[r].from /\ a.value = v /\ a.read = n
        /\ a.route = "reports"
    <2>1. n \in Nat /\ v \in Int
      BY <1>2
    <2> QED BY <1>1, <1>2, <1>7, <2>1 DEF Apps
  <1>10. ~a.did
    BY <1>2, <1>7 DEF Apps
  <1>11. Linked(req[r], a)
    BY <1>2, <1>9, <1>10 DEF Linked
  <1>12. Moving' /\ app'[r] = a /\ \A s \in Requests \ {r} : app'[s] = app[s]
    BY <1>1, <1>2, <1>8, <1>9, <1>11, Continues
  <1>13. Counts' = Counts
    BY <1>1 DEF Counts
  <1>14. ReaderOK(r)'
    BY <1>1, <1>2, <1>3, <1>5, <1>9, <1>10, <1>12, <1>13 DEF ReaderOK, Awaits
  <1> QED BY <1>1, <1>2, <1>9, <1>12, <1>14, ReaderMoves

LEMMA FileEndsStays ==
  ASSUME SampleInv, NEW r \in Requests, FileEnds(r)
  PROVE  SampleInv'
  <1>1. /\ app[r].awaits = "line" /\ app[r].read = Len(lines)
        /\ UNCHANGED <<req, source, state, cache, lines>>
    BY DEF FileEnds, Awaits
  <1>2. /\ Moving /\ DataOK /\ app[r] \in Apps /\ ~app[r].did /\ app[r].route = "reports"
        /\ req[r].at = "handling" /\ req[r].way # "plain"
        /\ app[r].from <= Len(lines) /\ app[r].value = Counts[app[r].read]
        /\ app[r].read \in Nat /\ app[r].from \in Nat
    BY <1>1, ReadingFacts
  <1>3. PICK a : a = [app[r] EXCEPT !.awaits = "end"]
    OBVIOUS
  <1>4. /\ a \in Apps /\ a.awaits = "end" /\ a.from = app[r].from /\ a.value = app[r].value
        /\ a.read = app[r].read /\ a.route = "reports"
    BY <1>2, <1>3 DEF Apps
  <1>5. ~a.did
    BY <1>2, <1>3 DEF Apps
  <1>6. Linked(req[r], a) /\ Knows(r, a)
    BY <1>2, <1>3, <1>4, <1>5 DEF Linked, FileEnds
  <1>7. Moving' /\ app'[r] = a /\ \A s \in Requests \ {r} : app'[s] = app[s]
    BY <1>1, <1>2, <1>4, <1>6, Continues
  <1>8. Counts' = Counts
    BY <1>1 DEF Counts
  <1>9. ReaderOK(r)'
    BY <1>1, <1>2, <1>4, <1>5, <1>7, <1>8 DEF ReaderOK, Awaits
  <1> QED BY <1>1, <1>2, <1>4, <1>7, <1>9, ReaderMoves

LEMMA ReadEndsStays ==
  ASSUME SampleInv, NEW r \in Requests, ReadEnds(r)
  PROVE  SampleInv'
  <1>1. /\ app[r].awaits \in {"line", "end"} /\ UNCHANGED <<source, state, cache, lines>>
        /\ Responds(r)
    BY DEF ReadEnds, Awaits
  <1>2. /\ Moving /\ DataOK /\ app[r] \in Apps /\ ~app[r].did /\ app[r].route = "reports"
        /\ req[r].at = "handling"
        /\ app[r].read <= Len(lines) /\ app[r].value = Counts[app[r].read]
        /\ app[r].awaits = "end" => app[r].from <= app[r].read
        /\ app[r].read \in Nat /\ app[r].from \in Nat /\ Len(lines) \in Nat
        /\ 200 \in {200, 400, 500, 501} /\ app[r].route # "none"
    BY <1>1, ReadingFacts
  <1>3. ASSUME app[r].awaits = "end",
               Knows(r, [app[r] EXCEPT !.awaits = "nothing", !.did = TRUE])
        PROVE  SampleInv'
    <2>1. PICK a : a = [app[r] EXCEPT !.awaits = "nothing", !.did = TRUE]
      OBVIOUS
    <2>2. /\ a \in Apps /\ a.awaits = "nothing" /\ a.value = app[r].value
          /\ a.from = app[r].from /\ a.route = "reports"
      BY <1>2, <2>1 DEF Apps
    <2>3. Knows(r, a)
      BY <1>3, <2>1
    <2>4. /\ Moving' /\ req'[r].at \notin Early /\ app'[r] = a
          /\ \A s \in Requests \ {r} : req'[s] = req[s] /\ app'[s] = app[s]
      BY <1>1, <1>2, <2>2, <2>3, Ends
    <2>5. Counts' = Counts
      BY <1>1 DEF Counts
    <2>6. PICK n \in app[r].from .. Len(lines) : n = app[r].read
      BY <1>2, <1>3
    <2>7. ReaderOK(r)'
      BY <1>1, <1>2, <2>2, <2>4, <2>5, <2>6 DEF ReaderOK, Awaits
    <2> QED BY <1>1, <1>2, <2>2, <2>4, <2>7, ReaderMoves
  <1>4. ASSUME Knows(r, [app[r] EXCEPT !.awaits = "nothing", !.value = 0])
        PROVE  SampleInv'
    <2>z. PICK zero : zero = 0
      OBVIOUS
    <2>1. PICK a : a = [app[r] EXCEPT !.awaits = "nothing", !.value = zero]
      OBVIOUS
    <2>2. zero \in Int
      BY <2>z
    <2>3. a \in Apps /\ a.awaits = "nothing" /\ a.route = "reports" /\ ~a.did
      BY <1>2, <2>1, <2>2 DEF Apps
    <2>4. Knows(r, a)
      BY <1>4, <2>z, <2>1
    <2> QED BY <1>1, <1>2, <2>3, <2>4, EndsInVain
  <1>5. Awaits(r, "end") => app[r].awaits = "end"
    BY DEF Awaits
  <1> QED BY <1>3, <1>4, <1>5 DEF ReadEnds

-----------------------------------------------------------------------------
(* The specification.                                                      *)

LEMMA SampleInitOK == SampleInit => SampleInv
  <1> SUFFICES ASSUME SampleInit PROVE SampleInv
    OBVIOUS
  <1>1. Moving
    BY MovingInit
  <1>2. /\ source = 1 /\ state = 0 /\ cache = {<<0, 0>>} /\ lines = OldLines
        /\ \A r \in Requests : app[r] = NoApp
    BY DEF SampleInit
  <1>3. lines \in Seq(Lines) /\ \A i \in 1 .. Len(lines) : lines[i].by = "before"
    <2> DEFINE Old == [by : {"before"}, number : BOOLEAN, result : Int]
    <2>1. \A line \in Old : line \in Lines /\ line.by = "before"
      BY DEF Lines
    <2>2. lines \in Seq(Old)
      BY <1>2, SampleAssumption
    <2> HIDE DEF Old
    <2>3. \A i \in 1 .. Len(lines) : lines[i] \in Old
      BY <2>2
    <2> QED BY <2>1, <2>2, <2>3
  <1>4. DataOK
    BY <1>2, <1>3 DEF DataOK
  <1>5. ASSUME NEW r \in Requests PROVE RenewalOK(r) /\ ReaderOK(r) /\ ReporterOK(r)
    <2>1. app[r] = NoApp /\ r # "before"
      BY <1>2, SampleAssumption
    <2> QED BY <1>3, <2>1, NoAppFacts DEF RenewalOK, ReaderOK, ReporterOK, Renewing, Awaits
  <1> QED BY <1>1, <1>4, <1>5 DEF SampleInv

LEMMA EditStays == SampleInv /\ Edit => SampleInv'
  <1> SUFFICES ASSUME SampleInv, Edit PROVE SampleInv'
    OBVIOUS
  <1>1. /\ source' = source + 1 /\ UNCHANGED <<req, state, cache, lines, app>>
        /\ Moving /\ DataOK /\ source \in Nat /\ state \in Nat
    BY DEF Edit, SampleInv, DataOK
  <1>2. Moving'
    BY <1>1 DEF Moving, RequestsOK, RequestOK, AppsOK, Linked
  <1>3. DataOK'
    BY <1>1 DEF DataOK
  <1>4. ASSUME NEW r \in Requests PROVE RenewalOK(r)' /\ ReaderOK(r)' /\ ReporterOK(r)'
    <2>1. RenewalOK(r) /\ ReaderOK(r) /\ ReporterOK(r) /\ app[r] \in Apps
      BY <1>1 DEF SampleInv, Moving, AppsOK
    <2>2. RenewalOK(r)'
      BY <1>1, <2>1 DEF RenewalOK, Renewing, Awaits, Apps
    <2>3. ReaderOK(r)'
      BY <1>1, <2>1 DEF ReaderOK, Awaits, Counts
    <2>4. ReporterOK(r)'
      BY <1>1, <2>1 DEF ReporterOK
    <2> QED BY <2>2, <2>3, <2>4
  <1> QED BY <1>2, <1>3, <1>4 DEF SampleInv

LEMMA SampleStep == SampleInv /\ [SampleNext]_sampleVars => SampleInv'
  <1> SUFFICES ASSUME SampleInv, [SampleNext]_sampleVars PROVE SampleInv'
    OBVIOUS
  <1>1. CASE UNCHANGED sampleVars
    <2>1. UNCHANGED <<req, source, state, cache, lines, app>>
      BY <1>1 DEF sampleVars
    <2>2. Moving' /\ DataOK'
      BY <2>1 DEF SampleInv, Moving, RequestsOK, RequestOK, AppsOK, Linked, DataOK
    <2>3. ASSUME NEW r \in Requests PROVE RenewalOK(r)' /\ ReaderOK(r)' /\ ReporterOK(r)'
      <3>1. RenewalOK(r) /\ ReaderOK(r) /\ ReporterOK(r)
        BY DEF SampleInv
      <3>2. RenewalOK(r)'
        BY <2>1, <3>1 DEF RenewalOK, Renewing, Awaits
      <3>3. ReaderOK(r)'
        BY <2>1, <3>1 DEF ReaderOK, Awaits, Counts
      <3>4. ReporterOK(r)'
        BY <2>1, <3>1 DEF ReporterOK
      <3> QED BY <3>2, <3>3, <3>4
    <2> QED BY <2>2, <2>3 DEF SampleInv
  <1>2. CASE Edit
    BY <1>2, EditStays
  <1>3. ASSUME NEW r \in Requests, Client(r) \/ Passage(r) PROVE SampleInv'
    BY <1>3, PassageStays
  <1>4. ASSUME NEW r \in Requests, Routed(r) PROVE SampleInv'
    BY <1>4, RoutedStays
  <1>5. ASSUME NEW r \in Requests, Handler(r) PROVE SampleInv'
    BY <1>5, CalcMoves, EvaluateMoves, RenewStays, ReportsStays, ReadLineStays,
       FileEndsStays, ReadEndsStays
    DEF Handler
  <1>6. ASSUME NEW r \in Requests, Fetched(r) \/ Imported(r) \/ RenewFails(r) PROVE SampleInv'
    BY <1>6, FetchedStays, ImportedStays, RenewFailsStays
  <1> QED BY <1>1, <1>2, <1>3, <1>4, <1>5, <1>6 DEF SampleNext, Onward

\* The inductive invariant of the sample.
THEOREM SampleInvariant == SampleSpec => []SampleInv
  <1> QED BY SampleInitOK, SampleStep, PTL DEF SampleSpec

\* The status of a complete response tells what became of the request.
THEOREM StatusTold == SampleSpec => []StatusTells
  <1>1. SampleInv => StatusTells
    <2> SUFFICES ASSUME SampleInv, NEW r \in Requests, req[r].at = "done",
                        req[r].way # "direct", req[r].sent = "all"
                 PROVE  req[r].status = Verdict(req[r])
      BY DEF StatusTells, At
    <2>1. RequestOK(req[r]) /\ req[r].way \in {"none", "server", "plain"}
      BY DEF SampleInv, Moving, RequestsOK, RequestOK, Records
    <2>2. CASE req[r].way = "server"
      BY <2>1, <2>2 DEF RequestOK, ServerOK, Verdict
    <2>3. CASE req[r].way = "plain"
      BY <2>1, <2>3 DEF RequestOK, PlainOK
    <2>4. CASE req[r].way = "none"
      BY <2>1, <2>4 DEF RequestOK
    <2> QED BY <2>1, <2>2, <2>3, <2>4
  <1> QED BY <1>1, SampleInvariant, PTL

\* Whatever resolve() hands to a handler has passed the whole chain.
THEOREM RouterBlocked == SampleSpec => []RouterBlocks
  <1>1. SampleInv => RouterBlocks
    <2> SUFFICES ASSUME SampleInv, NEW r \in Requests, req[r].way = "direct",
                        req[r].at = "handling"
                 PROVE  req[r].passed = 1 .. Chain
      BY DEF RouterBlocks, At
    <2> QED BY DEF SampleInv, Moving, RequestsOK, RequestOK, DirectOK
  <1> QED BY <1>1, SampleInvariant, PTL

\* However many renewals overlap, one that worked leaves the registry no older
\* than the source was when it, or one that was then under way, was called.
THEOREM RenewedFresh == SampleSpec => []RenewFresh
  <1>1. SampleInv => RenewFresh
    BY DEF SampleInv, RenewalOK, RenewFresh
  <1> QED BY <1>1, SampleInvariant, PTL

\* What /reports has read to the end is the count of the whole file at a moment
\* since it was called, whatever numbers, negative ones too, are added meanwhile.
THEOREM CountedConsistently == SampleSpec => []CountConsistent
  <1>1. SampleInv => CountConsistent
    BY DEF SampleInv, ReaderOK, CountConsistent
  <1> QED BY <1>1, SampleInvariant, PTL

\* What /calc and /evaluate answer has been reported exactly once.
THEOREM ReportedOnce == SampleSpec => []AnsweredReported
  <1>1. SampleInv => AnsweredReported
    <2> SUFFICES ASSUME SampleInv, NEW r \in Requests, app[r].route \in {"calc", "evaluate"},
                        req[r].gave = 200
                 PROVE  LET reports == {i \in DOMAIN lines : lines[i].by = r}
                        IN \E i \in reports : reports = {i} /\ lines[i].number = app[r].did
      BY DEF AnsweredReported
    <2>1. DOMAIN lines = 1 .. Len(lines) /\ lines \in Seq(Lines) /\ app[r] \in Apps
      BY DEF SampleInv, DataOK, Moving, AppsOK
    <2>2. PICK i \in 1 .. Len(lines) :
            /\ lines[i].by = r /\ (lines[i].number <=> app[r].did)
            /\ \A j \in 1 .. Len(lines) : lines[j].by = r => j = i
      BY DEF SampleInv, ReporterOK
    <2>a. lines[i] \in Lines
      BY <2>1
    <2>3. lines[i].number \in BOOLEAN /\ app[r].did \in BOOLEAN
      BY <2>1, <2>a DEF Lines, Apps
    <2>4. lines[i].number = app[r].did
      BY <2>2, <2>3
    <2>5. {j \in DOMAIN lines : lines[j].by = r} = {i}
      BY <2>1, <2>2
    <2> QED BY <2>4, <2>5
  <1> QED BY <1>1, SampleInvariant, PTL

\* An evaluation is answered from the edition that the registry holds.
THEOREM EvaluatedCurrently == SampleSpec => EvaluateCurrent
  <1>1. SampleInv /\ [SampleNext]_sampleVars =>
          [\A r \in Requests :
             Called(r, "evaluate") /\ req'[r].gave = 200 => app'[r].value = state]_sampleVars
    <2> SUFFICES ASSUME SampleInv, SampleNext, NEW r \in Requests, Called(r, "evaluate"),
                        req'[r].gave = 200
                 PROVE  app'[r].value = state
      OBVIOUS
    <2>1. /\ Moving /\ req[r].at = "handling" /\ app[r].route = "evaluate"
          /\ app[r].awaits = "nothing"
      BY DEF SampleInv, Called, At, Awaits
    <2>2. req[r].gave = 0 /\ app[r] # NoApp
      BY <2>1, CalledFacts, NoAppFacts
    <2>3. req'[r].gave # req[r].gave
      BY <2>2
    <2>4. ASSUME NEW s \in Requests \ {r},
                 Client(s) \/ Onward(s) \/ Fetched(s) \/ Imported(s) \/ RenewFails(s)
          PROVE  req'[r] = req[r]
      <3>1. UNCHANGED req \/ \E q : Becomes(s, q)
        <4>1. CASE Client(s) \/ Passage(s) \/ Routed(s)
          BY <4>1, Zenon DEF Client, Passage, Routed, Arrive, Disconnects, BodyFails, Middleware,
                      ChainEnds, Write, PlainCallback, React, Look
        <4>2. CASE Renew(s) \/ Reports(s) \/ ReadLine(s) \/ FileEnds(s) \/ Fetched(s)
          BY <4>2, Zenon DEF Renew, Reports, ReadLine, FileEnds, Fetched, Responds
        <4>3. CASE Calc(s)
          BY <4>3, Zenon DEF Calc, Raises, Responds
        <4>4. CASE Evaluate(s)
          BY <4>4, Zenon DEF Evaluate, Raises, Responds
        <4>5. CASE ReadEnds(s) \/ Imported(s) \/ RenewFails(s)
          BY <4>5, Zenon DEF ReadEnds, Imported, RenewFails, Responds
        <4> QED BY <2>4, <4>1, <4>2, <4>3, <4>4, <4>5 DEF Onward, Handler
      <3> QED BY <2>1, <3>1 DEF Becomes, Moving, RequestsOK
    <2>5. Client(r) \/ Onward(r) \/ Fetched(r) \/ Imported(r) \/ RenewFails(r)
      BY <2>3, <2>4 DEF SampleNext, Edit
    <2>6. ~Client(r) /\ ~Passage(r)
      BY <2>1, <2>2, <2>3, PassageKeeps
    <2>7. ~Routed(r) /\ ~Fetched(r) /\ ~Imported(r) /\ ~RenewFails(r)
      BY <2>1 DEF Routed, Look, At, Fetched, Imported, RenewFails, Renewing, Awaits
    <2>8. ~Calc(r) /\ ~Renew(r) /\ ~Reports(r) /\ ~ReadLine(r) /\ ~FileEnds(r)
          /\ ~ReadEnds(r)
      BY <2>1 DEF Calc, Renew, Reports, ReadLine, FileEnds, ReadEnds, Called, Awaits
    <2>9. Evaluate(r)
      BY <2>5, <2>6, <2>7, <2>8 DEF Onward, Handler
    <2> QED BY <2>9, EvaluateMoves
  <1> QED BY <1>1, SampleInvariant, PTL DEF SampleSpec, EvaluateCurrent
=============================================================================
