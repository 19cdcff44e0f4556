------------------------------- MODULE Sample -------------------------------
(***************************************************************************)
(* The handlers of packages/service-sample: instructions are fetched and   *)
(* replaced by /renew, used by /calc and /evaluate, whose results are      *)
(* reported to a file that /reports adds up.  Handlers without an await    *)
(* are one step, the others have one for each piece between two awaits.    *)
(*                                                                         *)
(* An instruction set is the edition of its source, 0 being the empty one  *)
(* of the start.                                                           *)
(***************************************************************************)
EXTENDS Pipeline, Integers, Sequences

CONSTANTS MaxSource,  \* bound on the editions of the source
          Numbers,    \* results that are numbers
          OldLines    \* what earlier processes left in the file

\* Who reported before is none of the requests.
ASSUME SampleAssumption ==
  /\ MaxSource \in Nat /\ Numbers \subseteq Int
  /\ OldLines \in Seq([by : {"before"}, number : BOOLEAN, result : Int])
  /\ "before" \notin Requests

VARIABLES source,  \* the edition that FETCH_URL serves
          state,   \* of the registry: the edition imported last
          cache,   \* compile(): <<state, what its functions are bound to>>
          lines,   \* the file: who reported, whether a number, and which (or 0)
          app      \* what the handler of a request knows

sampleVars == <<req, source, state, cache, lines, app>>

\* awaits: what an asynchronous handler waits for; value: what it has found,
\* after reading so many lines; history: the source, or the length of the file,
\* when it was called; for a renewal this and the same of the renewals then
\* under way; and whether it did its work.
NoApp == [route |-> "none", awaits |-> "nothing", value |-> 0, read |-> 0,
          from |-> 0, since |-> {}, did |-> FALSE]

\* The renewal at the start has failed, and the expression has been evaluated
\* nevertheless by a request before these.
SampleInit ==
  /\ PipelineInit
  /\ source = 1 /\ state = 0 /\ cache = {<<0, 0>>} /\ lines = OldLines
  /\ app = [r \in Requests |-> NoApp]

\* What a line adds to the count, and the count after the first n lines.
Adds(line) == IF line.number THEN line.result ELSE 0

Counts ==
  LET count[n \in 0 .. Len(lines)] == IF n = 0 THEN 0 ELSE count[n - 1] + Adds(lines[n])
  IN count

Awaits(r, what) == app[r].awaits = what
Called(r, route) == At(r, "handling") /\ app[r].route = route /\ Awaits(r, "nothing")
Renewing(r) == Awaits(r, "fetch") \/ Awaits(r, "import")

Knows(r, a) == app' = [app EXCEPT ![r] = a]

\* Response.json(...), and the errors.
Responds(r) == Becomes(r, Answered(req[r], 200, "some"))
Raises(r, code) == Becomes(r, Failed(req[r], code))

-----------------------------------------------------------------------------
(* calc and evaluate.                                                      *)

\* Mutated form of Escapes, for AnsweredReported: the callers of calc() and
\* evaluate() do not see what a subscriber throws.
EscapesAlone(result, reported) == result \in {"syntax", "throws"}

\* withWatch: what the function throws, and what its subscriber addReport()
\* throws although there is a result.
Escapes(result, reported) == result \in {"syntax", "throws"} \/ ~reported

Watched(r, result, reported) ==
  IF Escapes(result, reported) \/ ~reported
    THEN UNCHANGED lines
    ELSE \E n \in IF result = "number" THEN Numbers ELSE {0} :
           lines' = Append(lines, [by |-> r, number |-> result = "number", result |-> n])

\* Without the instruction the result is undefined, which is reported too.
Calc(r) ==
  /\ Called(r, "calc")
  /\ \/ /\ Raises(r, 400)
        /\ UNCHANGED <<lines, app>>
     \/ \E result \in IF state = 0 THEN {"nothing"}
                      ELSE {"throws", "nothing", "promise", "number"},
           reported \in BOOLEAN :
          /\ Watched(r, result, reported)
          /\ Knows(r, [app[r] EXCEPT !.value = state, !.did = (result = "number")])
          /\ IF Escapes(result, reported) THEN Raises(r, 500)
             ELSE IF result = "nothing" THEN Raises(r, 501) ELSE Responds(r)
  /\ UNCHANGED <<source, state, cache>>

\* Mutated form of Compiled, for EvaluateCurrent: one cache for all states.
CompiledOnce(s) == (CHOOSE c \in cache : TRUE)[2]

\* The functions of an expression are bound when it is first compiled under
\* this state.
Compiled(s) == IF \E c \in cache : c[1] = s THEN (CHOOSE c \in cache : c[1] = s)[2] ELSE s

\* What throws and what gives nothing are both a bad request; the error of
\* destructuring a promise is not.
Evaluate(r) ==
  /\ Called(r, "evaluate")
  /\ \/ /\ Raises(r, 400)
        /\ UNCHANGED <<lines, app, cache>>
     \/ \E result \in {"syntax", "throws", "nothing", "promise", "number"},
           reported \in BOOLEAN :
          /\ Watched(r, result, reported)
          /\ cache' = IF result = "syntax" THEN cache ELSE cache \cup {<<state, Compiled(state)>>}
          /\ Knows(r, [app[r] EXCEPT !.value = Compiled(state), !.did = (result = "number")])
          /\ IF Escapes(result, reported) \/ result = "nothing" THEN Raises(r, 400)
             ELSE IF result = "promise" THEN Raises(r, 500) ELSE Responds(r)
  /\ UNCHANGED <<source, state>>

-----------------------------------------------------------------------------
(* renew.                                                                  *)

Renew(r) ==
  /\ Called(r, "renew")
  /\ \/ /\ Responds(r)      \* FETCH_URL is not set
        /\ UNCHANGED app
     \/ LET others == {q \in Requests : Renewing(q)}
        IN /\ Knows(r, [app[r] EXCEPT !.awaits = "fetch", !.from = source,
                                      !.since = {source} \cup {app[q].from : q \in others}])
           /\ UNCHANGED req
  /\ UNCHANGED <<source, state, cache, lines>>

\* What fails on the way is logged, and answered like a success.
RenewFails(r) ==
  /\ Renewing(r)
  /\ Knows(r, [app[r] EXCEPT !.awaits = "nothing"])
  /\ Responds(r)
  /\ UNCHANGED <<source, state, cache, lines>>

\* The text of the source as it is now.
Fetched(r) ==
  /\ Awaits(r, "fetch")
  /\ Knows(r, [app[r] EXCEPT !.awaits = "import", !.value = source])
  /\ UNCHANGED <<req, source, state, cache, lines>>

\* Mutated form of Imported, for RenewFresh: what is known is not replaced.
ImportedOnce(r) ==
  /\ Awaits(r, "import")
  /\ state' = IF state = 0 THEN app[r].value ELSE state
  /\ Knows(r, [app[r] EXCEPT !.awaits = "nothing", !.did = TRUE])
  /\ Responds(r)
  /\ UNCHANGED <<source, cache, lines>>

Imported(r) ==
  /\ Awaits(r, "import")
  /\ state' = app[r].value
  /\ Knows(r, [app[r] EXCEPT !.awaits = "nothing", !.did = TRUE])
  /\ Responds(r)
  /\ UNCHANGED <<source, cache, lines>>

-----------------------------------------------------------------------------
(* reports.                                                                *)

Reports(r) ==
  /\ Called(r, "reports")
  /\ Knows(r, [app[r] EXCEPT !.awaits = "line", !.from = Len(lines)])
  /\ UNCHANGED <<req, source, state, cache, lines>>

\* Mutated form of ReadLine, for CountConsistent: a line without a number ends
\* the loop.
ReadLineStops(r) ==
  LET line == lines[app[r].read + 1]
  IN /\ Awaits(r, "line") /\ app[r].read < Len(lines)
     /\ Knows(r, IF line.number THEN [app[r] EXCEPT !.read = @ + 1, !.value = @ + Adds(line)]
                                ELSE [app[r] EXCEPT !.read = Len(lines)])
     /\ UNCHANGED <<req, source, state, cache, lines>>

ReadLine(r) ==
  /\ Awaits(r, "line") /\ app[r].read < Len(lines)
  /\ Knows(r, [app[r] EXCEPT !.read = @ + 1, !.value = @ + Adds(lines[app[r].read + 1])])
  /\ UNCHANGED <<req, source, state, cache, lines>>

\* The stream comes to the end of the file as it is now.
FileEnds(r) ==
  /\ Awaits(r, "line") /\ app[r].read = Len(lines)
  /\ Knows(r, [app[r] EXCEPT !.awaits = "end"])
  /\ UNCHANGED <<req, source, state, cache, lines>>

\* The end is heard of; or an error, the missing file included: then it is 0.
ReadEnds(r) ==
  /\ \/ /\ Awaits(r, "end")
        /\ Knows(r, [app[r] EXCEPT !.awaits = "nothing", !.did = TRUE])
     \/ /\ Awaits(r, "line") \/ Awaits(r, "end")
        /\ Knows(r, [app[r] EXCEPT !.awaits = "nothing", !.value = 0])
  /\ Responds(r)
  /\ UNCHANGED <<source, state, cache, lines>>

-----------------------------------------------------------------------------
\* The router of the sample knows four routes.
Routed(r) ==
  /\ UNCHANGED <<source, state, cache, lines>>
  /\ \/ \E route \in {"calc", "evaluate", "renew", "reports"} :
          Look(r, "handler") /\ Knows(r, [app[r] EXCEPT !.route = route])
     \/ \E found \in {"nothing", "method"} : Look(r, found) /\ UNCHANGED app

Handler(r) ==
  Calc(r) \/ Evaluate(r) \/ Renew(r) \/ Reports(r)
  \/ ReadLine(r) \/ FileEnds(r) \/ ReadEnds(r)

Passage(r) ==
  /\ Middleware(r) \/ ChainEnds(r) \/ Write(r) \/ PlainCallback(r) \/ React(r)
  /\ UNCHANGED <<source, state, cache, lines, app>>

Client(r) ==
  /\ Arrive(r) \/ Disconnects(r) \/ BodyFails(r)
  /\ UNCHANGED <<source, state, cache, lines, app>>

Edit ==
  /\ source < MaxSource /\ source' = source + 1
  /\ UNCHANGED <<req, state, cache, lines, app>>

\* Whatever does not wait for another server goes on: this is fair.
Onward(r) == Passage(r) \/ Routed(r) \/ Handler(r)

SampleNext ==
  \/ Edit
  \/ \E r \in Requests : \/ Client(r) \/ Onward(r)
                         \/ Fetched(r) \/ Imported(r) \/ RenewFails(r)

SampleSpec == SampleInit /\ [][SampleNext]_sampleVars

-----------------------------------------------------------------------------
\* An evaluation uses the instructions that the registry holds at that moment,
\* whatever was compiled before (query/Evaluate.mjs:12-29).
EvaluateCurrent ==
  [][\A r \in Requests :
       Called(r, "evaluate") /\ req'[r].gave = 200 => app'[r].value = state]_sampleVars

\* However renewals overlap, one that worked leaves the registry no older than
\* the source was when it, or a renewal that was then under way, was called: what
\* is overwritten by an older answer is overwritten by one of these
\* (mutation/Renew.mjs:33-43).
RenewFresh ==
  \A r \in Requests :
    app[r].route = "renew" /\ app[r].did => \E edition \in app[r].since : edition <= state

\* The count that /reports read to the end is the one of the whole file at some
\* moment since it was called, although lines are added meanwhile and numbers
\* may be negative (GetReportCount.mjs:20-32).
CountConsistent ==
  \A r \in Requests :
    app[r].route = "reports" /\ app[r].did =>
      \E n \in app[r].from .. Len(lines) : app[r].value = Counts[n]

\* What /calc and /evaluate answer has been reported, exactly once, as a number
\* if it is one (reporter/module.mjs:19-20).
AnsweredReported ==
  \A r \in Requests :
    LET reports == {i \in DOMAIN lines : lines[i].by = r}
    IN app[r].route \in {"calc", "evaluate"} /\ req[r].gave = 200 =>
         \E i \in reports : reports = {i} /\ lines[i].number = app[r].did

\* Every request is over in the end, except a renewal whose source or import
\* keeps it waiting, and that one holds up nobody else.
AnsweredInTheEnd ==
  \A r \in Requests : ~At(r, "new") ~> (At(r, "done") \/ Renewing(r))
=============================================================================
