------------------------------- MODULE Scope --------------------------------
(***************************************************************************)
(* The class Scope of packages/core/Module.mjs: the objects of an instance *)
(* are constructed when they are first asked for, each by its before hooks,*)
(* its factory and its after hooks, which have what they inject looked up, *)
(* and constructed, first.  Hooks and factories may return promises.       *)
(*                                                                         *)
(* The synchronous part of a construct() runs to its end in one turn: the  *)
(* stack holds the calls of construct() in progress, outermost first.      *)
(* A promise that was fulfilled is not told from its value: a part that is *)
(* given one (Module.mjs:107, 123) is called a little later than here, and *)
(* never in the same turn, which is one of the choices made here.          *)
(***************************************************************************)
EXTENDS Naturals, Sequences, FiniteSetsExt

CONSTANTS Objects,      \* identities
          Fresh,        \* those that $construct is called with
          Parts,        \* the hooks and the factory of each, in the order in
                        \* which they are invoked: [stage, inject]; a constant
                        \* has none of stage Made
          MaxAttempts   \* bound on the constructions of one identity in a
                        \* scope; beyond it stands the end of the engine's stack

Hooked == 1      \* stages: a hook of before(),
Made == 2        \* the factory,
Decorated == 3   \* a hook of after()

ASSUME ScopeAssumption ==
  /\ MaxAttempts \in Nat /\ Fresh \subseteq Objects /\ IsFiniteSet(Objects)
  /\ Parts \in [Objects -> Seq([stage : Hooked .. Decorated, inject : Seq(Objects)])]
  /\ \A x \in Objects : \A i, j \in DOMAIN Parts[x] :
       i < j => Parts[x][i].stage <= Parts[x][j].stage

VARIABLES objects,   \* the field objects of each scope: which construction an
                     \* identity maps to, its promise or its value; 0 for none
          status,    \* of each construction
          calls,     \* how each of its parts invoked so far stands
          stack      \* the calls of construct() in progress

scopeVars == <<objects, status, calls, stack>>

\* The scope of the instance, and the child scope of a $construct.
Scopes == {"main", "child"}

\* The n-th construct() of an identity by a get() of the scope; the 0-th is that
\* of $construct itself, which keeps nothing.
Constructions == [scope : Scopes, id : Objects, n : 0 .. MaxAttempts]

ScopeInit ==
  /\ objects = [s \in Scopes |-> [x \in Objects |-> 0]]
  /\ status = [c \in Constructions |-> "none"]
  /\ calls = [c \in Constructions |-> <<>>]
  /\ stack = <<>>

Top == stack[Len(stack)]

\* The number of the part of c that is invoked next.  If it is of a later stage
\* than those before it, all of these must have come to an end first.
Now(c) == Len(calls[c]) + 1

Finished(c) == Now(c) > Len(Parts[c.id])

AllDone(c) == \A i \in DOMAIN calls[c] : calls[c][i] = "done"

Barrier(c) ==
  IF Finished(c) THEN TRUE
  ELSE Now(c) > 1 /\ Parts[c.id][Now(c)].stage > Parts[c.id][Now(c) - 1].stage

Invoking(c) == ~Finished(c) /\ (Barrier(c) => AllDone(c))

\* get() looks in the scope, then in its parent.
Cached(s, x) == objects[s][x] # 0 \/ objects["main"][x] # 0

Holder(s, x) ==
  LET at == IF objects[s][x] # 0 THEN s ELSE "main"
  IN [scope |-> at, id |-> x, n |-> objects[at][x]]

\* What part k of c injects from its scope.  An after hook has its own identity
\* from what the factory has made.
Injects(c, k) ==
  {i \in DOMAIN Parts[c.id][k].inject :
     Parts[c.id][k].stage = Decorated => Parts[c.id][k].inject[i] # c.id}

Injected(c, k) == {Holder(c.scope, Parts[c.id][k].inject[i]) : i \in Injects(c, k)}

\* Mutated form of Thenable, for InjectedReady: the last dependency decides.
ThenableLast(c, k) ==
  /\ Injects(c, k) # {}
  /\ status[Holder(c.scope, Parts[c.id][k].inject[Max(Injects(c, k))])] # "ready"

Thenable(c, k) == \E h \in Injected(c, k) : status[h] # "ready"

-----------------------------------------------------------------------------
(* Within a turn.                                                          *)

Attempts(s, x) == Cardinality({n \in 1 .. MaxAttempts :
                    status[[scope |-> s, id |-> x, n |-> n]] # "none"})

\* Mutated form of Enter, for ScopeTypeOK: get() keeps an object before it is
\* constructed, so that whoever asks in between has it.
EnterKept(s, x, n) ==
  LET c == [scope |-> s, id |-> x, n |-> n]
  IN /\ n <= MaxAttempts
     /\ status' = [status EXCEPT ![c] = "open"]
     /\ stack' = Append(stack, c)
     /\ objects' = [objects EXCEPT ![s][x] = n]
     /\ UNCHANGED calls

Enter(s, x, n) ==
  LET c == [scope |-> s, id |-> x, n |-> n]
  IN /\ n <= MaxAttempts
     /\ status' = [status EXCEPT ![c] = "open"]
     /\ stack' = Append(stack, c)
     /\ UNCHANGED <<objects, calls>>

\* An exception leaves all calls in progress: nothing of them is kept, except
\* that the outermost one, if it goes on after a promise, has its own rejected.
Throw ==
  /\ status' = [c \in Constructions |->
                  IF \A i \in DOMAIN stack : stack[i] # c THEN status[c]
                  ELSE IF status[c] = "promised" THEN "failed" ELSE "thrown"]
  /\ stack' = <<>>
  /\ UNCHANGED <<objects, calls>>

\* invoke() gets the identities in turn: the first one missing is constructed.
Lookup ==
  /\ stack # <<>> /\ Invoking(Top)
  /\ LET s == Top.scope
         inject == Parts[Top.id][Now(Top)].inject
         missing == {i \in Injects(Top, Now(Top)) : ~Cached(s, inject[i])}
         x == inject[Min(missing)]
     IN /\ missing # {}
        /\ IF Attempts(s, x) < MaxAttempts THEN Enter(s, x, Attempts(s, x) + 1) ELSE Throw

\* Then it calls the part, which returns, returns a promise or throws; or, if it
\* was given a promise, leaves that to when all it was given is fulfilled.
Invoke ==
  /\ stack # <<>> /\ Invoking(Top)
  /\ \A i \in Injects(Top, Now(Top)) : Cached(Top.scope, Parts[Top.id][Now(Top)].inject[i])
  /\ \/ /\ \E how \in IF Thenable(Top, Now(Top)) THEN {"waiting"} ELSE {"async", "done"} :
             calls' = [calls EXCEPT ![Top] = Append(@, how)]
        /\ UNCHANGED <<objects, status, stack>>
     \/ ~Thenable(Top, Now(Top)) /\ Throw

\* Mutated form of Return, for ConstructedOnce: only values are kept.
ReturnValues(how) ==
  /\ status' = [status EXCEPT ![Top] = how]
  /\ objects' = IF how = "ready" /\ Top.n # 0
                  THEN [objects EXCEPT ![Top.scope][Top.id] = Top.n] ELSE objects
  /\ stack' = SubSeq(stack, 1, Len(stack) - 1)
  /\ UNCHANGED calls

\* construct() returns the object or its promise to get(), which keeps it.
Return(how) ==
  /\ status' = [status EXCEPT ![Top] = how]
  /\ objects' = [objects EXCEPT ![Top.scope][Top.id] = IF Top.n = 0 THEN @ ELSE Top.n]
  /\ stack' = SubSeq(stack, 1, Len(stack) - 1)
  /\ UNCHANGED calls

\* Mutated form of StageEnds, for HooksAround: the promises of the after hooks
\* are not awaited.
StageEndsEarly ==
  /\ stack # <<>> /\ Barrier(Top)
  /\ \/ Finished(Top) /\ Return("ready")
     \/ ~Finished(Top) /\ ~AllDone(Top) /\ Return("promised")

\* withValue(runThrough(...), ...) goes on at once if nothing is to be awaited.
StageEnds ==
  /\ stack # <<>> /\ Barrier(Top)
  /\ \/ Finished(Top) /\ AllDone(Top) /\ Return("ready")
     \/ ~AllDone(Top) /\ Return("promised")

-----------------------------------------------------------------------------
(* Turns.                                                                  *)

\* A callback that injects x, or $get(x).
Get(x) == stack = <<>> /\ ~Cached("main", x) /\ Enter("main", x, Attempts("main", x) + 1)

\* $construct(x), once.
Construct(x) ==
  /\ stack = <<>> /\ \A c \in Constructions : c.scope = "child" => status[c] = "none"
  /\ Enter("child", x, 0)

\* Mutated form of Resume, for ConstructionsEnd: a rejected hook is not heard of.
ResumeDeaf(c) ==
  /\ stack = <<>> /\ status[c] = "promised" /\ AllDone(c)
  /\ stack' = <<c>>
  /\ UNCHANGED <<objects, status, calls>>

\* Promise.all() of the stage's parts: the first rejection rejects the promise.
Resume(c) ==
  /\ stack = <<>> /\ status[c] = "promised"
  /\ \/ /\ \E i \in DOMAIN calls[c] : calls[c][i] = "failed"
        /\ status' = [status EXCEPT ![c] = "failed"]
        /\ UNCHANGED stack
     \/ AllDone(c) /\ stack' = <<c>> /\ UNCHANGED status
  /\ UNCHANGED <<objects, calls>>

\* Promise.all() of what a part was given, then the call.
CallWaiting(c, k) ==
  /\ stack = <<>> /\ calls[c][k] = "waiting"
  /\ \E how \in {"async", "done", "failed"} :
       /\ \/ \A h \in Injected(c, k) : status[h] = "ready"
          \/ how = "failed" /\ \E h \in Injected(c, k) : status[h] = "failed"
       /\ calls' = [calls EXCEPT ![c][k] = how]
  /\ UNCHANGED <<objects, status, stack>>

\* The promise a part returned settles.
Settle(c, k) ==
  /\ stack = <<>> /\ calls[c][k] = "async"
  /\ \E how \in {"done", "failed"} : calls' = [calls EXCEPT ![c][k] = how]
  /\ UNCHANGED <<objects, status, stack>>

Turn(c) == Resume(c) \/ \E k \in DOMAIN calls[c] : CallWaiting(c, k) \/ Settle(c, k)

Running == Lookup \/ Invoke \/ StageEnds

ScopeNext ==
  \/ Running
  \/ \E x \in Objects : Get(x)
  \/ \E x \in Fresh : Construct(x)
  \/ \E c \in Constructions : Turn(c)

ScopeSpec == ScopeInit /\ [][ScopeNext]_scopeVars

\* No two identities need each other: what a part injects comes before its own
\* identity in some order.
Ranks(rank) ==
  \A x \in Objects : \A k \in DOMAIN Parts[x] : \A i \in DOMAIN Parts[x][k].inject :
    LET y == Parts[x][k].inject[i]
    IN rank[y] < rank[x] \/ (y = x /\ Parts[x][k].stage = Decorated)

NoCircles == \E rank \in [Objects -> 0 .. Cardinality(Objects)] : Ranks(rank)

-----------------------------------------------------------------------------
\* The stack holds each construction once, all but the outermost in their first
\* turn; a part is in progress only for a construction that is; what a scope
\* keeps has been constructed in it.
ScopeTypeOK ==
  /\ \A i \in DOMAIN stack :
       /\ status[stack[i]] \in IF i = 1 THEN {"open", "promised"} ELSE {"open"}
       /\ \A j \in DOMAIN stack : stack[i] = stack[j] => i = j
  /\ \A c \in Constructions :
       /\ status[c] \in {"none", "open", "promised", "ready", "failed", "thrown"}
       /\ status[c] = "open" => \E i \in DOMAIN stack : stack[i] = c
       /\ status[c] = "none" => calls[c] = <<>>
  /\ \A s \in Scopes, x \in Objects :
       objects[s][x] # 0 => status[Holder(s, x)] \in {"promised", "ready", "failed"}

\* An identity has one object in a scope, however many ask for it and in whatever
\* turns its hooks and factory come to an end: unless it throws at once, it is
\* not constructed again.  This is for templates with NoCircles.
ConstructedOnce ==
  \A s \in Scopes, x \in Objects :
    Cardinality({n \in 1 .. MaxAttempts :
      status[[scope |-> s, id |-> x, n |-> n]] \notin {"none", "thrown"}}) <= 1

\* A hook or factory is called with objects whose factories and hooks, those of
\* after() included, have all come to an end.
InjectedReady ==
  \A c \in Constructions : \A k \in DOMAIN calls[c] :
    calls[c][k] \in {"async", "done"} => \A h \in Injected(c, k) : status[h] = "ready"

\* No factory is called before the before hooks, and no after hook before the
\* factory, has ended, and an object is not handed on before the after hooks have.
HooksAround ==
  \A c \in Constructions :
    /\ \A i, j \in DOMAIN calls[c] :
         Parts[c.id][i].stage < Parts[c.id][j].stage => calls[c][i] = "done"
    /\ status[c] = "ready" => Finished(c) /\ AllDone(c)

Unsettled == {c \in Constructions : status[c] \in {"open", "promised"}}

\* If what hooks and factories return settles, so does everything that was asked
\* for: nothing waits for ever, neither for a promise that was rejected nor in
\* a circle, as long as no two identities need each other.
ConstructionsEnd == Unsettled # {} ~> Unsettled = {}
=============================================================================
