------------------------------- MODULE Router -------------------------------
(***************************************************************************)
(* The routes of packages/http/Router.mjs, for one method: a map of static *)
(* paths and, for paths with parameters, a RadixTree (packages/core), here *)
(* the function from the paths of its nodes to their values.               *)
(***************************************************************************)
EXTENDS Naturals, Sequences

CONSTANTS Segments, Params,  \* "users", and "id" for ":id"
          Patterns,          \* the paths given to route(), split at "/"
          Requests,          \* the URLs resolved: [path, search]
          Star,              \* "*"
          MaxRoutes          \* bound on calls of route()

ASSUME RouterAssumption ==
  /\ Segments \cap Params = {} /\ Star \notin Segments \cup Params
  /\ Params \cap Nat = {}   \* none is called "params0"
  /\ Patterns \subseteq Seq(Segments \cup Params) \ {<<>>}
  /\ Requests \subseteq [path : Seq(Segments) \ {<<>>}, search : BOOLEAN]

VARIABLES staticRoutes, tree,
          log   \* history: the patterns given to route()

routerVars == <<staticRoutes, tree, log>>

RouterInit == staticRoutes = << >> /\ tree = << >> /\ log = << >>

Dynamic(p) == \E i \in DOMAIN p : p[i] \in Params

\* What reduceToRoute() makes of a pattern: the keys of its path in the tree,
\* and the names of all its segments, "params0" (here 1) of the first literal.
Path(p) == [i \in DOMAIN p |-> IF p[i] \in Params THEN Star ELSE p[i]]

NamesOf(p) == [i \in DOMAIN p |-> IF p[i] \in Params THEN p[i] ELSE i]

-----------------------------------------------------------------------------
Ancestors(path) == {SubSeq(path, 1, i) : i \in 1 .. Len(path) - 1}

Blank == [handler |-> 0, names |-> << >>]

\* Mutated form of SetIn, for ResolveSound: a node that exists keeps its value.
SetInOnce(path, value) ==
  [q \in DOMAIN tree \cup Ancestors(path) \cup {path} |->
     IF q \in DOMAIN tree THEN tree[q] ELSE IF q = path THEN value ELSE Blank]

\* setIn() makes the nodes that are missing on the way, without a value, and
\* puts the value into the last one, whether it is new or not.
SetIn(path, value) ==
  [q \in DOMAIN tree \cup Ancestors(path) \cup {path} |->
     IF q = path THEN value ELSE IF q \in DOMAIN tree THEN tree[q] ELSE Blank]

\* The handler of the n-th call of route() is n.
Route(p) ==
  LET n == Len(log) + 1
  IN /\ Len(log) < MaxRoutes
     /\ IF Dynamic(p)
          THEN /\ tree' = SetIn(Path(p), [handler |-> n, names |-> NamesOf(p)])
               /\ UNCHANGED staticRoutes
          ELSE /\ staticRoutes' = [q \in DOMAIN staticRoutes \cup {p} |->
                                     IF q = p THEN n ELSE staticRoutes[q]]
               /\ UNCHANGED tree
     /\ log' = Append(log, p)

RouterNext == \E p \in Patterns : Route(p)

RouterSpec == RouterInit /\ [][RouterNext]_routerVars

-----------------------------------------------------------------------------
\* getNodetIn() with resolveRoute(): from each node to the child of the next
\* segment or, if there is none, to "*"; never back.
Descends(q, path) ==
  /\ Len(q) = Len(path)
  /\ \A i \in DOMAIN path :
       q[i] = IF Append(SubSeq(q, 1, i - 1), path[i]) \in DOMAIN tree THEN path[i] ELSE Star

\* getIn(): the nodes with a value that the descent ends at, one at the most.
NodesFor(path) == {q \in DOMAIN tree : Descends(q, path) /\ tree[q].handler # 0}

\* createRouteHandler() splits the URL again, from its first "/" to its end:
\* the last segment keeps the search.
Value(req, i) == <<req.path[i], req.search /\ i = Len(req.path)>>

\* Of two segments with one name the last one counts.
ParamsOf(names, req) ==
  [x \in {names[i] : i \in DOMAIN names} |->
     Value(req, CHOOSE i \in DOMAIN names :
                  names[i] = x /\ \A j \in i + 1 .. Len(names) : names[j] # x)]

\* The default handler NotFound, which answers 404, is number 0.
NotFound == [handler |-> 0, params |-> << >>]

\* Mutated form of Dispatch, for ResolveComplete: static routes are only tried
\* when the descent finds no node, with or without a value.
DispatchTreeFirst(req) ==
  LET nodes == NodesFor(req.path)
      value == tree[CHOOSE q \in nodes : TRUE]
  IN IF nodes # {} THEN [handler |-> value.handler, params |-> ParamsOf(value.names, req)]
     ELSE IF req.path \in DOMAIN staticRoutes /\ ~ \E q \in DOMAIN tree : Descends(q, req.path)
       THEN [handler |-> staticRoutes[req.path], params |-> << >>]
     ELSE NotFound

Dispatch(req) ==
  LET nodes == NodesFor(req.path)
      value == tree[CHOOSE q \in nodes : TRUE]
  IN IF req.path \in DOMAIN staticRoutes
       THEN [handler |-> staticRoutes[req.path], params |-> << >>]
     ELSE IF nodes # {}
       THEN [handler |-> value.handler, params |-> ParamsOf(value.names, req)]
     ELSE NotFound

-----------------------------------------------------------------------------
Matches(p, path) ==
  /\ Len(p) = Len(path)
  /\ \A i \in DOMAIN p : p[i] \in Params \/ p[i] = path[i]

\* The handler that is called belongs to a route that matches, the last one
\* registered of its shape, a static one if there is one; and its parameters
\* are the segments of the request, under the names that route gave them
\* (a search stays glued to the last segment).
ResolveSound ==
  \A req \in Requests :
    LET found == Dispatch(req)
        p == log[found.handler]
    IN found # NotFound =>
         /\ Matches(p, req.path)
         /\ \A n \in found.handler + 1 .. Len(log) : Path(log[n]) # Path(p)
         /\ Dynamic(p) =>
              /\ \A n \in DOMAIN log : log[n] # req.path
              /\ \A i \in DOMAIN p :
                   p[i] \in Params /\ (\A j \in i + 1 .. Len(p) : p[j] # p[i]) =>
                     found.params[p[i]][1] = req.path[i]

\* A request that some route matches is answered with 404 only if a dynamic
\* route lured the descent away, which does not turn back: one that has the
\* request's segment where the matching one has a parameter.
ResolveComplete ==
  \A req \in Requests, n \in DOMAIN log :
    Matches(log[n], req.path) /\ Dispatch(req) = NotFound =>
      \E m \in DOMAIN log, i \in DOMAIN log[n] :
        /\ Dynamic(log[m]) /\ i <= Len(log[m])
        /\ log[m][i] = req.path[i] /\ log[n][i] \in Params
        /\ \A j \in 1 .. i - 1 : log[m][j] \in Params \/ log[m][j] = req.path[j]
=============================================================================
