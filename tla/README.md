# TLA+ models of vloxq-sample

The repository is a small application framework in JavaScript and a sample
service built on it. Everything runs on one thread: the hard part is not
parallelism but what happens between two turns of the event loop, and what a
callback may do to the code that called it. The framework's own scheduler, the
class `Executor`, and the lifecycle of a module on top of it decide both; they
are modelled in full and proved about. Around them are the container that
constructs the objects of a module, the HTTP server and the way of a request
through it, the handlers of the sample service, and the data structures all of
it uses.

Paths are relative to `src/packages/` unless they start with `src/`.

## The system

| Component | State | Operations | Interacts with | What makes it correct |
|---|---|---|---|---|
| `core/Queue.mjs` | circular `array`, `head`, `tail`, `length`, `capacity` | push (grow, assign), shift, front, peek, back, clear | holds the executor's callbacks and the service logger's lines | FIFO through growth and wrap-around; no element outlives its slot |
| `core/Executor.mjs` | `queue`, list `pending`, counter `_running`, slot `_wakeup` | exec, dispatch, post, poll, run | calls callbacks, which call it back; races promises; a DeadlineTimer per run | exact counter and list; nothing queued is left behind; a run ends when it should, and not before |
| `core/Module.mjs`, `Instance` | executor, subscribers, scope, `terminated` | initiate/run, on, once, publish, terminate, get, construct, invoke | two executor runs in a row; `exit` subscribers; signals through `service/Process.mjs` | every scheduled callback runs, `exit` is published once, initiate() settles and tells the truth |
| `core/Module.mjs`, `Scope` and `Module` | objects per scope, descriptors (value, inject, construct, before, after) | get, construct, invoke; factory, constant, before, after, schedule, extends, withMutations | factories may be asynchronous and may call `$get` again | one instance per identity, hooks around it, no circular wait |
| `core/DeadlineTimer.mjs`, `core/sleep.mjs` | callback, deadline, timeout id | reset, abort, handleTimeout | setTimeout, which may fire early and is limited to 2^31-1 ms | never early, at most once, not after abort |
| `http/createNodeServer.mjs`, `service/http/Server.mjs`, `service/Process.mjs` | open connections, address, listeners | listen, wait, join, close; SIGINT, SIGTERM, exit | `exit` subscribers of the instance | a terminated service stops |
| `http/Router.mjs`, `http/createNodeAdapter.mjs`, request handling of `createNodeServer.mjs` | middleware, static and dynamic routes | use, route, resolve; the mapping of errors to answers | RadixTree, LRUMap, handlers of the service | each request gets one answer with the right status |
| `core/BiMap.mjs`, `RadixTree.mjs`, `LRUMap.mjs`, `DefaultMap.mjs`, `withCache.mjs` | maps | set, get, delete, clear, lookups | router, evaluation cache, module registry | inverse maps, bounded recency, lookup of a path |
| `service-sample/src/instructions` | registry state, compile cache, watchers | Renew, Get, Calc, Evaluate, withWatch | Fetch, HTTP routes, reporter | the newest instructions win; a query sees one state |
| `service-sample/src/reporter` | a file of reports | AddReport, GetReportCount | watches the queries | the count is one the file had |
| `service/Logger.mjs` | a bounded Queue of lines | log..., getRecentLogs | Process, which it gets lazily | at most 1024 lines, oldest dropped |
| the rest | none | wrappers, fixtures, helpers | | |

The behaviours that are hard to test, each with the line where it bites, are
the `hazards` of `PROJECT.json`.

How the modules fit together:

    implements an abstract one   Queue: Fifo.  LRUMap: Cache.
                                 DeadlineTimer: Deadline.
    extends                      Instance: Executor.
                                 Service: Instance and HttpServer.
                                 Sample: Pipeline.
    checked in one run           MCStructures: BiMap, LRUMap, DeadlineTimer,
                                 Router, ServiceLogger.
                                 MCContainer: Registry, Scope.
                                 MCSample: Service, Sample.

## What is modelled

### Fifo, Queue, QueueProofs, MCQueue

`Fifo` is the promise of the class comment (`Queue.mjs:2`): a sequence.
`Queue` is the code: the array index `i` of JavaScript is position `i + 1`.
`Grown` states what `grow()` and `assign()` leave, one loop of shift and push
into a fresh queue: the elements, oldest first, from position 1. `Items` is the
refinement mapping. The variable `out` is the return value of the last call, so
the refinement compares what callers see and not only what is stored.

### Executor, ExecutorProofs, MCExecutor

JavaScript runs one turn at a time. `stack` is the call stack of the turn in
progress, innermost frame last: frames of `run()`, of `poll()` with the
callbacks that remain of its round, and of callbacks. A callback on top may call
the executor again (post, exec, dispatch, poll, or start another run), or end by
returning, throwing or giving a promise. Promise reactions (`Settle`, `Resume`,
`FireTimer`) need an empty stack. One action is the code between two points at
which something else may run: for instance `Await` is the end of a poll() that
executed nothing, the push of the promise, the new `_wakeup` and the race taken
over the promises pending then.

| Code | Model |
|---|---|
| `queue`, `pending`, `_running` | `queue`, `pending` (a set: each promise is in the list once), `running` |
| `_wakeup` | `wakeup`, the run whose `resolve` it is, or `None` for `noop` |
| `await Promise.race(pending)` | `race`, `outcome`: the promises given to the race, and how it is decided |
| resolved timers and wakeups in the list | `settled` |
| the time argument | `expired`: runs whose time is up |
| a callback | `task`: new, queued, called, async (suspended), done, raised, lost |

Abstractions. A callback is one call: it is handed over once, and only whether
it returns, throws or suspends is kept (the code reads nothing else; throwing
`null` or `undefined` counts as returning, `isNullish` at lines 49 and 61). The
values it gives and the number poll() counts are left out, except that a run
waits when its poll() counted none. Each element of `Runners` is one call of
run(). poll() on an empty queue changes nothing and is left out. Time is only
that a limit can be up; `Expire` may happen at any moment, and a timer fires
later, when the promise reactions that are due have run. "lost" is a rejection
that no run reports: swallowed by a race already decided, or an unhandled
rejection of the process.

### Instance, InstanceProofs, MCInstance

`Instance` extends `Executor`: each of its actions is an action of the executor,
or leaves the executor alone, together with the fields of the instance. The
theorem `InstanceRunsExecutor` says so, so the results on the executor carry
over. `life` is where run() stands: posting the scheduled callbacks, first run,
publishing `exit`, second run, and settled. A callback of the executor stands
for the whole `Scope.invoke()` around it, with the injection and its awaits.

publish('exit') is a forEach over the live array of subscribers (`walk`): plain
ones are posted, injected ones are invoked at once, and one that is being
invoked may subscribe, unsubscribe or throw. The code that called terminate()
does not go on before the forEach is over (`Walking`). `Terminate` is
terminate() called by a callback or from outside (a signal); terminate() of an
instance that is terminated already does nothing. Outside code can call what is
injected only when some callback has been executed (`Injected`).

`audience` and `disturbed` are history: who was subscribed when `exit` was
published and has not been unsubscribed since, and whether a handler threw in
the forEach or somebody unsubscribed during it.

Left out: events of other types (their publication is a post() or exec() of a
callback, `Call`), the arguments of events, and the error that is rethrown.

### Scope, Registry, ContainerProofs, MCContainer

`Scope` is the construction of objects. The synchronous part of a construct(),
with all it constructs on the way, runs in one turn: `stack` holds the calls in
progress. A construction (`Constructions`) is one call of construct() for an
identity; `status` says whether it is open, has returned a promise, is ready,
has failed or was thrown out of, and `calls` how each of its parts (hooks and
factory, in the order of invocation) stands: done, asynchronous, waiting for
what it injects, failed. `objects` is the field of each scope.

| Code | Model |
|---|---|
| get() finds nothing, construct(), objects.set() | `Enter`, `Return` |
| invoke(): one dependency after the other, then the factory | `Lookup`, `Invoke`, `CallWaiting` |
| runThrough() and withValue() around before, factory and after | `Barrier`, `StageEnds`, `Resume` |
| an exception on the way | `Throw` |

`Parts` is the template; the one of the run has a dependency that two others
share, a before hook, an after hook that injects its own identity, and no
circles. A circle of synchronous factories recurses until the engine's stack
ends, a circle through asynchronous hooks waits for ever: both follow from
`Lookup` and `CallWaiting`, and both are excluded by the template, not by the
model. A child scope is made by `$construct`, once. What a part asks for is what
it injects: a factory that calls `$get` itself while it runs is left out, as is
one that catches what that throws.

`Registry` is the class `Module`. Descriptors are mutable objects, so modules
hold cells of a heap, and what matters is who shares a cell: `Copied` is the
copy constructor, `WithMutations` the copy, change and copy of an immutable
module, whose callback may keep the mutable copy. `GetDescriptor` is the look-up
that adds an empty descriptor to an immutable module (`core/DefaultMap.mjs:184`).

### HttpServer, Service, ServiceProofs

`HttpServer` has one action for each method of `createNodeServer` and each event
of node:http. `net` is the port, `sockets` the connections that are open,
`connections` the program's own set of them, which close() goes through,
`waiter` and `joiner` the promises of wait() and join(). An 'error' without a
listener is `uncaught`.

`Service` extends `Instance` and `HttpServer` as `bin/sample.mjs` and
`service/http/Server.mjs` put them together: `Main` is the scheduled callback,
whose `phase` says which line it awaits; `Unlisten` and `Closer` are the 'exit'
subscribers of Process and Server. Steps of Main that hand over to the executor
are steps of the executor (`Suspends`, `Settle`). `WorkEnds` stands for programs
whose callback ends without join(), as those of `createTestSuite` do. A signal
calls terminate(), or ends the process when nobody listens (`Signal`). The
handler of 'uncaughtException' names the undeclared `instanceProcess`
(`service/Process.mjs:11`), so an uncaught error ends the process too (`Alive`).

### Pipeline, Sample, SampleProofs, MCSample

`Pipeline` is one record per request: where it is, what the client has got
(`sent`: nothing, the head, all, or cut short), and as history the middleware
that let it pass and what its handler gave. Requests come through the server and
its adapter, to a plain callback of `createNodeServer`, or directly to
`Router.resolve()` as in the router's tests. That `Arrive` of a request and its
dispatch are two steps lets other requests in between, more than the code does;
no property gets easier by it.

`Sample` adds the handlers. Those of /calc and /evaluate are one step, those of
/renew and /reports one for each piece between two awaits. A set of instructions
is the edition of the source it was imported from; an expression is what its
functions were bound to; a report is who wrote it, whether its result is a
number, and which: `Numbers` may be any integers, negative ones too. (JSON keeps
finite numbers only; that adding them rounds is left out.) `Counts` is the
running count of /reports, a recursive function. The stream comes to the end of
the file (`FileEnds`) before the loop hears of it (`ReadEnds`), and lines may be
added in between. The initial state has an expression compiled for the empty
registry and a file with lines of an earlier process.

`MCSample` composes both: a behaviour is either about the life of the process or
about the requests while its port is open, since the two share nothing but the
sockets: `Disconnects` is what close(), or a client, does to a request.

### MCStructures: BiMap, LRUMap and Cache, DeadlineTimer and Deadline, Router, ServiceLogger

The proofs are in `DeadlineTimerProofs` and `StructuresProofs`.

- `BiMap`: `data` and `size` of both sides. `Chain` is the mutual recursion of
  delete(), a least set. `clean` is history: nobody paired a new key with a
  value that was taken, which set() does not prevent.
- `LRUMap`: the Map's order and entries, with `withCache` (`Memo`). `Cache` is
  what a caller may rely on; `newer`, history, is what recency means.
- `DeadlineTimer`: the fields and the platform's outstanding timeouts, which may
  fire late or `Early` and are at most `MaxTimeout` long. `Deadline` is the
  promise of the class comment. `MaxNow` bounds the deadlines, not the time and
  not reset(null, ms), which may move the next timeout as often as one likes:
  from `MaxNow` on, when all deadlines are past, the clock stands still and
  what is due later comes nearer instead.
- `Router`: the routes of one method. The tree is the function from the paths of
  its nodes to their values. The descent of getNodetIn() takes one child at each
  node, so that it is a condition on the node it ends at: each of its segments is
  the literal if that child exists, else "*" (`Descends`). The handler of the
  n-th call of route() is n, and `NotFound` is 0.
- `ServiceLogger`: the queue (the FIFO that `Queue` implements), whether Process
  is constructed, and the lines that wait for it.

## What the runs check

| Run | Question | Instance |
|---|---|---|
| Queue | FIFO refinement, exact slots, field types | 2 values, initial capacity 1, `tail` at most 9 |
| ExecutorSafety | counter, list, wakeup and quiescence | 3 callbacks, 2 runs, one limited |
| ExecutorLive | posted work, deadline, end of the run | 3 callbacks, 1 limited run |
| ExecutorOverlap | violation: overlapping runs end | 1 callback, 2 runs |
| ExecutorLostWakeup | violation: post() wakes a waiting run | 2 callbacks, 2 runs |
| ExecutorLostError | violation: a rejection is reported | 2 callbacks, 1 run |
| InstanceLifecycle | what initiate() promises | 1 scheduled callback, 1 other, 2 handlers of both kinds |
| InstanceSkips | violation: every subscriber is called | the same |
| Structures | inverse maps, cache, timer, routes, history | 3 keys and values; capacity 2 of 3 keys; deadlines up to 5, chunks of 2; 5 patterns, 4 routes, 10 URLs; 5 lines, limit 2 |
| Container | objects constructed once, in order, and in the end; immutable modules | 3 identities, 5 parts, 2 attempts, 2 scopes; 1 identity and hook, 4 modules |
| Sample | a service that stops and releases; requests answered truthfully | Main, 2 'exit' handlers, 2 connections; 2 requests, 2 middleware, 1 redirection, 2 editions, results -2 and 1 |
| SampleMiddleware | violation: middleware sees every request | 1 request, 1 middleware |

Bounds. `MaxTail` = 9 lets the array grow from 1 to 2, 4, 8 and 16 slots, and
from 0 after clear(), with wrapped contents each time; it bounds only how many
pushes TLC tries between two resets. Three callbacks are enough for one to be
nested in another while a third is suspended or queued; two runs are the least
that overlap, and the code treats every further one alike. Nothing else is
bounded: the callbacks are handed over once each, so the state is finite. The
proofs cover all sizes.

In Structures every key can be new, known and evicted, a deadline takes up to
two chunks and an early timeout, and the patterns are chosen so that literals
and parameters compete at each level. In Container two attempts are one more
than a correct scope needs, and four modules are two with a mutable copy and an
immutable copy of that. In Sample two requests are the least that overlap; the
two editions of the source and the two old lines tell old from new, and results
of both signs make the count go up and down.
`CHECK_DEADLOCK FALSE` is set where the system really
stops: all callbacks are handed over and all runs are over.

Symmetry of the callbacks is used in ExecutorSafety only, which has no liveness
property.

What the passing runs show beyond the invariants' names:

- `PendingExact` and `RunningExact` hold on every way out of run() and poll(),
  through nested polls and exceptions that cross several frames.
- `NoMissedWork` covers promises that are added while the run waits, which are
  not in its race. It is about the run that owns the wakeup; for the others it
  fails, which is what ExecutorLostWakeup shows.
- `PostedExecuted` needs no promise to settle. `RunEnds` does, and is stated
  for a single run; with two, ExecutorOverlap shows that it fails although all
  promises settle.
- `ResolvedComplete` covers the callbacks that an exception left in the queue
  of the first run and those that a terminate() interrupted.
- `BiMapConsistent` asks for inverse maps under `clean` only; RadixTree, the one
  user of BiMap, keeps to it. For a new key with a value that is taken the code
  leaves maps that are not inverse, and the property says nothing of them but
  the sizes.
- `RecentStays` counts insertions and hits as uses. set() of a known key is none
  in the code, and the property does not ask for it.
- `TimerFires` has a hypothesis: reset() without a callback comes to an end.
  It keeps the deadline but moves the next timeout, so that repeating it puts
  the call off for ever. The hypothesis says that from some moment on the timer
  is left to itself; no bound of the model stands in for it. It does not limit
  what comes before, early and chunked timeouts included.
- `ResolveComplete` names the one reason for which a matching route is not
  found: a route with a literal in the place of its parameter lured the descent
  away.
- `LogHistory` says that the limit holds if Process is constructed at once, and
  that it does not apply at all if it is not.
- `ServiceReleased` holds however initiate() settles, with an error of Main, too.
  It and `StopsWhenTerminated` are about a port that was open when 'exit' was
  published. For one that was only opening (`missed`), close() finds
  no address and the server is never closed; what follows is left out by both.
- `ServiceTypeOK` relates the two sets of connections, and says that the failure
  to open the port is never silent: wait() has rejected, or the process has an
  uncaught error. listen() itself never settles then, which no property denies.
- `RenewFresh` holds of overlapping renewals, too: one that worked leaves the
  registry no older than the source was when it, or the earliest renewal under
  way at that time, was called. That the older of two answers may win is what
  the code does, and the property permits it.
- `CountConsistent` says that the count of /reports is that of the whole file at
  one moment since it was called. With results of both signs this is more than
  that it lies between the counts at the start and at the end.
- `AnsweredInTheEnd` holds although the other request may be a renewal that
  waits for ever.

### Fairness

The executor's liveness runs assume `EventLoop`: what has been called returns
(weak fairness of the steps of poll(), run() and callbacks), which the language
gives to callbacks that do not loop; and a run whose race is decided continues
(strong fairness of `Resume`, because turns of other code can come in between:
promise reactions run in the order in which they became due). Nothing is assumed
of outside code, of the clock, or, except where the property says so, of the
promises: `RunEnds` and `InitiateSettles` carry the assumption that they settle
(`PromisesSettle`) as their hypothesis.

Structures: time passes, and timeouts that are due fire; `TimerFires` carries
the assumption on reset() without a callback as its hypothesis. Container: what is on
the stack goes on, and what hooks and factories return settles, either way; the
property is about nobody else's failing to notice. Sample: the program's own
steps and the events its own calls bring about (`Due`: a destroyed connection
closes, a server without connections emits 'close'), and for each request the
steps that wait for no other server (`Onward`). That renew() at the start
returns, that the port opens, that a source answers or a client stays is not
assumed.

### Findings

1. Overlapping runs never end (`core/Executor.mjs:150`): each takes the other's
   timer for pending work.
2. The wakeup is one slot (`core/Executor.mjs:162, 170`): with two runs waiting,
   post() can leave a callback queued and wake nobody.
3. A rejection can vanish (`core/Executor.mjs:57`): it settles in the same turn
   as the promise, or the wakeup, that decided the race, and run() and
   initiate() succeed.
4. publish() does not reach every subscriber (`core/Module.mjs:227`) when an
   injected one throws or unsubscribes in the middle of it.

5. The service's requests skip all middleware (`service/http/Server.mjs:9`): the
   adapter's second argument is taken for `skipMiddleware`.

Seen while reading, not shown by a run of its own: the example `queue.push(4, 5, 6)` in
`core/Queue.mjs:19` pushes one value; `exec()` gives an asynchronous caller the
pair of value and error, not the value its comment names
(`core/Executor.mjs:43, 69`); `DefaultMap.clear()` throws, because the
constructor assigns `this.Type` to itself (`core/DefaultMap.mjs:48`). The model
of the part in question contains the following, and its properties are stated so
that they hold with it:

- `http/Router.mjs:37`: the last parameter of a dynamic route keeps the query
  string (`Value`).
- `core/DefaultMap.mjs:184`: looking up an unknown identity adds an empty
  descriptor to a module that is immutable (`ImmutableKept`); Scope then calls
  noop as its factory, and the error is the one about undefined.
- `core/Module.mjs:107`: the promise of `result.then(...)` has no handler, so a
  factory that rejects is an unhandled rejection besides.
- `http/createNodeAdapter.mjs:125`: the status of an HTTP error (400, 501) thrown
  by a handler never reaches the client; it is a 500. The test for skipping the
  body is given 'HEAD', so the message is never sent.
- `http/createNodeServer.mjs:81`: listen() never rejects; a busy port is an
  uncaught error.
- `http/createNodeServer.mjs:86`: a server that is opening is not closed.
- `service-sample/src/instructions/http/Renew.mjs:16`: /renew answers OK when
  renewing failed, because renew() catches everything.
- `service-sample/src/instructions/http/Evaluate.mjs:20`: an asynchronous
  instruction makes /evaluate fail, because tryCatch() then returns a promise,
  which is not the pair that is destructured.
- `service-sample/src/reporter/query/GetReportCount.mjs:13`: a read error counts
  as 0.
- `core/Executor.mjs:69`: exec() returns the promise of the pair of value and
  error, which never rejects, and so do `$get`, `$invoke` and `$construct` when
  something is asynchronous, although `invoke` is documented to return "Promise
  that resolves to the callback result" (`core/Module.mjs:185`). The service
  logger takes the pair for Process: every line then throws, and the history is
  not limited (`PushThrows`).
- `core/DeadlineTimer.mjs:70`: reset(null, ms) keeps the deadline but moves the
  next timeout.
- `core/BiMap.mjs:150`: clear() of an empty side leaves the other side's entries.

And outside the models: logging in an after hook of Process recurses without end,
although `service/Logger.mjs:6` is about that case; pseudo headers of HTTP/2 make
`new Request` in the adapter throw.

## What is proved

By TLAPS, for every value of the constants: every invariant that a passing run
checks, the action property `ImmutableKept`, and the three refinements. The
assumptions, named in the modules and evaluated by TLC in the runs, are

| Assumption | Says |
|---|---|
| `QueueAssumption` | undefined is not pushed; capacity and bound are natural numbers |
| `ExecutorAssumption`, `InstanceAssumption` | finitely many callbacks and runs, `None` is no run; the two runs of an instance have no limit, handlers and scheduled callbacks are different callbacks |
| `ServiceAssumption` | Main is what is scheduled, and Process and Server subscribe one plain handler each |
| `TimerAssumption`, `LRUAssumption`, `LoggerAssumption` | null is no callback, undefined no value; times, capacity and limits are natural numbers |
| `RouterAssumption` | paths are not empty; names are no segments, none is "params0" and so on, and "*" is neither |
| `ScopeAssumption` | finitely many identities, whose parts are in the order before, factory, after |
| `PipelineAssumption`, `SampleAssumption` | lengths and bounds are natural numbers, results integers; lines that are there already were written by nobody who asks |

`NoCircles` is no assumption on the constants but the hypothesis of the theorems
that need it; `MCNoCircles` lets TLC evaluate it for the template of the run.

**QueueProofs**: `TypeCorrect`, `QueueImplementsFifo`, `SlotsAreExact`. `TypeOK`
is inductive (`tail = head + length` and `capacity = Len(array)` are what growth
and addressing rest on). Each action maps `Items` as the abstract one does; the
lemmas are about remainders: two positions less than a capacity apart never
share a slot. The same fact makes `SlotsExact` inductive: the slot that shift()
empties is no other element's.

**ExecutorProofs**: the inductive invariant is `StackInv`: the data types, what
a frame knows (`FrameOK`: its callback is called, its run is running, the poll()
of a run lies on the frame of that run), no callback or run in two frames, and a
queue of distinct queued callbacks. `RunningExact` alone is not inductive: when
a callback throws through poll() out of run(), two are counted down, and only
`FrameOK` says that these two were counted. `PendingExact` is proved promise by
promise (`PendingEach`); `QuiescentReturn` follows from it by cardinality, since
the timer of the run is in the set of at most one; `NoMissedWork` needs
`WakeupOK`, that the wakeup belongs to a waiting run that has it in its race.
`NoneForgotten` (`Held`) is the converse of `FrameOK`: what is called has a
frame, what is queued is in the queue.

**InstanceProofs**: `InstanceRunsExecutor`, `InstanceTypeCorrect`,
`ResolvesComplete`, `ExitReaches`. The type invariant adds that the forEach of
publish() stands on the event loop or on a callback that is still called
(`Above`); an exception that pops several frames never pops that one, because
what lies above a run's frame is only its poll(). The promises of initiate()
need `LifeInv`. When a run returns nothing may be on the stack below it, so runs
lie on the event loop alone, and scheduled callbacks on a poll() (`Bottom`); then
what a scheduled callback throws ends a run (`Blamed`), and `Held` gives that
when the first run returns every scheduled callback is final. For the
subscribers, `Reached` says of each one whether the forEach has called it or has
yet to come to it, until somebody disturbs the forEach.

**ServiceProofs**: `ServiceRunsInstance`, `ServiceTypeCorrect`,
`ServiceReleases`. The first makes everything proved of an instance, and so of
its executor, true of the service. That the port is closed when initiate()
settles, even with an error, takes three things: only Main can make a run fail,
and only the first (`MainFails`); both handlers are in the audience of 'exit'
when it is published, by whomever, and nobody disturbs that forEach (`Heard`);
and a handler's callback stands where the listeners and the port say (`Port`),
so that a finished Closer means a port that is closed with its last connection
gone, or was not open yet. That `connections` is `sockets`, and that a failed
opening was noticed, are part of the type invariant.

**ContainerProofs**: `ScopeTypeCorrect` and `HooksSurround` hold for every
template, circular ones included; their invariant is inductive with the types
and the numbering of attempts. `OnceConstructed` and `ReadyInjected` hold for
templates without circles. There the ranks of the identities on the stack go
down (`Descends`), so that no identity is looked up while its construction is on
the stack, hence nothing that is being constructed is cached (`LiveOK`), and
what a part was given stays the object of its scope (`InjectOK`).
`ImmutablesKept` is the frame property of sharing: no cell that an immutable
module holds is held by a mutable one (`RegistryInvariant`).

**SampleProofs**: `StatusTold` and `RouterBlocked` from `RequestOK`, what is
known of one request on each of the three ways, which needs nothing of the other
requests; `EvaluatedCurrently`, `RenewedFresh`, `CountedConsistently` and
`ReportedOnce` from what relates a request to the registry and the file. `RenewFresh`
has to be carried over the renewals that finish later: each that is under way
began no earlier than one that the finished one knows (`since`), and brings
nothing older than that (`RenewalOK`). `CountConsistent` needs that a reader has
the count of exactly the lines it has read (`ReaderOK`), and that lines added at
the end leave the counts before them alone. `Counts` is a recursive function:
that it exists (`Addable`) and that it is determined by the lines up to its
argument (`SameCounts`) are proved by induction (`Inductive`), and the steps use
`CountsAdding` and `CountsKnown`.

**DeadlineTimerProofs**: `TimeoutIsExact` and `TimerKeepsPromise`, that the timer
refines `Deadline`. `TimeoutExact` is inductive with the types of the fields; the
refinement needs it because only an armed timer has a timeout that may fire, so
that handleTimeout() never finds the callback gone.

**StructuresProofs**: `HistoryIsRecent`; `LRURecentStays` and `LRUIsCache`;
`BiMapIsConsistent` and `DeleteTakesOnePair`; `ResolvesSoundly` and `ResolvesCompletely`.
- The LRU map: keys that come later in the Map have been used since (`Aged`), so
  the one that an insertion evicts is older than as many others as there is room
  for: the positions inject into what was used since (`ManyUsed`). This covers
  the capacity 0, at which the key that is inserted is the one evicted.
- The BiMap: of the recursion of delete() only matters that what it goes on to
  from a key that it removes is removed, too (`ChainGoesOn`). Conversely, while
  the sides are inverse to each other, the key and its value are closed under
  going on, so the recursion takes this pair only (`ChainIsPair`).
- The routes: the nodes of the tree are exactly those on the way to a dynamic
  route, and each value is that of the last route of its shape (`RouterInv`). If
  a route matches and the descent does not end at its node, there is a segment at
  which the two part; the route that made the child which the descent took is the
  witness of `ResolveComplete`.

Model-checked only: everything temporal (`PostedExecuted`, `DeadlineHonoured`,
`RunEnds`, `InitiateSettles`, `TimerFires`, `ConstructionsEnd`,
`StopsWhenTerminated`, `AnsweredInTheEnd`). Liveness under fairness is out of the
prover's reach.

Theorems of the library that take an operator, the induction rules among them,
cannot be instantiated by the installed provers. Where an argument needed
induction, it was avoided or stated with sets: the descent of the router is a
condition on a node instead of a recursion, delete() of a BiMap a least closed
set, and induction over numbers is that a set without a least element is empty
(`Inductive`, `LeastIsOne`).

## Plan

What is left:

1. The safety part of the temporal properties, as invariants: what a run that
   waits is waiting for, and that a construction which is neither ready nor
   failed is on the stack or waits for one that is not settled.
2. What holds of overlapping runs after all, beside the three violations: which
   callbacks can be left behind, and for how long.
3. The lemmas on stacks and sequences that several modules prove for themselves,
   in one place.

Runs are kept few: components that share no state are checked side by side in
one run, and a run that fails is kept only for a disagreement with the
documentation or the tests.

## Not modelled

The contents of headers and bodies in `http/createNodeAdapter.mjs` and the
HTTP/2 side of the server; `Fetch` (mocks around the platform's fetch) and
`Filesystem` beyond their failing or answering late; `sleep`, which is one
timeout; `autobind` and the other stateless helpers; the RadixTree operations
that no program calls; the arguments of events and callbacks, and the values
callbacks return; setState() and subscribe() called by programs outside the
repository; fixtures and performance tests. They are I/O of the platform, have
no state of their own, or nothing reads what they keep.
