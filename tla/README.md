# Verification of starriver

starriver runs pipelines: tasks on a directed acyclic graph, executed in
parallel, with logic nodes (Any, Not), conditional edges, timeouts, and runs
that stop on a blocked task and are resumed later. These modules model a run
from its configuration to its result, and the engine that runs many; TLC checks
them on small pipelines, and TLAPS proves the main results for every graph.

## Inventory

| Component | Code | State it keeps | Operations | Talks to |
|---|---|---|---|---|
| Walker | `internal/dag/walk.go`, `dag.go` Walk | per vertex: DoneCh, DepsCh; `respMap`, `upstreamFailed` | Update, walkVertex, waitDeps, Wait | calls back into the graph walker; sets task statuses; stops the context |
| Task execution | `internal/core/graph_walker.go` | one goroutine per task, `ParallelSem` | callback, execute, Walk | user components and hooks, semaphore, context |
| Pipeline | `internal/core/pipeline.go` | task statuses, pipeline status | Run, SetTaskStatus, checkBlocked, assembleResult | walker, data context |
| Resume | `flow/flow.go` Rebuild | - | builds a pipeline from saved statuses and data | builder, data context |
| Responses | `helper/response.go` | pass, level, error, status, data | constructors, SetPass, SetFailureLevel | shared by walker, waiters and user code |
| Data context, pool | `internal/core/data_context.go` | context, cancel, store, logger | NewDataContext, Release, Stop, WithTimeout | `sync.Pool`, everything that runs |
| Node data context | `internal/dag/data_context.go` | edge properties, previous tasks, own timeout | Get, AppendProperties, AppendPrevTask | shared data store |
| Shared data store | `internal/builtin/data_store.go` | shared and per-node data | Set, Get, Del, SetCurrentNodeData, Marshal | codec |
| Edges, conditions | `internal/dag/edge.go` | operator, key, value | Match | node data context |
| Graph, DAG algorithms | `internal/dag/graph.go`, `set.go`, `tarjan.go`, `dag.go` | vertices, edges, up and down maps | Add, Remove, Connect, Root, Validate, TransitiveReduction, orders | builder |
| Builder, registry | `internal/core/builder.go`, `registry/` | components by namespace and name | BuildPipeline, Register, NewBuiltinNode | graph, pipeline |
| Parameters | `internal/core/parameter.go` | - | prepareParameter | node data context |
| Engine | `flow/flow.go` | engine semaphore, cron entries | Run, CronRun, Destroy | event handler, pipeline, data context |
| Components | `repository/` | - | loop, sub-pipeline, reshare, wait, template, ... | builder, pipeline, store |

What makes each correct:

* Walker: a vertex starts after its dependencies and only if they satisfy it;
  a verdict stays right while other waiters change responses; the walk ends.
* Task execution: slots are neither lost nor exceeded although callbacks give
  up on goroutines; configuration (always_pass, abort_if_error) takes effect.
* Pipeline and resume: the result says what happened; settled tasks stay
  settled; a rebuild runs what is blocked, and nothing twice.
* Data context: nothing uses a context after it was released to the pool.
* Data: what a task reads is what the nearest source wrote; a snapshot
  restores what it saved.
* Graph: edges and both adjacency maps agree; validation accepts exactly the
  acyclic graphs with one root.
* Builder and registry: what is accepted is exactly what the configuration
  says, with the component its name means; a rebuild restarts nothing settled.
* Engine, loops: every run is reported as it began and as it ended; a loop that
  was given up stops; its results keep their places.
* A walk that is updated: vertices decide on the dependencies they have now,
  and nobody waits for a channel that was replaced.

The hard behaviours are concurrency (two goroutines per vertex, one per task),
the race of the context with everything else, goroutines that outlive their
callback and their run, objects that are pooled and used again, channels that are
replaced while someone listens, and state that survives a rebuild.
`PROJECT.json` lists the hazards with their lines.

## Modules

| Module | Models |
|---|---|
| `Responses` | response constructors, levels and statuses |
| `WalkerUpdate` | `walk.go` when Update is called again during the walk |
| `DependencyLogic` | abstract: what a walk promises, without goroutines |
| `Walker` | `walk.go`: waiters, vertices, verdicts, demotion, records |
| `Pipeline` | `graph_walker.go`, `pipeline.go`, Rebuild; uses `Walker` by INSTANCE and shares its variables |
| `AbstractGraph` | abstract: a labelled relation between vertices |
| `DagGraph` | `graph.go`, `set.go`, edge ids: the edge set and both adjacency maps |
| `Reachability` | reference definitions: closed sets, reachability, components, distances |
| `FrontierWalk` | `dag.go` walk: depth-first and breadth-first, down and up |
| `StronglyConnected` | `tarjan.go` |
| `TopologicalOrder` | `dag.go` topoOrder |
| `TransitiveReduction` | `dag.go` TransitiveReduction; extends `FrontierWalk`, removes edges with `DagGraph` |
| `DagAlgorithms` | the calls a client makes: composes the four algorithms, Root, Cycles, Validate |
| `Builder` | `builder.go` BuildPipeline, as NewPipeline and Rebuild call it; makes edges with `DagGraph` |
| `Registry` | `registry.go`: components by namespace and name; used by `Builder` |
| `NodeData` | `dag/data_context.go`, `data_store.go`, `edge.go` Match, `parameter.go`, the data of `pipeline.go` |
| `Engine` | `flow.go` Run and CronRun, `core/data_context.go` and its pool, `loop.go`, `sub_pipeline.go` |
| `WalkerProofs`, `WalkerUpdateProofs`, `PipelineProofs`, `DagGraphProofs`, `EngineProofs`, `BuilderProofs`, `AlgorithmProofs`, `NodeDataProofs` | theorems |
| `MCWalker`, `MCWalkerUpdate`, `MCPipeline`, `MCDagGraph`, `MCDagAlgorithms`, `MCBuilder`, `MCNodeData`, `MCEngine` | graphs, configurations, data and answer sets for TLC |

`Pipeline` composes with `Walker` by instance (`W`); `Walker` takes a graph that was
validated, which is what `DagAlgorithms!ValidateIsExact` is about. `WalkerUpdate`
implements `Walker` until the second Update. `Engine` and `NodeData` each take the
parts of a run they are not about as one step: a walk in `Engine`, timeouts,
slots and logic nodes in `NodeData`.

### Walker

`pc[v]` is where `walkVertex` stands: `waiting` for the verdict, `running` the
callback, `returned` from it, `done` when DoneCh is closed. `verdict[v]` is what
`waitDeps` sent on DepsCh. `response`, `upstreamFailed`, `taskStatus` are the maps
of the code, `ctxDone` the context of the walk. `WaitDeps` is the waiter that saw
all its dependencies done, including the demotion of failures by Any and Not
nodes; for a Not node with several dependencies the last one read of a Go map
decides, hence a choice. `WaitCancelled` is the other branch of its select and
is possible although the dependencies are done. The passing of `respLock` and
the close of DoneCh are one step (`Record`): a waiter reads a response only
after the close. `Update` is called once, before the walk, so its cancel channels
never fire. `NewWalk` is a new walker on the same graph, as a resumed pipeline
makes one; only `taskStatus` survives it.

`DependencyLogic` keeps, for each vertex, only whether it is pending, running or
finished and whether it passed. `Walker!ImplementsLogic` is the refinement. It
states the code's logic: a vertex that is passed over counts as passed.

### A walk that is updated

In `WalkerUpdate` a vertex that is added gets an *info* (a `walkerVertex`), the n-th
one of its id; `infos` is `vertexMap`, `cancelled` are the infos whose CancelCh is
closed. `waiters[i]` are the `waitDeps` goroutines made for an info, each with the
dependencies it was given and what it sent; all but the last have their cancel
channel closed. `taken[i]` is the DepsCh `walkVertex` listens to, 0 for the closed one
it begins with. `BeginUpdate` is Update as far as others cannot see it: removed
vertices are cancelled, `w.edges` and `info.deps` are changed. `Kick` makes one new
waiter, `EndUpdate` starts the new vertices. The lock orders Updates, but
`walkVertex` and `waitDeps` do not take it, so they run between these steps.
`TakeVerdict` drops a verdict if a waiter was made since (the check of DepsUpdateCh
under DepsLock). All vertices are plain tasks: node types and conditions do not
meet the channels of an Update.

### Pipeline

`job[v]` is the goroutine `callback` starts for a task: `queued` on the semaphore,
`executing`, `finished` with its `outcome` in the channel. `slots` is the length of
the `ParallelSem` channel. `Abandon` is the context branch of callback's select:
the job goes on by itself. `Execute`, `ExecuteFails` and `SlotLeaks` are the ways
`execute` ends: with an answer to which always_pass and abort_if_error are applied,
with an error that escapes them (panic, missing parameter, nil answer), or with
a panic inside the deferred function that skips the release. A component in
`Hanging` may never return. `Rebuild` keeps the
statuses and replaces walker, semaphore and context; the goroutines of the
earlier run then share nothing with this model any more, only the pooled data
context, which is in `Engine`.

### The graph

`DagGraph` keeps one record `g` with the fields of `Graph`. A Go `Set` maps ids to
objects: a vertex is its id here, since BuildPipeline makes one object per id,
and an edge is a record whose `tag` stands for its condition and properties. Ids
are sequences of words, so that `JoinedId` does what `basicEdge.ID` does; two pairs
of ids may be joined to the same edge id. A missing row of a map is an empty
row. `Removed` is Remove with the RemoveEdge calls it makes, one per target and
source. `Connect` is called for vertices that were added, as BuildPipeline does.

`AbstractGraph` promises less and says it plainly: vertices, and one label for
some pairs of them, which is the first one given until the pair is disconnected.
`DagGraph!ImplementsAbstract` is the refinement; a pair's label is the tag of its
edge object.

### The algorithms

Each algorithm is a state machine whose one record holds the local variables of
the call (`walk`, `scc`, `topo`, `reduction`); a frame of `scc` or `topo` is a call that
has not returned, and the row it still has to read shrinks by any element,
because Go reads maps in any order. `FrontierWalk!Visit` reads a row after the
callback returned, so a callback may change the graph: that is what
`TransitiveReduction` does, whose callback removes edges from the row the walk
started from. `DagAlgorithms` chooses a graph and a call; its variables for the
other calls stay idle.

### The builder and the registry

`Registry` is the two levels of maps as functions. `Builder` begins with a sequence
of registrations and takes a configuration through the two loops of BuildPipeline, by one task
or one dependency a step, and validation. A panic is recovered there, so every
panic is a refusal: a nil node, a nil source, a nil timeout, a semaphore of size
zero. The status map belongs to the caller and is written as the loop goes.
What a configuration asks for (`ConfPairs`, `Buildable`, and the last component
registered under exactly the name and namespace of a task) is stated without the
loops and the maps.
`Valid` is the result of Validate, which `DagAlgorithms` obtains from the components.
A pipeline of `Walker` and `Pipeline` is one whose edges kept their conditions
(`Conditional`); with the builder as it is, `Conditional` is empty. The modules that
have conditions describe the packages `dag` and `core` with an edge that has one.

### Data

`context[v]` is the NodeDataContext `walkVertex` fills, one in-edge per `ReadEdge`, in
any order, with the condition of the edge evaluated on what was read so far.
`Get` looks in the properties of the edges, in the outputs of the sources in
reading order, then in the shared store. Values have a type, because == and !=
compare types and the codec turns integers into floats (`RecodedMap`). `Prepared`
is `prepareParameter` over all kinds of parameters; an unset required one and a
field the object does not have are failures (`Missing`). `GetValue` is the recursion of
`getValue` as a function over the configurations there are (`Configs`). `Publish` is
`SetCurrentNodeData`, which happens before the response is recorded; `RunReturns` is
`assembleResult` and the snapshot of a blocked run, `Rebuild` a run that goes on from
it or from a new store. `given` and `kept` are history: what a task answered, and
whether the snapshot was always used.

### The engine

A run of `Engine` has a `phase`, which is where `CronRun`, `RiverEngine.Run` and
`pipeline.Run` stand for it, and a task with a `stage`. `pool` is the `sync.Pool`, `owner`
and `store` the run whose fields and whose SharedDataStore a data context holds.
`RunReturns` releases the data context of a run although its task may still go
on; such a task (a loop that its callback gave up) begins inner runs with data
contexts of their own, beside runs that were asked for later. `Inner(r)` is the
inner pipeline of the current item; it is run at once, without a slot and
without events. Deferred calls run last first: the slot is given back, then the
end is reported. What `LogPanics` says matters for the answer of a loop: logging
through a cleared context panics.

## What is checked

Constants that are sets of tasks (`Faulty`, `TimeoutTasks`, `AlwaysPass`, ...) say
which tasks have that feature; `MaxWalks` and `MaxRuns` bound the walks of a graph.

* `walker`: root r, tasks a and b, and behind both an Any node, a Not node and a
  task with a condition and skip_execution. a answers everything, the context may
  be done at any time, two walks. Three waiters read and demote the same two
  responses, which is the case the verdict properties are about; more vertices
  repeat it. The second walk is there for the statuses that survive.
* `pipeline`: r, then a (timeout, abort_if_error) and b (always_pass; may fail
  before Execute, hang, or panic in After), an Any node over both, c behind a
  under a condition and with skip_execution; one slot, so tasks queue; a context
  that may be done at any time; one rebuild. Besides slots and absorbed
  failures, it is about what outlives a run: no goroutine is awaited for a task
  that is settled, and statuses tell the answers. A run ends unless a component
  hangs or the slot was leaked, and if its context is done it ends all the same.
* `update`: a and c, c behind a; then b as well, b instead of a, or the edges
  turned so that b is behind a and c is free; at most three Updates, the context
  may be done, answers that pass and that do not. Two Updates after the first
  are enough to replace a waiter before it was heard, and to do so twice.
* `dag_graph`: three ids, two tags, every graph they can form (`MaxEdges` 9 is no
  bound), all operations in any order. Three ids give self-references, two-cycles
  and vertices that are removed and come back.
* `dag_algorithms`: every graph with at most four vertices and four edges, cyclic or
  not, each call on it, every order of reading. Four edges allow a diamond, a
  cycle with a tail and an edge that two others make redundant. Which vertices a
  graph has and where a walk starts is fixed up to renaming (`FirstIds`, `OneStart`),
  as all edges between them are tried. References are stated over all closed
  sets of vertices and share nothing with the algorithms.

* `builder`: all pairs of tasks over every kind of name, timeout and one dependency,
  which covers each refusal, and all triples of plain tasks with up to two
  dependencies each, which covers cycles, several roots and repeated pairs;
  components of one name registered with and without a namespace, and again.
* `node_data`: c waits for a and b, both under a condition (on a number, and "in"
  a list); d runs beside them, writes, deletes and copies the same key in the
  shared store. c has a parameter of each kind. One rebuild, with and without
  the snapshot, with and without initial data. Two sources of one key and a
  third in the shared store are what the order of lookup is about.
* `engine`: one slot, two runs (one is scheduled, the other resumed), a loop
  over three items with max_loop 2 that goes on after errors, beside a plain
  task or an embedded pipeline; each can be cancelled at any time. Four data
  contexts are as many as two runs with one inner run each can hold, so reuse is
  forced by the pool and never by the bound.

Mutants, kept beside the definitions they change, show that each property can
fail.

Fairness: every goroutine that can run does (`WF` per waiter, vertex, callback),
because Go schedules them all. The semaphore serves its waiters in order and a
task asks once per run, so weak fairness is enough for `Acquire`. User code is
assumed to return, except for the tasks in `Hanging`: `EveryRunReturns` speaks of
runs that are not obstructed, `CancelledRunReturns` of all. In `Engine` the caller
goes on with a run it has made and a task goes on with its next step; nobody has
to ask for a run or to refuse a configuration. In `WalkerUpdate` the first Update is
made and an Update that was begun ends; nobody has to make another. No
fairness on cancellation. The algorithms are sequential: weak fairness on
their next step only says that a call goes on running.

Runs that show a disagreement between the documentation and the code:

* `doc_condition`: conditions of a configuration are lost when its edges are made,
  because `WithProperties` returns the basic edge that a conditional one embeds.
* `doc_resume`: a task behind a failed always_pass task is never run again.
* `doc_update`: a vertex that is removed by an Update and added again by another
  is walked before its dependencies, because its edges stayed in `w.edges`.
* `doc_cron`: the job of CronRun logs through a data context that was released.

Others follow from the modules and have no run of their own:

* A vertex that is passed over is recorded as a warning that passes (walk.go:457),
  so the vertex behind it runs, although the program's README (line 10) says that the target of an
  edge runs after its source succeeded (`Walker!PassOver`).
* always_pass and abort_if_error hold for what Execute returns only, not for
  timeouts, panics and parameters (`Pipeline!ExecuteFails`, `Abandon`), and after
  abort_if_error tasks may still start (the program's README, lines 149 and 151).
* Edges from a to `b->c` and from `a->b` to c have one id (edge.go:77): connecting the
  second removes the first from the edge set but not from the maps. The
  theorems about `DagGraph` assume ids that join injectively, as those of its
  run do.
* A vertex may be let through in the middle of an Update, by a dependency that was
  removed and so has no response, although walk.go:172 says that no vertex is
  executed during this time. `WalkedAfterDeps` speaks of decisions outside of one.

TLC checks for deadlock in all runs but those of `WalkerUpdate`, `Engine` and
`NodeData`, whose systems may stop when everything has run; there the liveness
properties (`UpdatedWalkEnds`, `EveryRunIsReported`) say what must have happened
(`NodeData` is about safety only). In the others `Terminated` and `Returned` are the
only ways to stop.

## What is proved

`WalkerProofs`, for every graph (finite or not, acyclic or not), every set of answers and
every bound; assumptions `GraphAssumption` and `CallbackAssumption`.

* `TypeCorrect`.
* `Invariance`: `Inv`, which is `TypeOK`, that only vertices with a passing
  verdict call back, and `VerdictJustified`. The latter is kept because a step
  changes only responses of vertices that are not done, apart from demotion,
  and demotion does not change whether a response passed
  (`DemotionKeepsPass`, `RecordedStayWithinWalk`, `JustifiedStays`); the step that
  sets a verdict agrees with what it read (`VerdictsAgree`).
* `VerdictsAreJustified` and `CallbacksStartAfterDeps` follow from it.
* `AnswersAreFinal`, `SettledStatusesAreKept`: action properties from the types.
* `OnlyLogicNodesSilence`: from `SilencedInv`, assuming that callbacks do not
  themselves answer with a failure at level Warning.
* `Refinement`: the walker implements `DependencyLogic`, step by step, from `Inv`.

`PipelineProofs`, for every graph, set of tasks and configuration; assumptions
`GraphAssumption` and `PipelineAssumption`.

* `PipelineWalks`: a pipeline's behaviours are walker behaviours, callback by
  callback, so the theorems of `WalkerProofs` hold of pipelines (instance `WP`).
* `TypeCorrect`, and `SlotsAreHeld` from an invariant that injects the executing
  goroutines into the slots taken.
* `AwaitedAreUnsettled` and `ResumableAreIdle` from `GoroutineInv`: a goroutine exists
  only for a task whose callback was entered, an awaited one belongs to a running
  vertex with an unsettled task, one left behind belongs to a task that its
  callback settled, and a blocked task's goroutine is over.
* `StatesTellAnswers` from `AnswerInv`, which adds that a skipped task never ran.
* `BlockedHoldDependents`, assuming that blocked answers do not pass, as
  NewBlockedResponse makes them.
* `SuccessAbsorbs`: `SuccessAbsorbedFailures`, assuming that a component that fails says
  so with an error (`FailuresTell`, as NewErrorResponse and NewFatalResponse do). From
  `ReportInv`: a failure that nothing absorbs was answered in the run at hand, is
  not among the responses that are left out, and is reported; so a run that contains
  it ends neither as a success nor blocked, and no rebuild, which would answer it
  without its error, comes to it.

`WalkerUpdateProofs`, for every first graph, every set of later ones and every number
of Updates; assumption `UpdateAssumption` (edges join vertices of their graph, which
`DagGraphProofs!NoDanglingEdges` proves).

* `VerticesWaitForTheirDeps`: `WalkedAfterDeps`, assuming that no removed vertex comes back,
  without which run `doc_update` violates it, from `UpdateInv`: the edges of the walk
  include those of the graph and are known to `info.deps` (`DepsInv`); the last waiter
  of a vertex knows them too unless the vertex is about to get another
  (`WaiterInv`); what a waiter let through stays answered and passed (`VerdictInv`,
  `AnswerInv`); and what was not yet added or started has no history
  (`FreshInv`). `DecisionIsLast` shows that a vertex decides on its last waiter only.
* `UpdateRefinesWalker`: `OneUpdateIsAWalk`, assuming that no callback answers the zero
  response, which both sides take for "none" but judge differently. `OneWalk`, as long
  as one Update was made: each vertex of the first graph has one info, with one waiter,
  for all its dependencies, exactly if it has any and Update came to it
  (`FirstGraph`, `FirstWaiters`), and what it took from the waiter is what was sent
  (`TookRight`). So making waiters, taking the verdict and seeing an update are steps that
  Walker does not see, and a vertex is never cancelled.

`EngineProofs`, for every set of runs, length of a loop and number of slots;
assumption `EngineAssumption`.

* `Invariance` and `ContextsAreOwned` (`RunsOwnTheirContext`): what the pool can give is
  empty (`FreeAreCleared`) and what a run uses was made, is its own and is not in the
  pool; `NewKeeps` and `ReleaseKeeps` are the two steps that matter.
* `LoopsStopInTime`: after its context is done a loop passes its check no more, so
  only the inner run it had checked for can still begin.
* `ResultsKeepTheirPlaces`: by an invariant that ties the length of the results to
  the turn of the loop and each place to the inner runs that succeeded.

`BuilderProofs`, for every set of configurations and of registrations; assumption
`BuilderAssumption` (finitely many ids, and configurations are sequences of tasks that
have sequences of dependencies, as the Go types say).

* `BuildExact`: `BuildIsExact`, assuming `JoinIsInjective` as for `DagGraph`. `BuildInv`: while
  components are registered, the registry holds under each name and namespace the
  last one that was registered there (`Holds`, `RegisterHolds`); while the loops run,
  the graph is what was handled of the configuration so far, in the edge set and in
  both maps (`GraphHolds`), and every task was given the component its name means
  (`MadeIsMakeable`). At the end `ValidIsBuildable` shows that what Validate says of the
  graph is what `Buildable` says of the configuration (`RootReachesAll`: in an acyclic
  graph one vertex reaches all exactly if it is the only one without an edge to it).
* `StatusesStay`: `SavedStatusesStay`, from `StatusesGrow`, without assumptions.

`DagGraphProofs`, for every set of ids and tags, finite or not.

* `TypeCorrect`.
* `RepresentationsAgree` and `NoDanglingEdges`, assuming `JoinIsInjective`, from
  `Coherent`: each pair has at most one edge object, it is in both maps exactly if it
  has one, and its ends are vertices. The single-object part is what makes
  removal by id exact (`DisconnectedEdges`, `RemovedEdges`).
* `ImplementsLabels`: the refinement of `AbstractGraph`, from `Coherent`
  (`LabelsOfEdges`, `LabelsFollowEdges`).

`AlgorithmProofs`, for every finite set of ids, so for graphs of any size, with cycles
or without; assumption `AlgorithmAssumption`.

* The lemmas about the reference definitions come first. `Reachable` is the least closed
  set and needs no induction. What has a recursive function behind it (`Ball`, and
  `FlattenSeq` of the library in `BuilderProofs`) is proved without an induction principle: a
  function that obeys the recursion is given in closed form, so the one that CHOOSE
  takes obeys it too, and a claim about all numbers is refuted at its least
  counterexample (`LeastNat`).
* `WalksAreExact`: `WalkIsExact`. `WalkInv`: what was visited or waits on the frontier is
  reachable (`ReachableIsClosed`), holds the start, and contains the row of everything
  visited; so when the frontier is empty what was visited is closed, and
  `ReachableIsLeast` makes it everything. `AtDepthIsWhole` shows that no order of reading
  a row loses a vertex of it, which is where finiteness is used. The walks
  inside a reduction are included, on cyclic graphs too: all that the walk for u
  found, it found without edges of u (`WalkSpares`), and only those are removed.
* `BreadthFirstShortest`: `BreadthFirstIsShortest`. `Spreads`: the depths on the queue are in
  order and differ by at most one, none is below one that was visited, and the
  target of every edge from a visited vertex has an entry that is at most one
  deeper. So what is nearer than the head of the queue was visited (`NearerIsVisited`).
* `DepthFirstOrdered`: `DepthFirstOrder`. `Pushed`: there is a function from the stack to the
  visits that pushed its entries, which grows towards the top, and every target of
  a visited vertex that was not visited is still there for that vertex. In a
  reduction a row changes, but never one that was read (`OrderIgnoresOthers`).
* `ReductionsAreExact`: `ReductionIsExact`. What the callback does, a fold of RemoveEdge, is
  `Cut` (`PruneCuts`). The step that matters is `PruneKeeps` with `SharedEdgesAreNotNeeded`:
  without cycles, a way from u to w neither begins with an edge that is removed nor
  comes back to u, so the targets of w are still reached. When the walk for u is over,
  all that the targets of u reach was visited and has no target in common with
  u (`WalkPrunes`), so every edge of u is needed (`WalkLeavesNeeded`); it stays
  needed while other rows shrink (`NeededStays`).
* `OrdersAreTopological`: `OrderIsTopological`. `FramesOK`, between the steps of a sort:
  the frames are the vertices being visited, each reachable from the ones before;
  of what comes before a frame's vertex, everything is sorted, left to try or the
  next frame. So a vertex is sorted after its row, and a vertex met while it is
  being visited reaches itself. `OrderedIsAcyclic` and `AcyclicReversed` turn a
  complete order, up or down, into the absence of cycles.
* `ComponentsExact`: `ComponentsAreExact`. `SearchOK`, between the steps of Tarjan's search:
  vertices are on the stack in the order of their indices; a call reaches all that is
  above its vertex, and its minimum is the index of a vertex on the stack that it
  reaches (`CallsOK`); every vertex on the stack reaches one whose call goes on, and
  an edge that was looked at is known to a call (`StackOK`); what was popped is closed
  and made of components (`PartsOK`). `PopKeeps` is the step that matters: a minimum that is
  the own index means that nothing above reaches below.
* `ValidateExact`: `ValidateIsExact`, from the components (`ValidIsAcyclic`: single ones without
  edges to themselves mean no cycle; `AcyclicIsRunnable`: and then one root reaches all).

`NodeDataProofs`, for every graph, every set of parameters and all data; assumptions
`EdgeAssumption`, `ConfigAssumption` (a configuration is a finite tree) and `DataAssumption`
(what a JSON number becomes is data too, and no data stands for nil or missing).

* `AnswersOutliveRuns`: `OutputsOutliveRuns`, from `KeptInv`: between its answer and its
  publication a task has in its reply what its output lacks, at any other time its
  output is what it answered last; and the snapshot of a blocked run is what the
  run left behind, because all its tasks were done.
* `TasksAreWellGiven`: `TasksRunOnWhatTheyNeed`, assuming that no two parameters of a task have
  one name (`DistinctNames`): they would fill one field, and the last would be given.
  `TasksInv`: the context of a task is made of exactly the edges it read (`Holds`), in
  whatever order (`ReadingHolds`); what it reads from is done, and what is done keeps
  its output until all are (`DoneStays`); so an edge that decides, once it was
  matched, holds of what is provided as long as the task runs (`MatchLetsIn`,
  `ProvisionStays`). `ValuesAreAllowed` is the parameters: a least nested configuration
  whose value is not allowed does not exist.
* `GetValue` and `Says` are recursive functions over configurations. `RulesAreObeyed`
  shows that such functions exist: solutions up to a depth agree where both are
  defined (`SolutionsAgree`) and exist for each depth (`SolutionsExist`), by least
  counterexamples.

Only model-checked: liveness (fairness is out of the prover's reach, and so is
ENABLED). Every safety property a run checks is stated by a theorem.

## Not modelled, and the plan

Not modelled on purpose: formatting and logging, reflection in parameter assembly
(its failure is `Faulty`), the components for text, JSON, waiting and HTTP, which
are Execute steps that answer or fault, the cron library and Destroy, which
only stops it. `GraphWalker.serial` and the walker's Reverse are never set;
`Subsume`, `TryAcquire` and `WithValue` have no caller.

Next: `NodeData` with logic nodes, whose demoted answers have data too.
