------------------------------- MODULE Builder -------------------------------
(***************************************************************************)
(* internal/core/builder.go: BuildPipeline makes the graph and the task    *)
(* statuses of a pipeline from its configuration, or refuses it.  A panic  *)
(* on the way is recovered and refuses it as well.  The status map is the  *)
(* caller's: empty for NewPipeline, that of an earlier run for Rebuild.    *)
(***************************************************************************)
EXTENDS Integers, Sequences, SequencesExt, Reachability, FiniteSets, Registry

CONSTANTS
  Confs,           \* configurations: a concurrency and a sequence of tasks
  SavedStatuses,   \* the status maps a build may be given
  Builtins,        \* names of builtin nodes the registry has
  Registrations,   \* sequences of components the program registers
  MaxEdges

DependencyConf == [id : Ids, conditional : BOOLEAN]
TaskConf ==
  [id : Ids, name : STRING, namespace : STRING, timeout : BOOLEAN, depends : Seq(DependencyConf)]
ComponentConf == [name : STRING, namespace : STRING, timed : BOOLEAN]

ASSUME BuilderAssumption ==
  /\ IsFiniteSet(Ids)
  /\ Confs \subseteq [concurrency : Int, tasks : Seq(TaskConf)]
  /\ Registrations \subseteq Seq(ComponentConf)

VARIABLES
  registrations, \* the components in the order they are registered
  registry, \* what the registry holds
  conf,     \* the configuration
  done,     \* iterations of the two loops that are over
  g,        \* the graph
  statuses, \* TaskStatuses
  result    \* registering, building, built or refused

vars == <<registrations, registry, conf, done, g, statuses, result>>

Tags == {"plain", "conditional"}

DG == INSTANCE DagGraph

\* What the loops go over: the tasks, and the dependencies of each with its id.
Tasks == conf.tasks
Dependencies ==
  FlattenSeq([i \in DOMAIN Tasks |->
                [j \in DOMAIN Tasks[i].depends |-> <<Tasks[i].depends[j], Tasks[i].id>>]])

\* The edges BuildPipeline makes.  WithProperties belongs to the basic edge that
\* a conditional edge embeds, and returns that basic edge.
PropertyEdge(s, t) == [source |-> s, target |-> t, tag |-> "plain"]
ConditionEdge(s, t) == [source |-> s, target |-> t, tag |-> "conditional"]
WithProperties(e) == [e EXCEPT !.tag = "plain"]

MadeEdge(d, t) == IF d.conditional THEN WithProperties(ConditionEdge(d.id, t))
                  ELSE PropertyEdge(d.id, t)

\* The edge a dependency asks for.
AskedEdge(d, t) == IF d.conditional THEN ConditionEdge(d.id, t) ELSE PropertyEdge(d.id, t)

-----------------------------------------------------------------------------
Init ==
  /\ conf \in Confs
  /\ statuses \in SavedStatuses
  /\ done = 0
  /\ g = DG!EmptyGraph
  /\ registrations \in Registrations
  /\ registry = EmptyRegistry
  /\ result = "registering"

\* Components are registered before pipelines are built.
Register ==
  /\ result = "registering" /\ done < Len(registrations)
  /\ registry' = Registered(registry, registrations[done + 1])
  /\ done' = done + 1
  /\ UNCHANGED <<registrations, conf, g, statuses, result>>

BeginBuild ==
  /\ result = "registering" /\ done = Len(registrations)
  /\ done' = 0 /\ result' = "building"
  /\ UNCHANGED <<registrations, registry, conf, g, statuses>>

AtTask(t) == result = "building" /\ done < Len(Tasks) /\ t = Tasks[done+1]

AtDependency(d, id) ==
  /\ result = "building"
  /\ done - Len(Tasks) \in 0 .. Len(Dependencies) - 1
  /\ <<d, id>> = Dependencies[done - Len(Tasks) + 1]

\* There is no component of that name; or a component with a timeout writes it
\* through the nil timeout of the task, or a builtin node is nil: these panic.
NodeIsMade(t) ==
  \/ t.name \in Builtins
  \/ \E c \in GetComponent(registry, t.name, t.namespace) : c.timed => t.timeout

\* Mutant of AddTask: the status of every task starts again.
AddTaskAnew(t) ==
  /\ AtTask(t) /\ NodeIsMade(t)
  /\ g' = [g EXCEPT !.vertices = @ \cup {t.id}]
  /\ statuses' = [v \in DOMAIN statuses \cup {t.id} |-> IF v = t.id THEN "init" ELSE statuses[v]]
  /\ done' = done + 1
  /\ UNCHANGED <<registrations, registry, conf, result>>

AddTask(t) ==
  /\ AtTask(t) /\ NodeIsMade(t)
  /\ g' = [g EXCEPT !.vertices = @ \cup {t.id}]
  /\ statuses' = [v \in DOMAIN statuses \cup {t.id} |->
                    IF v \in DOMAIN statuses THEN statuses[v] ELSE "init"]
  /\ done' = done + 1
  /\ UNCHANGED <<registrations, registry, conf, result>>

\* A dependency on a task that is in the configuration.
Connect(d, id) ==
  /\ AtDependency(d, id) /\ d.id \in g.vertices
  /\ g' = DG!Connected(g, MadeEdge(d, id))
  /\ done' = done + 1
  /\ UNCHANGED <<registrations, registry, conf, statuses, result>>

\* A node that is not made, or a source that is nil: its id is asked for.
Refuse ==
  /\ \/ \E t \in ToSet(Tasks) : AtTask(t) /\ ~NodeIsMade(t)
     \/ \E dep \in ToSet(Dependencies) : AtDependency(dep[1], dep[2]) /\ dep[1].id \notin g.vertices
  /\ result' = "refused"
  /\ UNCHANGED <<registrations, registry, conf, done, g, statuses>>

\* Mutant of Valid: a graph may have several roots.
ValidAnyRoots ==
  /\ \E v \in g.vertices : g.upEdges[v] = {}
  /\ Acyclic(g.downEdges)

\* Validate (DagAlgorithms!ValidateIsExact, ComponentsAreExact): one root, no cycle.
Valid ==
  /\ Cardinality({v \in g.vertices : g.upEdges[v] = {}}) = 1
  /\ Acyclic(g.downEdges)

\* Validate, and a semaphore of the configured size, which panics for zero.
Validate ==
  /\ result = "building" /\ done = Len(Tasks) + Len(Dependencies)
  /\ result' = IF Valid /\ conf.concurrency > 0 THEN "built" ELSE "refused"
  /\ UNCHANGED <<registrations, registry, conf, done, g, statuses>>

Returned == result \in {"built", "refused"} /\ UNCHANGED vars

Next ==
  \/ Register
  \/ BeginBuild
  \/ \E t \in ToSet(Tasks) : AddTask(t)
  \/ \E dep \in ToSet(Dependencies) : Connect(dep[1], dep[2])
  \/ Refuse
  \/ Validate
  \/ Returned

Spec == Init /\ [][Next]_vars

-----------------------------------------------------------------------------
\* What a configuration says: its vertices, and who waits for whom.
ConfIds == {Tasks[i].id : i \in DOMAIN Tasks}
ConfPairs == {<<dep[1].id, dep[2]>> : dep \in ToSet(Dependencies)}
ConfRows == [v \in Ids |-> {w \in Ids : <<v, w>> \in ConfPairs}]

\* The last registration under exactly the name and the namespace of a task.
Means(t, i) ==
  LET same == {j \in DOMAIN registrations :
                 registrations[j].name = t.name /\ registrations[j].namespace = t.namespace}
  IN  i \in same /\ \A j \in same : j <= i

Makeable(t) ==
  \/ t.name \in Builtins
  \/ \E i \in DOMAIN registrations : Means(t, i) /\ (registrations[i].timed => t.timeout)

Buildable ==
  /\ \A i \in DOMAIN Tasks : Makeable(Tasks[i])
  /\ \A pair \in ConfPairs : pair[1] \in ConfIds
  /\ Acyclic(ConfRows)
  /\ \E r \in ConfIds : Reachable(ConfRows, {r}) = ConfIds
  /\ conf.concurrency > 0

\* A pipeline is built exactly when its nodes can be made, each from the last
\* component of its name and namespace that was registered, its dependencies are
\* tasks of it, they have no cycle and one task is before all others; and then its
\* graph is that of the configuration and every task has a status.
BuildIsExact ==
  /\ result = "built" => /\ Buildable
                         /\ g.vertices = ConfIds /\ DG!Pairs(g) = ConfPairs
                         /\ g.vertices \subseteq DOMAIN statuses
  /\ result = "refused" => ~Buildable

\* The statuses that are there stay, and those added are of tasks, and new.
StatusesGrow ==
  \A v \in DOMAIN statuses' :
    IF v \in DOMAIN statuses THEN statuses'[v] = statuses[v]
    ELSE statuses'[v] = "init" /\ v \in ConfIds

\* A build, also one that is refused, leaves the statuses of an earlier run
\* alone, and adds none but those of new tasks.
SavedStatusesStay == [][StatusesGrow]_vars

-----------------------------------------------------------------------------
\* What the documentation says and the code does not do.

\* README.md, conditions: a task behind a condition is entered only if it holds.
ConditionsAreKept ==
  result = "built" =>
    \A dep \in ToSet(Dependencies) :
      dep[1].conditional => AskedEdge(dep[1], dep[2]) \in g.edges
=============================================================================
