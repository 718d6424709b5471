--------------------------- MODULE DagAlgorithms ---------------------------
(***************************************************************************)
(* internal/dag/dag.go: the calls a client of a graph may make.  Each      *)
(* behaviour is one call on one graph; the algorithms are in modules of    *)
(* their own.  Validate, which BuildPipeline calls before anything walks   *)
(* the graph, is the search for components together with Root and a look   *)
(* for edges that join a vertex to itself.                                 *)
(***************************************************************************)
EXTENDS TransitiveReduction

CONSTANTS
  VertexSets, \* the sets of vertices a graph may have
  Starts      \* the vertices a walk may be called for

ASSUME AlgorithmAssumption == IsFiniteSet(Ids) /\ VertexSets \subseteq SUBSET Ids

VARIABLES
  scc, \* a search for components
  topo \* a sort

S == INSTANCE StronglyConnected
T == INSTANCE TopologicalOrder

vars == <<g, walk, reduction, scc, topo>>

\* The graph that was built from these vertices and pairs.
Built(vertices, pairs) ==
  [vertices |-> vertices,
   edges |-> {[source |-> p[1], target |-> p[2], tag |-> CHOOSE tag \in Tags : TRUE] : p \in pairs},
   downEdges |-> [v \in Ids |-> {w \in Ids : <<v, w>> \in pairs}],
   upEdges |-> [v \in Ids |-> {w \in Ids : <<w, v>> \in pairs}]]

\* Ancestors walks down and Descendents up, from the neighbours of a vertex.
Ancestors(v) == walk \in Calls("depthFirst", "downOrder", g.downEdges[v])
Descendents(v) == walk \in Calls("depthFirst", "upOrder", g.upEdges[v])
BreadthFirstWalk(start) == walk \in Calls("breadthFirst", "downOrder", start)
ReverseBreadthFirstWalk(start) == walk \in Calls("breadthFirst", "upOrder", start)

CallWalk ==
  /\ \E v \in g.vertices \cap Starts : \/ Ancestors(v) \/ Descendents(v)
                                         \/ BreadthFirstWalk({v}) \/ ReverseBreadthFirstWalk({v})
  /\ reduction = NoReduction /\ scc = S!NoSearch /\ topo = T!NoSort

CallReduction ==
  /\ reduction = NewReduction
  /\ walk = NoWalk /\ scc = S!NoSearch /\ topo = T!NoSort

CallStronglyConnected ==
  /\ scc = S!NewSearch
  /\ walk = NoWalk /\ reduction = NoReduction /\ topo = T!NoSort

CallTopologicalOrder ==
  /\ \E order \in T!Orders : topo = T!NewSort(order)
  /\ walk = NoWalk /\ reduction = NoReduction /\ scc = S!NoSearch

Init ==
  /\ \E vertices \in VertexSets : \E n \in 0 .. MaxEdges :
       \E pairs \in kSubset(n, vertices \X vertices) : g = Built(vertices, pairs)
  /\ CallWalk \/ CallReduction \/ CallStronglyConnected \/ CallTopologicalOrder

Returned ==
  /\ reduction.result \in {"none", "reduced"}
  /\ reduction.result = "none" => walk.result \in {"none", "ok", "failed"}
  /\ scc.result \in {"none", "found"}
  /\ topo.result \in {"none", "sorted", "panicked"}

Next ==
  \/ reduction.result = "none" /\ Step /\ UNCHANGED <<reduction, scc, topo>>
  \/ ReduceStep /\ UNCHANGED <<scc, topo>>
  \/ S!Step /\ UNCHANGED <<walk, reduction, topo>>
  \/ T!Step /\ UNCHANGED <<walk, reduction, scc>>
  \/ Returned /\ UNCHANGED vars

Spec == Init /\ [][Next]_vars /\ WF_vars(Next)

-----------------------------------------------------------------------------
\* The vertices without an edge to them; Root is an error unless there is one.
Roots == {v \in g.vertices : g.upEdges[v] = {}}

Cycles == {c \in ToSet(scc.SCC) : Len(c) > 1}

\* Mutant of Valid: no look for edges that join a vertex to itself.
ValidButLoops == Cardinality(Roots) = 1 /\ Cycles = {}

\* Validate, when the components were found.
Valid ==
  /\ Cardinality(Roots) = 1
  /\ Cycles = {}
  /\ \A e \in g.edges : e.source # e.target

\* Validate accepts a graph exactly when a walk can run on it: from one vertex
\* every other one is reached, and among any vertices one waits for none of them.
ValidateIsExact ==
  scc.result = "found" =>
    (Valid <=> /\ \E r \in g.vertices : Reachable(g.downEdges, {r}) = g.vertices
               /\ \A U \in SUBSET g.vertices :
                    U # {} => \E v \in U : g.upEdges[v] \cap U = {})

\* The components (StronglyConnected) and the sorts (TopologicalOrder) are right.
ComponentsAreExact == S!ComponentsAreExact
OrderIsTopological == T!OrderIsTopological

\* Every call returns, on graphs with cycles too.
EveryCallReturns == <>Returned
=============================================================================
