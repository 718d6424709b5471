------------------------- MODULE TransitiveReduction -------------------------
(***************************************************************************)
(* internal/dag/dag.go, TransitiveReduction: for each vertex u, a          *)
(* depth-first walk from its targets whose callback removes the edges from *)
(* u to the targets of what it visits, while the walk reads the same rows. *)
(***************************************************************************)
EXTENDS FrontierWalk, FiniteSetsExt

CONSTANTS Tags, MaxEdges

VARIABLE reduction \* the vertices left, the one at hand, and the graph at the start

DG == INSTANCE DagGraph

NoReduction == [result |-> "none"]

NewReduction ==
  [vertices |-> g.vertices, u |-> {}, before |-> g, result |-> "reducing"]

Reducing == reduction.result = "reducing"

-----------------------------------------------------------------------------
\* The next u, in any order, and a walk from its targets.
NextVertex(u) ==
  /\ Reducing /\ reduction.u = {} /\ u \in reduction.vertices
  /\ reduction' = [reduction EXCEPT !.vertices = @ \ {u}, !.u = {u}]
  /\ walk' \in Calls("depthFirst", "downOrder", g.downEdges[u])
  /\ UNCHANGED g

\* Mutant of Shared: the targets of the vertex visited with that vertex itself.
SharedAndItself(u, v) == g.downEdges[u] \cap (g.downEdges[v] \cup {v})

\* The targets of u that v has an edge to.
Shared(u, v) == g.downEdges[u] \cap g.downEdges[v]

\* The callback of the walk: RemoveEdge for each shared target, and the walk
\* goes on with the rows as they are then.
Prune(u) ==
  /\ Reducing /\ reduction.u = {u}
  /\ Walking /\ walk.frontier # <<>>
  /\ g' = FoldSet(LAMBDA t, G : DG!Disconnected(G, u, t), g, Shared(u, Current.vertex))
  /\ Visit
  /\ UNCHANGED reduction

WalkOn == Reducing /\ Skip /\ UNCHANGED <<g, reduction>>

VertexDone ==
  /\ Reducing /\ reduction.u # {}
  /\ Finish
  /\ reduction' = [reduction EXCEPT !.u = {}]
  /\ UNCHANGED g

Reduced ==
  /\ Reducing /\ reduction.u = {} /\ reduction.vertices = {}
  /\ reduction' = [reduction EXCEPT !.result = "reduced"]
  /\ UNCHANGED <<g, walk>>

ReduceStep ==
  \/ \E v \in Ids : NextVertex(v) \/ Prune(v)
  \/ WalkOn
  \/ VertexDone
  \/ Reduced

-----------------------------------------------------------------------------
\* On a graph without cycles, no step changes what a vertex reaches, and at the
\* end every edge that is left is needed: its target is reached in no other way.
ReductionIsExact ==
  reduction.result # "none" /\ Acyclic(reduction.before.downEdges) =>
    /\ \A v \in Ids : Reachable(g.downEdges, {v}) = Reachable(reduction.before.downEdges, {v})
    /\ reduction.result = "reduced" =>
         \A u \in Ids : \A t \in g.downEdges[u] :
           t \notin Reachable(g.downEdges, g.downEdges[u] \ {t})
=============================================================================
