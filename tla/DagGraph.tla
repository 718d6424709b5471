------------------------------ MODULE DagGraph ------------------------------
(***************************************************************************)
(* internal/dag/graph.go and set.go: the graph of a pipeline keeps its     *)
(* edges twice, as a set of edge objects under their ids, and as the       *)
(* targets and the sources of every vertex.  A walk takes the dependencies *)
(* from the first (EdgesTo), validation and the orders from the second.    *)
(*                                                                         *)
(* A Set of the code maps ids to objects.  BuildPipeline makes one object  *)
(* per id, so a vertex is its id here; an edge is an object with a tag,    *)
(* which stands for its condition and properties.                          *)
(***************************************************************************)
EXTENDS Naturals, Sequences, FiniteSets

CONSTANTS
  Ids,     \* the ids of vertices, as sequences of words
  Tags,    \* conditions and properties an edge may carry
  MaxEdges \* bound on the number of edges

ASSUME IdAssumption == Ids \subseteq Seq(STRING)
ASSUME MaxEdgesAssumption == MaxEdges \in Nat

VARIABLE g

Edge == [source : Ids, target : Ids, tag : Tags]

\* basicEdge.ID joins the ids with an arrow.
JoinedId(s, t) == s \o <<"->">> \o t
EdgeId(e) == JoinedId(e.source, e.target)

\* Two pairs of ids are joined to the same id only if they are the same: what
\* the graph needs, and what ids that contain an arrow may break.
JoinIsInjective ==
  \A s1, t1, s2, t2 \in Ids : JoinedId(s1, t1) = JoinedId(s2, t2) => s1 = s2 /\ t1 = t2

Graph ==
  [vertices : SUBSET Ids, edges : SUBSET Edge,
   downEdges : [Ids -> SUBSET Ids], upEdges : [Ids -> SUBSET Ids]]

EmptyGraph ==
  [vertices |-> {}, edges |-> {},
   downEdges |-> [v \in Ids |-> {}], upEdges |-> [v \in Ids |-> {}]]

-----------------------------------------------------------------------------
\* Set.Add and Set.Delete on the set of edges.
WithEdge(edges, e) == {f \in edges : EdgeId(f) # EdgeId(e)} \cup {e}
WithoutEdge(edges, s, t) == {f \in edges : EdgeId(f) # JoinedId(s, t)}

\* Mutants of Connected: the edge object is replaced although the vertices are
\* connected already; only one direction is linked; the edge joins the up edges
\* where its source should.
ConnectedAgain(G, e) ==
  [G EXCEPT !.edges = WithEdge(@, e),
            !.downEdges[e.source] = @ \cup {e.target},
            !.upEdges[e.target] = @ \cup {e.source}]

ConnectedDown(G, e) ==
  IF e.target \in G.downEdges[e.source] THEN G
  ELSE [G EXCEPT !.edges = WithEdge(@, e),
                 !.downEdges[e.source] = @ \cup {e.target}]

ConnectedToEdge(G, e) ==
  IF e.target \in G.downEdges[e.source] THEN G
  ELSE [G EXCEPT !.edges = WithEdge(@, e),
                 !.downEdges[e.source] = @ \cup {e.target},
                 !.upEdges[e.target] = @ \cup {EdgeId(e)}]

\* Graph.Connect: a pair that is connected stays as it is.
Connected(G, e) ==
  IF e.target \in G.downEdges[e.source] THEN G
  ELSE [G EXCEPT !.edges = WithEdge(@, e),
                 !.downEdges[e.source] = @ \cup {e.target},
                 !.upEdges[e.target] = @ \cup {e.source}]

\* Graph.RemoveEdge.
Disconnected(G, s, t) ==
  [G EXCEPT !.edges = WithoutEdge(@, s, t),
            !.downEdges[s] = @ \ {t},
            !.upEdges[t] = @ \ {s}]

\* Mutant of Removed: only the edges that leave v are removed.
RemovedDown(G, v) ==
  [vertices |-> G.vertices \ {v},
   edges |-> {e \in G.edges : \A t \in G.downEdges[v] : EdgeId(e) # JoinedId(v, t)},
   downEdges |-> [G.downEdges EXCEPT ![v] = {}],
   upEdges |-> [w \in Ids |-> IF w \in G.downEdges[v] THEN G.upEdges[w] \ {v} ELSE G.upEdges[w]]]

\* Graph.Remove: RemoveEdge for each target of v and then for each source.
Removed(G, v) ==
  [vertices |-> G.vertices \ {v},
   edges |-> {e \in G.edges : /\ \A t \in G.downEdges[v] : EdgeId(e) # JoinedId(v, t)
                              /\ \A s \in G.upEdges[v] : EdgeId(e) # JoinedId(s, v)},
   downEdges |-> [w \in Ids |-> IF w = v THEN {}
                                ELSE IF w \in G.upEdges[v] THEN G.downEdges[w] \ {v}
                                ELSE G.downEdges[w]],
   upEdges |-> [w \in Ids |-> IF w = v THEN {}
                              ELSE IF w \in G.downEdges[v] THEN G.upEdges[w] \ {v}
                              ELSE G.upEdges[w]]]

-----------------------------------------------------------------------------
Init == g = EmptyGraph

Add(v) == g' = [g EXCEPT !.vertices = @ \cup {v}]

Remove(v) == g' = Removed(g, v)

RemoveEdge(s, t) == g' = Disconnected(g, s, t)

\* Callers connect vertices they added, as BuildPipeline does.
Connect(e) ==
  /\ {e.source, e.target} \subseteq g.vertices
  /\ Cardinality(g.edges) < MaxEdges
  /\ g' = Connected(g, e)

Next ==
  \/ \E v \in Ids : Add(v) \/ Remove(v)
  \/ \E s, t \in Ids : RemoveEdge(s, t)
  \/ \E e \in Edge : Connect(e)

Spec == Init /\ [][Next]_g

-----------------------------------------------------------------------------
\* The graph keeps its type: its rows hold vertices and its edge set edges.
TypeOK == g \in Graph

\* The pairs the edge objects stand for.
Pairs(G) == {<<e.source, e.target>> : e \in G.edges}

\* The three representations of the edges agree: what a walk waits for
\* (EdgesTo) is what validation looked at (downEdges, upEdges).
EdgesAgree ==
  \A s, t \in Ids : /\ t \in g.downEdges[s] <=> <<s, t>> \in Pairs(g)
                    /\ s \in g.upEdges[t] <=> <<s, t>> \in Pairs(g)

\* An edge joins two vertices of the graph: Remove leaves none behind, and a
\* vertex that comes back under its old id is not connected to anything.
EdgesJoinVertices ==
  \A e \in g.edges : {e.source, e.target} \subseteq g.vertices

\* The graph implements the labelled relation: an edge keeps the condition and
\* properties it was first connected with until it is removed (refinement).
EdgeOf(G, pair) == CHOOSE e \in G.edges : <<e.source, e.target>> = pair
Labels(G) == [pair \in Pairs(G) |-> EdgeOf(G, pair).tag]

Abstract == INSTANCE AbstractGraph WITH vertices <- g.vertices, label <- Labels(g)

ImplementsAbstract == Abstract!Spec

=============================================================================
