---------------------------- MODULE FrontierWalk ----------------------------
(***************************************************************************)
(* internal/dag/dag.go, walk: the depth-first and breadth-first walks down *)
(* and up the graph, with the callback that gets each vertex and its       *)
(* depth.  The frontier is a stack or a queue; a row of the graph is a Go  *)
(* map, so it joins the frontier in any order.                             *)
(***************************************************************************)
EXTENDS Reachability, Sequences, SequencesExt

VARIABLES
  g,   \* the graph: downEdges and upEdges
  walk \* the local variables of a call

Kinds == {"depthFirst", "breadthFirst"}
Orders == {"downOrder", "upOrder"}

Rows(order, G) == IF order = "downOrder" THEN G.downEdges ELSE G.upEdges

\* The vertices of S, at depth d, in some order.
AtDepth(d, S) ==
  {[i \in DOMAIN s |-> [vertex |-> s[i], depth |-> d]] : s \in SetToSeqs(S)}

NoWalk == [result |-> "none"]

\* A call that has put its start on the frontier.
Calls(kind, order, start) ==
  {[kind |-> kind, order |-> order, start |-> start, frontier |-> f,
    visited |-> <<>>, result |-> "walking"] : f \in AtDepth(0, start)}

Walking == walk.result = "walking"
Current == IF walk.kind = "depthFirst" THEN Last(walk.frontier) ELSE Head(walk.frontier)
Rest == IF walk.kind = "depthFirst" THEN Front(walk.frontier) ELSE Tail(walk.frontier)
Seen(w) == {w.visited[i].vertex : i \in DOMAIN w.visited}

-----------------------------------------------------------------------------
\* Mutants of Visit: a vertex is visited again; it has the depth of the vertex it
\* was found from; a vertex that is on the frontier does not join it again.
VisitAgain ==
  /\ Walking /\ walk.frontier # <<>>
  /\ \E next \in AtDepth(Current.depth + 1, Rows(walk.order, g')[Current.vertex]) :
       walk' = [walk EXCEPT !.frontier = Rest \o next, !.visited = Append(@, Current)]

VisitSameDepth ==
  /\ Walking /\ walk.frontier # <<>> /\ Current.vertex \notin Seen(walk)
  /\ \E next \in AtDepth(Current.depth, Rows(walk.order, g')[Current.vertex]) :
       walk' = [walk EXCEPT !.frontier = Rest \o next, !.visited = Append(@, Current)]

VisitNewOnly ==
  /\ Walking /\ walk.frontier # <<>> /\ Current.vertex \notin Seen(walk)
  /\ LET waiting == {Rest[i].vertex : i \in DOMAIN Rest}
     IN  \E next \in AtDepth(Current.depth + 1, Rows(walk.order, g')[Current.vertex] \ waiting) :
           walk' = [walk EXCEPT !.frontier = Rest \o next, !.visited = Append(@, Current)]

\* The callback sees the vertex, then its row is read and joins the frontier:
\* a callback may change the graph.
Visit ==
  /\ Walking /\ walk.frontier # <<>> /\ Current.vertex \notin Seen(walk)
  /\ \E next \in AtDepth(Current.depth + 1, Rows(walk.order, g')[Current.vertex]) :
       walk' = [walk EXCEPT !.frontier = Rest \o next, !.visited = Append(@, Current)]

\* The callback returns an error, which ends the walk.
CallbackFails ==
  /\ Walking /\ walk.frontier # <<>> /\ Current.vertex \notin Seen(walk)
  /\ walk' = [walk EXCEPT !.visited = Append(@, Current), !.result = "failed"]

\* Mutant of Skip: the vertex is looked at and stays on the frontier.
SkipInPlace ==
  /\ Walking /\ walk.frontier # <<>> /\ Current.vertex \in Seen(walk)
  /\ UNCHANGED walk

\* A vertex that was seen already is dropped.
Skip ==
  /\ Walking /\ walk.frontier # <<>> /\ Current.vertex \in Seen(walk)
  /\ walk' = [walk EXCEPT !.frontier = Rest]

Finish ==
  /\ Walking /\ walk.frontier = <<>>
  /\ walk' = [walk EXCEPT !.result = "ok"]

\* A step of a walk whose callback leaves the graph alone.
Step == UNCHANGED g /\ (Visit \/ CallbackFails \/ Skip \/ Finish)

-----------------------------------------------------------------------------
\* A walk visits each vertex once and, unless its callback fails, exactly the
\* vertices that are reachable from its start (Ancestors and Descendents).
WalkIsExact ==
  walk.result # "none" =>
    /\ \A i, j \in DOMAIN walk.visited :
         walk.visited[i].vertex = walk.visited[j].vertex => i = j
    /\ Seen(walk) \subseteq Reachable(Rows(walk.order, g), walk.start)
    /\ walk.result = "ok" => Seen(walk) = Reachable(Rows(walk.order, g), walk.start)

\* A breadth-first walk reports the distance of each vertex from the start.
BreadthFirstIsShortest ==
  walk.result # "none" /\ walk.kind = "breadthFirst" =>
    \A i \in DOMAIN walk.visited :
      LET v == walk.visited[i].vertex
          d == walk.visited[i].depth
      IN  /\ v \in Ball(Rows(walk.order, g), walk.start, d)
          /\ d > 0 => v \notin Ball(Rows(walk.order, g), walk.start, d - 1)

\* A depth-first walk finishes what it found last: if a has an edge to c and b
\* is visited between them, then b was found from a or from a vertex after a.
\* The depth of a vertex is one more than that of a vertex it was found from.
DepthFirstOrder ==
  walk.result # "none" /\ walk.kind = "depthFirst" =>
    LET at(i) == walk.visited[i].vertex
        found(i, j) == at(j) \in Rows(walk.order, g)[at(i)]
    IN  /\ \A a, b, c \in DOMAIN walk.visited :
             a < b /\ b < c /\ found(a, c) => \E d \in a .. b-1 : found(d, b)
        /\ \A b \in DOMAIN walk.visited :
             IF walk.visited[b].depth = 0 THEN at(b) \in walk.start
             ELSE \E a \in 1 .. b-1 : /\ found(a, b)
                                      /\ walk.visited[b].depth = walk.visited[a].depth + 1
=============================================================================
