--------------------------- MODULE TopologicalOrder ---------------------------
(***************************************************************************)
(* internal/dag/dag.go, topoOrder: a depth-first sort that panics when it  *)
(* meets a vertex it is still visiting.  A frame is a call of visit.       *)
(***************************************************************************)
EXTENDS Reachability, Sequences, SequencesExt

VARIABLES
  g,   \* the graph
  topo \* the local variables of a call

Orders == {"downOrder", "upOrder"}

\* The vertices that come before a vertex in the result.
Before(t) == IF t.order = "downOrder" THEN g.downEdges ELSE g.upEdges

NoSort == [result |-> "none"]

NewSort(order) ==
  [order |-> order, roots |-> g.vertices, frames |-> <<>>, tmp |-> {},
   sorted |-> <<>>, result |-> "sorting"]

Sorting == topo.result = "sorting"
Frame == Last(topo.frames)
Perm == ToSet(topo.sorted)

\* A call of visit(v), when t is the state it is called in.
Visited(t, v) ==
  IF v \in Perm THEN t
  ELSE IF v \in t.tmp THEN [t EXCEPT !.result = "panicked"]
  ELSE [t EXCEPT !.tmp = @ \cup {v},
                 !.frames = Append(@, [vertex |-> v, next |-> Before(t)[v]])]

-----------------------------------------------------------------------------
VisitRoot(v) ==
  /\ Sorting /\ topo.frames = <<>> /\ v \in topo.roots
  /\ topo' = Visited([topo EXCEPT !.roots = @ \ {v}], v)

\* Mutant of VisitNext: a vertex that is being visited is taken as sorted.
VisitNextUnchecked(u) ==
  /\ Sorting /\ topo.frames # <<>> /\ u \in Frame.next
  /\ LET n == Len(topo.frames)
         rest == [topo EXCEPT !.frames[n].next = @ \ {u}]
     IN  topo' = IF u \in topo.tmp THEN rest ELSE Visited(rest, u)

VisitNext(u) ==
  /\ Sorting /\ topo.frames # <<>> /\ u \in Frame.next
  /\ LET n == Len(topo.frames)
     IN  topo' = Visited([topo EXCEPT !.frames[n].next = @ \ {u}], u)

Sorted ==
  /\ Sorting /\ topo.frames # <<>> /\ Frame.next = {}
  /\ topo' = [topo EXCEPT !.frames = Front(@), !.tmp = @ \ {Frame.vertex},
                          !.sorted = Append(@, Frame.vertex)]

Finish ==
  /\ Sorting /\ topo.frames = <<>> /\ topo.roots = {}
  /\ topo' = [topo EXCEPT !.result = "sorted"]

Step ==
  /\ UNCHANGED g
  /\ \/ \E v \in Ids : VisitRoot(v) \/ VisitNext(v)
     \/ Sorted
     \/ Finish

-----------------------------------------------------------------------------
\* A vertex is sorted once, after all the vertices that come before it; the
\* order is complete, and the panic is raised exactly when there is a cycle.
OrderIsTopological ==
  topo.result # "none" =>
    /\ IsInjective(topo.sorted)
    /\ \A j \in DOMAIN topo.sorted :
         Before(topo)[topo.sorted[j]] \subseteq {topo.sorted[i] : i \in 1 .. j-1}
    /\ topo.result = "sorted" => Perm = g.vertices /\ Acyclic(g.downEdges)
    /\ topo.result = "panicked" => ~Acyclic(g.downEdges)
=============================================================================
