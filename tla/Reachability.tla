---------------------------- MODULE Reachability ----------------------------
(***************************************************************************)
(* Reference definitions about a graph given as rows: rows[v] is the set   *)
(* of vertices v has an edge to.  A vertex is reachable from a set when it *)
(* is in every set that contains it and is closed under the edges.         *)
(***************************************************************************)
EXTENDS Naturals

CONSTANT Ids \* the ids of vertices

Closed(rows, S) == \A v \in S : rows[v] \subseteq S

Reachable(rows, T) ==
  {v \in Ids : \A S \in SUBSET Ids : T \subseteq S /\ Closed(rows, S) => v \in S}

Acyclic(rows) == \A v \in Ids : v \notin Reachable(rows, rows[v])

\* The vertices that v reaches and that reach v.
Component(rows, v) ==
  {v} \cup {w \in Reachable(rows, {v}) : v \in Reachable(rows, {w})}

\* The vertices at most n edges away from T.
Ball(rows, T, n) ==
  LET ball[k \in Nat] ==
        IF k = 0 THEN T ELSE ball[k-1] \cup UNION {rows[v] : v \in ball[k-1]}
  IN  ball[n]
=============================================================================
