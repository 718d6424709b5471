--------------------------- MODULE AbstractGraph ---------------------------
(***************************************************************************)
(* What a dependency graph promises: a set of vertices and, between some   *)
(* pairs of them, one labelled edge, whose label is the one it was first   *)
(* connected with.                                                         *)
(***************************************************************************)
CONSTANTS Ids, Tags

VARIABLES
  vertices, \* the vertices of the graph
  label     \* the label of each connected pair

vars == <<vertices, label>>

Init ==
  /\ vertices = {}
  /\ label = [pair \in {} |-> {}]

Add(v) ==
  /\ vertices' = vertices \cup {v}
  /\ UNCHANGED label

Relabel(pairs) == label' = [pair \in pairs |-> label[pair]]

Remove(v) ==
  /\ vertices' = vertices \ {v}
  /\ Relabel({pair \in DOMAIN label : v \notin {pair[1], pair[2]}})

Connect(s, t, tag) ==
  /\ {s, t} \subseteq vertices
  /\ label' = [pair \in DOMAIN label \cup {<<s, t>>} |->
                 IF pair \in DOMAIN label THEN label[pair] ELSE tag]
  /\ UNCHANGED vertices

Disconnect(s, t) ==
  /\ Relabel(DOMAIN label \ {<<s, t>>})
  /\ UNCHANGED vertices

Next ==
  \/ \E v \in Ids : Add(v) \/ Remove(v)
  \/ \E s, t \in Ids : Disconnect(s, t) \/ \E tag \in Tags : Connect(s, t, tag)

Spec == Init /\ [][Next]_vars
=============================================================================
