--------------------------- MODULE DagGraphProofs ---------------------------
(***************************************************************************)
(* Theorems about the graph, for every set of ids: its representations     *)
(* agree as long as no two pairs of ids are joined to the same edge id.    *)
(***************************************************************************)
EXTENDS DagGraph, TLAPS

-----------------------------------------------------------------------------
\* What each operation makes of a graph keeps its type.
LEMMA OperationsKeepType ==
  ASSUME NEW G \in Graph
  PROVE  /\ \A e \in Edge : Connected(G, e) \in Graph
         /\ \A s, t \in Ids : Disconnected(G, s, t) \in Graph
         /\ \A v \in Ids : Removed(G, v) \in Graph
<1> USE DEF Graph
<1>1. ASSUME NEW e \in Edge PROVE Connected(G, e) \in Graph
  <2>1. e.source \in Ids /\ e.target \in Ids
    BY DEF Edge
  <2>2. WithEdge(G.edges, e) \in SUBSET Edge
    BY DEF WithEdge
  <2>3. /\ [G.downEdges EXCEPT ![e.source] = @ \cup {e.target}] \in [Ids -> SUBSET Ids]
        /\ [G.upEdges EXCEPT ![e.target] = @ \cup {e.source}] \in [Ids -> SUBSET Ids]
    BY <2>1
  <2>4. QED
    BY <2>2, <2>3 DEF Connected
<1>2. ASSUME NEW s \in Ids, NEW t \in Ids PROVE Disconnected(G, s, t) \in Graph
  <2>1. WithoutEdge(G.edges, s, t) \in SUBSET Edge
    BY DEF WithoutEdge
  <2>2. /\ [G.downEdges EXCEPT ![s] = @ \ {t}] \in [Ids -> SUBSET Ids]
        /\ [G.upEdges EXCEPT ![t] = @ \ {s}] \in [Ids -> SUBSET Ids]
    OBVIOUS
  <2>3. QED
    BY <2>1, <2>2 DEF Disconnected
<1>3. ASSUME NEW v \in Ids PROVE Removed(G, v) \in Graph
  BY DEF Removed
<1>4. QED
  BY <1>1, <1>2, <1>3

THEOREM TypeCorrect == Spec => []TypeOK
<1>1. Init => TypeOK
  BY DEF Init, TypeOK, EmptyGraph, Graph
<1>2. TypeOK /\ [Next]_g => TypeOK'
  <2> SUFFICES ASSUME TypeOK, [Next]_g PROVE TypeOK'
    OBVIOUS
  <2>1. ASSUME NEW v \in Ids, Add(v) PROVE TypeOK'
    BY <2>1 DEF Add, TypeOK, Graph
  <2>2. CASE \/ \E v \in Ids : Remove(v)
             \/ \E s, t \in Ids : RemoveEdge(s, t)
             \/ \E e \in Edge : Connect(e)
    BY <2>2, OperationsKeepType DEF Remove, RemoveEdge, Connect, TypeOK
  <2>3. QED
    BY <2>1, <2>2 DEF Next, TypeOK
<1>3. QED
  BY <1>1, <1>2, PTL DEF Spec

-----------------------------------------------------------------------------
\* An edge between s and t, and what the invariants of the graph say of single
\* edges.  There is one edge for each pair, because its id is made of the pair.
Linked(G, s, t) == \E e \in G.edges : e.source = s /\ e.target = t

Coherent(G) ==
  /\ G \in Graph
  /\ \A s, t \in Ids : /\ t \in G.downEdges[s] <=> Linked(G, s, t)
                       /\ s \in G.upEdges[t] <=> Linked(G, s, t)
  /\ \A e \in G.edges : e.source \in G.vertices /\ e.target \in G.vertices
  /\ \A e, f \in G.edges : e.source = f.source /\ e.target = f.target => e = f

\* With ids that join injectively, an edge id stands for one pair.
LEMMA EdgeIdIsPair ==
  ASSUME JoinIsInjective, NEW e \in Edge, NEW s \in Ids, NEW t \in Ids
  PROVE  EdgeId(e) = JoinedId(s, t) <=> e.source = s /\ e.target = t
<1>1. e.source \in Ids /\ e.target \in Ids
  BY DEF Edge
<1>2. QED
  BY <1>1 DEF JoinIsInjective, EdgeId

\* What the operations make of the set of edges.
LEMMA ConnectedEdges ==
  ASSUME JoinIsInjective, NEW G, Coherent(G), NEW e \in Edge
  PROVE  /\ Connected(G, e).vertices = G.vertices
         /\ Connected(G, e).edges =
              IF Linked(G, e.source, e.target) THEN G.edges ELSE G.edges \cup {e}
<1>1. e.source \in Ids /\ e.target \in Ids /\ EdgeId(e) = JoinedId(e.source, e.target)
  BY DEF Edge, EdgeId
<1>2. Linked(G, e.source, e.target) <=> e.target \in G.downEdges[e.source]
  BY <1>1 DEF Coherent
<1>3. ASSUME ~Linked(G, e.source, e.target)
      PROVE  WithEdge(G.edges, e) = G.edges \cup {e}
  <2>1. \A f \in G.edges : EdgeId(f) # EdgeId(e)
    BY <1>1, <1>3, EdgeIdIsPair DEF Coherent, Graph, Linked
  <2>2. QED
    BY <2>1 DEF WithEdge
<1>4. QED
  BY <1>2, <1>3 DEF Connected, Coherent, Graph

LEMMA DisconnectedEdges ==
  ASSUME JoinIsInjective, NEW G, Coherent(G), NEW s \in Ids, NEW t \in Ids
  PROVE  /\ Disconnected(G, s, t).vertices = G.vertices
         /\ Disconnected(G, s, t).edges = {f \in G.edges : ~(f.source = s /\ f.target = t)}
<1>1. WithoutEdge(G.edges, s, t) = {f \in G.edges : ~(f.source = s /\ f.target = t)}
  BY EdgeIdIsPair DEF WithoutEdge, Coherent, Graph
<1>2. QED
  BY <1>1 DEF Disconnected, Coherent, Graph

LEMMA RemovedEdges ==
  ASSUME JoinIsInjective, NEW G, Coherent(G), NEW v \in Ids
  PROVE  /\ Removed(G, v).vertices = G.vertices \ {v}
         /\ Removed(G, v).edges = {f \in G.edges : v \notin {f.source, f.target}}
<1>1. \A f \in G.edges : /\ f \in Edge /\ f.source \in Ids /\ f.target \in Ids
                         /\ f.target \in G.downEdges[f.source] /\ f.source \in G.upEdges[f.target]
  BY DEF Coherent, Graph, Edge, Linked
<1>2. \A f \in G.edges :
        (/\ \A t \in G.downEdges[v] : EdgeId(f) # JoinedId(v, t)
         /\ \A s \in G.upEdges[v] : EdgeId(f) # JoinedId(s, v)) <=> v \notin {f.source, f.target}
  BY <1>1, EdgeIdIsPair DEF Coherent, Graph
<1>3. QED
  BY <1>2 DEF Removed

LEMMA ConnectKeepsCoherence ==
  ASSUME JoinIsInjective, NEW G, Coherent(G), NEW e \in Edge,
         e.source \in G.vertices, e.target \in G.vertices
  PROVE  Coherent(Connected(G, e))
<1>1. e.source \in Ids /\ e.target \in Ids /\ EdgeId(e) = JoinedId(e.source, e.target)
  BY DEF Edge, EdgeId
<1>2. CASE e.target \in G.downEdges[e.source]
  BY <1>2 DEF Connected
<1>3. CASE e.target \notin G.downEdges[e.source]
  <2> DEFINE H == Connected(G, e)
  <2>1. H \in Graph
    BY OperationsKeepType DEF Coherent
  <2>2. ~Linked(G, e.source, e.target)
    BY <1>1, <1>3 DEF Coherent
  <2>4. /\ H.vertices = G.vertices
        /\ H.edges = G.edges \cup {e}
        /\ H.downEdges = [G.downEdges EXCEPT ![e.source] = @ \cup {e.target}]
        /\ H.upEdges = [G.upEdges EXCEPT ![e.target] = @ \cup {e.source}]
    BY <1>3, <2>2, ConnectedEdges DEF Connected, Coherent, Graph
  <2> HIDE DEF H
  <2>5. \A s, t \in Ids : Linked(H, s, t) <=> Linked(G, s, t) \/ (s = e.source /\ t = e.target)
    BY <2>4 DEF Linked
  <2>6. \A s, t \in Ids : /\ t \in H.downEdges[s] <=> Linked(H, s, t)
                          /\ s \in H.upEdges[t] <=> Linked(H, s, t)
    BY <1>1, <2>4, <2>5 DEF Coherent, Graph
  <2>7. \A f \in H.edges : f.source \in H.vertices /\ f.target \in H.vertices
    BY <2>4 DEF Coherent
  <2>8. \A f1, f2 \in H.edges : f1.source = f2.source /\ f1.target = f2.target => f1 = f2
    BY <2>2, <2>4 DEF Coherent, Linked
  <2>9. Coherent(H)
    BY <2>1, <2>6, <2>7, <2>8 DEF Coherent
  <2>10. QED
    BY <2>9 DEF H
<1>4. QED
  BY <1>2, <1>3

LEMMA DisconnectKeepsCoherence ==
  ASSUME JoinIsInjective, NEW G, Coherent(G), NEW s \in Ids, NEW t \in Ids
  PROVE  Coherent(Disconnected(G, s, t))
<1> DEFINE H == Disconnected(G, s, t)
<1>1. H \in Graph
  BY OperationsKeepType DEF Coherent
<1>3. /\ H.vertices = G.vertices
      /\ H.edges = {f \in G.edges : ~(f.source = s /\ f.target = t)}
      /\ H.downEdges = [G.downEdges EXCEPT ![s] = @ \ {t}]
      /\ H.upEdges = [G.upEdges EXCEPT ![t] = @ \ {s}]
  BY DisconnectedEdges DEF Disconnected, Coherent, Graph
<1> HIDE DEF H
<1>4. \A x, y \in Ids : Linked(H, x, y) <=> Linked(G, x, y) /\ ~(x = s /\ y = t)
  BY <1>3 DEF Linked
<1>5. \A x, y \in Ids : /\ y \in H.downEdges[x] <=> Linked(H, x, y)
                        /\ x \in H.upEdges[y] <=> Linked(H, x, y)
  BY <1>3, <1>4 DEF Coherent, Graph
<1>6. Coherent(H)
  BY <1>1, <1>3, <1>5 DEF Coherent
<1>7. QED
  BY <1>6 DEF H

LEMMA RemoveKeepsCoherence ==
  ASSUME JoinIsInjective, NEW G, Coherent(G), NEW v \in Ids
  PROVE  Coherent(Removed(G, v))
<1> DEFINE H == Removed(G, v)
<1>1. H \in Graph
  BY OperationsKeepType DEF Coherent
<1>4. H.edges = {f \in G.edges : v \notin {f.source, f.target}}
  BY RemovedEdges
<1>5. /\ H.vertices = G.vertices \ {v}
      /\ \A w \in Ids : /\ H.downEdges[w] = IF w = v THEN {}
                                            ELSE IF w \in G.upEdges[v] THEN G.downEdges[w] \ {v}
                                            ELSE G.downEdges[w]
                        /\ H.upEdges[w] = IF w = v THEN {}
                                          ELSE IF w \in G.downEdges[v] THEN G.upEdges[w] \ {v}
                                          ELSE G.upEdges[w]
  BY DEF Removed
<1> HIDE DEF H
<1>6. \A x, y \in Ids : Linked(H, x, y) <=> Linked(G, x, y) /\ v \notin {x, y}
  BY <1>4 DEF Linked
<1>7. \A x, y \in Ids : /\ y \in H.downEdges[x] <=> Linked(H, x, y)
                        /\ x \in H.upEdges[y] <=> Linked(H, x, y)
  <2> SUFFICES ASSUME NEW x \in Ids, NEW y \in Ids
               PROVE  /\ y \in H.downEdges[x] <=> Linked(H, x, y)
                      /\ x \in H.upEdges[y] <=> Linked(H, x, y)
    OBVIOUS
  <2>1. /\ y \in G.downEdges[x] <=> Linked(G, x, y)
        /\ x \in G.upEdges[y] <=> Linked(G, x, y)
        /\ v \in G.downEdges[x] <=> x \in G.upEdges[v]
        /\ v \in G.upEdges[y] <=> y \in G.downEdges[v]
    BY DEF Coherent
  <2>2. y \in H.downEdges[x] <=> y \in G.downEdges[x] /\ v \notin {x, y}
    BY <1>5, <2>1
  <2>3. x \in H.upEdges[y] <=> x \in G.upEdges[y] /\ v \notin {x, y}
    BY <1>5, <2>1
  <2>4. QED
    BY <1>6, <2>1, <2>2, <2>3
<1>8. Coherent(H)
  BY <1>1, <1>4, <1>5, <1>7 DEF Coherent
<1>9. QED
  BY <1>8 DEF H

LEMMA CoherenceInductive ==
  ASSUME JoinIsInjective
  PROVE  Coherent(g) /\ [Next]_g => Coherent(g')
<1> SUFFICES ASSUME Coherent(g), [Next]_g PROVE Coherent(g')
  OBVIOUS
<1>1. ASSUME NEW v \in Ids, Add(v) PROVE Coherent(g')
  <2>1. /\ g' \in Graph /\ g'.vertices = g.vertices \cup {v}
        /\ g'.edges = g.edges /\ g'.downEdges = g.downEdges /\ g'.upEdges = g.upEdges
    BY <1>1 DEF Add, Coherent, Graph
  <2>2. QED
    BY <2>1 DEF Coherent, Linked
<1>2. CASE \E v \in Ids : Remove(v)
  BY <1>2, RemoveKeepsCoherence DEF Remove
<1>3. CASE \E s, t \in Ids : RemoveEdge(s, t)
  BY <1>3, DisconnectKeepsCoherence DEF RemoveEdge
<1>4. CASE \E e \in Edge : Connect(e)
  BY <1>4, ConnectKeepsCoherence DEF Connect
<1>5. QED
  BY <1>1, <1>2, <1>3, <1>4 DEF Next

LEMMA CoherentInitially == Init => Coherent(g)
BY DEF Init, EmptyGraph, Coherent, Graph, Linked

\* What a walk waits for is what validation looked at.
THEOREM RepresentationsAgree ==
  ASSUME JoinIsInjective
  PROVE  Spec => []EdgesAgree
<1>1. Coherent(g) => EdgesAgree
  <2> SUFFICES ASSUME Coherent(g), NEW s \in Ids, NEW t \in Ids
               PROVE  <<s, t>> \in Pairs(g) <=> Linked(g, s, t)
    BY DEF EdgesAgree, Coherent
  <2>1. QED
    BY DEF Linked, Pairs
<1>2. Coherent(g) /\ [Next]_g => Coherent(g)'
  BY CoherenceInductive
<1>3. QED
  BY <1>1, <1>2, CoherentInitially, PTL DEF Spec

\* An edge joins vertices of the graph, whatever was removed and added again.
THEOREM NoDanglingEdges ==
  ASSUME JoinIsInjective
  PROVE  Spec => []EdgesJoinVertices
<1>1. Coherent(g) => EdgesJoinVertices
  BY DEF Coherent, EdgesJoinVertices
<1>2. Coherent(g) /\ [Next]_g => Coherent(g)'
  BY CoherenceInductive
<1>3. QED
  BY <1>1, <1>2, CoherentInitially, PTL DEF Spec
-----------------------------------------------------------------------------
\* The labels of a graph with one edge for each pair are those of its edges.
LEMMA LabelsOfEdges ==
  ASSUME NEW G, Coherent(G)
  PROVE  \A e \in G.edges : /\ <<e.source, e.target>> \in Pairs(G)
                            /\ Labels(G)[<<e.source, e.target>>] = e.tag
<1> SUFFICES ASSUME NEW e \in G.edges
             PROVE  /\ <<e.source, e.target>> \in Pairs(G)
                    /\ Labels(G)[<<e.source, e.target>>] = e.tag
  OBVIOUS
<1>1. <<e.source, e.target>> \in Pairs(G)
  BY DEF Pairs
<1>2. EdgeOf(G, <<e.source, e.target>>) = e
  <2>1. \A f \in G.edges : <<f.source, f.target>> = <<e.source, e.target>> => f = e
    BY DEF Coherent
  <2>2. QED
    BY <2>1 DEF EdgeOf
<1>3. QED
  BY <1>1, <1>2 DEF Labels

\* Two graphs whose edges differ only in some pairs have the same labels for the
\* other pairs.
LEMMA LabelsFollowEdges ==
  ASSUME NEW G, Coherent(G), NEW H, Coherent(H), NEW pair,
         pair \in Pairs(H), H.edges \subseteq G.edges
  PROVE  pair \in Pairs(G) /\ Labels(H)[pair] = Labels(G)[pair]
<1>1. PICK e \in H.edges : pair = <<e.source, e.target>>
  BY DEF Pairs
<1>2. QED
  BY <1>1, LabelsOfEdges

\* The graph implements the labelled relation, for every set of ids that joins
\* injectively: the condition of an edge is never replaced.
THEOREM ImplementsLabels ==
  ASSUME JoinIsInjective
  PROVE  Spec => ImplementsAbstract
<1>1. Init => Abstract!Init
  BY DEF Init, EmptyGraph, Abstract!Init, Labels, Pairs
<1>2. Coherent(g) /\ [Next]_g => Coherent(g)'
  BY CoherenceInductive
<1>3. Coherent(g) /\ Coherent(g)' /\ [Next]_g => [Abstract!Next]_(Abstract!vars)
  <2> SUFFICES ASSUME Coherent(g), Coherent(g'), Next
               PROVE  Abstract!Next \/ UNCHANGED Abstract!vars
    BY DEF Abstract!vars
  <2>1. ASSUME NEW v \in Ids, Add(v) PROVE Abstract!Add(v)
    BY <2>1 DEF Add, Abstract!Add, Labels, EdgeOf, Pairs, Coherent, Graph
  <2>2. ASSUME NEW v \in Ids, Remove(v) PROVE Abstract!Remove(v)
    <3>1. /\ g'.vertices = g.vertices \ {v}
          /\ g'.edges = {f \in g.edges : v \notin {f.source, f.target}}
      BY <2>2, RemovedEdges DEF Remove
    <3>2. Pairs(g') = {pair \in Pairs(g) : v \notin {pair[1], pair[2]}}
      BY <3>1 DEF Pairs
    <3>3. \A pair \in Pairs(g') : Labels(g')[pair] = Labels(g)[pair]
      BY <3>1, LabelsFollowEdges
    <3>4. QED
      BY <3>1, <3>2, <3>3 DEF Abstract!Remove, Abstract!Relabel, Labels
  <2>3. ASSUME NEW s \in Ids, NEW t \in Ids, RemoveEdge(s, t) PROVE Abstract!Disconnect(s, t)
    <3>1. /\ g'.vertices = g.vertices
          /\ g'.edges = {f \in g.edges : ~(f.source = s /\ f.target = t)}
      BY <2>3, DisconnectedEdges DEF RemoveEdge
    <3>2. Pairs(g') = Pairs(g) \ {<<s, t>>}
      BY <3>1 DEF Pairs
    <3>3. \A pair \in Pairs(g') : Labels(g')[pair] = Labels(g)[pair]
      BY <3>1, LabelsFollowEdges
    <3>4. QED
      BY <3>1, <3>2, <3>3 DEF Abstract!Disconnect, Abstract!Relabel, Labels
  <2>4. ASSUME NEW e \in Edge, Connect(e) PROVE Abstract!Connect(e.source, e.target, e.tag)
    <3> DEFINE new == <<e.source, e.target>>
    <3>1. /\ g'.vertices = g.vertices /\ {e.source, e.target} \subseteq g.vertices
          /\ g'.edges = IF Linked(g, e.source, e.target) THEN g.edges ELSE g.edges \cup {e}
      BY <2>4, ConnectedEdges DEF Connect
    <3>2. Pairs(g') = Pairs(g) \cup {new} /\ (new \in Pairs(g) <=> Linked(g, e.source, e.target))
      BY <3>1 DEF Pairs, Linked
    <3>3. \A pair \in Pairs(g) : Labels(g')[pair] = Labels(g)[pair]
      BY <3>1, LabelsFollowEdges
    <3>4. new \notin Pairs(g) => Labels(g')[new] = e.tag
      BY <3>1, <3>2, LabelsOfEdges
    <3>5. QED
      BY <3>1, <3>2, <3>3, <3>4 DEF Abstract!Connect, Labels
  <2>5. QED
    BY <2>1, <2>2, <2>3, <2>4 DEF Next, Abstract!Next, Edge
<1>4. QED
  BY <1>1, <1>2, <1>3, CoherentInitially, PTL DEF Spec, ImplementsAbstract, Abstract!Spec
=============================================================================
