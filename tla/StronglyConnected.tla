-------------------------- MODULE StronglyConnected --------------------------
(***************************************************************************)
(* internal/dag/tarjan.go: the strongly connected components, by one       *)
(* recursive function over the rows of the graph.  A frame is a call of    *)
(* it; vertices and rows are read in any order, as Go maps are.            *)
(***************************************************************************)
EXTENDS Reachability, Sequences, SequencesExt

VARIABLES
  g,  \* the graph
  scc \* sccAcct, the calls that have not returned, and the roots left to try

NoSearch == [result |-> "none"]

NewSearch ==
  [VertexIndex |-> [v \in Ids |-> 0], NextIndex |-> 1, Stack |-> <<>>, SCC |-> <<>>,
   frames |-> <<>>, roots |-> g.vertices, result |-> "searching"]

Smaller(a, b) == IF a <= b THEN a ELSE b

Searching == scc.result = "searching"
Frame == Last(scc.frames)
InStack(v) == v \in ToSet(scc.Stack)

\* A call for v: it takes the next index and goes on the stack.
Entered(s, v) ==
  [s EXCEPT !.VertexIndex[v] = s.NextIndex, !.NextIndex = @ + 1,
            !.Stack = Append(@, v),
            !.frames = Append(@, [vertex |-> v, minIdx |-> s.NextIndex,
                                  targets |-> g.downEdges[v]])]

\* The innermost call has looked at t and lowered its minimum to m.
Lowered(s, t, m) ==
  LET n == Len(s.frames)
  IN  [s EXCEPT !.frames[n].targets = @ \ {t}, !.frames[n].minIdx = Smaller(@, m)]

-----------------------------------------------------------------------------
\* StronglyConnected starts at each vertex that has no index yet.
TryRoot(v) ==
  /\ Searching /\ scc.frames = <<>> /\ v \in scc.roots
  /\ LET rest == [scc EXCEPT !.roots = @ \ {v}]
     IN  scc' = IF scc.VertexIndex[v] = 0 THEN Entered(rest, v) ELSE rest

\* A target: recurse, take its index if it is in the stack, or ignore it.
LookAt(t) ==
  /\ Searching /\ scc.frames # <<>> /\ t \in Frame.targets
  /\ scc' = IF scc.VertexIndex[t] = 0 THEN Entered(Lowered(scc, t, Frame.minIdx), t)
            ELSE Lowered(scc, t, IF InStack(t) THEN scc.VertexIndex[t] ELSE Frame.minIdx)

\* The vertices above and including v on the stack, and those below it.
From(stack, v) == LET i == CHOOSE k \in DOMAIN stack : stack[k] = v
                  IN  SubSeq(stack, i, Len(stack))
Below(stack, v) == SubSeq(stack, 1, Len(stack) - Len(From(stack, v)))

\* Mutant of Return: the minimum of the callee is not handed to its caller.
ReturnAlone ==
  /\ Searching /\ scc.frames # <<>> /\ Frame.targets = {}
  /\ LET v == Frame.vertex
         popped == IF scc.VertexIndex[v] = Frame.minIdx
                   THEN [scc EXCEPT !.SCC = Append(@, From(scc.Stack, v)),
                                    !.Stack = Below(@, v)]
                   ELSE scc
     IN  scc' = [popped EXCEPT !.frames = Front(@)]

\* All targets were looked at: pop a component if v is its root, and return the
\* minimum to the caller.
Return ==
  /\ Searching /\ scc.frames # <<>> /\ Frame.targets = {}
  /\ LET v == Frame.vertex
         popped == IF scc.VertexIndex[v] = Frame.minIdx
                   THEN [scc EXCEPT !.SCC = Append(@, From(scc.Stack, v)),
                                    !.Stack = Below(@, v)]
                   ELSE scc
         callers == Front(scc.frames)
     IN  scc' = [popped EXCEPT !.frames =
                   [i \in DOMAIN callers |->
                      IF i = Len(callers)
                      THEN [callers[i] EXCEPT !.minIdx = Smaller(@, Frame.minIdx)]
                      ELSE callers[i]]]

Finish ==
  /\ Searching /\ scc.frames = <<>> /\ scc.roots = {}
  /\ scc' = [scc EXCEPT !.result = "found"]

Step ==
  /\ UNCHANGED g
  /\ \/ \E v \in Ids : TryRoot(v) \/ LookAt(v)
     \/ Return
     \/ Finish

-----------------------------------------------------------------------------
\* Each component that was popped holds exactly the vertices that reach each
\* other, once each, and reaches only components popped before it; at the end
\* every vertex is in one.
ComponentsAreExact ==
  scc.result # "none" =>
    /\ \A i \in DOMAIN scc.SCC :
         /\ IsInjective(scc.SCC[i])
         /\ \A v \in ToSet(scc.SCC[i]) : ToSet(scc.SCC[i]) = Component(g.downEdges, v)
         /\ Reachable(g.downEdges, ToSet(scc.SCC[i])) \subseteq
              UNION {ToSet(scc.SCC[j]) : j \in 1 .. i}
    /\ \A i, j \in DOMAIN scc.SCC : i # j => ToSet(scc.SCC[i]) \cap ToSet(scc.SCC[j]) = {}
    /\ scc.result = "found" => g.vertices = UNION {ToSet(c) : c \in ToSet(scc.SCC)}
=============================================================================
