---------------------------- MODULE WalkerUpdate ----------------------------
(***************************************************************************)
(* internal/dag/walk.go: a walk whose graph is changed by Walker.Update    *)
(* while it runs.  Walker is the same walk with its first Update only, and *)
(* has the node types, conditions and skipped tasks that are left out      *)
(* here: every vertex is a plain task.                                     *)
(*                                                                         *)
(* Each time a vertex is added it gets a walkerVertex of its own, an info; *)
(* a vertex object and its id are one thing here.  Update holds changeLock *)
(* but walkVertex and waitDeps do not, so what they can see of an Update   *)
(* happens in steps: removed vertices are cancelled, then each vertex with *)
(* changed dependencies gets a new waiter, then the new vertices start.    *)
(***************************************************************************)
EXTENDS Responses, FiniteSets, Sequences

CONSTANTS
  First,        \* the graph the walk starts with: its vertices and its edges
  Later,        \* the graphs it may be updated to
  Answers,      \* what a callback may answer
  Cancellable,  \* whether the context may be done by itself
  Readding,     \* whether a vertex that was removed may be added again
  MaxUpdates    \* bound on the calls of Update

\* The edges of a graph join its vertices (DagGraph's EdgesJoinVertices).
ASSUME UpdateAssumption ==
  /\ \A g \in {First} \cup Later : g.edges \subseteq g.vertices \X g.vertices
  /\ Answers \subseteq Response
  /\ MaxUpdates \in Nat \ {0}
  /\ Readding \in BOOLEAN

Vertices == UNION {g.vertices : g \in {First} \cup Later}

\* An info is the n-th walkerVertex made for a vertex.
Turns == 1 .. IF Readding THEN MaxUpdates ELSE 1
Infos == Vertices \X Turns

VARIABLES
  graph,     \* the graph of the last Update
  edges,     \* w.edges
  infos,     \* w.vertexMap: the info of each vertex of the walk
  deps,      \* info.deps: the infos each info waits for
  waiters,   \* the waiters made for an info: what they wait for, what they sent
  taken,     \* the waiter whose DepsCh walkVertex took, 0 for the closed channel
  pc,        \* where walkVertex stands
  cancelled, \* the infos whose CancelCh is closed
  answer,    \* the local response of walkVertex
  update,    \* the rest of an Update: waiters to make, vertices to start
  updates,   \* calls of Update
  respMap, upstreamFailed, taskStatus, ctxDone \* as in Walker

walkVars == <<respMap, upstreamFailed, taskStatus, ctxDone>>
infoVars == <<waiters, taken, pc, answer>>
updateVars == <<graph, edges, infos, deps, cancelled, update, updates>>
vars == <<walkVars, infoVars, updateVars>>

Idle == [active |-> FALSE, kick |-> {}, start |-> {}]

\* w.vertices, and the info Update finds for a vertex.
Known == {i[1] : i \in infos}
InfoOf(v) == CHOOSE i \in infos : i[1] = v

Init ==
  /\ graph = [vertices |-> {}, edges |-> {}]
  /\ edges = {}
  /\ infos = {}
  /\ deps = [i \in Infos |-> {}]
  /\ waiters = [i \in Infos |-> <<>>]
  /\ taken = [i \in Infos |-> 0]
  /\ pc = [i \in Infos |-> "absent"]
  /\ cancelled = {}
  /\ answer = [i \in Infos |-> NoResponse]
  /\ update = Idle
  /\ updates = 0
  /\ respMap = [v \in Vertices |-> NoResponse]
  /\ upstreamFailed = {}
  /\ taskStatus = [v \in Vertices |-> "init"]
  /\ ctxDone = FALSE

\* The WaitGroup: one for each info from its Update to the end of walkVertex.
AllDone == \A i \in infos \cup cancelled : pc[i] = "done"

-----------------------------------------------------------------------------
\* The next info of v, which is made only if v is not in the walk.
NewInfo(v) == <<v, 1 + Cardinality({n \in Turns : <<v, n>> \in infos \cup cancelled})>>

\* Update, up to the point where the sets are computed and the removed
\* vertices are cancelled.  Only a waiter that is still in the walk lets go of
\* a removed edge.
BeginUpdate(g) ==
  LET added == g.vertices \ Known
      removed == {i \in infos : i[1] \notin g.vertices}
      kept == (infos \ removed) \cup {NewInfo(v) : v \in added}
      newEdges == g.edges \ edges
      oldEdges == {e \in edges \ g.edges : e[2] \in g.vertices}
  IN  /\ ~update.active
      /\ updates < MaxUpdates
      /\ updates' = updates + 1
      /\ graph' = g
      /\ infos' = kept
      /\ cancelled' = cancelled \cup removed
      /\ deps' = [i \in Infos |->
                    IF i \notin kept THEN deps[i]
                    ELSE {d \in deps[i] : <<d[1], i[1]>> \notin oldEdges}
                         \cup {d \in kept : <<d[1], i[1]>> \in newEdges}]
      /\ edges' = (edges \cup newEdges) \ oldEdges
      /\ update' = [active |-> TRUE,
                    kick |-> {e[2] : e \in newEdges \cup oldEdges},
                    start |-> added]
      /\ UNCHANGED <<walkVars, infoVars>>

\* A new waiter for v; the one before it is cancelled (it is not the last).
Kick(v) ==
  /\ v \in update.kick
  /\ update' = [update EXCEPT !.kick = @ \ {v}]
  /\ waiters' = [waiters EXCEPT
       ![InfoOf(v)] = Append(@, [deps |-> deps[InfoOf(v)], sent |-> "pending"])]
  /\ UNCHANGED <<walkVars, taken, pc, answer, graph, edges, infos, deps, cancelled, updates>>

\* Mutant of EndUpdate: a new vertex that has a waiter is not started.
EndUpdateUnwaited ==
  /\ update.active /\ update.kick = {}
  /\ update' = Idle
  /\ pc' = [i \in Infos |-> IF i \in infos /\ i[1] \in update.start /\ waiters[i] = <<>>
                           THEN "waiting" ELSE pc[i]]
  /\ UNCHANGED <<walkVars, waiters, taken, answer, graph, edges, infos, deps, cancelled, updates>>

EndUpdate ==
  /\ update.active /\ update.kick = {}
  /\ update' = Idle
  /\ pc' = [i \in Infos |-> IF i \in infos /\ i[1] \in update.start THEN "waiting" ELSE pc[i]]
  /\ UNCHANGED <<walkVars, waiters, taken, answer, graph, edges, infos, deps, cancelled, updates>>

-----------------------------------------------------------------------------
\* The w-th waiter of i.  A dependency that was cancelled has no response.
Send(i, w, verdict) ==
  /\ waiters[i][w].sent = "pending"
  /\ waiters' = [waiters EXCEPT ![i][w].sent = verdict]
  /\ UNCHANGED <<walkVars, taken, pc, answer, updateVars>>

Refuses(d) == respMap[d[1]] # NoResponse /\ ~respMap[d[1]].pass

WaitDeps(i, w) ==
  /\ \A d \in waiters[i][w].deps : pc[d] = "done"
  /\ Send(i, w, IF \E d \in waiters[i][w].deps : Refuses(d) THEN "fail" ELSE "pass")

WaitCancelled(i, w) ==
  /\ ctxDone \/ w < Len(waiters[i])
  /\ Send(i, w, "fail")

-----------------------------------------------------------------------------
\* The channel walkVertex listens to; the one it begins with is closed.
Sent(i) == IF taken[i] = 0 THEN "pass" ELSE waiters[i][taken[i]].sent

\* Mutant of TakeVerdict: the updated dependencies are not checked again.
TakeVerdictAtOnce(i) ==
  /\ pc[i] = "waiting"
  /\ Sent(i) # "pending"
  /\ IF taken[i] = 0 /\ waiters[i] # <<>>
     THEN taken' = [taken EXCEPT ![i] = Len(waiters[i])] /\ UNCHANGED pc
     ELSE /\ pc' = [pc EXCEPT ![i] = IF Sent(i) = "pass"
                                     THEN "satisfied" ELSE "refused"]
          /\ UNCHANGED taken
  /\ UNCHANGED <<walkVars, waiters, answer, updateVars>>

\* walkVertex.  A verdict counts only if no waiter was made since.
TakeVerdict(i) ==
  /\ pc[i] = "waiting"
  /\ Sent(i) # "pending"
  /\ IF taken[i] < Len(waiters[i])
     THEN taken' = [taken EXCEPT ![i] = Len(waiters[i])] /\ UNCHANGED pc
     ELSE /\ pc' = [pc EXCEPT ![i] = IF Sent(i) = "pass"
                                     THEN "satisfied" ELSE "refused"]
          /\ UNCHANGED taken
  /\ UNCHANGED <<walkVars, waiters, answer, updateVars>>

\* DepsUpdateCh is closed: listen to the new waiter.
SeeUpdate(i) ==
  /\ pc[i] = "waiting"
  /\ taken[i] \in 1 .. Len(waiters[i]) - 1
  /\ taken' = [taken EXCEPT ![i] = Len(waiters[i])]
  /\ UNCHANGED <<walkVars, waiters, pc, answer, updateVars>>

\* CancelCh is closed, in the select or when it is checked once more.  No
\* response is recorded.
GiveUp(i) ==
  /\ i \in cancelled
  /\ pc[i] \in {"waiting", "satisfied", "refused"}
  /\ pc' = [pc EXCEPT ![i] = "done"]
  /\ UNCHANGED <<walkVars, waiters, taken, answer, updateVars>>

PassOver(i) ==
  /\ pc[i] = "refused" /\ i \notin cancelled
  /\ pc' = [pc EXCEPT ![i] = "done"]
  /\ respMap' = [respMap EXCEPT ![i[1]] = WarnResponse]
  /\ upstreamFailed' = upstreamFailed \cup {i[1]}
  /\ UNCHANGED <<taskStatus, ctxDone, waiters, taken, answer, updateVars>>

StartCallback(i) ==
  /\ pc[i] = "satisfied" /\ i \notin cancelled
  /\ pc' = [pc EXCEPT ![i] = "running"]
  /\ UNCHANGED <<walkVars, waiters, taken, answer, updateVars>>

CallbackReturns(i, r) ==
  /\ pc[i] = "running"
  /\ pc' = [pc EXCEPT ![i] = "returned"]
  /\ answer' = [answer EXCEPT ![i] = r]
  /\ taskStatus' = [taskStatus EXCEPT ![i[1]] = IF @ \in SettledStatus THEN @ ELSE r.status]
  /\ ctxDone' = (ctxDone \/ r.level = Fatal)
  /\ UNCHANGED <<respMap, upstreamFailed, waiters, taken, updateVars>>

Blocks(r) == r.status = "blocked"

\* Mutant of Record: a blocked vertex is not told from an answered one.
RecordAll(i) ==
  /\ pc[i] = "returned"
  /\ pc' = [pc EXCEPT ![i] = "done"]
  /\ respMap' = [respMap EXCEPT ![i[1]] = answer[i]]
  /\ UNCHANGED <<upstreamFailed, taskStatus, ctxDone, waiters, taken, answer, updateVars>>

Record(i) ==
  /\ pc[i] = "returned"
  /\ pc' = [pc EXCEPT ![i] = "done"]
  /\ respMap' = [respMap EXCEPT ![i[1]] = answer[i]]
  /\ upstreamFailed' = upstreamFailed \cup {v \in {i[1]} : Blocks(answer[i])}
  /\ UNCHANGED <<taskStatus, ctxDone, waiters, taken, answer, updateVars>>

-----------------------------------------------------------------------------
Cancel ==
  /\ Cancellable /\ ~ctxDone
  /\ ctxDone' = TRUE
  /\ UNCHANGED <<respMap, upstreamFailed, taskStatus, infoVars, updateVars>>

\* acyclicGraph.Walk makes the first Update; Wait may return from then on.
Update(g) ==
  /\ IF updates = 0 THEN g = First ELSE g \in Later
  /\ Readding \/ \A i \in cancelled : i[1] \notin g.vertices
  /\ BeginUpdate(g)

Waiter(i) == \E w \in DOMAIN waiters[i] : WaitDeps(i, w) \/ WaitCancelled(i, w)
Callback(i) == \E r \in Answers : CallbackReturns(i, r)
WalkVertex(i) ==
  \/ TakeVerdict(i) \/ SeeUpdate(i) \/ GiveUp(i) \/ PassOver(i) \/ StartCallback(i) \/ Record(i)
FinishUpdate == (\E v \in Vertices : Kick(v)) \/ EndUpdate

Next ==
  \/ \E g \in {First} \cup Later : Update(g)
  \/ FinishUpdate
  \/ Cancel
  \/ \E i \in Infos : Waiter(i) \/ WalkVertex(i) \/ Callback(i)

Spec == Init /\ [][Next]_vars

\* Goroutines run, callbacks return, and the walk starts; nobody has to update
\* it or to cancel it.
FairSpec ==
  /\ Spec
  /\ WF_vars(updates = 0 /\ BeginUpdate(First)) /\ WF_vars(FinishUpdate)
  /\ \A i \in Infos : WF_vars(Waiter(i)) /\ WF_vars(WalkVertex(i)) /\ WF_vars(Callback(i))

-----------------------------------------------------------------------------
\* The step in which a vertex is let through to its callback.
Decides(i) == pc[i] = "waiting" /\ pc'[i] = "satisfied"

\* walk.go:13: a vertex is walked only when its dependencies have been walked,
\* those of the graph as it is when the vertex decides to run, and only if they
\* passed.  (A vertex may decide while an Update is on its way.)
DecidedAfterDeps ==
  \A i \in infos : Decides(i) /\ ~update.active =>
    \A d \in infos : <<d[1], i[1]>> \in graph.edges =>
      pc[d] = "done" /\ (answer[d] # NoResponse => answer[d].pass)

WalkedAfterDeps == [][DecidedAfterDeps]_vars

\* Wait returns after the last Update, whatever was added, removed or connected
\* while vertices were deciding, waiting or running (liveness, FairSpec).
UpdatedWalkEnds == <>[](update.active \/ AllDone)

-----------------------------------------------------------------------------
\* Until it is updated again, the walk is the one module Walker describes.  It
\* sees a vertex wait until its callback starts, the verdict of its first
\* waiter, and a response and a blocked vertex before they are recorded.
FirstInfo(v) == <<v, 1>>
FirstDeps(v) == {FirstInfo(d) : d \in {d \in First.vertices : <<d, v>> \in First.edges}}
Returned(v) == pc[FirstInfo(v)] = "returned"

FirstPc ==
  [v \in First.vertices |->
     IF pc[FirstInfo(v)] \in {"running", "returned", "done"} THEN pc[FirstInfo(v)] ELSE "waiting"]
FirstVerdicts ==
  [v \in First.vertices |->
     IF FirstDeps(v) = {} THEN "pass"
     ELSE IF waiters[FirstInfo(v)] = <<>> THEN "pending" ELSE waiters[FirstInfo(v)][1].sent]
FirstResponse ==
  [v \in First.vertices |-> IF Returned(v) THEN answer[FirstInfo(v)] ELSE respMap[v]]
FirstFailed ==
  upstreamFailed \cup {v \in First.vertices : Returned(v) /\ Blocks(answer[FirstInfo(v)])}
FirstStatus == [v \in First.vertices |-> taskStatus[v]]

FirstWalk == INSTANCE Walker WITH
  Vertices <- First.vertices,
  Edges <- First.edges,
  AnyNodes <- {}, NotNodes <- {}, Conditional <- {}, SkipExecution <- {},
  CallbackResponses <- [v \in First.vertices |-> Answers],
  MaxWalks <- 1,
  pc <- FirstPc,
  verdict <- FirstVerdicts,
  response <- FirstResponse,
  upstreamFailed <- FirstFailed,
  taskStatus <- FirstStatus,
  walks <- 1

\* The channels that only a second Update uses make no difference before it
\* (refinement of Walker while it lasts).
OneUpdateIsAWalk ==
  /\ FirstWalk!Init
  /\ [][updates' <= 1 => FirstWalk!Next \/ UNCHANGED FirstWalk!vars]_vars
=============================================================================
