------------------------- MODULE WalkerUpdateProofs -------------------------
(***************************************************************************)
(* Theorems about WalkerUpdate: what vertices decide on, for every         *)
(* sequence of graphs that brings no removed vertex back, and the walk it  *)
(* is until the second Update.                                             *)
(***************************************************************************)
EXTENDS WalkerUpdate, SequenceTheorems, FiniteSetTheorems, TLAPS

Verdicts == {"pending", "pass", "fail"}
Waiters == [deps : SUBSET Infos, sent : Verdicts]
Places == {"absent", "waiting", "satisfied", "refused", "running", "returned", "done"}

\* What the proofs need to know of types.
TypeInv ==
  /\ infos \subseteq Infos /\ cancelled \subseteq Infos
  /\ deps \in [Infos -> SUBSET Infos]
  /\ waiters \in [Infos -> Seq(Waiters)]
  /\ taken \in [Infos -> Nat]
  /\ \A i \in Infos : taken[i] <= Len(waiters[i])
  /\ pc \in [Infos -> Places]
  /\ answer \in [Infos -> Response]
  /\ respMap \in [Vertices -> Response]
  /\ update \in [active : BOOLEAN, kick : SUBSET Vertices, start : SUBSET Vertices]

\* The edges of the graph are among those of the walk, which join vertices
\* that were added at some time.
GraphInv ==
  /\ graph.edges \subseteq edges
  /\ \A e \in edges : {FirstInfo(e[1]), FirstInfo(e[2])} \subseteq infos \cup cancelled
  /\ update.kick \subseteq Known
  /\ ~update.active => update.kick = {}

\* A vertex of the walk waits for what the edges say,
DepsInv == \A i, d \in infos : <<d[1], i[1]>> \in edges => d \in deps[i]

\* its last waiter knows it, unless it is about to be replaced,
LastWaiterKnows(i) ==
  IF waiters[i] = <<>> THEN deps[i] = {} ELSE waiters[i][Len(waiters[i])].deps = deps[i]
WaiterInv == \A i \in infos : i[1] \notin update.kick => LastWaiterKnows(i)

\* and what a waiter lets through stays justified.
Passed(d) == pc[d] = "done" /\ ~Refuses(d)
VerdictInv ==
  \A i \in Infos : \A w \in 1 .. Len(waiters[i]) :
    waiters[i][w].sent = "pass" => \A d \in waiters[i][w].deps : Passed(d)

AnswerInv ==
  \A i \in Infos :
    /\ pc[i] \in {"absent", "waiting", "satisfied", "refused"} => answer[i] = NoResponse
    /\ pc[i] = "done" /\ answer[i] # NoResponse => respMap[i[1]] = answer[i]

\* Infos that are not made yet, and those that are not started.
FreshInv ==
  /\ \A i \in Infos \ (infos \cup cancelled) :
       waiters[i] = <<>> /\ deps[i] = {} /\ pc[i] = "absent"
  /\ \A i \in infos : i[1] \in update.start => pc[i] = "absent"

UpdateInv ==
  TypeInv /\ GraphInv /\ DepsInv /\ WaiterInv /\ VerdictInv /\ AnswerInv /\ FreshInv

USE UpdateAssumption DEF UpdateAssumption

-----------------------------------------------------------------------------
\* Without readding there is one info for each vertex.
LEMMA OneInfo ==
  ASSUME ~Readding
  PROVE  /\ \A i \in Infos : i[1] \in Vertices /\ i = FirstInfo(i[1])
         /\ \A v \in Vertices : FirstInfo(v) \in Infos /\ FirstInfo(v)[1] = v
<1>1. 1 .. (IF Readding THEN MaxUpdates ELSE 1) = {1} OBVIOUS
<1>2. Infos = Vertices \X {1} BY <1>1 DEF Infos, Turns
<1> QED BY <1>2 DEF FirstInfo

LEMMA InitUpdate == ASSUME ~Readding, Init PROVE UpdateInv
<1>1. NoResponse \in Response BY DEF NoResponse, Response, FailureLevel, Normal, Fatal, TaskStatus
<1>2. TypeInv
  <2>1. /\ deps \in [Infos -> SUBSET Infos] /\ waiters \in [Infos -> Seq(Waiters)]
        /\ taken \in [Infos -> Nat] /\ pc \in [Infos -> Places]
    BY DEF Init, Places
  <2>2. answer \in [Infos -> Response] /\ respMap \in [Vertices -> Response]
    BY <1>1 DEF Init
  <2>3. update \in [active : BOOLEAN, kick : SUBSET Vertices, start : SUBSET Vertices]
    BY DEF Init, Idle
  <2>4. \A i \in Infos : taken[i] <= Len(waiters[i]) BY DEF Init
  <2> QED BY <2>1, <2>2, <2>3, <2>4 DEF TypeInv, Init
<1>3. GraphInv BY DEF GraphInv, Init, Idle
<1>4. VerdictInv BY DEF VerdictInv, Init
<1>5. AnswerInv BY DEF AnswerInv, Init
<1>6. FreshInv BY DEF FreshInv, Init
<1> QED BY <1>2, <1>3, <1>4, <1>5, <1>6 DEF UpdateInv, DepsInv, WaiterInv, Init

-----------------------------------------------------------------------------
(* Update.                                                                 *)

LEMMA BeginUpdateKeeps ==
  ASSUME ~Readding, UpdateInv, NEW g \in {First} \cup Later, Update(g)
  PROVE  UpdateInv'
<1> DEFINE added == g.vertices \ Known
           removed == {i \in infos : i[1] \notin g.vertices}
           kept == (infos \ removed) \cup {NewInfo(v) : v \in added}
           newEdges == g.edges \ edges
           oldEdges == {e \in edges \ g.edges : e[2] \in g.vertices}
<1>1. /\ ~update.active /\ graph' = g /\ infos' = kept /\ cancelled' = cancelled \cup removed
      /\ deps' = [i \in Infos |->
                    IF i \notin kept THEN deps[i]
                    ELSE {d \in deps[i] : <<d[1], i[1]>> \notin oldEdges}
                         \cup {d \in kept : <<d[1], i[1]>> \in newEdges}]
      /\ edges' = (edges \cup newEdges) \ oldEdges
      /\ update' = [active |-> TRUE, kick |-> {e[2] : e \in newEdges \cup oldEdges},
                    start |-> added]
      /\ UNCHANGED <<waiters, taken, pc, answer, respMap>>
  BY DEF Update, BeginUpdate, walkVars, infoVars
<1>2. \A i \in cancelled : i[1] \notin g.vertices BY DEF Update
<1>3. g.vertices \subseteq Vertices /\ g.edges \subseteq g.vertices \X g.vertices
  BY DEF Vertices
<1>4. ASSUME NEW v \in added
      PROVE  NewInfo(v) = FirstInfo(v) /\ FirstInfo(v) \in Infos \ (infos \cup cancelled)
  <2>1. FirstInfo(v) \in Infos /\ FirstInfo(v)[1] = v BY <1>3, OneInfo
  <2>2. \A i \in infos \cup cancelled : i[1] # v BY <1>2, <1>4 DEF Known
  <2>3. {n \in Turns : <<v, n>> \in infos \cup cancelled} = {} BY <2>2
  <2>4. NewInfo(v) = <<v, 1 + 0>> BY <2>3, FS_EmptySet DEF NewInfo
  <2> QED BY <2>1, <2>2, <2>4 DEF FirstInfo
<1>5. kept \subseteq Infos /\ Known' = g.vertices /\ infos \cup cancelled \subseteq kept \cup cancelled'
  <2>1. kept \subseteq Infos BY <1>4 DEF UpdateInv, TypeInv
  <2>2. {i[1] : i \in kept} = g.vertices
    <3>1. \A i \in kept : i[1] \in g.vertices BY <1>3, <1>4, OneInfo
    <3>2. ASSUME NEW v \in g.vertices PROVE \E i \in kept : i[1] = v
      <4>1. CASE v \in added BY <4>1, <1>3, <1>4, OneInfo
      <4>2. CASE v \in Known BY <4>2 DEF Known
      <4> QED BY <4>1, <4>2
    <3> QED BY <3>1, <3>2
  <2> QED BY <2>1, <2>2, <1>1 DEF Known
<1> HIDE DEF added, removed, kept, newEdges, oldEdges
<1>6. /\ newEdges \subseteq g.vertices \X g.vertices
      /\ \A e \in oldEdges : e[2] \in g.vertices
      /\ newEdges = g.edges \ edges /\ oldEdges \subseteq edges /\ oldEdges \cap g.edges = {}
  BY <1>3 DEF newEdges, oldEdges
<1>7. \A i \in kept : i \in infos \/ (i \in Infos \ (infos \cup cancelled) /\ i[1] \in added)
  BY <1>3, <1>4, OneInfo DEF kept, added
<1>8. TypeInv'
  <2>1. deps' \in [Infos -> SUBSET Infos] BY <1>1, <1>5 DEF UpdateInv, TypeInv
  <2>2. added \subseteq Vertices /\ {e[2] : e \in newEdges \cup oldEdges} \subseteq Vertices
    BY <1>3, <1>6 DEF added
  <2>3. removed \subseteq Infos BY DEF UpdateInv, TypeInv, removed
  <2> QED BY <1>1, <1>5, <2>1, <2>2, <2>3 DEF UpdateInv, TypeInv
<1>9. GraphInv'
  <2>1. \A v \in g.vertices : FirstInfo(v) \in kept
    <3>1. \A v \in g.vertices : \E i \in kept : i[1] = v BY <1>1, <1>5 DEF Known
    <3> QED BY <3>1, <1>5, OneInfo
  <2>2. \A e \in edges' : {FirstInfo(e[1]), FirstInfo(e[2])} \subseteq infos' \cup cancelled'
    BY <1>1, <1>5, <1>6, <2>1 DEF UpdateInv, GraphInv
  <2>3. graph'.edges \subseteq edges' BY <1>1, <1>6
  <2>4. update'.kick \subseteq Known' BY <1>1, <1>5, <1>6
  <2> QED BY <2>2, <2>3, <2>4, <1>1 DEF GraphInv
<1>10. DepsInv'
  <2> SUFFICES ASSUME NEW i \in kept, NEW d \in kept, <<d[1], i[1]>> \in edges'
               PROVE  d \in deps'[i]
    BY <1>1 DEF DepsInv
  <2>1. CASE <<d[1], i[1]>> \in newEdges BY <2>1, <1>1, <1>5
  <2>2. CASE <<d[1], i[1]>> \in edges /\ <<d[1], i[1]>> \notin oldEdges
    <3>1. d \in infos \cup cancelled /\ i \in infos \cup cancelled
      BY <2>2, <1>5, OneInfo DEF UpdateInv, GraphInv
    <3>2. d \in infos /\ i \in infos BY <3>1, <1>7
    <3>3. d \in deps[i] BY <3>2, <2>2 DEF UpdateInv, DepsInv
    <3> QED BY <3>3, <2>2, <1>1, <1>5
  <2> QED BY <2>1, <2>2, <1>1
<1>11. WaiterInv'
  <2> SUFFICES ASSUME NEW i \in kept, i[1] \notin update'.kick PROVE LastWaiterKnows(i)'
    BY <1>1 DEF WaiterInv
  <2>1. \A d \in Infos : <<d[1], i[1]>> \notin newEdges \cup oldEdges BY <1>1
  <2>2. deps[i] \subseteq Infos /\ i \in Infos BY <1>5 DEF UpdateInv, TypeInv
  <2>3. deps'[i] = deps[i] BY <1>1, <1>5, <2>1, <2>2
  <2>4. LastWaiterKnows(i)
    <3>1. CASE i \in infos BY <3>1, <1>1 DEF UpdateInv, WaiterInv, GraphInv
    <3>2. CASE i \in Infos \ (infos \cup cancelled)
      BY <3>2 DEF UpdateInv, FreshInv, LastWaiterKnows
    <3> QED BY <3>1, <3>2, <1>7
  <2> QED BY <2>3, <2>4, <1>1 DEF LastWaiterKnows
<1>12. VerdictInv' /\ AnswerInv'
  BY <1>1 DEF UpdateInv, VerdictInv, AnswerInv, Passed, Refuses
<1>13. FreshInv'
  <2>1. \A i \in Infos \ (infos' \cup cancelled') : i \notin infos \cup cancelled /\ deps'[i] = deps[i]
    BY <1>1, <1>5
  <2>2. \A i \in kept : i[1] \in added => i \notin infos BY DEF added, Known
  <2> QED BY <2>1, <2>2, <1>1, <1>7 DEF UpdateInv, FreshInv
<1> QED BY <1>8, <1>9, <1>10, <1>11, <1>12, <1>13 DEF UpdateInv

LEMMA KickKeeps ==
  ASSUME ~Readding, UpdateInv, NEW v \in Vertices, Kick(v)
  PROVE  UpdateInv'
<1> DEFINE i == FirstInfo(v)
           new == [deps |-> deps[i], sent |-> "pending"]
<1>1. InfoOf(v) = i /\ i \in infos /\ i \in Infos
  <2>1. \E j \in infos : j[1] = v BY DEF Kick, UpdateInv, GraphInv, Known
  <2>2. InfoOf(v) \in infos /\ InfoOf(v)[1] = v BY <2>1 DEF InfoOf
  <2> QED BY <2>2, OneInfo DEF UpdateInv, TypeInv
<1>2. /\ v \in update.kick /\ update' = [update EXCEPT !.kick = @ \ {v}]
      /\ waiters' = [waiters EXCEPT ![i] = Append(waiters[i], new)]
      /\ UNCHANGED <<respMap, taken, pc, answer, graph, edges, infos, deps, cancelled>>
  BY <1>1 DEF Kick, walkVars, UpdateInv, TypeInv
<1>3. new \in Waiters /\ waiters[i] \in Seq(Waiters) /\ i[1] = v
  BY <1>1, OneInfo DEF UpdateInv, TypeInv, Waiters, Verdicts
<1> HIDE DEF i, new
<1>4. /\ waiters'[i] \in Seq(Waiters) /\ waiters'[i] # <<>>
      /\ Len(waiters'[i]) = Len(waiters[i]) + 1 /\ Len(waiters[i]) \in Nat
      /\ \A w \in 1 .. Len(waiters[i]) : waiters'[i][w] = waiters[i][w]
      /\ waiters'[i][Len(waiters[i]) + 1] = new
      /\ \A j \in Infos \ {i} : waiters'[j] = waiters[j]
  BY <1>1, <1>2, <1>3, AppendProperties, LenProperties DEF UpdateInv, TypeInv
<1>5. TypeInv'
  <2>1. \A j \in Infos : taken'[j] <= Len(waiters'[j])
    BY <1>2, <1>4 DEF UpdateInv, TypeInv
  <2> QED BY <2>1, <1>1, <1>2, <1>4 DEF UpdateInv, TypeInv
<1>6. GraphInv' /\ DepsInv' /\ AnswerInv'
  BY <1>2 DEF UpdateInv, TypeInv, GraphInv, DepsInv, AnswerInv, Known
<1>7. WaiterInv'
  <2> SUFFICES ASSUME NEW j \in infos, j[1] \notin update'.kick PROVE LastWaiterKnows(j)'
    BY <1>2 DEF WaiterInv
  <2>1. CASE j = i BY <2>1, <1>2, <1>4 DEF LastWaiterKnows, new
  <2>2. CASE j # i
    <3>1. j \in Infos /\ j[1] # v BY <2>2, OneInfo DEF UpdateInv, TypeInv, i
    <3>2. j[1] \notin update.kick BY <3>1, <1>2 DEF UpdateInv, TypeInv
    <3> QED BY <3>1, <3>2, <2>2, <1>2, <1>4 DEF UpdateInv, WaiterInv, LastWaiterKnows
  <2> QED BY <2>1, <2>2
<1>8. VerdictInv'
  <2> SUFFICES ASSUME NEW j \in Infos, NEW w \in 1 .. Len(waiters'[j]), waiters'[j][w].sent = "pass",
                      NEW d \in waiters'[j][w].deps
               PROVE  Passed(d)
    BY <1>2 DEF VerdictInv, Passed, Refuses
  <2>1. CASE j = i /\ w = Len(waiters[i]) + 1 BY <2>1, <1>4 DEF new
  <2>2. CASE j = i /\ w # Len(waiters[i]) + 1
    <3>1. w \in 1 .. Len(waiters[i]) BY <2>2, <1>4
    <3> QED BY <3>1, <2>2, <1>1, <1>4 DEF UpdateInv, VerdictInv
  <2>3. CASE j # i BY <2>3, <1>4 DEF UpdateInv, VerdictInv
  <2> QED BY <2>1, <2>2, <2>3
<1>9. FreshInv' BY <1>1, <1>2, <1>4 DEF UpdateInv, TypeInv, FreshInv
<1> QED BY <1>5, <1>6, <1>7, <1>8, <1>9 DEF UpdateInv

LEMMA EndUpdateKeeps ==
  ASSUME ~Readding, UpdateInv, EndUpdate
  PROVE  UpdateInv'
<1>1. /\ update.active /\ update.kick = {} /\ update' = Idle
      /\ pc' = [i \in Infos |-> IF i \in infos /\ i[1] \in update.start THEN "waiting" ELSE pc[i]]
      /\ UNCHANGED <<respMap, waiters, taken, answer, graph, edges, infos, deps, cancelled>>
  BY DEF EndUpdate, walkVars
<1>2. \A i \in Infos : pc'[i] = pc[i] \/ (i \in infos /\ pc[i] = "absent" /\ pc'[i] = "waiting")
  BY <1>1 DEF UpdateInv, FreshInv
<1>3. TypeInv' BY <1>1 DEF UpdateInv, TypeInv, Idle, Places
<1>4. GraphInv' /\ DepsInv' /\ WaiterInv'
  BY <1>1 DEF UpdateInv, GraphInv, DepsInv, WaiterInv, LastWaiterKnows, Known, Idle
<1>5. VerdictInv'
  <2> SUFFICES ASSUME NEW j \in Infos, NEW w \in 1 .. Len(waiters[j]), waiters[j][w].sent = "pass",
                      NEW d \in waiters[j][w].deps
               PROVE  Passed(d)'
    BY <1>1 DEF VerdictInv
  <2>1. waiters[j][w] \in Waiters BY LenProperties DEF UpdateInv, TypeInv
  <2>2. d \in Infos BY <2>1 DEF Waiters
  <2>3. Passed(d) BY DEF UpdateInv, VerdictInv
  <2> QED BY <2>2, <2>3, <1>1, <1>2 DEF Passed, Refuses
<1>6. AnswerInv' BY <1>1, <1>2 DEF UpdateInv, AnswerInv
<1>7. FreshInv' BY <1>1, <1>2 DEF UpdateInv, FreshInv, Idle
<1> QED BY <1>3, <1>4, <1>5, <1>6, <1>7 DEF UpdateInv

-----------------------------------------------------------------------------
(* The waiters.                                                            *)

\* Sending a verdict that is right disturbs nothing.
LEMMA SendKeeps ==
  ASSUME UpdateInv, NEW i \in Infos, NEW w \in DOMAIN waiters[i], NEW verdict \in {"pass", "fail"},
         Send(i, w, verdict),
         verdict = "pass" => \A d \in waiters[i][w].deps : Passed(d)
  PROVE  UpdateInv'
<1> DEFINE sent == [waiters[i][w] EXCEPT !.sent = verdict]
<1>1. waiters[i] \in Seq(Waiters) /\ w \in 1 .. Len(waiters[i]) /\ waiters[i][w] \in Waiters
  BY LenProperties DEF UpdateInv, TypeInv
<1>2. /\ waiters' = [waiters EXCEPT ![i] = [waiters[i] EXCEPT ![w] = sent]]
      /\ UNCHANGED <<respMap, taken, pc, answer, updateVars>>
  BY DEF Send, walkVars
<1>3. sent \in Waiters /\ sent.deps = waiters[i][w].deps /\ sent.sent = verdict
  BY <1>1 DEF Waiters, Verdicts
<1> HIDE DEF sent
<1>4. /\ waiters'[i] \in Seq(Waiters) /\ Len(waiters'[i]) = Len(waiters[i])
      /\ \A k \in 1 .. Len(waiters[i]) : waiters'[i][k] = IF k = w THEN sent ELSE waiters[i][k]
  <2>1. waiters'[i] = [waiters[i] EXCEPT ![w] = sent] BY <1>2 DEF UpdateInv, TypeInv
  <2> QED BY <2>1, <1>1, <1>3, ExceptSeq
<1>5. \A j \in Infos \ {i} : waiters'[j] = waiters[j] BY <1>2 DEF UpdateInv, TypeInv
<1>6. TypeInv'
  <2>1. \A j \in Infos : taken'[j] <= Len(waiters'[j])
    BY <1>2, <1>4, <1>5 DEF UpdateInv, TypeInv
  <2>2. waiters' \in [Infos -> Seq(Waiters)]
    BY <1>2, <1>4, <1>5 DEF UpdateInv, TypeInv
  <2> QED BY <2>1, <2>2, <1>2 DEF UpdateInv, TypeInv, updateVars
<1>7. GraphInv' /\ DepsInv' /\ AnswerInv'
  BY <1>2 DEF UpdateInv, GraphInv, DepsInv, AnswerInv, Known, updateVars
<1>8. \A j \in Infos : /\ Len(waiters'[j]) = Len(waiters[j]) /\ Len(waiters[j]) \in Nat
                       /\ \A k \in 1 .. Len(waiters[j]) : waiters'[j][k].deps = waiters[j][k].deps
  BY <1>3, <1>4, <1>5, LenProperties DEF UpdateInv, TypeInv
<1>9. \A j \in Infos : waiters'[j] = <<>> <=> waiters[j] = <<>>
  BY <1>8, <1>4, <1>5 DEF UpdateInv, TypeInv
<1>10. WaiterInv'
  <2> SUFFICES ASSUME NEW j \in infos, j[1] \notin update.kick PROVE LastWaiterKnows(j)'
    BY <1>2 DEF WaiterInv, updateVars
  <2>1. j \in Infos /\ LastWaiterKnows(j) BY DEF UpdateInv, TypeInv, WaiterInv
  <2>2. waiters[j] # <<>> => Len(waiters[j]) \in 1 .. Len(waiters[j])
    BY <2>1, EmptySeq DEF UpdateInv, TypeInv
  <2> QED BY <2>1, <2>2, <1>2, <1>8, <1>9 DEF LastWaiterKnows, updateVars
<1>11. VerdictInv'
  <2> SUFFICES ASSUME NEW j \in Infos, NEW k \in 1 .. Len(waiters[j]), waiters'[j][k].sent = "pass",
                      NEW d \in waiters[j][k].deps
               PROVE  Passed(d)
    BY <1>2, <1>8 DEF VerdictInv, Passed, Refuses
  <2>1. CASE j = i /\ k = w BY <2>1, <1>3, <1>4
  <2>2. CASE ~(j = i /\ k = w)
    <3>1. waiters'[j][k] = waiters[j][k] BY <2>2, <1>4, <1>5
    <3> QED BY <3>1 DEF UpdateInv, VerdictInv
  <2> QED BY <2>1, <2>2
<1>12. FreshInv' BY <1>2, <1>9 DEF UpdateInv, FreshInv, updateVars
<1> QED BY <1>6, <1>7, <1>10, <1>11, <1>12 DEF UpdateInv

LEMMA WaiterKeeps ==
  ASSUME UpdateInv, NEW i \in Infos, Waiter(i)
  PROVE  UpdateInv'
<1> PICK w \in DOMAIN waiters[i] : WaitDeps(i, w) \/ WaitCancelled(i, w) BY DEF Waiter
<1>1. CASE WaitDeps(i, w)
  <2>1. CASE \E d \in waiters[i][w].deps : Refuses(d)
    <3>1. Send(i, w, "fail") BY <1>1, <2>1 DEF WaitDeps
    <3> QED BY <3>1, SendKeeps
  <2>2. CASE ~\E d \in waiters[i][w].deps : Refuses(d)
    <3>1. Send(i, w, "pass") BY <1>1, <2>2 DEF WaitDeps
    <3>2. \A d \in waiters[i][w].deps : Passed(d) BY <1>1, <2>2 DEF WaitDeps, Passed
    <3> QED BY <3>1, <3>2, SendKeeps
  <2> QED BY <2>1, <2>2
<1>2. CASE WaitCancelled(i, w)
  <2>1. Send(i, w, "fail") BY <1>2 DEF WaitCancelled
  <2> QED BY <2>1, SendKeeps
<1> QED BY <1>1, <1>2

-----------------------------------------------------------------------------
(* The vertices.                                                           *)

\* A vertex that is neither new nor done moves on by itself.
LEMMA VertexKeeps ==
  ASSUME ~Readding, UpdateInv, NEW i \in Infos, pc[i] \notin {"absent", "done"},
         UNCHANGED <<waiters, updateVars>>, TypeInv', pc'[i] # "absent",
         \A j \in Infos \ {i} : pc'[j] = pc[j] /\ answer'[j] = answer[j],
         \A v \in Vertices \ {i[1]} : respMap'[v] = respMap[v],
         pc'[i] \in {"waiting", "satisfied", "refused"} => answer'[i] = NoResponse,
         pc'[i] = "done" /\ answer'[i] # NoResponse => respMap'[i[1]] = answer'[i]
  PROVE  UpdateInv'
<1>1. GraphInv' /\ DepsInv' /\ WaiterInv'
  BY DEF UpdateInv, GraphInv, DepsInv, WaiterInv, LastWaiterKnows, Known, updateVars
<1>2. \A j \in Infos \ {i} : j[1] \in Vertices \ {i[1]} BY OneInfo
<1>3. VerdictInv'
  <2> SUFFICES ASSUME NEW j \in Infos, NEW w \in 1 .. Len(waiters[j]), waiters[j][w].sent = "pass",
                      NEW d \in waiters[j][w].deps
               PROVE  Passed(d)'
    BY DEF VerdictInv
  <2>1. waiters[j][w] \in Waiters BY LenProperties DEF UpdateInv, TypeInv
  <2>2. d \in Infos BY <2>1 DEF Waiters
  <2>3. Passed(d) BY DEF UpdateInv, VerdictInv
  <2>4. d # i BY <2>3 DEF Passed
  <2> QED BY <2>2, <2>3, <2>4, <1>2 DEF Passed, Refuses
<1>4. AnswerInv'
  <2> SUFFICES ASSUME NEW j \in Infos
               PROVE  /\ pc'[j] \in {"absent", "waiting", "satisfied", "refused"} => answer'[j] = NoResponse
                      /\ pc'[j] = "done" /\ answer'[j] # NoResponse => respMap'[j[1]] = answer'[j]
    BY DEF AnswerInv
  <2>1. CASE j = i BY <2>1
  <2>2. CASE j # i BY <2>2, <1>2 DEF UpdateInv, AnswerInv
  <2> QED BY <2>1, <2>2
<1>5. FreshInv' BY DEF UpdateInv, FreshInv, TypeInv, updateVars
<1> QED BY <1>1, <1>3, <1>4, <1>5 DEF UpdateInv

LEMMA WalkVertexKeeps ==
  ASSUME ~Readding, UpdateInv, NEW i \in Infos, WalkVertex(i) \/ Callback(i)
  PROVE  UpdateInv'
<1> USE DEF walkVars
<1>1. CASE TakeVerdict(i)
  <2>1. /\ pc[i] = "waiting" /\ UNCHANGED <<respMap, waiters, answer, updateVars>>
        /\ \/ taken' = [taken EXCEPT ![i] = Len(waiters[i])] /\ UNCHANGED pc
           \/ UNCHANGED taken /\ \E p \in {"satisfied", "refused"} : pc' = [pc EXCEPT ![i] = p]
    BY <1>1 DEF TakeVerdict
  <2>2. Len(waiters[i]) \in Nat BY LenProperties DEF UpdateInv, TypeInv
  <2>3. pc' \in [Infos -> Places] BY <2>1 DEF UpdateInv, TypeInv, Places
  <2>4. taken' \in [Infos -> Nat] /\ \A j \in Infos : taken'[j] <= Len(waiters[j])
    <3>1. taken' = [taken EXCEPT ![i] = Len(waiters[i])] \/ taken' = taken BY <2>1
    <3>2. taken' \in [Infos -> Nat] BY <3>1, <2>2 DEF UpdateInv, TypeInv
    <3>3. \A j \in Infos : taken'[j] = taken[j] \/ taken'[j] = Len(waiters[j])
      BY <3>1 DEF UpdateInv, TypeInv
    <3>4. \A j \in Infos : Len(waiters[j]) \in Nat BY LenProperties DEF UpdateInv, TypeInv
    <3> QED BY <3>2, <3>3, <3>4 DEF UpdateInv, TypeInv
  <2>5. TypeInv' BY <2>1, <2>3, <2>4 DEF UpdateInv, TypeInv, updateVars
  <2> QED BY <2>1, <2>5, VertexKeeps DEF UpdateInv, TypeInv, AnswerInv
<1>2. CASE SeeUpdate(i)
  <2>1. Len(waiters[i]) \in Nat BY LenProperties DEF UpdateInv, TypeInv
  <2>2. TypeInv' BY <1>2, <2>1 DEF SeeUpdate, UpdateInv, TypeInv, updateVars
  <2> QED BY <1>2, <2>2, VertexKeeps DEF SeeUpdate, UpdateInv, TypeInv, AnswerInv
<1>3. CASE GiveUp(i)
  <2>1. TypeInv' BY <1>3 DEF GiveUp, UpdateInv, TypeInv, Places, updateVars
  <2> QED BY <1>3, <2>1, VertexKeeps DEF GiveUp, UpdateInv, TypeInv, AnswerInv
<1>4. CASE PassOver(i)
  <2>1. WarnResponse \in Response
    BY DEF WarnResponse, Response, FailureLevel, Normal, Warning, Fatal, TaskStatus
  <2>2. i[1] \in Vertices BY OneInfo
  <2>3. TypeInv' BY <1>4, <2>1, <2>2 DEF PassOver, UpdateInv, TypeInv, Places, updateVars
  <2> QED BY <1>4, <2>2, <2>3, VertexKeeps DEF PassOver, UpdateInv, TypeInv, AnswerInv
<1>5. CASE StartCallback(i)
  <2>1. TypeInv' BY <1>5 DEF StartCallback, UpdateInv, TypeInv, Places, updateVars
  <2> QED BY <1>5, <2>1, VertexKeeps DEF StartCallback, UpdateInv, TypeInv
<1>6. CASE Record(i)
  <2>1. i[1] \in Vertices BY OneInfo
  <2>2. TypeInv' BY <1>6, <2>1 DEF Record, UpdateInv, TypeInv, Places, updateVars
  <2> QED BY <1>6, <2>1, <2>2, VertexKeeps DEF Record, UpdateInv, TypeInv
<1>7. CASE Callback(i)
  <2> PICK r \in Answers : CallbackReturns(i, r) BY <1>7 DEF Callback
  <2>1. TypeInv' BY DEF CallbackReturns, UpdateInv, TypeInv, Places, updateVars
  <2> QED BY <2>1, VertexKeeps DEF CallbackReturns, UpdateInv, TypeInv
<1> QED BY <1>1, <1>2, <1>3, <1>4, <1>5, <1>6, <1>7 DEF WalkVertex

-----------------------------------------------------------------------------
(* Theorems.                                                               *)

LEMMA NextKeeps == ASSUME ~Readding, UpdateInv, [Next]_vars PROVE UpdateInv'
<1>1. CASE \E g \in {First} \cup Later : Update(g) BY <1>1, BeginUpdateKeeps
<1>2. CASE FinishUpdate BY <1>2, KickKeeps, EndUpdateKeeps DEF FinishUpdate
<1>3. CASE Cancel \/ UNCHANGED vars
  <2>1. UNCHANGED <<respMap, infoVars, updateVars>> BY <1>3 DEF Cancel, vars, walkVars
  <2> USE <2>1 DEF UpdateInv, infoVars, updateVars
  <2>2. TypeInv' BY DEF TypeInv
  <2>3. GraphInv' /\ DepsInv' /\ WaiterInv'
    BY DEF GraphInv, DepsInv, WaiterInv, LastWaiterKnows, Known
  <2>4. VerdictInv' /\ AnswerInv' /\ FreshInv'
    BY DEF VerdictInv, AnswerInv, FreshInv, Passed, Refuses
  <2> QED BY <2>2, <2>3, <2>4
<1>4. CASE \E i \in Infos : Waiter(i) \/ WalkVertex(i) \/ Callback(i)
  BY <1>4, WaiterKeeps, WalkVertexKeeps
<1> QED BY <1>1, <1>2, <1>3, <1>4 DEF Next

\* A vertex that decides has taken the verdict of its last waiter.
LEMMA DecisionIsLast ==
  ASSUME NEW i \in Infos, UpdateInv, [Next]_vars, Decides(i)
  PROVE  taken[i] = Len(waiters[i]) /\ Sent(i) = "pass"
<1>1. pc[i] = "waiting" /\ pc'[i] = "satisfied" BY DEF Decides
<1>2. ~FinishUpdate
  BY <1>1 DEF FinishUpdate, Kick, EndUpdate, UpdateInv, TypeInv
<1>3. \A g : ~Update(g) BY <1>1 DEF Update, BeginUpdate, infoVars
<1>4. ~Cancel /\ ~UNCHANGED vars BY <1>1 DEF Cancel, vars, infoVars
<1>5. \A j \in Infos : ~Waiter(j) BY <1>1 DEF Waiter, WaitDeps, WaitCancelled, Send
<1>6. ASSUME NEW j \in Infos, WalkVertex(j) \/ Callback(j) PROVE TakeVerdict(i)
  <2>1. CASE j # i
    BY <1>6, <2>1, <1>1 DEF WalkVertex, Callback, TakeVerdict, SeeUpdate, GiveUp, PassOver,
      StartCallback, Record, CallbackReturns, UpdateInv, TypeInv
  <2>2. CASE j = i
    BY <1>6, <2>2, <1>1 DEF WalkVertex, Callback, TakeVerdict, SeeUpdate, GiveUp, PassOver,
      StartCallback, Record, CallbackReturns, UpdateInv, TypeInv
  <2> QED BY <2>1, <2>2
<1>7. TakeVerdict(i) BY <1>2, <1>3, <1>4, <1>5, <1>6 DEF Next
<1>8. ~(taken[i] < Len(waiters[i])) /\ Sent(i) = "pass"
  BY <1>1, <1>7 DEF TakeVerdict, UpdateInv, TypeInv
<1>9. Len(waiters[i]) \in Nat BY LenProperties DEF UpdateInv, TypeInv
<1> QED BY <1>8, <1>9 DEF UpdateInv, TypeInv

LEMMA DecisionIsRight ==
  ASSUME ~Readding, UpdateInv, [Next]_vars
  PROVE  DecidedAfterDeps
<1> SUFFICES ASSUME NEW i \in infos, Decides(i), ~update.active,
                    NEW d \in infos, <<d[1], i[1]>> \in graph.edges
             PROVE  pc[d] = "done" /\ (answer[d] # NoResponse => answer[d].pass)
  BY DEF DecidedAfterDeps
<1>1. i \in Infos /\ d \in Infos BY DEF UpdateInv, TypeInv
<1>2. d \in deps[i] BY DEF UpdateInv, GraphInv, DepsInv
<1>3. LastWaiterKnows(i) BY DEF UpdateInv, GraphInv, WaiterInv
<1>4. waiters[i] # <<>> /\ d \in waiters[i][Len(waiters[i])].deps
  BY <1>2, <1>3 DEF LastWaiterKnows
<1>5. Len(waiters[i]) \in 1 .. Len(waiters[i])
  BY <1>1, <1>4, EmptySeq, LenProperties DEF UpdateInv, TypeInv
<1>6. waiters[i][Len(waiters[i])].sent = "pass"
  BY <1>1, <1>5, DecisionIsLast DEF Sent
<1>7. Passed(d) BY <1>1, <1>4, <1>5, <1>6 DEF UpdateInv, VerdictInv
<1>8. answer[d] # NoResponse => respMap[d[1]] = answer[d]
  BY <1>1, <1>7 DEF Passed, UpdateInv, AnswerInv
<1> QED BY <1>7, <1>8 DEF Passed, Refuses

\* What a vertex decides on when no Update is on its way is the graph of the
\* last one (walk.go:13), for every sequence of graphs that brings no removed
\* vertex back, and under cancellation.
THEOREM VerticesWaitForTheirDeps == ASSUME ~Readding PROVE Spec => WalkedAfterDeps
<1>1. Init => UpdateInv BY InitUpdate
<1>2. UpdateInv /\ [Next]_vars => UpdateInv' BY NextKeeps
<1>3. UpdateInv /\ [Next]_vars => DecidedAfterDeps BY DecisionIsRight
<1>4. Spec => [][DecidedAfterDeps]_vars BY <1>1, <1>2, <1>3, PTL DEF Spec
<1> QED BY <1>4 DEF WalkedAfterDeps

-----------------------------------------------------------------------------
(* Until the second Update, the walk is a walk of Walker.                   *)

\* What the infos and their waiters are while only the first Update was made:
\* one info for each vertex, with one waiter if it has dependencies.
FirstTypes ==
  /\ updates \in {0, 1}
  /\ DOMAIN waiters = Infos /\ waiters = [i \in Infos |-> waiters[i]]
  /\ taken \in [Infos -> {0, 1}]
  /\ pc \in [Infos -> Places]
  /\ answer \in [Infos -> Response]
  /\ respMap \in [Vertices -> Response]
  /\ taskStatus \in [Vertices -> TaskStatus]
  /\ update \in [active : BOOLEAN, kick : SUBSET Vertices, start : SUBSET Vertices]

FirstGraph ==
  /\ cancelled = {}
  /\ IF updates = 0
     THEN infos = {} /\ edges = {} /\ deps = [i \in Infos |-> {}] /\ update = Idle
     ELSE /\ infos = {FirstInfo(v) : v \in First.vertices}
          /\ \A v \in First.vertices : deps[FirstInfo(v)] = FirstDeps(v)
  /\ \A v \in update.kick : v \in First.vertices /\ FirstDeps(v) # {}
  /\ ~update.active => update.kick = {}

WaiterOf(v, sent) == <<[deps |-> FirstDeps(v), sent |-> sent]>>
HasWaiter(v) == \E sent \in Verdicts : waiters[FirstInfo(v)] = WaiterOf(v, sent)
FirstWaiters ==
  /\ \A i \in Infos \ infos : waiters[i] = <<>>
  /\ \A v \in First.vertices : FirstInfo(v) \in infos =>
       IF FirstDeps(v) = {} \/ v \in update.kick
       THEN waiters[FirstInfo(v)] = <<>> ELSE HasWaiter(v)

\* The verdict a vertex took is the one that was sent, and what it recorded is
\* a response.
TookRight(i) ==
  /\ pc[i] # "absent" => i \in infos /\ ~update.active
  /\ taken[i] = 1 => waiters[i] # <<>>
  /\ pc[i] = "satisfied" => FirstVerdicts[i[1]] = "pass"
  /\ pc[i] = "refused" => FirstVerdicts[i[1]] = "fail"
  /\ pc[i] = "returned" => answer[i] # NoResponse
  /\ pc[i] = "done" => respMap[i[1]] # NoResponse
FirstPlaces == \A i \in Infos : TookRight(i)

OneWalk == FirstTypes /\ FirstGraph /\ FirstWaiters /\ FirstPlaces
FirstInv == updates \in Nat /\ (updates <= 1 => OneWalk)

FirstWalkStep == FirstWalk!Next \/ UNCHANGED FirstWalk!vars

\* The infos of the first graph.
LEMMA FirstInfos ==
  /\ \A v \in First.vertices :
       v \in Vertices /\ FirstInfo(v) \in Infos /\ FirstInfo(v)[1] = v
  /\ OneWalk => \A i \in infos : i[1] \in First.vertices /\ i = FirstInfo(i[1])
  /\ OneWalk => \A i \in Infos : pc[i] # "absent" \/ waiters[i] # <<>> => i \in infos
<1>1. 1 \in Turns BY DEF Turns
<1>2. \A v \in First.vertices : v \in Vertices BY DEF Vertices
<1>3. \A v \in First.vertices : FirstInfo(v) \in Infos /\ FirstInfo(v)[1] = v
  BY <1>1, <1>2 DEF Infos, FirstInfo
<1>4. OneWalk => \A i \in infos : i[1] \in First.vertices /\ i = FirstInfo(i[1])
  BY DEF OneWalk, FirstTypes, FirstGraph, FirstInfo
<1>5. OneWalk => \A i \in Infos : pc[i] # "absent" \/ waiters[i] # <<>> => i \in infos
  BY DEF OneWalk, FirstWaiters, FirstPlaces, TookRight
<1> QED BY <1>2, <1>3, <1>4, <1>5

\* What one waiter is.
LEMMA OneWaiter ==
  ASSUME NEW v, NEW sent
  PROVE  /\ WaiterOf(v, sent) # <<>> /\ Len(WaiterOf(v, sent)) = 1
         /\ DOMAIN WaiterOf(v, sent) = {1}
         /\ WaiterOf(v, sent)[1].sent = sent /\ WaiterOf(v, sent)[1].deps = FirstDeps(v)
         /\ Append(<<>>, [deps |-> FirstDeps(v), sent |-> sent]) = WaiterOf(v, sent)
         /\ \A new : [WaiterOf(v, sent) EXCEPT ![1].sent = new] = WaiterOf(v, new)
<1> DEFINE r == [deps |-> FirstDeps(v), sent |-> sent]
<1>1. WaiterOf(v, sent) = <<r>> BY DEF WaiterOf
<1>2. r.sent = sent /\ r.deps = FirstDeps(v) OBVIOUS
<1>3. \A new : [r EXCEPT !.sent = new] = [deps |-> FirstDeps(v), sent |-> new] OBVIOUS
<1>4. \A new : WaiterOf(v, new) = <<[deps |-> FirstDeps(v), sent |-> new]>> BY DEF WaiterOf
<1> HIDE DEF r
<1>5. <<r>> # <<>> /\ Len(<<r>>) = 1 /\ DOMAIN <<r>> = {1} /\ <<r>>[1] = r /\ Append(<<>>, r) = <<r>>
  OBVIOUS
<1>6. \A x : [<<r>> EXCEPT ![1] = x] = <<x>> OBVIOUS
<1>7. \A new : [<<r>> EXCEPT ![1].sent = new] = [<<r>> EXCEPT ![1] = [r EXCEPT !.sent = new]]
  BY <1>5
<1> QED BY <1>1, <1>2, <1>3, <1>4, <1>5, <1>6, <1>7 DEF r

\* What the first graph makes a vertex wait for.
LEMMA DepsOfFirst ==
  ASSUME NEW v
  PROVE  /\ \A u \in First.vertices : <<u, v>> \in First.edges => FirstInfo(u) \in FirstDeps(v)
         /\ \A d \in FirstDeps(v) :
              \E u \in First.vertices : d = FirstInfo(u) /\ <<u, v>> \in First.edges
BY DEF FirstDeps

LEMMA FirstInit ==
  ASSUME Init
  PROVE  OneWalk /\ FirstWalk!Init
<1>1. NoResponse \in Response /\ "init" \in TaskStatus
  BY DEF NoResponse, Response, FailureLevel, Normal, Fatal, TaskStatus
<1>2. FirstTypes BY <1>1 DEF Init, FirstTypes, Places, Idle
<1>3. FirstGraph /\ FirstWaiters /\ FirstPlaces
  BY DEF Init, FirstGraph, FirstWaiters, FirstPlaces, TookRight, Idle
<1>4. \A v \in First.vertices : FirstInfo(v) \in Infos /\ v \in Vertices BY FirstInfos
<1>5. FirstPc = [v \in First.vertices |-> "waiting"] BY <1>4 DEF Init, FirstPc
<1>6. FirstVerdicts = FirstWalk!FirstVerdict
  <2>1. \A v \in First.vertices : FirstWalk!Deps(v) = {} <=> FirstDeps(v) = {}
    BY DEF FirstWalk!Deps, FirstDeps
  <2> QED BY <1>4, <2>1 DEF Init, FirstVerdicts, FirstWalk!FirstVerdict
<1>7. /\ FirstResponse = [v \in First.vertices |-> NoResponse]
      /\ FirstFailed = {} /\ FirstStatus = [v \in First.vertices |-> "init"]
  BY <1>4 DEF Init, FirstResponse, FirstFailed, FirstStatus, Returned
<1>8. FirstWalk!NoResponse = NoResponse
  BY DEF NoResponse, FirstWalk!NoResponse, Normal, FirstWalk!Normal
<1>9. FirstWalk!Init BY <1>5, <1>6, <1>7, <1>8 DEF Init, FirstWalk!Init
<1> QED BY <1>2, <1>3, <1>9 DEF OneWalk

\* A step that the walk of Walker does not see.
LEMMA FirstStutters ==
  ASSUME FirstPc' = FirstPc, FirstVerdicts' = FirstVerdicts,
         UNCHANGED <<answer, walkVars>>,
         \A v \in First.vertices : Returned(v)' <=> Returned(v)
  PROVE  UNCHANGED FirstWalk!vars
<1>1. FirstResponse' = FirstResponse BY DEF FirstResponse, walkVars
<1>2. FirstFailed' = FirstFailed BY DEF FirstFailed, walkVars
<1>3. FirstStatus' = FirstStatus BY DEF FirstStatus, walkVars
<1> QED BY <1>1, <1>2, <1>3 DEF FirstWalk!vars, walkVars

LEMMA FirstUpdate ==
  ASSUME OneWalk, NEW g, Update(g), updates' \in {0, 1}
  PROVE  OneWalk' /\ FirstWalkStep
<1> DEFINE added == g.vertices \ Known
           removed == {i \in infos : i[1] \notin g.vertices}
           kept == (infos \ removed) \cup {NewInfo(v) : v \in added}
           newEdges == g.edges \ edges
           oldEdges == {e \in edges \ g.edges : e[2] \in g.vertices}
<1>1. /\ updates = 0 /\ updates' = 1 /\ g = First
      /\ infos = {} /\ edges = {} /\ cancelled = {} /\ deps = [i \in Infos |-> {}]
  BY DEF OneWalk, FirstTypes, FirstGraph, Update, BeginUpdate
<1>2. /\ infos' = kept /\ cancelled' = cancelled \cup removed
      /\ deps' = [i \in Infos |->
                    IF i \notin kept THEN deps[i]
                    ELSE {d \in deps[i] : <<d[1], i[1]>> \notin oldEdges}
                         \cup {d \in kept : <<d[1], i[1]>> \in newEdges}]
      /\ update' = [active |-> TRUE, kick |-> {e[2] : e \in newEdges \cup oldEdges},
                    start |-> added]
      /\ UNCHANGED <<walkVars, infoVars>>
  BY DEF Update, BeginUpdate
<1>3. added = First.vertices /\ removed = {} /\ newEdges = First.edges /\ oldEdges = {}
  BY <1>1 DEF Known
<1>4. \A v \in First.vertices : NewInfo(v) = FirstInfo(v)
  <2> SUFFICES ASSUME NEW v \in First.vertices PROVE NewInfo(v) = FirstInfo(v) OBVIOUS
  <2>1. {n \in Turns : <<v, n>> \in infos \cup cancelled} = {} BY <1>1
  <2>2. NewInfo(v) = <<v, 1 + 0>> BY <2>1, FS_EmptySet DEF NewInfo
  <2> QED BY <2>2 DEF FirstInfo
<1>5. kept = {FirstInfo(v) : v \in First.vertices} BY <1>1, <1>3, <1>4
<1> HIDE DEF added, removed, kept, newEdges, oldEdges
<1>6. \A v \in First.vertices : deps'[FirstInfo(v)] = FirstDeps(v)
  <2> SUFFICES ASSUME NEW v \in First.vertices PROVE deps'[FirstInfo(v)] = FirstDeps(v) OBVIOUS
  <2>1. FirstInfo(v) \in Infos /\ FirstInfo(v)[1] = v /\ FirstInfo(v) \in kept BY <1>5, FirstInfos
  <2>2. deps'[FirstInfo(v)] = {d \in kept : <<d[1], v>> \in First.edges}
    BY <2>1, <1>1, <1>2, <1>3
  <2>3. \A d \in kept : d \in FirstDeps(v) <=> <<d[1], v>> \in First.edges
    <3>1. ASSUME NEW u \in First.vertices
          PROVE  FirstInfo(u) \in FirstDeps(v) <=> <<u, v>> \in First.edges
      <4>1. ASSUME FirstInfo(u) \in FirstDeps(v) PROVE <<u, v>> \in First.edges
        <5>1. PICK x \in First.vertices : FirstInfo(u) = FirstInfo(x) /\ <<x, v>> \in First.edges
          BY <4>1, DepsOfFirst
        <5> QED BY <5>1, FirstInfos
      <4> QED BY <4>1, DepsOfFirst
    <3> QED BY <3>1, <1>5, FirstInfos
  <2>4. FirstDeps(v) \subseteq kept BY <1>5, DepsOfFirst
  <2> QED BY <2>2, <2>3, <2>4
<1>7. \A v \in First.vertices : v \in update'.kick <=> FirstDeps(v) # {}
  <2>1. update'.kick = {e[2] : e \in First.edges} BY <1>2, <1>3
  <2> SUFFICES ASSUME NEW v \in First.vertices
               PROVE  v \in {e[2] : e \in First.edges} <=> FirstDeps(v) # {}
    BY <2>1
  <2>2. ASSUME NEW e \in First.edges, v = e[2] PROVE FirstDeps(v) # {}
    <3>1. e[1] \in First.vertices /\ e = <<e[1], v>> BY <2>2
    <3> QED BY <3>1, DepsOfFirst
  <2>3. ASSUME FirstDeps(v) # {} PROVE v \in {e[2] : e \in First.edges}
    <3>1. PICK u \in First.vertices : <<u, v>> \in First.edges BY <2>3, DepsOfFirst
    <3> QED BY <3>1
  <2> QED BY <2>2, <2>3
<1>8. FirstTypes'
  <2>1. {e[2] : e \in First.edges} \subseteq Vertices BY DEF Vertices
  <2>2. First.vertices \subseteq Vertices BY DEF Vertices
  <2> QED BY <2>1, <2>2, <1>1, <1>2, <1>3 DEF OneWalk, FirstTypes, walkVars, infoVars
<1>9. FirstGraph'
  <2>1. \A v \in update'.kick : v \in First.vertices BY <1>2, <1>3
  <2>2. update'.active BY <1>2
  <2>3. cancelled' = {} /\ infos' = {FirstInfo(v) : v \in First.vertices}
    BY <1>1, <1>2, <1>3, <1>5
  <2>4. updates' # 0 BY <1>1
  <2> QED BY <2>1, <2>2, <2>3, <2>4, <1>6, <1>7 DEF FirstGraph
<1>10. \A i \in Infos : waiters[i] = <<>> /\ pc[i] = "absent"
  BY <1>1 DEF OneWalk, FirstWaiters, FirstPlaces, TookRight
<1>11. FirstWaiters' BY <1>2, <1>7, <1>10, FirstInfos DEF FirstWaiters, infoVars
<1>12. FirstPlaces'
  BY <1>2, <1>10 DEF OneWalk, FirstPlaces, TookRight, infoVars, walkVars
<1>13. UNCHANGED FirstWalk!vars
  <2>1. FirstPc' = FirstPc /\ FirstVerdicts' = FirstVerdicts
    BY <1>2 DEF FirstPc, FirstVerdicts, infoVars
  <2> QED BY <2>1, <1>2, FirstStutters DEF Returned, infoVars
<1> QED BY <1>8, <1>9, <1>11, <1>12, <1>13 DEF OneWalk, FirstWalkStep

LEMMA FirstKick ==
  ASSUME OneWalk, NEW v, Kick(v)
  PROVE  OneWalk' /\ FirstWalkStep
<1> DEFINE i == FirstInfo(v)
<1>1. /\ v \in First.vertices /\ FirstDeps(v) # {} /\ updates = 1 /\ update.active
      /\ v \in update.kick /\ update.kick \subseteq Vertices
  BY DEF Kick, OneWalk, FirstTypes, FirstGraph, Idle
<1>2. i \in infos /\ i \in Infos /\ i[1] = v /\ deps[i] = FirstDeps(v)
  BY <1>1, FirstInfos DEF OneWalk, FirstGraph
<1>3. InfoOf(v) = i
  <2>1. \A j \in infos : j[1] = v => j = i BY FirstInfos
  <2> QED BY <1>2, <2>1 DEF InfoOf
<1>4. waiters[i] = <<>> BY <1>1, <1>2 DEF OneWalk, FirstWaiters
<1>5. /\ update' = [update EXCEPT !.kick = update.kick \ {v}]
      /\ waiters' = [waiters EXCEPT ![i] = WaiterOf(v, "pending")]
      /\ UNCHANGED <<walkVars, taken, pc, answer, graph, edges, infos, deps, cancelled, updates>>
  <2> DEFINE new == [deps |-> FirstDeps(v), sent |-> "pending"]
  <2>1. waiters' = [waiters EXCEPT ![i] = Append(waiters[i], new)]
    BY <1>2, <1>3 DEF Kick, OneWalk, FirstTypes
  <2>2. Append(waiters[i], new) = WaiterOf(v, "pending") BY <1>4, OneWaiter
  <2> QED BY <2>1, <2>2 DEF Kick
<1> HIDE DEF i
<1>6. waiters'[i] = WaiterOf(v, "pending") /\ \A j \in Infos \ {i} : waiters'[j] = waiters[j]
  BY <1>2, <1>5 DEF OneWalk, FirstTypes
<1>7. FirstTypes' BY <1>5 DEF OneWalk, FirstTypes, walkVars
<1>8. /\ update'.kick = update.kick \ {v} /\ update'.active
      /\ \A u \in update.kick : u # v => u \in update'.kick
  BY <1>1, <1>5 DEF OneWalk, FirstTypes
<1>9. FirstGraph' BY <1>1, <1>5, <1>8 DEF OneWalk, FirstGraph
<1>10. FirstWaiters'
  <2>1. \A j \in Infos \ infos : waiters'[j] = <<>>
    BY <1>2, <1>6 DEF OneWalk, FirstWaiters
  <2>2. ASSUME NEW u \in First.vertices, FirstInfo(u) \in infos
        PROVE IF FirstDeps(u) = {} \/ u \in update'.kick
              THEN waiters'[FirstInfo(u)] = <<>> ELSE HasWaiter(u)'
    <3>1. CASE u = v BY <3>1, <1>1, <1>6, <1>8 DEF HasWaiter, i, Verdicts
    <3>2. CASE u # v
      <4>1. FirstInfo(u) \in Infos \ {i} BY <3>2, <2>2, <1>2, FirstInfos
      <4> QED BY <4>1, <3>2, <2>2, <1>6, <1>8 DEF OneWalk, FirstWaiters, HasWaiter
    <3> QED BY <3>1, <3>2
  <2> QED BY <2>1, <2>2, <1>5 DEF FirstWaiters
<1>11. FirstVerdicts' = FirstVerdicts
  <2> SUFFICES ASSUME NEW u \in First.vertices
               PROVE  FirstVerdicts'[u] = FirstVerdicts[u]
    BY DEF FirstVerdicts
  <2>1. CASE u = v
    BY <2>1, <1>1, <1>4, <1>6, OneWaiter DEF FirstVerdicts, i
  <2>2. CASE u # v
    <3>1. FirstInfo(u) \in Infos \ {i} BY <2>2, <1>2, FirstInfos
    <3> QED BY <3>1, <1>6 DEF FirstVerdicts
  <2> QED BY <2>1, <2>2
<1>12. FirstPlaces'
  <2>1. \A j \in Infos : waiters[j] # <<>> => waiters'[j] # <<>>
    BY <1>4, <1>6
  <2> QED BY <2>1, <1>5, <1>8, <1>11 DEF OneWalk, FirstPlaces, TookRight, walkVars
<1>13. UNCHANGED FirstWalk!vars
  <2>1. FirstPc' = FirstPc BY <1>5 DEF FirstPc
  <2> QED BY <2>1, <1>5, <1>11, FirstStutters DEF Returned
<1> QED BY <1>7, <1>9, <1>10, <1>12, <1>13 DEF OneWalk, FirstWalkStep

LEMMA FirstEnd ==
  ASSUME OneWalk, EndUpdate
  PROVE  OneWalk' /\ FirstWalkStep
<1>1. /\ update.active /\ update.kick = {} /\ update' = Idle
      /\ pc' = [i \in Infos |-> IF i \in infos /\ i[1] \in update.start THEN "waiting" ELSE pc[i]]
      /\ UNCHANGED <<walkVars, waiters, taken, answer, graph, edges, infos, deps, cancelled, updates>>
  BY DEF EndUpdate
<1>2. updates = 1 BY <1>1 DEF OneWalk, FirstTypes, FirstGraph, Idle
<1>3. \A i \in Infos : pc[i] = "absent" BY <1>1 DEF OneWalk, FirstPlaces, TookRight
<1>4. FirstTypes' BY <1>1 DEF OneWalk, FirstTypes, Idle, Places, walkVars
<1>5. FirstGraph' BY <1>1, <1>2 DEF OneWalk, FirstGraph, Idle
<1>6. FirstWaiters' BY <1>1 DEF OneWalk, FirstWaiters, HasWaiter, Idle
<1>7. FirstPlaces' BY <1>1, <1>3 DEF OneWalk, FirstPlaces, TookRight, Idle
<1>8. UNCHANGED FirstWalk!vars
  <2>1. \A v \in First.vertices : pc[FirstInfo(v)] = "absent" /\ pc'[FirstInfo(v)] \in {"absent", "waiting"}
    BY <1>1, <1>3, FirstInfos
  <2>2. FirstPc' = FirstPc BY <2>1 DEF FirstPc
  <2>3. FirstVerdicts' = FirstVerdicts BY <1>1 DEF FirstVerdicts
  <2> QED BY <2>1, <2>2, <2>3, <1>1, FirstStutters DEF Returned
<1> QED BY <1>4, <1>5, <1>6, <1>7, <1>8 DEF OneWalk, FirstWalkStep

\* A waiter sends its verdict, the only one, and nothing else moves.
LEMMA FirstSend ==
  ASSUME OneWalk, NEW i \in Infos, NEW w \in DOMAIN waiters[i], NEW sent \in {"pass", "fail"},
         Send(i, w, sent)
  PROVE  /\ OneWalk'
         /\ i[1] \in First.vertices /\ i = FirstInfo(i[1])
         /\ Len(waiters[i]) = 1 /\ w = 1 /\ waiters[i][w].deps = FirstDeps(i[1])
         /\ FirstVerdicts[i[1]] = "pending"
         /\ FirstVerdicts' = [FirstVerdicts EXCEPT ![i[1]] = sent]
         /\ UNCHANGED <<FirstPc, FirstResponse, FirstFailed, FirstStatus, ctxDone>>
<1> DEFINE v == i[1]
<1>1. i \in infos /\ v \in First.vertices /\ i = FirstInfo(v)
  <2>1. waiters[i] # <<>> OBVIOUS
  <2> QED BY <2>1, FirstInfos
<1>2. FirstDeps(v) # {} /\ v \notin update.kick /\ HasWaiter(v)
  <2>1. waiters[i] # <<>> OBVIOUS
  <2> QED BY <2>1, <1>1 DEF OneWalk, FirstWaiters
<1>3. PICK old \in Verdicts : waiters[i] = WaiterOf(v, old) BY <1>1, <1>2 DEF HasWaiter
<1>4. w = 1 /\ Len(waiters[i]) = 1 /\ waiters[i][w].deps = FirstDeps(v) /\ waiters[i][w].sent = old
  BY <1>3, OneWaiter
<1>5. old = "pending" BY <1>4 DEF Send
<1>6. waiters'[i] = WaiterOf(v, sent) /\ waiters' = [waiters EXCEPT ![i] = WaiterOf(v, sent)]
  <2>1. waiters' = [waiters EXCEPT ![i] = [waiters[i] EXCEPT ![w].sent = sent]]
    BY DEF Send, OneWalk, FirstTypes
  <2>2. [waiters[i] EXCEPT ![w].sent = sent] = WaiterOf(v, sent) BY <1>3, <1>4, OneWaiter
  <2> QED BY <2>1, <2>2 DEF OneWalk, FirstTypes
<1>7. UNCHANGED <<walkVars, taken, pc, answer, updateVars>> BY DEF Send
<1> HIDE DEF v
<1>8. \A j \in Infos \ {i} : waiters'[j] = waiters[j] BY <1>6 DEF OneWalk, FirstTypes
<1>9. FirstTypes' BY <1>6, <1>7 DEF OneWalk, FirstTypes, walkVars, updateVars
<1>10. FirstGraph' BY <1>7 DEF OneWalk, FirstGraph, updateVars
<1>11. \A u \in First.vertices : u # v => FirstInfo(u) \in Infos \ {i} BY <1>1, FirstInfos
<1>12. FirstWaiters'
  <2>1. \A j \in Infos \ infos : waiters'[j] = <<>> BY <1>1, <1>8 DEF OneWalk, FirstWaiters
  <2>2. ASSUME NEW u \in First.vertices, FirstInfo(u) \in infos
        PROVE IF FirstDeps(u) = {} \/ u \in update.kick
              THEN waiters'[FirstInfo(u)] = <<>> ELSE HasWaiter(u)'
    <3>1. CASE u = v BY <3>1, <1>1, <1>2, <1>6 DEF HasWaiter, Verdicts
    <3>2. CASE u # v
      <4>1. HasWaiter(u)' <=> HasWaiter(u) BY <3>2, <1>8, <1>11 DEF HasWaiter
      <4> QED BY <4>1, <3>2, <2>2, <1>8, <1>11 DEF OneWalk, FirstWaiters
    <3> QED BY <3>1, <3>2
  <2> QED BY <2>1, <2>2, <1>7 DEF FirstWaiters, updateVars
<1>13. FirstVerdicts[v] = "pending" /\ FirstVerdicts'[v] = sent
  <2>1. waiters[i] # <<>> /\ waiters[i][1].sent = "pending" BY <1>3, <1>5, OneWaiter
  <2>2. waiters'[i] # <<>> /\ waiters'[i][1].sent = sent BY <1>6, OneWaiter
  <2> QED BY <1>1, <1>2, <2>1, <2>2 DEF FirstVerdicts
<1>14. \A u \in First.vertices : u # v => FirstVerdicts'[u] = FirstVerdicts[u]
  BY <1>8, <1>11 DEF FirstVerdicts
<1>15. FirstVerdicts' = [FirstVerdicts EXCEPT ![v] = sent]
  BY <1>13, <1>14 DEF FirstVerdicts
<1>16. FirstPlaces'
  <2> SUFFICES ASSUME NEW j \in Infos PROVE TookRight(j)' BY DEF FirstPlaces
  <2>1. TookRight(j) BY DEF OneWalk, FirstPlaces
  <2>2. CASE j = i
    <3>1. waiters'[i] # <<>> BY <1>6, OneWaiter
    <3> QED BY <2>1, <2>2, <3>1, <1>7, <1>13 DEF TookRight, v, walkVars, updateVars
  <2>3. CASE j # i
    <3>1. pc[j] # "absent" => j[1] \in First.vertices /\ j[1] # v
      BY <2>3, <1>1, FirstInfos
    <3> QED BY <2>1, <2>3, <3>1, <1>7, <1>8, <1>14 DEF TookRight, walkVars, updateVars
  <2> QED BY <2>2, <2>3
<1>17. UNCHANGED <<FirstPc, FirstResponse, FirstFailed, FirstStatus, ctxDone>>
  BY <1>7 DEF FirstPc, FirstResponse, FirstFailed, FirstStatus, Returned, walkVars
<1> QED BY <1>1, <1>4, <1>9, <1>10, <1>12, <1>13, <1>15, <1>16, <1>17 DEF OneWalk, v

LEMMA FirstWaiter ==
  ASSUME OneWalk, NEW i \in Infos, Waiter(i)
  PROVE  OneWalk' /\ FirstWalkStep
<1> DEFINE v == i[1]
<1>1. PICK w \in DOMAIN waiters[i] : WaitDeps(i, w) \/ WaitCancelled(i, w) BY DEF Waiter
<1>2. CASE WaitDeps(i, w)
  <2> DEFINE refused == \E d \in waiters[i][w].deps : Refuses(d)
             sent == IF refused THEN "fail" ELSE "pass"
  <2>1. Send(i, w, sent) /\ sent \in {"pass", "fail"} BY <1>2 DEF WaitDeps
  <2> HIDE DEF sent
  <2>2. /\ OneWalk' /\ v \in First.vertices /\ i = FirstInfo(v)
        /\ waiters[i][w].deps = FirstDeps(v)
        /\ FirstVerdicts[v] = "pending" /\ FirstVerdicts' = [FirstVerdicts EXCEPT ![v] = sent]
        /\ UNCHANGED <<FirstPc, FirstResponse, FirstFailed, FirstStatus, ctxDone>>
    BY <2>1, FirstSend
  <2>3. ASSUME NEW d \in FirstWalk!Deps(v)
        PROVE  /\ FirstPc[d] = "done" /\ FirstInfo(d) \in FirstDeps(v)
               /\ Refuses(FirstInfo(d)) <=> ~FirstResponse[d].pass
    <3>1. d \in First.vertices /\ FirstInfo(d) \in FirstDeps(v)
      BY DepsOfFirst DEF FirstWalk!Deps
    <3>2. FirstInfo(d) \in Infos /\ FirstInfo(d)[1] = d BY <3>1, FirstInfos
    <3>3. pc[FirstInfo(d)] = "done" BY <1>2, <2>2, <3>1 DEF WaitDeps
    <3>4. respMap[d] # NoResponse BY <3>2, <3>3 DEF OneWalk, FirstPlaces, TookRight
    <3>5. FirstResponse[d] = respMap[d] BY <3>1, <3>3 DEF FirstResponse, Returned
    <3> QED BY <3>1, <3>2, <3>3, <3>4, <3>5 DEF FirstPc, Refuses
  <2>4. refused <=> ~\A d \in FirstWalk!Deps(v) : FirstResponse[d].pass
    <3>1. \A d \in FirstDeps(v) : \E u \in FirstWalk!Deps(v) : d = FirstInfo(u)
      BY DepsOfFirst DEF FirstWalk!Deps
    <3> QED BY <2>2, <2>3, <3>1
  <2> HIDE DEF refused
  <2>5. sent = IF \A d \in FirstWalk!Deps(v) : FirstResponse[d].pass THEN "pass" ELSE "fail"
    BY <2>4 DEF sent
  <2>6. FirstWalk!Verdicts(v) = {\A d \in FirstWalk!Deps(v) : FirstResponse[d].pass}
    BY DEF FirstWalk!Verdicts
  <2>7. FirstWalk!Demoted(v) = FirstResponse BY DEF FirstWalk!Demoted, FirstResponse
  <2>8. FirstWalk!WaitDeps(v)
    BY <2>2, <2>3, <2>5, <2>6, <2>7 DEF FirstWalk!WaitDeps, FirstWalk!DepsDone
  <2> QED BY <2>2, <2>8 DEF FirstWalkStep, FirstWalk!Next, FirstWalk!Waiter
<1>3. CASE WaitCancelled(i, w)
  <2>1. Send(i, w, "fail") BY <1>3 DEF WaitCancelled
  <2>2. /\ OneWalk' /\ v \in First.vertices /\ Len(waiters[i]) = 1 /\ w = 1
        /\ FirstVerdicts[v] = "pending" /\ FirstVerdicts' = [FirstVerdicts EXCEPT ![v] = "fail"]
        /\ UNCHANGED <<FirstPc, FirstResponse, FirstFailed, FirstStatus, ctxDone>>
    BY <2>1, FirstSend
  <2>3. ctxDone BY <1>3, <2>2 DEF WaitCancelled
  <2>4. FirstWalk!WaitCancelled(v) BY <2>2, <2>3 DEF FirstWalk!WaitCancelled
  <2> QED BY <2>2, <2>4 DEF FirstWalkStep, FirstWalk!Next, FirstWalk!Waiter
<1> QED BY <1>1, <1>2, <1>3

\* The blocked vertices besides v that are not recorded yet.
BlockedBut(v) == {u \in First.vertices \ {v} : Returned(u) /\ Blocks(answer[FirstInfo(u)])}

\* A vertex moves on by itself.
LEMMA FirstMoves ==
  ASSUME OneWalk, NEW i \in Infos, pc[i] # "absent",
         UNCHANGED <<waiters, updateVars>>, FirstTypes', TookRight(i)',
         \A j \in Infos \ {i} : pc'[j] = pc[j] /\ taken'[j] = taken[j] /\ answer'[j] = answer[j],
         \A u \in Vertices \ {i[1]} : respMap'[u] = respMap[u]
  PROVE  /\ OneWalk'
         /\ i[1] \in First.vertices /\ i = FirstInfo(i[1])
         /\ FirstVerdicts' = FirstVerdicts
         /\ FirstPc' = [FirstPc EXCEPT ![i[1]] = FirstPc'[i[1]]]
         /\ FirstResponse' = [FirstResponse EXCEPT ![i[1]] = FirstResponse'[i[1]]]
         /\ BlockedBut(i[1])' = BlockedBut(i[1])
<1> DEFINE v == i[1]
<1>1. i \in infos /\ v \in First.vertices /\ i = FirstInfo(v) BY FirstInfos
<1> HIDE DEF v
<1>2. \A u \in First.vertices \ {v} : FirstInfo(u) \in Infos \ {i} /\ u \in Vertices \ {v}
  BY <1>1, FirstInfos
<1>3. FirstVerdicts' = FirstVerdicts BY DEF FirstVerdicts
<1>4. FirstGraph' /\ FirstWaiters'
  BY DEF OneWalk, FirstGraph, FirstWaiters, HasWaiter, updateVars
<1>5. FirstPlaces'
  <2> SUFFICES ASSUME NEW j \in Infos, j # i PROVE TookRight(j)' BY DEF FirstPlaces
  <2>1. TookRight(j) BY DEF OneWalk, FirstPlaces
  <2>2. pc[j] = "done" => j[1] \in Vertices \ {v} BY <1>1, FirstInfos
  <2> QED BY <2>1, <2>2, <1>3 DEF TookRight, updateVars, v
<1>6. \A u \in First.vertices \ {v} :
        FirstPc'[u] = FirstPc[u] /\ FirstResponse'[u] = FirstResponse[u]
  BY <1>2 DEF FirstPc, FirstResponse, Returned, v
<1>7. FirstPc' = [FirstPc EXCEPT ![v] = FirstPc'[v]]
  BY <1>1, <1>6 DEF FirstPc
<1>8. FirstResponse' = [FirstResponse EXCEPT ![v] = FirstResponse'[v]]
  BY <1>1, <1>6 DEF FirstResponse
<1>9. BlockedBut(v)' = BlockedBut(v) BY <1>2 DEF BlockedBut, Returned
<1> QED BY <1>1, <1>3, <1>4, <1>5, <1>7, <1>8, <1>9 DEF OneWalk, v

\* FirstFailed, with v told from the others.
LEMMA FirstFailedSplit ==
  ASSUME NEW v \in First.vertices
  PROVE  /\ FirstFailed = upstreamFailed \cup BlockedBut(v)
                            \cup {u \in {v} : Returned(v) /\ Blocks(answer[FirstInfo(v)])}
         /\ FirstFailed' = upstreamFailed' \cup BlockedBut(v)'
                             \cup {u \in {v} : Returned(v)' /\ Blocks(answer[FirstInfo(v)])'}
BY DEF FirstFailed, BlockedBut

LEMMA FirstVertex ==
  ASSUME OneWalk, NoResponse \notin Answers, NEW i \in Infos, WalkVertex(i) \/ Callback(i)
  PROVE  OneWalk' /\ FirstWalkStep
<1> DEFINE v == i[1]
<1>1. pc[i] \notin {"absent", "done"}
  BY DEF WalkVertex, Callback, TakeVerdict, SeeUpdate, GiveUp, PassOver, StartCallback, Record,
    CallbackReturns
<1>2. i \in infos /\ v \in First.vertices /\ v \in Vertices /\ i = FirstInfo(v) /\ ~update.active
  BY <1>1, FirstInfos DEF OneWalk, FirstPlaces, TookRight
<1>3. (waiters[i] = <<>> /\ FirstDeps(v) = {}) \/ (HasWaiter(v) /\ FirstDeps(v) # {})
  BY <1>2 DEF OneWalk, FirstGraph, FirstWaiters
<1>4. TookRight(i) BY DEF OneWalk, FirstPlaces
<1>5. HasWaiter(v) => Len(waiters[i]) = 1 /\ waiters[i] # <<>>
  BY <1>2, OneWaiter DEF HasWaiter
<1>6. (taken[i] = 0 \/ taken[i] = 1) /\ (Len(waiters[i]) = 0 \/ Len(waiters[i]) = 1)
  BY <1>3, <1>5 DEF OneWalk, FirstTypes
<1> HIDE DEF v
<1>7. CASE TakeVerdict(i)
  <2>1. CASE taken[i] < Len(waiters[i])
    <3>1. /\ taken' = [taken EXCEPT ![i] = 1] /\ Len(waiters[i]) = 1
          /\ UNCHANGED <<pc, walkVars, waiters, answer, updateVars>>
      <4>1. Len(waiters[i]) = 1 BY <1>6, <2>1
      <4> QED BY <1>7, <2>1, <4>1 DEF TakeVerdict
    <3>2. waiters[i] # <<>> BY <3>1
    <3>3. TookRight(i)'
      BY <1>4, <3>1, <3>2 DEF TookRight, FirstVerdicts, OneWalk, FirstTypes, walkVars, updateVars
    <3>4. FirstTypes' BY <3>1 DEF OneWalk, FirstTypes, walkVars, updateVars
    <3>5. OneWalk' /\ FirstVerdicts' = FirstVerdicts
      BY <1>1, <3>1, <3>3, <3>4, FirstMoves DEF OneWalk, FirstTypes, walkVars
    <3>6. FirstPc' = FirstPc BY <3>1 DEF FirstPc
    <3> QED BY <3>1, <3>5, <3>6, FirstStutters DEF Returned, FirstWalkStep
  <2>2. CASE ~(taken[i] < Len(waiters[i]))
    <3> DEFINE p == IF Sent(i) = "pass" THEN "satisfied" ELSE "refused"
    <3>1. /\ pc[i] = "waiting" /\ Sent(i) # "pending" /\ pc' = [pc EXCEPT ![i] = p]
          /\ UNCHANGED <<walkVars, waiters, taken, answer, updateVars>>
      BY <1>7, <2>2 DEF TakeVerdict
    <3>2. FirstVerdicts[v] = Sent(i) /\ Sent(i) \in {"pass", "fail"}
      <4>1. CASE waiters[i] = <<>> /\ FirstDeps(v) = {}
        <5>1. taken[i] = 0 BY <1>4, <1>6, <4>1 DEF TookRight
        <5> QED BY <1>2, <4>1, <5>1 DEF Sent, FirstVerdicts
      <4>2. CASE HasWaiter(v) /\ FirstDeps(v) # {}
        <5>1. taken[i] = 1 /\ waiters[i] # <<>> BY <1>5, <1>6, <2>2, <4>2
        <5>2. waiters[i][1].sent \in Verdicts BY <1>2, <4>2, OneWaiter DEF HasWaiter
        <5> QED BY <1>2, <3>1, <4>2, <5>1, <5>2 DEF Sent, FirstVerdicts, Verdicts
      <4> QED BY <1>3, <4>1, <4>2
    <3>3. FirstVerdicts' = FirstVerdicts BY <3>1 DEF FirstVerdicts
    <3>4. pc'[i] = p /\ p \in {"satisfied", "refused"} BY <3>1 DEF OneWalk, FirstTypes
    <3>5. TookRight(i)'
      BY <1>2, <1>4, <3>1, <3>2, <3>3, <3>4 DEF TookRight, v, walkVars, updateVars
    <3>6. FirstTypes' BY <3>1 DEF OneWalk, FirstTypes, Places, walkVars, updateVars
    <3> HIDE DEF p
    <3>7. OneWalk'
      BY <1>1, <3>1, <3>5, <3>6, FirstMoves DEF OneWalk, FirstTypes, walkVars
    <3>8. \A u \in First.vertices : FirstInfo(u) # i => pc'[FirstInfo(u)] = pc[FirstInfo(u)]
      BY <3>1, FirstInfos DEF OneWalk, FirstTypes
    <3>9. FirstPc' = FirstPc BY <3>1, <3>4, <3>8 DEF FirstPc
    <3>10. \A u \in First.vertices : Returned(u)' <=> Returned(u)
      BY <3>1, <3>4, <3>8 DEF Returned
    <3> QED BY <3>1, <3>3, <3>7, <3>9, <3>10, FirstStutters DEF FirstWalkStep
  <2> QED BY <2>1, <2>2
<1>8. ~SeeUpdate(i)
  <2>1. 1 .. 0 - 1 = {} /\ 1 .. 1 - 1 = {} OBVIOUS
  <2>2. 1 .. Len(waiters[i]) - 1 = {} BY <1>6, <2>1
  <2> QED BY <2>2 DEF SeeUpdate
<1>9. ~GiveUp(i) BY DEF GiveUp, OneWalk, FirstGraph
<1>10. CASE PassOver(i)
  <2>1. /\ pc[i] = "refused" /\ pc' = [pc EXCEPT ![i] = "done"]
        /\ respMap' = [respMap EXCEPT ![v] = WarnResponse]
        /\ upstreamFailed' = upstreamFailed \cup {v}
        /\ UNCHANGED <<taskStatus, ctxDone, waiters, taken, answer, updateVars>>
    BY <1>10 DEF PassOver, v
  <2>2. WarnResponse \in Response /\ WarnResponse # NoResponse
    BY DEF WarnResponse, NoResponse, Response, FailureLevel, Normal, Warning, Fatal, TaskStatus
  <2>3. pc'[i] = "done" /\ respMap'[v] = WarnResponse
    BY <1>2, <2>1 DEF OneWalk, FirstTypes
  <2>4. FirstTypes'
    BY <1>2, <2>1, <2>2 DEF OneWalk, FirstTypes, Places, updateVars
  <2>5. TookRight(i)' BY <1>2, <1>4, <2>1, <2>2, <2>3 DEF TookRight, v, updateVars
  <2>6. /\ OneWalk' /\ FirstVerdicts' = FirstVerdicts
        /\ FirstPc' = [FirstPc EXCEPT ![v] = FirstPc'[v]]
        /\ FirstResponse' = [FirstResponse EXCEPT ![v] = FirstResponse'[v]]
        /\ BlockedBut(v)' = BlockedBut(v)
    BY <1>1, <2>1, <2>4, <2>5, FirstMoves DEF OneWalk, FirstTypes, v
  <2>7. FirstPc[v] = "waiting" /\ FirstPc'[v] = "done" /\ FirstResponse'[v] = WarnResponse
    BY <1>2, <2>1, <2>3 DEF FirstPc, FirstResponse, Returned
  <2>8. FirstFailed' = FirstFailed \cup {v}
    BY <1>2, <2>1, <2>3, <2>6, FirstFailedSplit DEF Returned
  <2>9. FirstVerdicts[v] = "fail" BY <1>4, <2>1 DEF TookRight, v
  <2>10. FirstStatus' = FirstStatus BY <2>1 DEF FirstStatus
  <2>11. FirstWalk!WarnResponse = WarnResponse
    BY DEF WarnResponse, FirstWalk!WarnResponse, Warning, FirstWalk!Warning
  <2>12. FirstWalk!UpstreamFailed(v)
    BY <2>1, <2>6, <2>7, <2>8, <2>9, <2>10, <2>11 DEF FirstWalk!UpstreamFailed, FirstWalk!PassOver
  <2> QED BY <1>2, <2>6, <2>12 DEF FirstWalkStep, FirstWalk!Next, FirstWalk!WalkVertex
<1>11. CASE StartCallback(i)
  <2>1. /\ pc[i] = "satisfied" /\ pc' = [pc EXCEPT ![i] = "running"]
        /\ UNCHANGED <<walkVars, waiters, taken, answer, updateVars>>
    BY <1>11 DEF StartCallback
  <2>2. pc'[i] = "running" BY <2>1 DEF OneWalk, FirstTypes
  <2>3. FirstTypes' BY <2>1 DEF OneWalk, FirstTypes, Places, updateVars, walkVars
  <2>4. TookRight(i)' BY <1>2, <1>4, <2>1, <2>2 DEF TookRight, updateVars
  <2>5. /\ OneWalk' /\ FirstVerdicts' = FirstVerdicts
        /\ FirstPc' = [FirstPc EXCEPT ![v] = FirstPc'[v]]
        /\ FirstResponse' = [FirstResponse EXCEPT ![v] = FirstResponse'[v]]
        /\ BlockedBut(v)' = BlockedBut(v)
    BY <1>1, <2>1, <2>3, <2>4, FirstMoves DEF OneWalk, FirstTypes, v, walkVars
  <2>6. /\ FirstPc[v] = "waiting" /\ FirstPc'[v] = "running"
        /\ FirstResponse'[v] = FirstResponse[v]
    BY <1>2, <2>1, <2>2 DEF FirstPc, FirstResponse, Returned, walkVars
  <2>7. FirstResponse' = FirstResponse BY <2>5, <2>6 DEF FirstResponse
  <2>8. FirstFailed' = FirstFailed
    <3>1. ~Returned(v) /\ ~Returned(v)' BY <1>2, <2>1, <2>2 DEF Returned
    <3>2. FirstFailed = upstreamFailed \cup BlockedBut(v)
      BY <1>2, <3>1, FirstFailedSplit
    <3>3. FirstFailed' = upstreamFailed' \cup BlockedBut(v)
      BY <1>2, <2>5, <3>1, FirstFailedSplit
    <3> QED BY <2>1, <3>2, <3>3 DEF walkVars
  <2>9. FirstVerdicts[v] = "pass" BY <1>4, <2>1 DEF TookRight, v
  <2>10. FirstStatus' = FirstStatus /\ ctxDone' = ctxDone BY <2>1 DEF FirstStatus, walkVars
  <2>11. FirstWalk!StartCallback(v)
    BY <2>5, <2>6, <2>7, <2>8, <2>9, <2>10 DEF FirstWalk!StartCallback
  <2> QED BY <1>2, <2>5, <2>11 DEF FirstWalkStep, FirstWalk!Next, FirstWalk!WalkVertex
<1>12. CASE Record(i)
  <2>1. /\ pc[i] = "returned" /\ pc' = [pc EXCEPT ![i] = "done"]
        /\ respMap' = [respMap EXCEPT ![v] = answer[i]]
        /\ upstreamFailed' = upstreamFailed \cup {u \in {v} : Blocks(answer[i])}
        /\ UNCHANGED <<taskStatus, ctxDone, waiters, taken, answer, updateVars>>
    BY <1>12 DEF Record, v
  <2>2. pc'[i] = "done" /\ respMap'[v] = answer[i]
    BY <1>2, <2>1 DEF OneWalk, FirstTypes
  <2>3. FirstTypes' BY <1>2, <2>1 DEF OneWalk, FirstTypes, Places, updateVars
  <2>4. TookRight(i)' BY <1>2, <1>4, <2>1, <2>2 DEF TookRight, v, updateVars
  <2>5. /\ OneWalk' /\ FirstVerdicts' = FirstVerdicts
        /\ FirstPc' = [FirstPc EXCEPT ![v] = FirstPc'[v]]
        /\ FirstResponse' = [FirstResponse EXCEPT ![v] = FirstResponse'[v]]
        /\ BlockedBut(v)' = BlockedBut(v)
    BY <1>1, <2>1, <2>3, <2>4, FirstMoves DEF OneWalk, FirstTypes, v
  <2>6. /\ FirstPc[v] = "returned" /\ FirstPc'[v] = "done"
        /\ FirstResponse'[v] = FirstResponse[v]
    BY <1>2, <2>1, <2>2 DEF FirstPc, FirstResponse, Returned
  <2>7. FirstResponse' = FirstResponse BY <2>5, <2>6 DEF FirstResponse
  <2>8. FirstFailed' = FirstFailed
    <3>1. Returned(v) /\ ~Returned(v)' /\ answer[FirstInfo(v)] = answer[i]
      BY <1>2, <2>1, <2>2 DEF Returned
    <3>2. FirstFailed = upstreamFailed \cup BlockedBut(v) \cup {u \in {v} : Blocks(answer[i])}
      BY <1>2, <3>1, FirstFailedSplit
    <3>3. FirstFailed' = upstreamFailed' \cup BlockedBut(v)
      BY <1>2, <2>5, <3>1, FirstFailedSplit
    <3> QED BY <2>1, <3>2, <3>3
  <2>9. FirstStatus' = FirstStatus BY <2>1 DEF FirstStatus
  <2>10. FirstWalk!Record(v)
    BY <2>1, <2>5, <2>6, <2>7, <2>8, <2>9 DEF FirstWalk!Record
  <2> QED BY <1>2, <2>5, <2>10 DEF FirstWalkStep, FirstWalk!Next, FirstWalk!WalkVertex
<1>13. CASE Callback(i)
  <2> PICK r \in Answers : CallbackReturns(i, r) BY <1>13 DEF Callback
  <2>1. /\ pc[i] = "running" /\ pc' = [pc EXCEPT ![i] = "returned"]
        /\ answer' = [answer EXCEPT ![i] = r]
        /\ taskStatus' = [taskStatus EXCEPT ![v] =
                            IF taskStatus[v] \in SettledStatus THEN taskStatus[v] ELSE r.status]
        /\ ctxDone' = (ctxDone \/ r.level = Fatal)
        /\ UNCHANGED <<respMap, upstreamFailed, waiters, taken, updateVars>>
    BY <1>2 DEF CallbackReturns, v, OneWalk, FirstTypes
  <2>2. r \in Response /\ r # NoResponse /\ r.status \in TaskStatus BY DEF Response
  <2>3. pc'[i] = "returned" /\ answer'[i] = r
    BY <1>2, <2>1 DEF OneWalk, FirstTypes
  <2>4. FirstTypes' BY <1>2, <2>1, <2>2 DEF OneWalk, FirstTypes, Places, updateVars
  <2>5. TookRight(i)' BY <1>2, <1>4, <2>1, <2>2, <2>3 DEF TookRight, updateVars
  <2>6. /\ OneWalk' /\ FirstVerdicts' = FirstVerdicts
        /\ FirstPc' = [FirstPc EXCEPT ![v] = FirstPc'[v]]
        /\ FirstResponse' = [FirstResponse EXCEPT ![v] = FirstResponse'[v]]
        /\ BlockedBut(v)' = BlockedBut(v)
    BY <1>1, <2>1, <2>4, <2>5, FirstMoves DEF OneWalk, FirstTypes, v
  <2>7. FirstPc[v] = "running" /\ FirstPc'[v] = "returned" /\ FirstResponse'[v] = r
    BY <1>2, <2>1, <2>3 DEF FirstPc, FirstResponse, Returned
  <2>8. FirstFailed' = IF r.status = "blocked" THEN FirstFailed \cup {v} ELSE FirstFailed
    <3>1. ~Returned(v) /\ Returned(v)' /\ answer'[FirstInfo(v)] = r
      BY <1>2, <2>1, <2>3 DEF Returned
    <3>2. FirstFailed = upstreamFailed \cup BlockedBut(v)
      BY <1>2, <3>1, FirstFailedSplit
    <3>3. FirstFailed' = upstreamFailed \cup BlockedBut(v) \cup {u \in {v} : Blocks(r)}
      BY <1>2, <2>1, <2>6, <3>1, FirstFailedSplit DEF Blocks
    <3> QED BY <3>2, <3>3 DEF Blocks
  <2>9. FirstWalk!SetTaskStatus(v, r.status)
    <3>1. \A u \in First.vertices : u \in Vertices BY FirstInfos
    <3>2. FirstWalk!SettledStatus = SettledStatus BY DEF SettledStatus, FirstWalk!SettledStatus
    <3> QED BY <1>2, <2>1, <3>1, <3>2 DEF FirstWalk!SetTaskStatus, FirstStatus, OneWalk, FirstTypes
  <2>10. FirstWalk!Fatal = Fatal BY DEF Fatal, FirstWalk!Fatal
  <2>11. FirstWalk!CallbackReturns(v, r)
    BY <2>1, <2>6, <2>7, <2>8, <2>9, <2>10 DEF FirstWalk!CallbackReturns
  <2>12. FirstWalk!Callback(v) BY <1>2, <2>11 DEF FirstWalk!Callback
  <2> QED BY <1>2, <2>6, <2>12 DEF FirstWalkStep, FirstWalk!Next
<1> QED BY <1>7, <1>8, <1>9, <1>10, <1>11, <1>12, <1>13 DEF WalkVertex

\* Every step until the second Update is a step of Walker, or invisible in it.
LEMMA FirstStep ==
  ASSUME NoResponse \notin Answers, FirstInv, [Next]_vars
  PROVE  FirstInv' /\ (updates' <= 1 => FirstWalkStep)
<1>1. updates' \in Nat /\ (updates' <= 1 => updates <= 1 /\ updates' \in {0, 1})
  <2>1. updates \in Nat BY DEF FirstInv
  <2>2. ASSUME NEW g, Update(g) PROVE updates' = updates + 1 BY <2>2 DEF Update, BeginUpdate
  <2>3. FinishUpdate => updates' = updates BY DEF FinishUpdate, Kick, EndUpdate
  <2>4. Cancel \/ UNCHANGED vars => updates' = updates BY DEF Cancel, vars, updateVars
  <2>5. ASSUME NEW i, Waiter(i) \/ WalkVertex(i) \/ Callback(i) PROVE updates' = updates
    BY <2>5 DEF Waiter, WaitDeps, WaitCancelled, Send, WalkVertex, TakeVerdict, SeeUpdate, GiveUp,
      PassOver, StartCallback, Record, Callback, CallbackReturns, updateVars
  <2>6. updates' = updates \/ updates' = updates + 1 BY <2>2, <2>3, <2>4, <2>5 DEF Next
  <2> QED BY <2>1, <2>6
<1> SUFFICES ASSUME updates' <= 1 PROVE OneWalk' /\ FirstWalkStep BY <1>1 DEF FirstInv
<1>2. OneWalk BY <1>1 DEF FirstInv
<1>3. CASE \E g \in {First} \cup Later : Update(g) BY <1>1, <1>2, <1>3, FirstUpdate
<1>4. CASE FinishUpdate BY <1>2, <1>4, FirstKick, FirstEnd DEF FinishUpdate
<1>5. CASE Cancel
  <2>1. /\ Cancellable /\ ~ctxDone /\ ctxDone' = TRUE
        /\ UNCHANGED <<respMap, upstreamFailed, taskStatus, infoVars, updateVars>>
    BY <1>5 DEF Cancel
  <2> USE DEF infoVars, updateVars
  <2>2. FirstVerdicts' = FirstVerdicts /\ FirstPc' = FirstPc BY <2>1 DEF FirstVerdicts, FirstPc
  <2>3. FirstResponse' = FirstResponse /\ FirstFailed' = FirstFailed /\ FirstStatus' = FirstStatus
    BY <2>1 DEF FirstResponse, FirstFailed, FirstStatus, Returned
  <2>4. FirstTypes' /\ FirstGraph' BY <1>2, <2>1 DEF OneWalk, FirstTypes, FirstGraph
  <2>5. FirstWaiters' BY <1>2, <2>1 DEF OneWalk, FirstWaiters, HasWaiter
  <2>6. FirstPlaces' BY <1>2, <2>1, <2>2 DEF OneWalk, FirstPlaces, TookRight
  <2>7. FirstWalk!Cancel BY <2>1, <2>2, <2>3 DEF FirstWalk!Cancel
  <2> QED BY <2>4, <2>5, <2>6, <2>7 DEF OneWalk, FirstWalkStep, FirstWalk!Next
<1>6. CASE UNCHANGED vars
  <2> USE <1>6 DEF vars, walkVars, infoVars, updateVars
  <2>1. FirstVerdicts' = FirstVerdicts /\ FirstPc' = FirstPc BY DEF FirstVerdicts, FirstPc
  <2>2. \A v \in First.vertices : Returned(v)' <=> Returned(v) BY DEF Returned
  <2>3. FirstTypes' /\ FirstGraph' BY <1>2 DEF OneWalk, FirstTypes, FirstGraph
  <2>4. FirstWaiters' BY <1>2 DEF OneWalk, FirstWaiters, HasWaiter
  <2>5. FirstPlaces' BY <1>2, <2>1 DEF OneWalk, FirstPlaces, TookRight
  <2> QED BY <2>1, <2>2, <2>3, <2>4, <2>5, FirstStutters DEF OneWalk, FirstWalkStep
<1>7. CASE \E i \in Infos : Waiter(i) \/ WalkVertex(i) \/ Callback(i)
  BY <1>2, <1>7, FirstWaiter, FirstVertex
<1> QED BY <1>3, <1>4, <1>5, <1>6, <1>7 DEF Next

\* Whatever the graph, until Update is called again the walk with its infos,
\* waiters and channels is a walk of Walker, step by step, if a callback never
\* answers the zero response (no constructor of helper/response.go makes it).
THEOREM UpdateRefinesWalker ==
  ASSUME NoResponse \notin Answers PROVE Spec => OneUpdateIsAWalk
<1>1. Init => FirstInv /\ FirstWalk!Init
  <2> SUFFICES ASSUME Init PROVE FirstInv /\ FirstWalk!Init OBVIOUS
  <2>1. OneWalk /\ FirstWalk!Init BY FirstInit
  <2>2. updates \in Nat BY DEF Init
  <2> QED BY <2>1, <2>2 DEF FirstInv
<1>2. FirstInv /\ [Next]_vars => FirstInv' /\ (updates' <= 1 => FirstWalkStep)
  BY FirstStep
<1>3. Spec => FirstWalk!Init /\ [][updates' <= 1 => FirstWalkStep]_vars
  BY <1>1, <1>2, PTL DEF Spec
<1> QED BY <1>3 DEF OneUpdateIsAWalk, FirstWalkStep
=============================================================================
