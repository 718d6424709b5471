------------------------------- MODULE Walker -------------------------------
(***************************************************************************)
(* internal/dag/walk.go: one walk of an acyclic graph.  Each vertex has a  *)
(* goroutine (walkVertex) and, if it has dependencies, a waiter (waitDeps) *)
(* that sends it one verdict.  The goroutine then calls back into the      *)
(* user of the walker, records the response and closes DoneCh.             *)
(*                                                                         *)
(* Update is called once, by acyclicGraph.Walk, before the walk starts, so *)
(* CancelCh, DepsUpdateCh and depsCancelCh never fire here.  The context   *)
(* of the walk can be done at any moment: a deadline, the parent context,  *)
(* or DataContext.Stop after a Fatal response.                             *)
(***************************************************************************)
EXTENDS Responses, FiniteSets

CONSTANTS
  Vertices,          \* the tasks and builtin nodes of the graph
  Edges,             \* pairs <<source, target>>: the target depends on the source
  AnyNodes,          \* vertices of type NodeTypeAny
  NotNodes,          \* vertices of type NodeTypeNot
  Conditional,       \* targets of a conditional edge
  SkipExecution,     \* tasks configured with skip_execution
  CallbackResponses, \* what the callback may answer for each vertex
  Cancellable,       \* whether the context of a walk may be done by itself
  MaxWalks           \* bound on how often the graph is walked

Deps(v) == {d \in Vertices : <<d, v>> \in Edges}

\* Graph.Add and Connect only link vertices of the graph; DAG.Validate,
\* which BuildPipeline requires, refuses a cycle and a reference to itself.
ASSUME GraphAssumption ==
  /\ Edges \subseteq Vertices \X Vertices
  /\ AnyNodes \subseteq Vertices
  /\ NotNodes \subseteq Vertices
  /\ AnyNodes \cap NotNodes = {}
  /\ Conditional \subseteq Vertices
  /\ SkipExecution \subseteq Vertices

ASSUME AcyclicAssumption ==
  /\ IsFiniteSet(Vertices)
  /\ \A S \in SUBSET Vertices : S # {} => \E v \in S : Deps(v) \cap S = {}

ASSUME CallbackAssumption ==
  /\ CallbackResponses \in [Vertices -> SUBSET Response]
  /\ Cancellable \in BOOLEAN
  /\ MaxWalks \in Nat \ {0}

VARIABLES
  pc,             \* where walkVertex stands for each vertex
  verdict,        \* what waitDeps sent on DepsCh, "pending" before it did
  response,       \* respMap, and the local response before it is recorded
  upstreamFailed, \* the vertices whose responses Wait leaves out
  taskStatus,     \* the pipeline's TaskStatuses, which outlive the walk
  ctxDone,        \* the context of the walk is done
  walks           \* walks started so far

vars == <<pc, verdict, response, upstreamFailed, taskStatus, ctxDone, walks>>

-----------------------------------------------------------------------------
\* A vertex without dependencies has no waiter: walkVertex falls through the
\* closed channel that holds TRUE.
FirstVerdict == [v \in Vertices |-> IF Deps(v) = {} THEN "pass" ELSE "pending"]

Init ==
  /\ pc = [v \in Vertices |-> "waiting"]
  /\ verdict = FirstVerdict
  /\ response = [v \in Vertices |-> NoResponse]
  /\ upstreamFailed = {}
  /\ taskStatus = [v \in Vertices |-> "init"]
  /\ ctxDone = FALSE
  /\ walks = 1

AllDone == \A v \in Vertices : pc[v] = "done"

\* The graph is walked again, with a new walker and a new context.
NewWalk ==
  /\ AllDone
  /\ walks < MaxWalks
  /\ pc' = [v \in Vertices |-> "waiting"]
  /\ verdict' = FirstVerdict
  /\ response' = [v \in Vertices |-> NoResponse]
  /\ upstreamFailed' = {}
  /\ ctxDone' = FALSE
  /\ walks' = walks + 1
  /\ UNCHANGED taskStatus

Cancel ==
  /\ Cancellable
  /\ ~ctxDone
  /\ ctxDone' = TRUE
  /\ UNCHANGED <<pc, verdict, response, upstreamFailed, taskStatus, walks>>

-----------------------------------------------------------------------------
DepsDone(v) == \A d \in Deps(v) : pc[d] = "done"

\* Mutant of Verdicts: a plain vertex reads on after a dependency that failed.
VerdictsOfLastRead(v) ==
  IF v \in AnyNodes THEN {\E d \in Deps(v) : response[d].pass}
  ELSE IF v \in NotNodes THEN {~response[d].pass : d \in Deps(v)}
  ELSE {response[d].pass : d \in Deps(v)}

\* The verdicts waitDeps can reach over the responses of v's dependencies.
\* It ranges over a map: for a Not node the last dependency read decides.
Verdicts(v) ==
  IF v \in AnyNodes THEN {\E d \in Deps(v) : response[d].pass}
  ELSE IF v \in NotNodes THEN {~response[d].pass : d \in Deps(v)}
  ELSE {\A d \in Deps(v) : response[d].pass}

\* Mutants of Demoted: every waiter demotes; the failure passes from now on;
\* the level is raised by one instead of being set.
DemotedByAll(v) ==
  [d \in Vertices |->
     IF d \in Deps(v) /\ ~response[d].pass
     THEN SetFailureLevel(response[d], Warning)
     ELSE response[d]]

DemotedToPass(v) ==
  [d \in Vertices |->
     IF v \in AnyNodes \cup NotNodes /\ d \in Deps(v) /\ ~response[d].pass
     THEN SetPass(SetFailureLevel(response[d], Warning), TRUE)
     ELSE response[d]]

DemotedByOne(v) ==
  [d \in Vertices |->
     IF v \in AnyNodes \cup NotNodes /\ d \in Deps(v) /\ ~response[d].pass
     THEN SetFailureLevel(response[d], response[d].level + 1)
     ELSE response[d]]

\* Any and Not nodes turn the responses that did not pass into warnings.
Demoted(v) ==
  [d \in Vertices |->
     IF v \in AnyNodes \cup NotNodes /\ d \in Deps(v) /\ ~response[d].pass
     THEN SetFailureLevel(response[d], Warning)
     ELSE response[d]]

\* Mutant of WaitDeps: the waiter is content with one finished dependency.
WaitDepsForOne(v) ==
  /\ verdict[v] = "pending"
  /\ \E d \in Deps(v) : pc[d] = "done"
  /\ \E pass \in Verdicts(v) :
        verdict' = [verdict EXCEPT ![v] = IF pass THEN "pass" ELSE "fail"]
  /\ response' = Demoted(v)
  /\ UNCHANGED <<pc, upstreamFailed, taskStatus, ctxDone, walks>>

\* Mutant of WaitDeps: nothing is sent when the dependencies did not pass.
WaitDepsSendsPassOnly(v) ==
  /\ verdict[v] = "pending"
  /\ DepsDone(v)
  /\ TRUE \in Verdicts(v)
  /\ verdict' = [verdict EXCEPT ![v] = "pass"]
  /\ response' = Demoted(v)
  /\ UNCHANGED <<pc, upstreamFailed, taskStatus, ctxDone, walks>>

WaitDeps(v) ==
  /\ verdict[v] = "pending"
  /\ DepsDone(v)
  /\ \E pass \in Verdicts(v) :
        verdict' = [verdict EXCEPT ![v] = IF pass THEN "pass" ELSE "fail"]
  /\ response' = Demoted(v)
  /\ UNCHANGED <<pc, upstreamFailed, taskStatus, ctxDone, walks>>

\* The select of waitDeps takes the context even if a dependency is done too.
WaitCancelled(v) ==
  /\ verdict[v] = "pending"
  /\ ctxDone
  /\ verdict' = [verdict EXCEPT ![v] = "fail"]
  /\ UNCHANGED <<pc, response, upstreamFailed, taskStatus, ctxDone, walks>>

-----------------------------------------------------------------------------
\* Mutant of SetTaskStatus: the last answer wins.
OverwriteTaskStatus(v, status) == taskStatus' = [taskStatus EXCEPT ![v] = status]

SetTaskStatus(v, status) ==
  taskStatus' = [taskStatus EXCEPT ![v] = IF @ \in SettledStatus THEN @ ELSE status]

\* The vertex is passed over with a warning, which counts as passed.
PassOver(v) ==
  /\ pc[v] = "waiting"
  /\ pc' = [pc EXCEPT ![v] = "done"]
  /\ response' = [response EXCEPT ![v] = WarnResponse]
  /\ upstreamFailed' = upstreamFailed \cup {v}
  /\ UNCHANGED <<verdict, taskStatus, ctxDone, walks>>

UpstreamFailed(v) == verdict[v] = "fail" /\ PassOver(v)

ConditionMismatch(v) == verdict[v] = "pass" /\ v \in Conditional /\ PassOver(v)

Skip(v) ==
  /\ pc[v] = "waiting"
  /\ verdict[v] = "pass"
  /\ v \in SkipExecution
  /\ SetTaskStatus(v, "skipped")
  /\ pc' = [pc EXCEPT ![v] = "done"]
  /\ response' = [response EXCEPT ![v] = SuccessResponse]
  /\ UNCHANGED <<verdict, upstreamFailed, ctxDone, walks>>

\* Mutant of StartCallback: the verdict is awaited and not looked at.
StartCallbackAnyway(v) ==
  /\ pc[v] = "waiting"
  /\ verdict[v] # "pending"
  /\ v \notin SkipExecution
  /\ pc' = [pc EXCEPT ![v] = "running"]
  /\ UNCHANGED <<verdict, response, upstreamFailed, taskStatus, ctxDone, walks>>

StartCallback(v) ==
  /\ pc[v] = "waiting"
  /\ verdict[v] = "pass"
  /\ v \notin SkipExecution
  /\ pc' = [pc EXCEPT ![v] = "running"]
  /\ UNCHANGED <<verdict, response, upstreamFailed, taskStatus, ctxDone, walks>>

\* The callback answers r: the status is set and a Fatal answer stops the
\* context, both before the response is recorded.
CallbackReturns(v, r) ==
  /\ pc[v] = "running"
  /\ pc' = [pc EXCEPT ![v] = "returned"]
  /\ response' = [response EXCEPT ![v] = r]
  /\ SetTaskStatus(v, r.status)
  /\ upstreamFailed' = IF r.status = "blocked" THEN upstreamFailed \cup {v} ELSE upstreamFailed
  /\ ctxDone' = (ctxDone \/ r.level = Fatal)
  /\ UNCHANGED <<verdict, walks>>

\* The response becomes visible under respLock and DoneCh is closed.
Record(v) ==
  /\ pc[v] = "returned"
  /\ pc' = [pc EXCEPT ![v] = "done"]
  /\ UNCHANGED <<verdict, response, upstreamFailed, taskStatus, ctxDone, walks>>

\* Wait returned for the last time.
Terminated ==
  /\ AllDone
  /\ walks = MaxWalks
  /\ UNCHANGED vars

-----------------------------------------------------------------------------
Waiter(v) == WaitDeps(v) \/ WaitCancelled(v)

WalkVertex(v) ==
  \/ UpstreamFailed(v)
  \/ ConditionMismatch(v)
  \/ Skip(v)
  \/ StartCallback(v)
  \/ Record(v)

Callback(v) == \E r \in CallbackResponses[v] : CallbackReturns(v, r)

Next ==
  \/ NewWalk
  \/ Cancel
  \/ Terminated
  \/ \E v \in Vertices : Waiter(v) \/ WalkVertex(v) \/ Callback(v)

\* The Go scheduler runs every goroutine that can run, and every callback is
\* assumed to return.  Nothing forces a context to be done.
Fairness ==
  \A v \in Vertices :
    /\ WF_vars(Waiter(v))
    /\ WF_vars(WalkVertex(v))
    /\ WF_vars(Callback(v))

Spec == Init /\ [][Next]_vars

FairSpec == Spec /\ Fairness

-----------------------------------------------------------------------------
\* Every variable keeps its type.
TypeOK ==
  /\ pc \in [Vertices -> {"waiting", "running", "returned", "done"}]
  /\ verdict \in [Vertices -> {"pending", "pass", "fail"}]
  /\ response \in [Vertices -> Response]
  /\ upstreamFailed \subseteq Vertices
  /\ taskStatus \in [Vertices -> TaskStatus]
  /\ ctxDone \in BOOLEAN
  /\ walks \in 1 .. MaxWalks

\* A callback is only ever entered when every dependency of its vertex has
\* recorded its response, also when the context of the walk is done while the
\* waiter is between two dependencies (waitDeps, walkVertex).
StartAfterDeps == \A v \in Vertices : pc[v] \in {"running", "returned"} => DepsDone(v)

\* Satisfied(v), Refused(v): what the dependencies of v say now.
Satisfied(v) ==
  \/ Deps(v) = {}
  \/ v \in AnyNodes /\ \E d \in Deps(v) : response[d].pass
  \/ v \in NotNodes /\ \E d \in Deps(v) : ~response[d].pass
  \/ v \notin AnyNodes \cup NotNodes /\ \A d \in Deps(v) : response[d].pass

Refused(v) ==
  \/ v \in AnyNodes /\ \A d \in Deps(v) : ~response[d].pass
  \/ v \in NotNodes /\ \E d \in Deps(v) : response[d].pass
  \/ v \notin AnyNodes \cup NotNodes /\ \E d \in Deps(v) : ~response[d].pass

\* The verdict a vertex acted on stays right until the end of the walk,
\* although other waiters go on changing the responses it was read from
\* (the SetFailureLevel calls of waitDeps); a vertex is refused only by its
\* dependencies or by a context that is done.
VerdictJustified ==
  \A v \in Vertices :
    /\ verdict[v] = "pass" => DepsDone(v) /\ Satisfied(v)
    /\ verdict[v] = "fail" => ctxDone \/ (DepsDone(v) /\ Refused(v))

\* A failure is turned into a warning only once an Any or Not node that
\* depends on the vertex has taken it into account: no other waiter may
\* silence an error that GraphWalker.Walk would report.
SilencedOnlyByLogicNodes ==
  \A d \in Vertices :
    pc[d] = "done" /\ ~response[d].pass /\ response[d].level = Warning =>
      \E v \in AnyNodes \cup NotNodes : d \in Deps(v) /\ verdict[v] # "pending"

\* A recorded answer is final for the walk: whether it passed never changes,
\* and its level only ever becomes Warning.
AnswerIsFinal ==
  \A v \in Vertices :
    pc[v] = "done" /\ pc'[v] = "done" =>
      /\ response'[v].pass = response[v].pass
      /\ response'[v].level \in {response[v].level, Warning}

RecordedAnswersAreFinal == [][AnswerIsFinal]_vars

\* A task that succeeded, failed or was skipped keeps that status through
\* later answers and later walks of the same graph (Pipeline.SetTaskStatus).
StatusIsSettled ==
  \A v \in Vertices : taskStatus[v] \in SettledStatus => taskStatus'[v] = taskStatus[v]

SettledStatusesStay == [][StatusIsSettled]_vars

\* Wait returns from every walk: each vertex eventually closes its DoneCh,
\* whatever its dependencies answered (liveness, under Fairness).
EveryWalkEnds == []<>AllDone

-----------------------------------------------------------------------------
\* The walker implements the dependency logic: verdicts, levels and the gap
\* between an answer and its record are invisible steps.
Logic == INSTANCE DependencyLogic WITH
  phase <- [v \in Vertices |->
              IF pc[v] = "waiting" THEN "pending"
              ELSE IF pc[v] = "done" THEN "finished" ELSE "running"],
  passed <- [v \in Vertices |-> pc[v] = "done" /\ response[v].pass],
  stopped <- ctxDone

\* Every behaviour of the walker is one of the abstract walk (refinement).
ImplementsLogic == Logic!Spec
=============================================================================
