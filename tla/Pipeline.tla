------------------------------ MODULE Pipeline ------------------------------
(***************************************************************************)
(* internal/core: a pipeline that walks its graph (pipeline.Run) with the  *)
(* GraphWalker callback, and is rebuilt and run again while a task is      *)
(* blocked (flow.Rebuild).  The walk itself is module Walker, whose        *)
(* variables this module shares.                                           *)
(*                                                                         *)
(* The callback starts a goroutine that executes the task and waits for    *)
(* its answer or for the context, whichever comes first: a callback that   *)
(* gives up leaves its goroutine behind, queued on the semaphore or        *)
(* executing.  The variables job, outcome and slots are these goroutines.  *)
(***************************************************************************)
EXTENDS Responses, FiniteSets

CONSTANTS
  Vertices, Edges, AnyNodes, NotNodes, Conditional, SkipExecution, Cancellable,
  ExecuteResponses, \* what Execute may return
  Faulty,           \* tasks that may panic, return nil or miss a parameter
  AfterMayPanic,    \* tasks whose After hook may panic
  Hanging,          \* tasks whose component may never return
  TimeoutTasks,     \* tasks with a timeout of their own
  AlwaysPass,       \* tasks configured with always_pass
  AbortIfError,     \* tasks configured with abort_if_error
  Concurrency,      \* slots of ParallelSem
  MaxRuns           \* bound on runs: one, and MaxRuns - 1 rebuilds

VARIABLES
  pc, verdict, response, upstreamFailed, taskStatus, ctxDone, walks, \* Walker's
  job,     \* the goroutine of the callback of each task in this run
  outcome, \* the response a finished goroutine left in ch
  slots,   \* length of the ParallelSem channel
  result   \* status of the run, "running" until Run returns

walkVars == <<pc, verdict, response, upstreamFailed, taskStatus, ctxDone, walks>>
jobVars == <<job, outcome, slots>>
vars == <<walkVars, jobVars, result>>

Tasks == Vertices \ (AnyNodes \cup NotNodes)

W == INSTANCE Walker WITH
  CallbackResponses <- [v \in Vertices |-> Response], MaxWalks <- MaxRuns

\* The graph is one BuildPipeline accepted (see Walker for what that means).
ASSUME GraphAssumption ==
  /\ IsFiniteSet(Vertices)
  /\ Edges \subseteq Vertices \X Vertices
  /\ AnyNodes \subseteq Vertices
  /\ NotNodes \subseteq Vertices
  /\ AnyNodes \cap NotNodes = {}
  /\ Conditional \subseteq Vertices
  /\ SkipExecution \subseteq Vertices
  /\ \A S \in SUBSET Vertices : S # {} => \E v \in S : W!Deps(v) \cap S = {}

ASSUME PipelineAssumption ==
  /\ Cancellable \in BOOLEAN
  /\ MaxRuns \in Nat \ {0}
  /\ ExecuteResponses \subseteq Response
  /\ Faulty \subseteq Tasks
  /\ AfterMayPanic \subseteq Tasks
  /\ Hanging \subseteq Tasks
  /\ TimeoutTasks \subseteq Vertices
  /\ AlwaysPass \subseteq Vertices
  /\ AbortIfError \subseteq Vertices
  /\ Concurrency \in Nat \ {0}

-----------------------------------------------------------------------------
Init ==
  /\ W!Init
  /\ job = [v \in Vertices |-> "none"]
  /\ outcome = [v \in Vertices |-> NoResponse]
  /\ slots = 0
  /\ result = "running"

\* Mutant of Reported: the level is compared with the wrong constant.
ReportedIfFatal ==
  {v \in Vertices \ upstreamFailed :
     response[v].level > Error /\ ~response[v].pass /\ response[v].err}

\* What GraphWalker.Walk reports of the responses Wait returns.
Reported ==
  {v \in Vertices \ upstreamFailed :
     response[v].level > Warning /\ ~response[v].pass /\ response[v].err}

\* Run returns: an error, a blocked task, or success, in this order.
RunReturns ==
  /\ result = "running"
  /\ W!AllDone
  /\ result' = IF Reported # {} THEN "failure"
               ELSE IF \E v \in Vertices : taskStatus[v] = "blocked" THEN "blocked"
               ELSE "success"
  /\ UNCHANGED <<walkVars, jobVars>>

\* Rebuild keeps the task statuses and nothing else: new graph walker, new
\* semaphore, new context.  Goroutines of the last run no longer share
\* anything this module describes.
Rebuild ==
  /\ result = "blocked"
  /\ W!NewWalk
  /\ job' = [v \in Vertices |-> "none"]
  /\ outcome' = [v \in Vertices |-> NoResponse]
  /\ slots' = 0
  /\ result' = "running"

\* The steps of the walker that never call back.
WalkStep(v) ==
  /\ \/ W!Waiter(v)
     \/ W!UpstreamFailed(v)
     \/ W!ConditionMismatch(v)
     \/ W!Skip(v)
     \/ W!Record(v)
  /\ UNCHANGED <<jobVars, result>>

\* The deadline or the parent of the context (pipeline timeout, caller).
Cancel ==
  /\ result = "running"
  /\ W!Cancel
  /\ UNCHANGED <<jobVars, result>>

-----------------------------------------------------------------------------
\* Mutant of Callback: a failed task is run again.
CallbackRetriesFailures(v) ==
  /\ W!StartCallback(v)
  /\ IF taskStatus[v] \in {"success", "skipped"}
     THEN UNCHANGED <<job, outcome>>
     ELSE IF v \in Tasks
     THEN /\ job' = [job EXCEPT ![v] = "queued"]
          /\ UNCHANGED outcome
     ELSE /\ job' = [job EXCEPT ![v] = "finished"]
          /\ outcome' = [outcome EXCEPT ![v] = SuccessResponse]
  /\ UNCHANGED <<slots, result>>

\* GraphWalker.callback.  A task settled in an earlier run only repeats its
\* status; otherwise a goroutine is started, which for an Any or Not node
\* answers at once.
Callback(v) ==
  /\ W!StartCallback(v)
  /\ IF taskStatus[v] \in SettledStatus
     THEN UNCHANGED <<job, outcome>>
     ELSE IF v \in Tasks
     THEN /\ job' = [job EXCEPT ![v] = "queued"]
          /\ UNCHANGED outcome
     ELSE /\ job' = [job EXCEPT ![v] = "finished"]
          /\ outcome' = [outcome EXCEPT ![v] = SuccessResponse]
  /\ UNCHANGED <<slots, result>>

\* Mutant of SettledAnswer: a settled failure is taken for done.
SettledAnswerPasses(v) == SuccessResponse

\* A settled failure answers without the error it was once reported with.
SettledAnswer(v) ==
  IF taskStatus[v] = "failure" THEN ErrorResponse(FALSE) ELSE SuccessResponse

RepeatSettled(v) ==
  /\ job[v] = "none"
  /\ W!CallbackReturns(v, SettledAnswer(v))
  /\ UNCHANGED <<jobVars, result>>

\* The select of callback takes the answer ...
Answer(v) ==
  /\ job[v] = "finished"
  /\ W!CallbackReturns(v, outcome[v])
  /\ UNCHANGED <<jobVars, result>>

\* Mutants of Abandon: giving up frees the slot of a task that goes on
\* executing; it answers blocked, to be run again after a rebuild; it heeds
\* the timeout of the task and not the context of the run.
AbandonReleases(v) ==
  /\ job[v] # "none"
  /\ ctxDone \/ v \in TimeoutTasks
  /\ W!CallbackReturns(v, ErrorResponse(TRUE))
  /\ slots' = IF job[v] = "executing" THEN slots - 1 ELSE slots
  /\ UNCHANGED <<job, outcome, result>>

AbandonBlocked(v) ==
  /\ job[v] # "none"
  /\ ctxDone \/ v \in TimeoutTasks
  /\ W!CallbackReturns(v, BlockedResponse)
  /\ UNCHANGED <<jobVars, result>>

AbandonOnTimeout(v) ==
  /\ job[v] # "none"
  /\ v \in TimeoutTasks
  /\ W!CallbackReturns(v, ErrorResponse(TRUE))
  /\ UNCHANGED <<jobVars, result>>

\* ... or the context of the task, whose goroutine goes on by itself.
Abandon(v) ==
  /\ job[v] # "none"
  /\ ctxDone \/ v \in TimeoutTasks
  /\ W!CallbackReturns(v, ErrorResponse(TRUE))
  /\ UNCHANGED <<jobVars, result>>

-----------------------------------------------------------------------------
\* GraphWalker.execute, in the goroutine of the task.
\* Mutant of Acquire: the channel never blocks.
AcquireAlways(v) ==
  /\ job[v] = "queued"
  /\ slots' = slots + 1
  /\ job' = [job EXCEPT ![v] = "executing"]
  /\ UNCHANGED <<walkVars, outcome, result>>

Acquire(v) ==
  /\ job[v] = "queued"
  /\ slots < Concurrency
  /\ slots' = slots + 1
  /\ job' = [job EXCEPT ![v] = "executing"]
  /\ UNCHANGED <<walkVars, outcome, result>>

\* Mutant of Configured: an answer without an error passes.
ConfiguredByLevel(v, r) ==
  LET level == IF v \in AbortIfError /\ r.level > Warning THEN Fatal ELSE r.level
  IN  [r EXCEPT !.level = level, !.pass = (level = Normal \/ v \in AlwaysPass)]

\* abort_if_error raises an error to Fatal, always_pass lets it pass.
Configured(v, r) ==
  LET level == IF v \in AbortIfError /\ r.level > Warning THEN Fatal ELSE r.level
  IN  [r EXCEPT !.level = level, !.pass = @ \/ v \in AlwaysPass]

\* Mutant of Release: the slot is kept.
ReleaseNothing(v, r) ==
  /\ job[v] = "executing"
  /\ job' = [job EXCEPT ![v] = "finished"]
  /\ outcome' = [outcome EXCEPT ![v] = r]
  /\ UNCHANGED <<walkVars, slots, result>>

Release(v, r) ==
  /\ job[v] = "executing"
  /\ job' = [job EXCEPT ![v] = "finished"]
  /\ outcome' = [outcome EXCEPT ![v] = r]
  /\ slots' = slots - 1
  /\ UNCHANGED <<walkVars, result>>

Execute(v) == \E r \in ExecuteResponses : Release(v, Configured(v, r))

\* A parameter is missing, Before, Execute or the configuration of a nil
\* response panics: the error is not subject to the task's configuration.
ExecuteFails(v) == v \in Faulty /\ Release(v, ErrorResponse(TRUE))

\* The deferred function panics before ParallelSem.Release: in After, or in
\* the logger that DataContext.Release took away when the run returned.
SlotLeaks(v) ==
  /\ v \in AfterMayPanic \/ result # "running"
  /\ job[v] = "executing"
  /\ job' = [job EXCEPT ![v] = "finished"]
  /\ outcome' = [outcome EXCEPT ![v] = ErrorResponse(TRUE)]
  /\ UNCHANGED <<walkVars, slots, result>>

UserCode(v) == Execute(v) \/ ExecuteFails(v) \/ SlotLeaks(v)

\* Run returned for the last time, and no goroutine is left behind.
Terminated ==
  /\ result \in {"success", "failure"} \/ (result = "blocked" /\ walks = MaxRuns)
  /\ \A v \in Vertices : job[v] # "executing" /\ (job[v] = "queued" => slots = Concurrency)
  /\ UNCHANGED vars

-----------------------------------------------------------------------------
CallbackStep(v) == Callback(v) \/ RepeatSettled(v) \/ Answer(v) \/ Abandon(v)

Next ==
  \/ RunReturns
  \/ Rebuild
  \/ Cancel
  \/ Terminated
  \/ \E v \in Vertices : WalkStep(v) \/ CallbackStep(v) \/ Acquire(v) \/ UserCode(v)

Spec == Init /\ [][Next]_vars

\* The Go scheduler runs what can run.  Blocked senders of a channel are
\* served in order, and a task asks for a slot once per run, so weak fairness
\* is enough for Acquire.
SchedulerFairness ==
  /\ WF_vars(RunReturns)
  /\ \A v \in Vertices :
       WF_vars(WalkStep(v)) /\ WF_vars(CallbackStep(v)) /\ WF_vars(Acquire(v))

\* Components return, except those that hang; no context has to be done.
FairSpec == Spec /\ SchedulerFairness /\ \A v \in Vertices \ Hanging : WF_vars(UserCode(v))

-----------------------------------------------------------------------------
\* Every variable keeps its type.
TypeOK ==
  /\ W!TypeOK
  /\ job \in [Vertices -> {"none", "queued", "executing", "finished"}]
  /\ outcome \in [Vertices -> Response]
  /\ slots \in 0 .. Concurrency
  /\ result \in {"running", "success", "blocked", "failure"}

Executing == {v \in Vertices : job[v] = "executing"}

\* No more tasks execute than there are slots, counting those whose callback
\* gave up on them: leaving a goroutine behind must not free its slot.
ExecutorsHoldSlots ==
  /\ Cardinality(Executing) <= slots
  /\ slots <= Concurrency

\* A run that reports success absorbed every failure it contains: the failed
\* task was configured to pass always or an Any or Not node depends on it.
\* Neither a rebuild nor a cancelled waiter may lose a failure on the way.
SuccessAbsorbedFailures ==
  result = "success" =>
    \A v \in Tasks : taskStatus[v] = "failure" =>
      v \in AlwaysPass \/ \E w \in AnyNodes \cup NotNodes : v \in W!Deps(w)

\* When a run ends blocked, no goroutine of a task that a rebuild will start
\* again is still queued or executing: one task is never executed twice at
\* the same time, although abandoned goroutines outlive their run.
ResumableTasksAreIdle ==
  result = "blocked" =>
    \A v \in Tasks : taskStatus[v] \in {"init", "blocked"} =>
      job[v] \in {"none", "finished"}

\* A task that is blocked and was handed to a goroutine in this run holds back
\* the tasks that need it directly: whether it is being executed again after
\* a rebuild or has just answered, not even a cancelled walk starts them.
BlockedTasksHoldDependents ==
  \A v \in Tasks, d \in Tasks \ AlwaysPass :
    d \in W!Deps(v) /\ taskStatus[d] = "blocked" /\ job[d] # "none" => job[v] = "none"

\* A task whose goroutine is awaited is not settled: what an earlier run, or an
\* abandoned goroutine's callback, settled is never handed to a goroutine whose
\* answer would count.
AwaitedTasksAreUnsettled ==
  \A v \in Vertices :
    pc[v] = "running" /\ job[v] # "none" => taskStatus[v] \notin SettledStatus

\* The State a run returns tells the answer of every task that answered in it,
\* whether the answer is new, given up on, or repeated from an earlier run
\* (where a skipped task answers success).
StateTellsAnswers ==
  \A v \in Vertices :
    pc[v] \in {"returned", "done"}
      /\ (v \notin upstreamFailed \/ response[v].status = "blocked") =>
        \/ taskStatus[v] = response[v].status
        \/ taskStatus[v] = "skipped" /\ response[v] = SuccessResponse

\* A task that hangs or panics too late has taken a slot, perhaps for good.
Obstructed ==
  \E v \in Hanging \cup AfterMayPanic : job[v] \in {"executing", "finished"}

\* Every run returns unless such a task gets in the way: no order of answers,
\* timeouts, failures and waiting for slots stops it (liveness, FairSpec).
EveryRunReturns == result = "running" ~> result # "running" \/ Obstructed

\* A run whose context is done returns whatever the components do: neither a
\* slot that is never released nor a task that executes for ever can hold it
\* up (liveness, FairSpec).
CancelledRunReturns == result = "running" /\ ctxDone ~> result # "running"

-----------------------------------------------------------------------------
\* What the documentation says and the code does not do.

\* README.md, resuming: the blocked tasks run again.
BlockedTasksRunAgain ==
  result # "running" =>
    \A v \in Tasks : taskStatus[v] = "blocked" => job[v] # "none"
=============================================================================
