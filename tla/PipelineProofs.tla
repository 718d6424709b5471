--------------------------- MODULE PipelineProofs ---------------------------
(***************************************************************************)
(* Theorems about the pipeline, for every graph, every configuration of    *)
(* its tasks and every number of slots and runs.  What module WalkerProofs *)
(* shows of the walker is carried over: a pipeline walks its graph as the  *)
(* walker does (theorem PipelineWalks).                                    *)
(***************************************************************************)
EXTENDS Pipeline, FiniteSetTheorems, TLAPS

WP == INSTANCE WalkerProofs WITH
  CallbackResponses <- [v \in Vertices |-> Response], MaxWalks <- MaxRuns

-----------------------------------------------------------------------------
\* The walker of the pipeline meets the assumptions of the walker's theorems.
LEMMA WalkerAssumptions ==
  WP!GraphAssumption /\ WP!AcyclicAssumption /\ WP!CallbackAssumption
<1>1. WP!GraphAssumption
  BY GraphAssumption DEF GraphAssumption, WP!GraphAssumption
<1>2. WP!AcyclicAssumption
  BY GraphAssumption
  DEF GraphAssumption, WP!AcyclicAssumption, WP!Deps, W!Deps, WP!IsFiniteSet, IsFiniteSet
<1>3. WP!CallbackAssumption
  BY PipelineAssumption
  DEF PipelineAssumption, WP!CallbackAssumption, WP!Response, Response, WP!FailureLevel,
      FailureLevel, WP!TaskStatus, TaskStatus, WP!Normal, WP!Fatal, Normal, Fatal
<1>4. QED
  BY <1>1, <1>2, <1>3

\* Both instances of Walker have the responses of module Responses.
LEMMA SameResponses ==
  /\ W!Response = Response /\ WP!Response = Response
  /\ W!TaskStatus = TaskStatus /\ WP!TaskStatus = TaskStatus
  /\ W!SettledStatus = SettledStatus /\ WP!SettledStatus = SettledStatus
  /\ W!SuccessResponse = SuccessResponse /\ WP!SuccessResponse = SuccessResponse
  /\ W!WarnResponse = WarnResponse /\ WP!WarnResponse = WarnResponse
  /\ W!NoResponse = NoResponse /\ WP!NoResponse = NoResponse
  /\ W!Fatal = Fatal /\ WP!Fatal = Fatal
  /\ W!Warning = Warning /\ WP!Warning = Warning
<1> USE DEF Normal, Warning, Error, Fatal, W!Normal, W!Warning, W!Error, W!Fatal,
            WP!Normal, WP!Warning, WP!Error, WP!Fatal
<1>1. W!TaskStatus = TaskStatus /\ WP!TaskStatus = TaskStatus
  BY DEF W!TaskStatus, TaskStatus, WP!TaskStatus
<1>2. W!FailureLevel = FailureLevel /\ WP!FailureLevel = FailureLevel
  BY DEF W!FailureLevel, FailureLevel, WP!FailureLevel
<1>3. W!Response = Response /\ WP!Response = Response
  BY <1>1, <1>2 DEF W!Response, Response, WP!Response
<1>4. W!SettledStatus = SettledStatus /\ WP!SettledStatus = SettledStatus
  BY DEF W!SettledStatus, SettledStatus, WP!SettledStatus
<1>5. /\ W!SuccessResponse = SuccessResponse /\ WP!SuccessResponse = SuccessResponse
      /\ W!WarnResponse = WarnResponse /\ WP!WarnResponse = WarnResponse
      /\ W!NoResponse = NoResponse /\ WP!NoResponse = NoResponse
  BY DEF W!SuccessResponse, SuccessResponse, WP!SuccessResponse, W!WarnResponse, WarnResponse,
         WP!WarnResponse, W!NoResponse, NoResponse, WP!NoResponse
<1>6. QED
  BY <1>1, <1>3, <1>4, <1>5

\* The two instances of Walker take the same steps.
LEMMA SameWalker ==
  /\ W!Init <=> WP!Init
  /\ [W!Next]_(W!vars) <=> [WP!Next]_(WP!vars)
  /\ W!TypeOK <=> WP!TypeOK
<1> USE SameResponses
<1>1. W!Init <=> WP!Init
  BY DEF W!Init, WP!Init, W!FirstVerdict, WP!FirstVerdict, W!Deps, WP!Deps
<1>2. W!TypeOK <=> WP!TypeOK
  BY DEF W!TypeOK, WP!TypeOK
<1>3. ASSUME NEW v \in Vertices PROVE W!Waiter(v) <=> WP!Waiter(v)
  BY <1>3 DEF W!Waiter, WP!Waiter, W!WaitDeps, WP!WaitDeps, W!WaitCancelled, WP!WaitCancelled,
     W!DepsDone, WP!DepsDone, W!Verdicts, WP!Verdicts, W!Demoted, WP!Demoted, W!Deps, WP!Deps,
     W!SetFailureLevel, WP!SetFailureLevel
<1>4. ASSUME NEW v \in Vertices PROVE W!WalkVertex(v) <=> WP!WalkVertex(v)
  BY <1>4 DEF W!WalkVertex, WP!WalkVertex, W!UpstreamFailed, WP!UpstreamFailed,
     W!ConditionMismatch, WP!ConditionMismatch, W!PassOver, WP!PassOver, W!Skip, WP!Skip,
     W!SetTaskStatus, WP!SetTaskStatus, W!StartCallback, WP!StartCallback, W!Record, WP!Record
<1>5. ASSUME NEW v \in Vertices PROVE W!Callback(v) <=> WP!Callback(v)
  BY <1>5 DEF W!Callback, WP!Callback, W!CallbackReturns, WP!CallbackReturns,
     W!SetTaskStatus, WP!SetTaskStatus
<1>6. /\ W!NewWalk <=> WP!NewWalk
      /\ W!Cancel <=> WP!Cancel
      /\ W!Terminated <=> WP!Terminated
      /\ UNCHANGED W!vars <=> UNCHANGED WP!vars
  BY DEF W!NewWalk, WP!NewWalk, W!Cancel, WP!Cancel, W!Terminated, WP!Terminated, W!vars, WP!vars,
         W!AllDone, WP!AllDone, W!FirstVerdict, WP!FirstVerdict, W!Deps, WP!Deps
<1>7. QED
  BY <1>1, <1>2, <1>3, <1>4, <1>5, <1>6 DEF W!Next, WP!Next

-----------------------------------------------------------------------------
\* The types a step of the pipeline relies on to be a step of the walker.
JobTypes ==
  /\ job \in [Vertices -> {"none", "queued", "executing", "finished"}]
  /\ outcome \in [Vertices -> Response]
  /\ result \in {"running", "success", "blocked", "failure"}

\* Every response the pipeline makes itself has the type of a response, and so
\* has what the configuration of a task makes of an answer.
LEMMA PipelineResponses ==
  /\ SuccessResponse \in Response /\ NoResponse \in Response
  /\ \A err \in BOOLEAN : ErrorResponse(err) \in Response
  /\ \A v \in Vertices : SettledAnswer(v) \in Response
  /\ \A v \in Vertices, resp \in Response : Configured(v, resp) \in Response
<1> USE DEF Response, FailureLevel, TaskStatus, Normal, Warning, Error, Fatal
<1>1. SuccessResponse \in Response /\ NoResponse \in Response
  BY DEF SuccessResponse, NoResponse
<1>2. \A err \in BOOLEAN : ErrorResponse(err) \in Response
  BY DEF ErrorResponse
<1>3. \A v \in Vertices : SettledAnswer(v) \in Response
  BY <1>1, <1>2 DEF SettledAnswer
<1>4. ASSUME NEW v \in Vertices, NEW resp \in Response PROVE Configured(v, resp) \in Response
  <2> DEFINE level == IF v \in AbortIfError /\ resp.level > Warning THEN Fatal ELSE resp.level
  <2>1. level \in FailureLevel
    OBVIOUS
  <2>2. (resp.pass \/ v \in AlwaysPass) \in BOOLEAN
    OBVIOUS
  <2> HIDE DEF level
  <2>3. [[resp EXCEPT !.level = level] EXCEPT !.pass = resp.pass \/ v \in AlwaysPass] \in Response
    BY <2>1, <2>2
  <2>4. QED
    BY <2>3 DEF Configured, level
<1>5. QED
  BY <1>1, <1>2, <1>3, <1>4

\* A step of the callback of v is a step of the walker at v.
LEMMA CallbackSteps ==
  ASSUME JobTypes, NEW v \in Vertices, CallbackStep(v)
  PROVE  W!StartCallback(v) \/ \E resp \in Response : W!CallbackReturns(v, resp)
BY PipelineResponses DEF JobTypes, CallbackStep, Callback, RepeatSettled, Answer, Abandon

\* A step of the pipeline is a step of the walker or none.
LEMMA StepsWalk == JobTypes /\ [Next]_vars => [W!Next]_(W!vars)
<1> SUFFICES ASSUME JobTypes, [Next]_vars PROVE [W!Next]_(W!vars)
  OBVIOUS
<1> USE DEF W!Next, W!vars, walkVars
<1>1. CASE RunReturns
  BY <1>1 DEF RunReturns
<1>2. CASE Rebuild
  BY <1>2 DEF Rebuild
<1>3. CASE Cancel
  BY <1>3 DEF Cancel
<1>4. ASSUME NEW v \in Vertices, WalkStep(v) PROVE [W!Next]_(W!vars)
  BY <1>4 DEF WalkStep, W!WalkVertex
<1>5. ASSUME NEW v \in Vertices, CallbackStep(v) PROVE [W!Next]_(W!vars)
  <2>1. CASE W!StartCallback(v)
    BY <2>1 DEF W!WalkVertex
  <2>2. ASSUME NEW resp \in Response, W!CallbackReturns(v, resp) PROVE W!Callback(v)
    BY <2>2 DEF W!Callback
  <2>3. QED
    BY <1>5, <2>1, <2>2, CallbackSteps
<1>6. ASSUME NEW v \in Vertices, Acquire(v) PROVE [W!Next]_(W!vars)
  BY <1>6 DEF Acquire
<1>7. ASSUME NEW v \in Vertices, UserCode(v) PROVE [W!Next]_(W!vars)
  BY <1>7 DEF UserCode, Execute, ExecuteFails, SlotLeaks, Release
<1>8. CASE UNCHANGED vars
  BY <1>8 DEF vars
<1>9. QED
  BY <1>1, <1>2, <1>3, <1>4, <1>5, <1>6, <1>7, <1>8 DEF Next, Terminated

\* Goroutines and the status of the run keep their types.
LEMMA JobTypesInductive == JobTypes /\ [Next]_vars => JobTypes'
<1> SUFFICES ASSUME JobTypes, [Next]_vars PROVE JobTypes'
  OBVIOUS
<1> USE PipelineResponses DEF JobTypes
<1>1. CASE RunReturns
  BY <1>1 DEF RunReturns, jobVars
<1>2. CASE Rebuild
  BY <1>2 DEF Rebuild
<1>3. CASE Cancel
  BY <1>3 DEF Cancel, jobVars
<1>4. ASSUME NEW v \in Vertices, WalkStep(v) PROVE JobTypes'
  BY <1>4 DEF WalkStep, jobVars
<1>5. ASSUME NEW v \in Vertices, CallbackStep(v) PROVE JobTypes'
  <2>1. CASE Callback(v)
    BY <2>1 DEF Callback
  <2>2. CASE RepeatSettled(v) \/ Answer(v) \/ Abandon(v)
    BY <2>2 DEF RepeatSettled, Answer, Abandon, jobVars
  <2>3. QED
    BY <1>5, <2>1, <2>2 DEF CallbackStep
<1>6. ASSUME NEW v \in Vertices, Acquire(v) PROVE JobTypes'
  BY <1>6 DEF Acquire
<1>7. ASSUME NEW v \in Vertices, UserCode(v) PROVE JobTypes'
  <2>1. ASSUME NEW resp \in Response, Release(v, resp) PROVE JobTypes'
    BY <2>1 DEF Release
  <2>2. CASE Execute(v)
    BY <2>1, <2>2, PipelineAssumption DEF Execute, PipelineAssumption
  <2>3. CASE ExecuteFails(v)
    BY <2>1, <2>3 DEF ExecuteFails
  <2>4. CASE SlotLeaks(v)
    BY <2>4 DEF SlotLeaks
  <2>5. QED
    BY <1>7, <2>2, <2>3, <2>4 DEF UserCode
<1>8. CASE UNCHANGED vars
  BY <1>8 DEF vars, jobVars
<1>9. QED
  BY <1>1, <1>2, <1>3, <1>4, <1>5, <1>6, <1>7, <1>8 DEF Next, Terminated

LEMMA JobTypesInitially == Init => W!Init /\ JobTypes
BY PipelineResponses DEF Init, JobTypes

\* The walk of a pipeline is a walk of the walker: what is shown of the walker
\* holds of every run and rebuild (refinement).
THEOREM PipelineWalks == Spec => W!Spec
BY JobTypesInitially, JobTypesInductive, StepsWalk, PTL DEF Spec, W!Spec

\* The invariant of the walker, carried over.
LEMMA WalkerInvariant == Spec => []WP!Inv
<1>1. Init => WP!Inv
  BY JobTypesInitially, SameWalker, WalkerAssumptions, WP!InvInitially
<1>2. JobTypes /\ WP!Inv /\ [Next]_vars => WP!Inv'
  BY StepsWalk, SameWalker, WalkerAssumptions, WP!InvInductive
<1>3. QED
  BY <1>1, <1>2, JobTypesInitially, JobTypesInductive, PTL DEF Spec

LEMMA WalkerTypes == WP!Inv => W!TypeOK
BY SameWalker DEF WP!Inv

-----------------------------------------------------------------------------
\* A goroutine is started by a callback only, for a task that is not settled,
\* and is left behind by a callback that settles the task.  A run that ended
\* blocked has no callback left.
Started == \A v \in Vertices : pc[v] = "waiting" => job[v] = "none"
Awaited == \A v \in Vertices :
             pc[v] = "running" => (job[v] = "none" <=> taskStatus[v] \in SettledStatus)
LeftBehind == \A v \in Vertices :
                pc[v] \in {"returned", "done"} /\ job[v] \in {"queued", "executing"} =>
                  taskStatus[v] \in SettledStatus
BlockedIsOver == result = "blocked" => W!AllDone

GoroutineInv == W!TypeOK /\ JobTypes /\ Started /\ Awaited /\ LeftBehind /\ BlockedIsOver

LEMMA GoroutineInvInitially == Init /\ W!TypeOK => GoroutineInv
BY JobTypesInitially, PipelineResponses
DEF Init, W!Init, GoroutineInv, Started, Awaited, LeftBehind, BlockedIsOver

\* The steps of the walk that do not call back: the vertex was not running
\* and a status is only changed to a settled one, of a vertex that waited.
LEMMA WalkStepKeepsGoroutines ==
  ASSUME GoroutineInv, NEW v \in Vertices, WalkStep(v)
  PROVE  Started' /\ Awaited' /\ LeftBehind' /\ BlockedIsOver'
<1> USE SameResponses DEF GoroutineInv, Started, Awaited, LeftBehind, BlockedIsOver, JobTypes,
                          W!TypeOK, W!AllDone, WalkStep, jobVars
<1>1. CASE W!Waiter(v)
  BY <1>1 DEF W!Waiter, W!WaitDeps, W!WaitCancelled
<1>2. CASE W!UpstreamFailed(v) \/ W!ConditionMismatch(v)
  BY <1>2 DEF W!UpstreamFailed, W!ConditionMismatch, W!PassOver
<1>3. CASE W!Skip(v)
  <2>1. /\ pc' = [pc EXCEPT ![v] = "done"] /\ pc[v] = "waiting"
        /\ \A w \in Vertices \ {v} : taskStatus'[w] = taskStatus[w]
        /\ UNCHANGED <<job, result>>
    BY <1>3 DEF W!Skip, W!SetTaskStatus
  <2>2. QED
    BY <2>1
<1>4. CASE W!Record(v)
  BY <1>4 DEF W!Record
<1>5. QED
  BY <1>1, <1>2, <1>3, <1>4

\* What a callback that answers does to the status of its vertex.
LEMMA CallbackSettles ==
  ASSUME W!TypeOK, NEW v \in Vertices, NEW resp \in Response, W!CallbackReturns(v, resp)
  PROVE  /\ pc[v] = "running" /\ pc' = [pc EXCEPT ![v] = "returned"]
         /\ response' = [response EXCEPT ![v] = resp]
         /\ taskStatus'[v] = IF taskStatus[v] \in SettledStatus THEN taskStatus[v] ELSE resp.status
         /\ \A w \in Vertices \ {v} : taskStatus'[w] = taskStatus[w]
         /\ upstreamFailed' = IF resp.status = "blocked" THEN upstreamFailed \cup {v} ELSE upstreamFailed
         /\ UNCHANGED verdict
BY SameResponses DEF W!TypeOK, W!CallbackReturns, W!SetTaskStatus

LEMMA CallbackKeepsGoroutines ==
  ASSUME GoroutineInv, NEW v \in Vertices, CallbackStep(v)
  PROVE  Started' /\ Awaited' /\ LeftBehind' /\ BlockedIsOver'
<1> USE SameResponses, PipelineResponses
    DEF GoroutineInv, Started, Awaited, LeftBehind, BlockedIsOver, JobTypes, W!TypeOK, W!AllDone
<1>1. CASE Callback(v)
  BY <1>1 DEF Callback, W!StartCallback
<1>2. CASE RepeatSettled(v)
  <2>1. UNCHANGED <<job, result>> /\ job[v] = "none"
    BY <1>2 DEF RepeatSettled, jobVars
  <2>2. PICK resp \in Response : W!CallbackReturns(v, resp)
    BY <1>2 DEF RepeatSettled
  <2>3. QED
    BY <2>1, <2>2, CallbackSettles
<1>3. CASE Answer(v)
  <2>1. UNCHANGED <<job, result>> /\ job[v] = "finished"
    BY <1>3 DEF Answer, jobVars
  <2>2. PICK resp \in Response : W!CallbackReturns(v, resp)
    BY <1>3 DEF Answer
  <2>3. QED
    BY <2>1, <2>2, CallbackSettles
<1>4. CASE Abandon(v)
  <2>1. UNCHANGED <<job, result>> /\ W!CallbackReturns(v, ErrorResponse(TRUE))
    BY <1>4 DEF Abandon, jobVars
  <2>2. ErrorResponse(TRUE) \in Response /\ ErrorResponse(TRUE).status = "failure"
    BY DEF ErrorResponse
  <2>3. PICK resp \in Response : W!CallbackReturns(v, resp) /\ resp.status = "failure"
    BY <2>1, <2>2
  <2>4. taskStatus'[v] \in SettledStatus
    BY <2>3, CallbackSettles DEF SettledStatus
  <2>5. QED
    BY <2>1, <2>3, <2>4, CallbackSettles
<1>5. QED
  BY <1>1, <1>2, <1>3, <1>4 DEF CallbackStep

\* A goroutine that moves on neither starts nor is forgotten.
LEMMA UserCodeMoves ==
  ASSUME JobTypes, NEW v \in Vertices, Acquire(v) \/ UserCode(v)
  PROVE  /\ UNCHANGED <<walkVars, result>>
         /\ job[v] \in {"queued", "executing"}
         /\ job' = [job EXCEPT ![v] = "executing"] \/ job' = [job EXCEPT ![v] = "finished"]
BY DEF Acquire, UserCode, Execute, ExecuteFails, SlotLeaks, Release

LEMMA GoroutineInvInductive == GoroutineInv /\ W!TypeOK' /\ [Next]_vars => GoroutineInv'
<1> SUFFICES ASSUME GoroutineInv, [Next]_vars PROVE Started' /\ Awaited' /\ LeftBehind' /\ BlockedIsOver'
  BY JobTypesInductive DEF GoroutineInv
<1> USE DEF GoroutineInv, Started, Awaited, LeftBehind, BlockedIsOver, W!AllDone
<1>1. CASE RunReturns
  BY <1>1 DEF RunReturns, walkVars, jobVars, W!AllDone
<1>2. CASE Rebuild
  BY <1>2 DEF Rebuild, W!NewWalk
<1>3. CASE Cancel
  BY <1>3 DEF Cancel, W!Cancel, jobVars
<1>4. ASSUME NEW v \in Vertices, WalkStep(v) PROVE Started' /\ Awaited' /\ LeftBehind' /\ BlockedIsOver'
  BY <1>4, WalkStepKeepsGoroutines
<1>5. ASSUME NEW v \in Vertices, CallbackStep(v) PROVE Started' /\ Awaited' /\ LeftBehind' /\ BlockedIsOver'
  BY <1>5, CallbackKeepsGoroutines
<1>6. ASSUME NEW v \in Vertices, Acquire(v) \/ UserCode(v)
      PROVE Started' /\ Awaited' /\ LeftBehind' /\ BlockedIsOver'
  BY <1>6, UserCodeMoves DEF JobTypes, walkVars
<1>7. CASE UNCHANGED vars
  BY <1>7 DEF vars, walkVars, jobVars
<1>8. QED
  BY <1>1, <1>2, <1>3, <1>4, <1>5, <1>6, <1>7 DEF Next, Terminated

LEMMA GoroutineInvariance == Spec => []GoroutineInv
<1>1. Init /\ W!TypeOK => GoroutineInv
  BY GoroutineInvInitially
<1>2. GoroutineInv /\ W!TypeOK' /\ [Next]_vars => GoroutineInv'
  BY GoroutineInvInductive
<1>3. QED
  BY <1>1, <1>2, WalkerInvariant, WalkerTypes, PTL DEF Spec

\* A task whose goroutine is awaited is not settled.
THEOREM AwaitedAreUnsettled == Spec => []AwaitedTasksAreUnsettled
<1>1. GoroutineInv => AwaitedTasksAreUnsettled
  BY DEF GoroutineInv, Awaited, AwaitedTasksAreUnsettled
<1>2. QED
  BY <1>1, GoroutineInvariance, PTL

\* After a run that ended blocked, no goroutine of a task that will run again
\* is queued or executing.
THEOREM ResumableAreIdle == Spec => []ResumableTasksAreIdle
<1>1. GoroutineInv => ResumableTasksAreIdle
  BY DEF GoroutineInv, LeftBehind, BlockedIsOver, W!AllDone, ResumableTasksAreIdle, JobTypes,
         SettledStatus, Tasks
<1>2. QED
  BY <1>1, GoroutineInvariance, PTL

-----------------------------------------------------------------------------
\* A goroutine that executes holds a slot: what an executing task adds to the
\* semaphore when it acquires it is not taken away before it ends.
SlotInv == slots \in 0 .. Concurrency /\ Cardinality(Executing) <= slots

LEMMA ExecutingIsFinite ==
  /\ IsFiniteSet(Executing) /\ Cardinality(Executing) \in Nat
  /\ IsFiniteSet(Executing') /\ Cardinality(Executing') \in Nat
<1>1. IsFiniteSet(Vertices)
  BY GraphAssumption DEF GraphAssumption
<1>2. Executing \subseteq Vertices /\ Executing' \subseteq Vertices
  BY DEF Executing
<1>3. QED
  BY <1>1, <1>2, FS_Subset, FS_CardinalityType

\* Steps that leave the semaphore and the executing tasks alone.
LEMMA SlotsUntouched ==
  ASSUME SlotInv, UNCHANGED slots, Executing' = Executing
  PROVE  SlotInv'
BY DEF SlotInv

LEMMA SlotInvInductive == GoroutineInv /\ SlotInv /\ [Next]_vars => SlotInv'
<1> SUFFICES ASSUME GoroutineInv, SlotInv, [Next]_vars PROVE SlotInv'
  OBVIOUS
<1> USE ExecutingIsFinite, PipelineAssumption DEF PipelineAssumption, JobTypes, GoroutineInv
<1>1. CASE UNCHANGED jobVars
  BY <1>1, SlotsUntouched DEF jobVars, Executing
<1>2. CASE Rebuild
  <2>1. Executing' = {} /\ slots' = 0
    BY <1>2 DEF Rebuild, Executing
  <2>2. QED
    BY <2>1, FS_EmptySet DEF SlotInv
<1>3. ASSUME NEW v \in Vertices, Callback(v) PROVE SlotInv'
  <2>1. job[v] = "none"
    BY <1>3 DEF Callback, W!StartCallback, Started
  <2>2. UNCHANGED slots /\ Executing' = Executing
    BY <1>3, <2>1 DEF Callback, Executing
  <2>3. QED
    BY <2>2, SlotsUntouched
<1>4. ASSUME NEW v \in Vertices, Acquire(v) PROVE SlotInv'
  <2>1. Executing' = Executing \cup {v} /\ v \notin Executing
    BY <1>4 DEF Acquire, Executing
  <2>2. Cardinality(Executing') = Cardinality(Executing) + 1
    BY <2>1, FS_AddElement
  <2>3. slots' = slots + 1 /\ slots < Concurrency
    BY <1>4 DEF Acquire
  <2>4. QED
    BY <2>2, <2>3 DEF SlotInv
<1>5. ASSUME NEW v \in Vertices, UserCode(v) PROVE SlotInv'
  <2>1. /\ job[v] = "executing" /\ job' = [job EXCEPT ![v] = "finished"]
        /\ slots' \in {slots, slots - 1}
    BY <1>5 DEF UserCode, Execute, ExecuteFails, SlotLeaks, Release
  <2>2. Executing' = Executing \ {v} /\ v \in Executing
    BY <2>1 DEF Executing
  <2>3. Cardinality(Executing') = Cardinality(Executing) - 1
    BY <2>2, FS_RemoveElement
  <2>4. QED
    BY <2>1, <2>3 DEF SlotInv
<1>6. QED
  BY <1>1, <1>2, <1>3, <1>4, <1>5
  DEF Next, RunReturns, Cancel, WalkStep, CallbackStep, RepeatSettled, Answer, Abandon,
      Terminated, vars

LEMMA SlotInvariance == Spec => []SlotInv
<1>1. Init => SlotInv
  <2> SUFFICES ASSUME Init PROVE SlotInv
    OBVIOUS
  <2>1. Executing = {} /\ slots = 0
    BY DEF Init, Executing
  <2>2. QED
    BY <2>1, FS_EmptySet, PipelineAssumption DEF SlotInv, PipelineAssumption
<1>2. QED
  BY <1>1, SlotInvInductive, GoroutineInvariance, PTL DEF Spec

\* Every variable of the pipeline keeps its type: the semaphore is released
\* as often as it is acquired, at most.
THEOREM TypeCorrect == Spec => []TypeOK
<1>1. GoroutineInv /\ SlotInv => TypeOK
  BY DEF GoroutineInv, SlotInv, JobTypes, TypeOK
<1>2. QED
  BY <1>1, GoroutineInvariance, SlotInvariance, PTL

\* No more tasks execute than there are slots, abandoned ones included.
THEOREM SlotsAreHeld == Spec => []ExecutorsHoldSlots
<1>1. SlotInv => ExecutorsHoldSlots
  BY PipelineAssumption DEF SlotInv, ExecutorsHoldSlots, PipelineAssumption
<1>2. QED
  BY <1>1, SlotInvariance, PTL

-----------------------------------------------------------------------------
\* The State tells the answers because a skipped task never runs, and because
\* a status and a response that agree are only ever changed together.
SkippedNeverRun ==
  \A v \in SkipExecution \cap Vertices : taskStatus[v] \in {"init", "skipped"} /\ pc[v] # "running"

Told(v) ==
  pc[v] \in {"returned", "done"} /\ (v \notin upstreamFailed \/ response[v].status = "blocked") =>
    \/ taskStatus[v] = response[v].status
    \/ taskStatus[v] = "skipped" /\ response[v] = SuccessResponse

AnswerInv == SkippedNeverRun /\ \A v \in Vertices : Told(v)

\* Demotion, as the pipeline's walker does it, keeps the status of a response,
\* and leaves alone one that passed.
LEMMA DemotionKeepsStatus ==
  ASSUME W!TypeOK, NEW v \in Vertices, NEW d \in Vertices
  PROVE  /\ W!Demoted(v)[d].status = response[d].status
         /\ W!Demoted(v)[d].pass = response[d].pass
         /\ response[d].pass => W!Demoted(v)[d] = response[d]
<1>1. response[d] \in Response
  BY SameResponses DEF W!TypeOK
<1>2. \A resp \in Response : \A level :
        /\ [resp EXCEPT !.level = level].status = resp.status
        /\ [resp EXCEPT !.level = level].pass = resp.pass
  BY DEF Response
<1>3. QED
  BY <1>1, <1>2 DEF W!Demoted, W!SetFailureLevel

LEMMA WalkStepTells ==
  ASSUME GoroutineInv, AnswerInv, NEW v \in Vertices, WalkStep(v)
  PROVE  AnswerInv'
<1> USE SameResponses DEF GoroutineInv, AnswerInv, SkippedNeverRun, Told, W!TypeOK
<1>1. CASE W!WaitDeps(v)
  <2>1. /\ response' = W!Demoted(v)
        /\ UNCHANGED <<pc, upstreamFailed, taskStatus>>
    BY <1>1 DEF W!WaitDeps
  <2>2. \A d \in Vertices : /\ response'[d].status = response[d].status
                            /\ response[d] = SuccessResponse => response'[d] = response[d]
    BY <2>1, DemotionKeepsStatus DEF SuccessResponse
  <2>3. QED
    BY <2>1, <2>2
<1>2. CASE W!WaitCancelled(v)
  BY <1>2 DEF W!WaitCancelled
<1>3. CASE W!UpstreamFailed(v) \/ W!ConditionMismatch(v)
  <2>1. W!PassOver(v)
    BY <1>3 DEF W!UpstreamFailed, W!ConditionMismatch
  <2>2. WarnResponse.status # "blocked"
    BY DEF WarnResponse
  <2>3. QED
    BY <2>1, <2>2 DEF W!PassOver
<1>4. CASE W!Skip(v)
  <2>1. /\ v \in SkipExecution
        /\ pc' = [pc EXCEPT ![v] = "done"]
        /\ response' = [response EXCEPT ![v] = SuccessResponse]
        /\ UNCHANGED upstreamFailed
        /\ taskStatus'[v] = IF taskStatus[v] \in SettledStatus THEN taskStatus[v] ELSE "skipped"
        /\ \A w \in Vertices \ {v} : taskStatus'[w] = taskStatus[w]
    BY <1>4 DEF W!Skip, W!SetTaskStatus
  <2>2. taskStatus'[v] = "skipped"
    BY <2>1 DEF SettledStatus
  <2>3. QED
    BY <2>1, <2>2
<1>5. CASE W!Record(v)
  BY <1>5 DEF W!Record
<1>6. QED
  BY <1>1, <1>2, <1>3, <1>4, <1>5 DEF WalkStep, W!Waiter

LEMMA CallbackTells ==
  ASSUME GoroutineInv, AnswerInv, NEW v \in Vertices, CallbackStep(v)
  PROVE  AnswerInv'
<1> USE SameResponses, PipelineResponses DEF GoroutineInv, AnswerInv, SkippedNeverRun, Told, W!TypeOK
<1>1. CASE Callback(v)
  BY <1>1 DEF Callback, W!StartCallback
<1>2. ASSUME NEW resp \in Response, W!CallbackReturns(v, resp),
             \/ taskStatus[v] \notin SettledStatus
             \/ taskStatus[v] = resp.status
             \/ taskStatus[v] = "skipped" /\ resp = SuccessResponse
      PROVE  AnswerInv'
  <2>1. \/ taskStatus'[v] = resp.status
        \/ taskStatus'[v] = "skipped" /\ resp = SuccessResponse
    BY <1>2, CallbackSettles DEF SettledStatus
  <2>2. v \notin SkipExecution
    BY <1>2, CallbackSettles
  <2>3. QED
    BY <1>2, <2>1, <2>2, CallbackSettles
<1>3. CASE RepeatSettled(v)
  <2>1. pc[v] = "running" /\ taskStatus[v] \in SettledStatus
    BY <1>3 DEF RepeatSettled, W!CallbackReturns, Awaited
  <2>2. SettledAnswer(v) \in Response
    OBVIOUS
  <2>3. \/ taskStatus[v] = SettledAnswer(v).status
        \/ taskStatus[v] = "skipped" /\ SettledAnswer(v) = SuccessResponse
    BY <2>1 DEF SettledStatus, SettledAnswer, ErrorResponse, SuccessResponse
  <2>4. QED
    BY <1>2, <1>3, <2>2, <2>3 DEF RepeatSettled
<1>4. CASE Answer(v) \/ Abandon(v)
  <2>1. job[v] # "none" /\ \E resp \in Response : W!CallbackReturns(v, resp)
    BY <1>4 DEF Answer, Abandon, JobTypes
  <2>2. taskStatus[v] \notin SettledStatus
    BY <2>1 DEF Awaited, W!CallbackReturns
  <2>3. QED
    BY <1>2, <2>1, <2>2
<1>5. QED
  BY <1>1, <1>3, <1>4 DEF CallbackStep

LEMMA AnswerInvInductive == GoroutineInv /\ AnswerInv /\ [Next]_vars => AnswerInv'
<1> SUFFICES ASSUME GoroutineInv, AnswerInv, [Next]_vars PROVE AnswerInv'
  OBVIOUS
<1> USE DEF AnswerInv, SkippedNeverRun, Told
<1>1. CASE UNCHANGED walkVars
  BY <1>1 DEF walkVars
<1>2. CASE Rebuild
  BY <1>2 DEF Rebuild, W!NewWalk
<1>3. CASE Cancel
  BY <1>3 DEF Cancel, W!Cancel
<1>4. ASSUME NEW v \in Vertices, WalkStep(v) PROVE AnswerInv'
  BY <1>4, WalkStepTells
<1>5. ASSUME NEW v \in Vertices, CallbackStep(v) PROVE AnswerInv'
  BY <1>5, CallbackTells
<1>6. ASSUME NEW v \in Vertices, Acquire(v) \/ UserCode(v) PROVE AnswerInv'
  BY <1>1, <1>6, UserCodeMoves DEF GoroutineInv
<1>7. QED
  BY <1>1, <1>2, <1>3, <1>4, <1>5, <1>6 DEF Next, RunReturns, Terminated, vars

\* The State of a run tells the answer of every task that answered in it.
THEOREM StatesTellAnswers == Spec => []StateTellsAnswers
<1>1. Init => AnswerInv
  BY DEF Init, W!Init, AnswerInv, SkippedNeverRun, Told
<1>2. AnswerInv => StateTellsAnswers
  BY DEF AnswerInv, Told, StateTellsAnswers
<1>3. QED
  BY <1>1, <1>2, AnswerInvInductive, GoroutineInvariance, PTL DEF Spec

-----------------------------------------------------------------------------
\* A blocked answer does not pass, as helper.NewBlockedResponse makes it.
NoBlockedPass == \A resp \in ExecuteResponses : resp.status = "blocked" => ~resp.pass

\* A task that was handed to a goroutine had a passing verdict and tells its
\* status; a blocked response passes for no task but one that always passes.
StartedPassed == \A v \in Vertices : job[v] # "none" => verdict[v] = "pass"
StartedTold == \A v \in Vertices :
  job[v] # "none" /\ pc[v] \in {"returned", "done"} => taskStatus[v] = response[v].status
BlockedStays(resp) == resp.status = "blocked" => ~resp.pass
BlockedIsNoPass == \A v \in Vertices \ AlwaysPass : BlockedStays(outcome[v]) /\ BlockedStays(response[v])

BlockInv == StartedPassed /\ StartedTold /\ BlockedIsNoPass

LEMMA ConfiguredStaysBlocked ==
  ASSUME NEW v \in Vertices \ AlwaysPass, NEW resp \in Response, BlockedStays(resp)
  PROVE  BlockedStays(Configured(v, resp))
<1>1. Configured(v, resp).status = resp.status /\ Configured(v, resp).pass = (resp.pass \/ v \in AlwaysPass)
  BY DEF Configured, Response
<1>2. QED
  BY <1>1 DEF BlockedStays

LEMMA WalkStepBlocks ==
  ASSUME GoroutineInv, BlockInv, NEW v \in Vertices, WalkStep(v)
  PROVE  BlockInv'
<1>1. UNCHANGED <<job, outcome>>
  BY DEF WalkStep, jobVars
<1> USE <1>1, SameResponses
    DEF GoroutineInv, BlockInv, StartedPassed, StartedTold, BlockedIsNoPass, BlockedStays, W!TypeOK
<1>2. CASE W!WaitDeps(v)
  <2>1. /\ response' = W!Demoted(v) /\ UNCHANGED <<pc, taskStatus>>
        /\ verdict[v] = "pending"
        /\ \A w \in Vertices \ {v} : verdict'[w] = verdict[w]
    BY <1>2 DEF W!WaitDeps
  <2>2. \A d \in Vertices : response'[d].status = response[d].status /\ response'[d].pass = response[d].pass
    BY <2>1, DemotionKeepsStatus
  <2>3. QED
    BY <2>1, <2>2
<1>3. CASE W!WaitCancelled(v)
  BY <1>3 DEF W!WaitCancelled
<1>4. CASE W!UpstreamFailed(v) \/ W!ConditionMismatch(v) \/ W!Skip(v)
  <2>1. /\ pc[v] = "waiting" /\ pc' = [pc EXCEPT ![v] = "done"]
        /\ UNCHANGED verdict
        /\ \A w \in Vertices \ {v} : taskStatus'[w] = taskStatus[w]
        /\ \E resp \in {WarnResponse, SuccessResponse} : response' = [response EXCEPT ![v] = resp]
    BY <1>4 DEF W!UpstreamFailed, W!ConditionMismatch, W!PassOver, W!Skip, W!SetTaskStatus
  <2>2. \A resp \in {WarnResponse, SuccessResponse} : resp.status # "blocked"
    BY DEF WarnResponse, SuccessResponse
  <2>3. QED
    BY <2>1, <2>2 DEF Started
<1>5. CASE W!Record(v)
  BY <1>5 DEF W!Record
<1>6. QED
  BY <1>2, <1>3, <1>4, <1>5 DEF WalkStep, W!Waiter

LEMMA CallbackBlocks ==
  ASSUME GoroutineInv, BlockInv, NEW v \in Vertices, CallbackStep(v)
  PROVE  BlockInv'
<1> USE SameResponses, PipelineResponses
    DEF GoroutineInv, BlockInv, StartedPassed, StartedTold, BlockedIsNoPass, W!TypeOK, JobTypes
<1>1. BlockedStays(SuccessResponse) /\ BlockedStays(ErrorResponse(TRUE)) /\ BlockedStays(SettledAnswer(v))
  BY DEF BlockedStays, SuccessResponse, ErrorResponse, SettledAnswer
<1>2. CASE Callback(v)
  BY <1>1, <1>2 DEF Callback, W!StartCallback
<1>3. ASSUME NEW resp \in Response, W!CallbackReturns(v, resp), UNCHANGED <<job, outcome>>,
             v \notin AlwaysPass => BlockedStays(resp)
      PROVE  BlockInv'
  <2>1. job[v] # "none" => taskStatus'[v] = resp.status
    BY <1>3, CallbackSettles DEF Awaited
  <2>2. QED
    BY <1>3, <2>1, CallbackSettles
<1>4. CASE RepeatSettled(v) \/ Answer(v) \/ Abandon(v)
  <2>1. UNCHANGED <<job, outcome>>
    BY <1>4 DEF RepeatSettled, Answer, Abandon, jobVars
  <2>2. \E resp \in Response : W!CallbackReturns(v, resp) /\ (v \notin AlwaysPass => BlockedStays(resp))
    BY <1>1, <1>4 DEF RepeatSettled, Answer, Abandon
  <2>3. QED
    BY <1>3, <2>1, <2>2
<1>5. QED
  BY <1>2, <1>4 DEF CallbackStep

LEMMA UserCodeBlocks ==
  ASSUME NoBlockedPass, GoroutineInv, BlockInv, NEW v \in Vertices, Acquire(v) \/ UserCode(v)
  PROVE  BlockInv'
<1> USE DEF GoroutineInv, BlockInv, StartedPassed, StartedTold, BlockedIsNoPass, JobTypes
<1>1. /\ UNCHANGED <<pc, verdict, response, taskStatus>>
      /\ job[v] # "none" /\ \A w \in Vertices \ {v} : job'[w] = job[w]
  BY UserCodeMoves DEF walkVars
<1>2. ASSUME NEW resp \in Response, outcome' = [outcome EXCEPT ![v] = resp],
             v \notin AlwaysPass => BlockedStays(resp)
      PROVE  BlockInv'
  BY <1>1, <1>2
<1>3. BlockedStays(ErrorResponse(TRUE)) /\ ErrorResponse(TRUE) \in Response
  BY PipelineResponses DEF BlockedStays, ErrorResponse
<1>4. CASE Acquire(v)
  BY <1>1, <1>4 DEF Acquire
<1>5. CASE Execute(v)
  <2>1. PICK resp \in ExecuteResponses : Release(v, Configured(v, resp))
    BY <1>5 DEF Execute
  <2>2. resp \in Response /\ BlockedStays(resp)
    BY PipelineAssumption DEF PipelineAssumption, NoBlockedPass, BlockedStays
  <2>3. Configured(v, resp) \in Response
    BY <2>2, PipelineResponses
  <2>4. v \notin AlwaysPass => BlockedStays(Configured(v, resp))
    BY <2>2, ConfiguredStaysBlocked
  <2>5. QED
    BY <1>2, <2>1, <2>3, <2>4 DEF Release
<1>6. CASE ExecuteFails(v) \/ SlotLeaks(v)
  BY <1>2, <1>3, <1>6 DEF ExecuteFails, SlotLeaks, Release
<1>7. QED
  BY <1>4, <1>5, <1>6 DEF UserCode

LEMMA BlockInvInductive ==
  ASSUME NoBlockedPass
  PROVE  GoroutineInv /\ BlockInv /\ [Next]_vars => BlockInv'
<1> SUFFICES ASSUME GoroutineInv, BlockInv, [Next]_vars PROVE BlockInv'
  OBVIOUS
<1> USE DEF BlockInv, StartedPassed, StartedTold, BlockedIsNoPass
<1>1. BlockedStays(NoResponse)
  BY DEF BlockedStays, NoResponse
<1>2. CASE UNCHANGED <<walkVars, jobVars>>
  BY <1>2 DEF walkVars, jobVars
<1>3. CASE Rebuild
  BY <1>1, <1>3, SameResponses DEF Rebuild, W!NewWalk
<1>4. CASE Cancel
  BY <1>4 DEF Cancel, W!Cancel, jobVars
<1>5. ASSUME NEW v \in Vertices, WalkStep(v) PROVE BlockInv'
  BY <1>5, WalkStepBlocks
<1>6. ASSUME NEW v \in Vertices, CallbackStep(v) PROVE BlockInv'
  BY <1>6, CallbackBlocks
<1>7. ASSUME NEW v \in Vertices, Acquire(v) \/ UserCode(v) PROVE BlockInv'
  BY <1>7, UserCodeBlocks
<1>8. QED
  BY <1>2, <1>3, <1>4, <1>5, <1>6, <1>7 DEF Next, RunReturns, Terminated, vars

\* A vertex that is not an Any or Not node and has a passing verdict has
\* dependencies that are done and passed.
LEMMA PassedDependencies ==
  ASSUME WP!Inv, NEW v \in Tasks, NEW d \in W!Deps(v), verdict[v] = "pass"
  PROVE  d \in Vertices /\ pc[d] = "done" /\ response[d].pass
BY DEF WP!Inv, WP!VerdictJustified, WP!Satisfied, WP!DepsDone, WP!Deps, W!Deps, Tasks

\* A task that blocked in this run, or is executed again after it blocked,
\* holds back the tasks that need it, if blocked answers do not pass.
THEOREM BlockedHoldDependents ==
  ASSUME NoBlockedPass
  PROVE  Spec => []BlockedTasksHoldDependents
<1>1. Init => BlockInv
  BY SameResponses
  DEF Init, W!Init, BlockInv, StartedPassed, StartedTold, BlockedIsNoPass, BlockedStays, NoResponse
<1>2. GoroutineInv /\ BlockInv /\ [Next]_vars => BlockInv'
  BY BlockInvInductive
<1>3. WP!Inv /\ BlockInv => BlockedTasksHoldDependents
  <2> SUFFICES ASSUME WP!Inv, BlockInv, NEW v \in Tasks, NEW d \in Tasks \ AlwaysPass,
                      d \in W!Deps(v), taskStatus[d] = "blocked", job[d] # "none",
                      job[v] # "none"
               PROVE  FALSE
    BY DEF BlockedTasksHoldDependents
  <2>1. verdict[v] = "pass"
    BY DEF BlockInv, StartedPassed, Tasks
  <2>2. d \in Vertices \ AlwaysPass /\ pc[d] = "done" /\ response[d].pass
    BY <2>1, PassedDependencies
  <2>3. response[d].status = "blocked"
    BY <2>2 DEF BlockInv, StartedTold
  <2>4. QED
    BY <2>2, <2>3 DEF BlockInv, BlockedIsNoPass, BlockedStays
<1>4. QED
  BY <1>1, <1>2, <1>3, GoroutineInvariance, WalkerInvariant, PTL DEF Spec

-----------------------------------------------------------------------------
\* An answer with status failure is reported: it does not pass, its level is
\* above Warning and it has an error, as helper.NewErrorResponse makes it of one.
Tells(resp) == ~resp.pass /\ resp.level > Warning /\ resp.err
FailuresTell == \A resp \in ExecuteResponses : resp.status = "failure" => Tells(resp)

Absorbed(v) == v \in AlwaysPass \/ \E w \in AnyNodes \cup NotNodes : v \in W!Deps(w)

\* A failure that nothing absorbed was answered in the run at hand, Walk will
\* report it, and so no run that contains it ended as a success or blocked: a
\* rebuild, after which it is answered without its error, does not come to it.
OverIsDone == result # "running" => W!AllDone
LeftOutAnswered == \A v \in upstreamFailed : pc[v] \in {"returned", "done"}
OutcomesTell ==
  \A v \in Vertices : outcome[v].status = "failure" /\ ~Absorbed(v) => Tells(outcome[v])
Reportable(v) ==
  /\ result \notin {"success", "blocked"}
  /\ pc[v] \in {"returned", "done"} /\ v \notin upstreamFailed /\ Tells(response[v])
FailuresReported ==
  \A v \in Tasks : taskStatus[v] = "failure" /\ ~Absorbed(v) => Reportable(v)

ReportInv == OverIsDone /\ LeftOutAnswered /\ OutcomesTell /\ FailuresReported

LEMMA WalkStepReports ==
  ASSUME GoroutineInv, ReportInv, NEW v \in Vertices, WalkStep(v)
  PROVE  ReportInv'
<1>1. UNCHANGED <<outcome, result>>
  BY DEF WalkStep, jobVars
<1>2. OutcomesTell'
  BY <1>1 DEF ReportInv, OutcomesTell, Absorbed, Tells, W!Deps
<1> USE <1>1, <1>2, SameResponses
    DEF GoroutineInv, ReportInv, OverIsDone, LeftOutAnswered, FailuresReported, Reportable, Tells,
        W!TypeOK, W!AllDone, Tasks
<1>3. CASE W!WaitDeps(v)
  <2>1. response' = W!Demoted(v) /\ UNCHANGED <<pc, upstreamFailed, taskStatus>>
    BY <1>3 DEF W!WaitDeps
  <2>2. \A d \in Vertices : ~Absorbed(d) => response'[d] = response[d]
    BY <2>1 DEF W!Demoted, Absorbed
  <2>3. QED
    BY <2>1, <2>2 DEF Absorbed
<1>4. CASE W!WaitCancelled(v)
  BY <1>4 DEF W!WaitCancelled, Absorbed
<1>5. CASE W!UpstreamFailed(v) \/ W!ConditionMismatch(v) \/ W!Skip(v)
  <2>1. /\ pc[v] = "waiting" /\ pc' = [pc EXCEPT ![v] = "done"]
        /\ \A w \in Vertices \ {v} : response'[w] = response[w]
        /\ upstreamFailed' = upstreamFailed \/ upstreamFailed' = upstreamFailed \cup {v}
        /\ \A w \in Vertices : taskStatus'[w] = taskStatus[w] \/ taskStatus'[w] = "skipped"
    BY <1>5 DEF W!UpstreamFailed, W!ConditionMismatch, W!PassOver, W!Skip, W!SetTaskStatus
  <2>2. QED
    BY <2>1 DEF Absorbed
<1>6. CASE W!Record(v)
  BY <1>6 DEF W!Record, Absorbed
<1>7. QED
  BY <1>3, <1>4, <1>5, <1>6 DEF WalkStep, W!Waiter

LEMMA CallbackReports ==
  ASSUME GoroutineInv, ReportInv, NEW v \in Vertices, CallbackStep(v)
  PROVE  ReportInv'
<1> USE SameResponses, PipelineResponses
    DEF GoroutineInv, ReportInv, OverIsDone, LeftOutAnswered, OutcomesTell, FailuresReported,
        Reportable, W!TypeOK, W!AllDone, JobTypes, Tasks
<1>1. CASE Callback(v)
  BY <1>1 DEF Callback, W!StartCallback, Tells, Absorbed, SuccessResponse
<1>2. ASSUME NEW resp \in Response, W!CallbackReturns(v, resp), UNCHANGED <<outcome, result>>,
             \/ taskStatus[v] \in SettledStatus
             \/ resp.status = "failure" /\ ~Absorbed(v) => Tells(resp)
      PROVE  ReportInv'
  <2>1. OverIsDone' /\ LeftOutAnswered'
    BY <1>2, CallbackSettles
  <2>2. OutcomesTell'
    BY <1>2 DEF Tells, Absorbed
  <2>3. \A w \in Tasks : taskStatus[w] = "failure" /\ ~Absorbed(w) => w # v /\ Reportable(w)'
    BY <1>2, CallbackSettles DEF Tells
  <2>4. ASSUME v \in Tasks, taskStatus'[v] = "failure", ~Absorbed(v), taskStatus[v] # "failure"
        PROVE  Reportable(v)'
    <3>1. resp.status = "failure" /\ Tells(resp)
      BY <1>2, <2>4, CallbackSettles DEF SettledStatus
    <3>2. QED
      BY <1>2, <3>1, CallbackSettles DEF Tells
  <2>5. FailuresReported'
    BY <1>2, <2>3, <2>4, CallbackSettles DEF Absorbed
  <2>6. QED
    BY <2>1, <2>2, <2>5
<1>3. CASE RepeatSettled(v)
  <2>1. W!CallbackReturns(v, SettledAnswer(v)) /\ UNCHANGED <<outcome, result>> /\ job[v] = "none"
    BY <1>3 DEF RepeatSettled, jobVars
  <2>2. taskStatus[v] \in SettledStatus
    BY <2>1 DEF Awaited, W!CallbackReturns
  <2>3. QED
    BY <1>2, <2>1, <2>2
<1>4. CASE Answer(v)
  BY <1>2, <1>4 DEF Answer, jobVars
<1>5. CASE Abandon(v)
  <2>1. Tells(ErrorResponse(TRUE))
    BY DEF Tells, ErrorResponse, Warning, Error
  <2>2. QED
    BY <1>2, <1>5, <2>1 DEF Abandon, jobVars
<1>6. QED
  BY <1>1, <1>3, <1>4, <1>5 DEF CallbackStep

LEMMA ConfiguredTells ==
  ASSUME NEW v \in Vertices, NEW resp \in Response, ~Absorbed(v), resp.status = "failure" => Tells(resp),
         Configured(v, resp).status = "failure"
  PROVE  Tells(Configured(v, resp))
<1>1. /\ Configured(v, resp).status = resp.status /\ Configured(v, resp).err = resp.err
      /\ Configured(v, resp).pass = (resp.pass \/ v \in AlwaysPass)
      /\ Configured(v, resp).level \in {resp.level, Fatal}
  BY DEF Configured, Response
<1>2. Fatal > Warning
  BY DEF Fatal, Warning
<1>3. QED
  BY <1>1, <1>2 DEF Tells, Absorbed

LEMMA UserCodeReports ==
  ASSUME FailuresTell, GoroutineInv, ReportInv, NEW v \in Vertices, Acquire(v) \/ UserCode(v)
  PROVE  ReportInv'
<1>1. UNCHANGED <<walkVars, result>>
  BY UserCodeMoves DEF GoroutineInv
<1>2. OverIsDone' /\ LeftOutAnswered' /\ FailuresReported'
  BY <1>1 DEF ReportInv, OverIsDone, LeftOutAnswered, FailuresReported, Reportable, Tells, Absorbed,
              W!AllDone, walkVars
<1>. SUFFICES OutcomesTell'
  BY <1>2 DEF ReportInv
<1>3. ASSUME NEW resp \in Response, outcome' = [outcome EXCEPT ![v] = resp],
             resp.status = "failure" /\ ~Absorbed(v) => Tells(resp)
      PROVE  OutcomesTell'
  BY <1>3 DEF ReportInv, OutcomesTell, GoroutineInv, JobTypes, Tells, Absorbed
<1>4. CASE Acquire(v)
  <2>1. outcome' = outcome
    BY <1>4 DEF Acquire
  <2>2. OutcomesTell
    BY DEF ReportInv
  <2>3. QED
    BY <2>1, <2>2 DEF OutcomesTell, Tells, Absorbed
<1>5. CASE Execute(v)
  <2>1. PICK resp \in ExecuteResponses : Release(v, Configured(v, resp))
    BY <1>5 DEF Execute
  <2>2. resp \in Response
    BY PipelineAssumption DEF PipelineAssumption
  <2>3. resp.status = "failure" => Tells(resp)
    BY DEF FailuresTell
  <2>4. Configured(v, resp) \in Response
    BY <2>2, PipelineResponses
  <2>5. outcome' = [outcome EXCEPT ![v] = Configured(v, resp)]
    BY <2>1 DEF Release
  <2>6. Configured(v, resp).status = "failure" /\ ~Absorbed(v) => Tells(Configured(v, resp))
    BY <2>2, <2>3, ConfiguredTells
  <2>7. QED
    BY <1>3, <2>4, <2>5, <2>6
<1>6. CASE ExecuteFails(v) \/ SlotLeaks(v)
  <2>1. ErrorResponse(TRUE) \in Response
    BY PipelineResponses
  <2>2. Tells(ErrorResponse(TRUE))
    BY DEF Tells, ErrorResponse, Warning, Error
  <2>3. outcome' = [outcome EXCEPT ![v] = ErrorResponse(TRUE)]
    BY <1>6 DEF ExecuteFails, SlotLeaks, Release
  <2>4. QED
    BY <1>3, <2>1, <2>2, <2>3
<1>7. QED
  BY <1>4, <1>5, <1>6 DEF UserCode

LEMMA ReportInvInductive ==
  ASSUME FailuresTell
  PROVE  GoroutineInv /\ ReportInv /\ [Next]_vars => ReportInv'
<1> SUFFICES ASSUME GoroutineInv, ReportInv, [Next]_vars PROVE ReportInv'
  OBVIOUS
<1> USE DEF ReportInv, OverIsDone, LeftOutAnswered, OutcomesTell, FailuresReported, Reportable,
            Tells, W!AllDone
<1>1. CASE RunReturns
  <2>1. W!AllDone /\ UNCHANGED <<walkVars, jobVars>>
    BY <1>1 DEF RunReturns
  <2>2. ASSUME NEW v \in Tasks, taskStatus[v] = "failure", ~Absorbed(v)
        PROVE  result' = "failure"
    <3>1. v \in Reported
      BY <2>2 DEF Reported, Tasks
    <3>2. QED
      BY <1>1, <3>1 DEF RunReturns
  <2>3. QED
    BY <2>1, <2>2 DEF walkVars, jobVars, Absorbed
<1>2. CASE Rebuild
  <2>1. \A v \in Tasks : taskStatus[v] = "failure" => Absorbed(v)
    BY <1>2 DEF Rebuild
  <2>2. /\ UNCHANGED taskStatus /\ upstreamFailed' = {} /\ result' = "running"
        /\ outcome' = [v \in Vertices |-> NoResponse]
    BY <1>2 DEF Rebuild, W!NewWalk
  <2>3. \A v \in Vertices : outcome'[v].status # "failure"
    BY <2>2 DEF NoResponse
  <2>4. QED
    BY <2>1, <2>2, <2>3 DEF Absorbed
<1>3. CASE Cancel
  BY <1>3 DEF Cancel, W!Cancel, jobVars, Absorbed
<1>4. ASSUME NEW v \in Vertices, WalkStep(v) PROVE ReportInv'
  BY <1>4, WalkStepReports
<1>5. ASSUME NEW v \in Vertices, CallbackStep(v) PROVE ReportInv'
  BY <1>5, CallbackReports
<1>6. ASSUME NEW v \in Vertices, Acquire(v) \/ UserCode(v) PROVE ReportInv'
  BY <1>6, UserCodeReports
<1>7. CASE UNCHANGED vars
  BY <1>7 DEF vars, walkVars, jobVars, Absorbed
<1>8. QED
  BY <1>1, <1>2, <1>3, <1>4, <1>5, <1>6, <1>7 DEF Next, Terminated

\* If components that fail say so with an error, a run and its rebuilds report
\* success only when every failure was absorbed: neither a rebuild, which repeats
\* failures without their error, nor a cancelled waiter loses one.
THEOREM SuccessAbsorbs ==
  ASSUME FailuresTell
  PROVE  Spec => []SuccessAbsorbedFailures
<1>1. Init => ReportInv
  <2>1. NoResponse.status # "failure"
    BY DEF NoResponse
  <2>2. QED
    BY <2>1 DEF Init, W!Init, ReportInv, OverIsDone, LeftOutAnswered, OutcomesTell,
                FailuresReported, Tasks
<1>2. GoroutineInv /\ ReportInv /\ [Next]_vars => ReportInv'
  BY ReportInvInductive
<1>3. ReportInv => SuccessAbsorbedFailures
  BY DEF ReportInv, FailuresReported, Reportable, Absorbed, SuccessAbsorbedFailures
<1>4. QED
  BY <1>1, <1>2, <1>3, GoroutineInvariance, PTL DEF Spec
=============================================================================
