------------------------------- MODULE Engine -------------------------------
(***************************************************************************)
(* flow/flow.go, internal/core/data_context.go, repository/loop.go and     *)
(* repository/sub_pipeline.go: runs of one engine, the data contexts they  *)
(* take from a pool, and the runs inside a loop or sub-pipeline task.      *)
(*                                                                         *)
(* The walk of a run (module Pipeline) is one task here, plain or with     *)
(* runs of its own inside.  When the context of the task is done the walk  *)
(* ends without it, and the task goes on beside the runs that come after.  *)
(***************************************************************************)
EXTENDS Naturals, Sequences

CONSTANTS
  Runs,         \* the runs the engine is asked for
  Resumed,      \* those that Rebuild prepared
  Scheduled,    \* those that CronRun makes
  Kinds,        \* what the task of each run may be: plain, loop or embed
  Items,        \* length of the items of a loop
  MaxLoop,      \* max_loop, 0 for no limit
  BreakOnError, \* break_if_error
  Workers,      \* WorkerConcurrency
  Objects       \* bound on the data contexts ever made

ASSUME EngineAssumption ==
  /\ Resumed \subseteq Runs /\ Scheduled \subseteq Runs
  /\ Kinds \in [Runs -> SUBSET {"plain", "loop", "embed"}]
  /\ Items \in Nat /\ MaxLoop \in Nat /\ Workers \in Nat \ {0}
  /\ BreakOnError \in BOOLEAN
  /\ Objects # {}

VARIABLES
  pool,    \* contextPool
  made,    \* the data contexts made so far
  owner,   \* the run whose fields a data context holds, Nobody if cleared
  store,   \* the run whose SharedDataStore a data context holds
  context, \* the data context each run was given
  phase,   \* where CronRun, RiverEngine.Run and pipeline.Run stand for a run
  status,  \* status of the pipeline of a run
  events,  \* what the event handler was told of a run
  workers, \* length of the engine's Semaphore
  done,    \* the context of the task of a run is done
  kind,    \* what the task of a run is
  stage,   \* where the task of a run stands
  turn,    \* the item of the loop
  answer,  \* the status the task left for the walk
  results, \* the results of the loop
  succeeded, \* the inner runs that ended with success
  late     \* inner runs a task began although its context was done

contextVars == <<pool, made, owner, store, context>>
engineVars == <<phase, status, events, workers>>
taskVars == <<kind, stage, turn, answer, results, succeeded, late>>
vars == <<contextVars, engineVars, taskVars, done>>

\* <<r, 0>> is run r, <<r, i>> the run inside it for item i.
Runners == Runs \X (0 .. Items + 1)
Self(r) == <<r, 0>>
Inner(r) == <<r, turn[r]>>
Nobody == <<>>
NoResult == <<>>

Init ==
  /\ pool = {} /\ made = {}
  /\ owner = [o \in Objects |-> Nobody]
  /\ store = [o \in Objects |-> Nobody]
  /\ context = [w \in Runners |-> CHOOSE o \in Objects : TRUE]
  /\ phase = [r \in Runs |-> "new"]
  /\ status = [r \in Runs |-> IF r \in Resumed THEN "blocked" ELSE "init"]
  /\ events = [r \in Runs |-> <<>>]
  /\ workers = 0
  /\ done = [r \in Runs |-> FALSE]
  /\ kind \in [Runs -> {"plain", "loop", "embed"}]
  /\ \A r \in Runs : kind[r] \in Kinds[r]
  /\ stage = [r \in Runs |-> "off"]
  /\ turn = [r \in Runs |-> 1]
  /\ answer = [r \in Runs |-> "init"]
  /\ results = [r \in Runs |-> <<>>]
  /\ succeeded = {}
  /\ late = [r \in Runs |-> 0]

-----------------------------------------------------------------------------
\* Mutant of NewDataContext: the pool keeps what it gave away.
NewDataContextShared(w, o) ==
  /\ o \in pool \/ o = CHOOSE x \in Objects \ made : TRUE
  /\ pool' = pool /\ made' = made \cup {o}
  /\ owner' = [owner EXCEPT ![o] = w]
  /\ store' = [store EXCEPT ![o] = IF @ = Nobody THEN w ELSE @]
  /\ context' = [context EXCEPT ![w] = o]

\* The pool gives any data context it holds, or a new one.  A run brings a
\* store of its own (SetSharedDataStore), or gets a new one if there is none.
NewDataContext(w, o) ==
  /\ o \in pool \/ (made # Objects /\ o = CHOOSE x \in Objects \ made : TRUE)
  /\ pool' = pool \ {o} /\ made' = made \cup {o}
  /\ owner' = [owner EXCEPT ![o] = w]
  /\ store' = [store EXCEPT ![o] = IF @ = Nobody THEN w ELSE @]
  /\ context' = [context EXCEPT ![w] = o]

\* Mutant of Release: the store stays in the data context.
ReleaseButStore(w) ==
  /\ owner' = [owner EXCEPT ![context[w]] = Nobody]
  /\ pool' = pool \cup {context[w]}
  /\ UNCHANGED <<made, store, context>>

Release(w) ==
  /\ owner' = [owner EXCEPT ![context[w]] = Nobody]
  /\ store' = [store EXCEPT ![context[w]] = Nobody]
  /\ pool' = pool \cup {context[w]}
  /\ UNCHANGED <<made, context>>

-----------------------------------------------------------------------------
Go(r, from, to) == phase[r] = from /\ phase' = [phase EXCEPT ![r] = to]
Tell(r, event) == events' = [events EXCEPT ![r] = Append(@, event)]

\* NewPipeline or Rebuild, and NewDataContext.
Create(r) ==
  /\ Go(r, "new", "created")
  /\ \E o \in Objects : NewDataContext(Self(r), o)
  /\ UNCHANGED <<status, events, workers, done, taskVars>>

\* RiverEngine.Run tells the handler, then waits for a slot.
Announce(r) ==
  /\ Go(r, "created", "announced")
  /\ Tell(r, IF status[r] = "blocked" THEN "resume" ELSE "start")
  /\ UNCHANGED <<contextVars, status, workers, done, taskVars>>

Acquire(r) ==
  /\ Go(r, "announced", "walking")
  /\ workers < Workers
  /\ workers' = workers + 1
  /\ UNCHANGED <<contextVars, status, events, done, taskVars>>

\* The walk ends with the answer of the task, or without it.
WalkEnds(r) ==
  /\ Go(r, "walking", "walked")
  /\ \/ stage[r] = "end" /\ status' = [status EXCEPT ![r] = answer[r]]
     \/ done[r] /\ status' = [status EXCEPT ![r] = "failure"]
  /\ UNCHANGED <<contextVars, events, workers, done, taskVars>>

\* pipeline.Run returns, and releases the data context.
RunReturns(r) ==
  /\ Go(r, "walked", "returned")
  /\ Release(Self(r))
  /\ done' = [done EXCEPT ![r] = TRUE]
  /\ UNCHANGED <<status, events, workers, taskVars>>

\* The deferred calls of RiverEngine.Run, last first.
FreeSlot(r) ==
  /\ Go(r, "returned", "freed")
  /\ workers' = workers - 1
  /\ UNCHANGED <<contextVars, status, events, done, taskVars>>

Report(r) ==
  /\ Go(r, "freed", "over")
  /\ Tell(r, IF status[r] = "blocked" THEN "blocked" ELSE "end")
  /\ UNCHANGED <<contextVars, status, workers, done, taskVars>>

\* CronRun writes the result to the log of the data context.
Log(r) ==
  /\ r \in Scheduled
  /\ Go(r, "over", "logged")
  /\ UNCHANGED <<contextVars, status, events, workers, done, taskVars>>

\* A timeout of the pipeline or of the task, the parent context, or Stop.
Cancel(r) ==
  /\ phase[r] \in {"created", "announced", "walking"}
  /\ ~done[r]
  /\ done' = [done EXCEPT ![r] = TRUE]
  /\ UNCHANGED <<contextVars, engineVars, taskVars>>

-----------------------------------------------------------------------------
Ends == {"success", "failure", "blocked"}

Answer(r, s) ==
  /\ stage' = [stage EXCEPT ![r] = "end"]
  /\ answer' = [answer EXCEPT ![r] = s]

\* Writing to the log of a data context that was released panics.
LogPanics(r) == owner[context[Self(r)]] = Nobody

\* A SubPipeline task is a loop over one item that never looks at its context.
Length(r) == IF kind[r] = "loop" THEN Items ELSE 1
AtLimit(r) == kind[r] = "loop" /\ MaxLoop > 0 /\ turn[r] > MaxLoop

StartTask(r) ==
  /\ phase[r] = "walking" /\ stage[r] = "off"
  /\ \/ kind[r] = "loop" /\ stage' = [stage EXCEPT ![r] = "top"] /\ UNCHANGED answer
     \/ kind[r] = "embed" /\ stage' = [stage EXCEPT ![r] = "checked"] /\ UNCHANGED answer
     \/ kind[r] = "plain" /\ \E s \in Ends : Answer(r, s)
  /\ UNCHANGED <<contextVars, engineVars, done, kind, turn, results, succeeded, late>>

LoopEnds(r) ==
  /\ stage[r] = "top"
  /\ \/ turn[r] > Length(r) /\ Answer(r, "success")
     \/ turn[r] <= Length(r) /\ AtLimit(r)
          /\ Answer(r, IF LogPanics(r) THEN "failure" ELSE "success")
  /\ UNCHANGED <<contextVars, engineVars, done, kind, turn, results, succeeded, late>>

\* Mutant of NextItem: the context is not looked at.
NextItemUnchecked(r) ==
  /\ stage[r] = "top"
  /\ turn[r] <= Length(r) /\ ~AtLimit(r)
  /\ stage' = [stage EXCEPT ![r] = "checked"] /\ UNCHANGED answer
  /\ UNCHANGED <<contextVars, engineVars, done, kind, turn, results, succeeded, late>>

NextItem(r) ==
  /\ stage[r] = "top"
  /\ turn[r] <= Length(r) /\ ~AtLimit(r)
  /\ IF done[r] THEN Answer(r, "failure")
     ELSE stage' = [stage EXCEPT ![r] = "checked"] /\ UNCHANGED answer
  /\ UNCHANGED <<contextVars, engineVars, done, kind, turn, results, succeeded, late>>

BuildFails(r) ==
  /\ stage[r] = "checked"
  /\ Answer(r, "failure")
  /\ UNCHANGED <<contextVars, engineVars, done, kind, turn, results, succeeded, late>>

\* Mutant of BeginInner: an inner run waits for a slot of the engine.
BeginInnerQueued(r) ==
  /\ stage[r] = "checked"
  /\ workers < Workers
  /\ \E o \in Objects : NewDataContext(Inner(r), o)
  /\ stage' = [stage EXCEPT ![r] = "inner"]
  /\ late' = [late EXCEPT ![r] = IF done[r] THEN @ + 1 ELSE @]
  /\ UNCHANGED <<engineVars, done, kind, turn, answer, results, succeeded>>

\* The inner pipeline is run at once: no slot of the engine, no events.
BeginInner(r) ==
  /\ stage[r] = "checked"
  /\ \E o \in Objects : NewDataContext(Inner(r), o)
  /\ stage' = [stage EXCEPT ![r] = "inner"]
  /\ late' = [late EXCEPT ![r] = IF done[r] THEN @ + 1 ELSE @]
  /\ UNCHANGED <<engineVars, done, kind, turn, answer, results, succeeded>>

\* Mutant of Collect: an inner run that failed leaves no place in the results.
CollectSuccess(r, s) ==
  /\ results' = [results EXCEPT ![r] = IF s = "success" THEN Append(@, Inner(r)) ELSE @]
  /\ turn' = [turn EXCEPT ![r] = @ + 1]
  /\ stage' = [stage EXCEPT ![r] = "top"]
  /\ UNCHANGED answer

Collect(r, s) ==
  /\ results' = [results EXCEPT ![r] = Append(@, IF s = "success" THEN Inner(r) ELSE NoResult)]
  /\ turn' = [turn EXCEPT ![r] = @ + 1]
  /\ stage' = [stage EXCEPT ![r] = "top"]
  /\ UNCHANGED answer

\* The inner run returns with status s.  A blocked one is a failed one.
EndInner(r, s) ==
  /\ stage[r] = "inner"
  /\ Release(Inner(r))
  /\ succeeded' = IF s = "success" THEN succeeded \cup {Inner(r)} ELSE succeeded
  /\ IF s # "success" /\ (kind[r] = "embed" \/ BreakOnError \/ LogPanics(r))
     THEN Answer(r, "failure") /\ UNCHANGED <<results, turn>>
     ELSE Collect(r, s)
  /\ UNCHANGED <<engineVars, done, kind, late>>

-----------------------------------------------------------------------------
EngineStep(r) ==
  \/ Announce(r) \/ Acquire(r) \/ WalkEnds(r) \/ RunReturns(r)
  \/ FreeSlot(r) \/ Report(r) \/ Log(r)

TaskStep(r) ==
  \/ StartTask(r) \/ LoopEnds(r) \/ NextItem(r) \/ BeginInner(r)
  \/ \E s \in Ends : EndInner(r, s)

Next == \E r \in Runs : Create(r) \/ Cancel(r) \/ EngineStep(r) \/ TaskStep(r) \/ BuildFails(r)

Spec == Init /\ [][Next]_vars

\* The caller and its tasks go on: the senders of a channel are served in
\* order, and a run asks for a slot once.  Nobody has to cancel anything, and no
\* configuration has to be refused.
FairSpec == Spec /\ \A r \in Runs : WF_vars(EngineStep(r)) /\ WF_vars(TaskStep(r))

-----------------------------------------------------------------------------
\* The runs that go on: their goroutines use the data context they were given.
Active(w) ==
  LET r == w[1] IN
    \/ w = Self(r) /\ phase[r] \in {"created", "announced", "walking", "walked"}
    \/ w[2] > 0 /\ w = Inner(r) /\ stage[r] = "inner"

\* A run finds itself and its own store in its data context as long as it goes
\* on, although data contexts are cleared and used again while tasks of runs
\* that are over still hold them: the pool never has one that is in use, and
\* nothing of an earlier run is left in it (NewDataContext, Release).
RunsOwnTheirContext ==
  \A w \in Runners : Active(w) =>
    /\ owner[context[w]] = w
    /\ store[context[w]] = w
    /\ context[w] \notin pool

\* A loop whose context is done begins at most the inner run it had already
\* checked for, also when its own run is over.
LoopsStop == \A r \in Runs : kind[r] = "loop" => late[r] <= 1

\* A task that succeeds holds a result for each item up to the limit, at its
\* place: what the inner run of the item returned, or nothing if that one did
\* not succeed (and the loop was to go on).
ResultsAreExact ==
  \A r \in Runs : kind[r] # "plain" /\ stage[r] = "end" /\ answer[r] = "success" =>
    /\ Len(results[r]) = IF kind[r] = "embed" THEN 1
                         ELSE IF MaxLoop > 0 /\ MaxLoop < Items THEN MaxLoop ELSE Items
    /\ \A i \in DOMAIN results[r] :
         results[r][i] = IF <<r, i>> \in succeeded THEN <<r, i>> ELSE NoResult

\* A run that was asked for ends and is reported as it began and as it ended,
\* with runs inside runs and fewer slots than runs (liveness, FairSpec).
Reported(r) ==
  events[r] = << IF r \in Resumed THEN "resume" ELSE "start",
                 IF status[r] = "blocked" THEN "blocked" ELSE "end" >>

EveryRunIsReported == \A r \in Runs : phase[r] = "created" ~> Reported(r)

-----------------------------------------------------------------------------
\* What the documentation says and the code does not do.

\* flow_test.go, cron: the job does not panic.  It writes to the log of a data
\* context, which must be that of its run.
LogsFindTheirRun ==
  \A r \in Scheduled : phase[r] = "over" => owner[context[Self(r)]] = Self(r)
=============================================================================
