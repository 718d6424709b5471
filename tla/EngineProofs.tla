---------------------------- MODULE EngineProofs ----------------------------
(***************************************************************************)
(* Theorems about Engine, for every set of runs, every length of a loop,   *)
(* every number of slots and every set of data contexts.                   *)
(***************************************************************************)
EXTENDS Engine, TLAPS

-----------------------------------------------------------------------------
(* The data contexts.                                                      *)

Stages == {"off", "top", "checked", "inner", "end"}

Phases == {"new", "created", "announced", "walking", "walked", "returned", "freed", "over", "logged"}

\* What the proofs need to know of types.
TypeInv ==
  /\ made \subseteq Objects /\ pool \subseteq made
  /\ owner \in [Objects -> Runners \cup {Nobody}]
  /\ store \in [Objects -> Runners \cup {Nobody}]
  /\ context \in [Runners -> Objects]
  /\ phase \in [Runs -> Phases]
  /\ kind \in [Runs -> {"plain", "loop", "embed"}]
  /\ stage \in [Runs -> Stages]
  /\ turn \in [Runs -> Nat \ {0}]
  /\ \A r \in Runs :
       /\ stage[r] = "off" => turn[r] = 1
       /\ stage[r] \in {"checked", "inner"} => turn[r] <= Items + 1

\* Nothing is left in a data context that can be given to a run.
Free(o) == o \in Objects /\ (o \in pool \/ o \notin made)
FreeAreCleared == \A o \in Objects : Free(o) => store[o] = Nobody

ActiveAreMade == \A w \in Runners : Active(w) => context[w] \in made

ContextInv == TypeInv /\ FreeAreCleared /\ ActiveAreMade /\ RunsOwnTheirContext

USE EngineAssumption DEF EngineAssumption

LEMMA InitContext == Init => ContextInv
<1> SUFFICES ASSUME Init PROVE ContextInv OBVIOUS
<1>1. (CHOOSE o \in Objects : TRUE) \in Objects OBVIOUS
<1>2. TypeInv
  <2>1. context \in [Runners -> Objects] BY <1>1, Zenon DEF Init
  <2>2. kind \in [Runs -> {"plain", "loop", "embed"}] BY DEF Init
  <2>3. made = {} /\ pool = {} BY DEF Init
  <2>4. owner \in [Objects -> Runners \cup {Nobody}] /\ store \in [Objects -> Runners \cup {Nobody}]
    BY DEF Init
  <2>5. /\ phase \in [Runs -> Phases] /\ stage = [r \in Runs |-> "off"]
        /\ turn = [r \in Runs |-> 1]
    BY DEF Init, Phases
  <2> QED BY <2>1, <2>2, <2>3, <2>4, <2>5 DEF TypeInv, Stages, Phases
<1>3. \A w \in Runners : ~Active(w) BY DEF Init, Active, Self, Inner, Runners
<1> QED BY <1>2, <1>3 DEF ContextInv, FreeAreCleared, ActiveAreMade, RunsOwnTheirContext, Init

\* The object NewDataContext takes is free.
LEMMA TakesFree ==
  ASSUME TypeInv, NEW w \in Runners, NEW o \in Objects, NewDataContext(w, o)
  PROVE  Free(o)
<1>1. CASE o \in pool BY <1>1 DEF Free
<1>2. CASE made # Objects /\ o = CHOOSE x \in Objects \ made : TRUE
  <2>1. \E x \in Objects \ made : TRUE BY <1>2 DEF TypeInv
  <2>2. o \in Objects \ made BY <1>2, <2>1
  <2> QED BY <2>2 DEF Free
<1> QED BY <1>1, <1>2 DEF NewDataContext

\* A run that takes a data context has it for itself.
LEMMA NewKeeps ==
  ASSUME ContextInv, NEW w \in Runners, NEW o \in Objects, NewDataContext(w, o), TypeInv',
         \A u \in Runners : Active(u)' => Active(u) \/ u = w
  PROVE  ContextInv'
<1>1. Free(o) /\ store[o] = Nobody BY TakesFree DEF ContextInv, FreeAreCleared
<1>2. /\ pool' = pool \ {o} /\ made' = made \cup {o}
      /\ owner' = [owner EXCEPT ![o] = w] /\ context' = [context EXCEPT ![w] = o]
      /\ store' = [store EXCEPT ![o] = w]
  BY <1>1 DEF NewDataContext
<1>3. FreeAreCleared'
  BY <1>2 DEF ContextInv, FreeAreCleared, Free, TypeInv
<1>4. ASSUME NEW u \in Runners, Active(u)'
      PROVE  /\ owner'[context'[u]] = u /\ store'[context'[u]] = u
             /\ context'[u] \notin pool' /\ context'[u] \in made'
  <2>1. CASE u = w BY <2>1, <1>2 DEF ContextInv, TypeInv
  <2>2. CASE u # w
    <3>1. Active(u) BY <1>4, <2>2
    <3>2. /\ owner[context[u]] = u /\ store[context[u]] = u
          /\ context[u] \notin pool /\ context[u] \in made
      BY <3>1 DEF ContextInv, RunsOwnTheirContext, ActiveAreMade
    <3>3. context[u] # o BY <1>1, <3>2 DEF Free
    <3> QED BY <2>2, <3>2, <3>3, <1>2 DEF ContextInv, TypeInv
  <2> QED BY <2>1, <2>2
<1> QED BY <1>3, <1>4 DEF ContextInv, ActiveAreMade, RunsOwnTheirContext

\* A run that is over clears its own data context and no other.
LEMMA ReleaseKeeps ==
  ASSUME ContextInv, NEW w \in Runners, Active(w), Release(w), TypeInv',
         \A u \in Runners : Active(u)' => Active(u) /\ u # w
  PROVE  ContextInv'
<1>1. owner[context[w]] = w /\ context[w] \in made
  BY DEF ContextInv, RunsOwnTheirContext, ActiveAreMade
<1>2. FreeAreCleared' BY DEF ContextInv, FreeAreCleared, Free, TypeInv, Release
<1>3. ASSUME NEW u \in Runners, Active(u)'
      PROVE  /\ owner'[context'[u]] = u /\ store'[context'[u]] = u
             /\ context'[u] \notin pool' /\ context'[u] \in made'
  <2>1. Active(u) /\ u # w BY <1>3
  <2>2. /\ owner[context[u]] = u /\ store[context[u]] = u
        /\ context[u] \notin pool /\ context[u] \in made
    BY <2>1 DEF ContextInv, RunsOwnTheirContext, ActiveAreMade
  <2>3. context[u] # context[w] BY <2>1, <2>2, <1>1
  <2> QED BY <2>2, <2>3 DEF Release, ContextInv, TypeInv
<1> QED BY <1>2, <1>3 DEF ContextInv, ActiveAreMade, RunsOwnTheirContext

\* Steps that leave the data contexts alone and let no run begin.
LEMMA OthersKeep ==
  ASSUME ContextInv, UNCHANGED contextVars, TypeInv',
         \A u \in Runners : Active(u)' => Active(u)
  PROVE  ContextInv'
BY DEF ContextInv, contextVars, FreeAreCleared, Free, ActiveAreMade, RunsOwnTheirContext

\* A step of a task that takes no data context: only its stage, turn and answer
\* may change, and it is not inside an inner run before or after.
LEMMA TaskKeeps ==
  ASSUME ContextInv, UNCHANGED contextVars, TypeInv', UNCHANGED phase, NEW r \in Runs,
         stage'[r] # "inner", \A q \in Runs \ {r} : stage'[q] = stage[q] /\ turn'[q] = turn[q]
  PROVE  ContextInv'
<1> SUFFICES \A u \in Runners : Active(u)' => Active(u) BY OthersKeep
<1> QED BY DEF Active, Self, Inner, Runners

LEMMA ContextStep == ContextInv /\ [Next]_vars => ContextInv'
<1> SUFFICES ASSUME ContextInv, [Next]_vars PROVE ContextInv' OBVIOUS
<1> USE DEF ContextInv
<1>1. ASSUME NEW r \in Runs, Create(r) PROVE ContextInv'
  <2>1. PICK o \in Objects : NewDataContext(Self(r), o) BY <1>1 DEF Create
  <2>2. Self(r) \in Runners BY DEF Self, Runners
  <2>3. TypeInv' BY <1>1, <2>1, <2>2 DEF Phases, TypeInv, Create, Go, NewDataContext, taskVars
  <2>4. \A u \in Runners : Active(u)' => Active(u) \/ u = Self(r)
    BY <1>1 DEF Active, Self, Inner, Runners, Create, Go, taskVars, TypeInv
  <2> QED BY <2>1, <2>2, <2>3, <2>4, NewKeeps
<1>2. ASSUME NEW r \in Runs, RunReturns(r) PROVE ContextInv'
  <2>1. Self(r) \in Runners /\ Active(Self(r)) BY <1>2 DEF Self, Runners, Active, RunReturns, Go
  <2>2. context[Self(r)] \in made BY <2>1 DEF ActiveAreMade
  <2>3. TypeInv' BY <1>2, <2>1, <2>2 DEF Phases, TypeInv, RunReturns, Go, Release, taskVars
  <2>4. \A u \in Runners : Active(u)' => Active(u) /\ u # Self(r)
    BY <1>2 DEF Active, Self, Inner, Runners, RunReturns, Go, taskVars, TypeInv
  <2> QED BY <1>2, <2>1, <2>3, <2>4, ReleaseKeeps DEF RunReturns
<1>3. ASSUME NEW r \in Runs,
             \/ Announce(r) \/ Acquire(r) \/ WalkEnds(r) \/ FreeSlot(r)
             \/ Report(r) \/ Log(r) \/ Cancel(r)
      PROVE ContextInv'
  <2> USE DEF Announce, Acquire, WalkEnds, FreeSlot, Report, Log, Cancel, Go, engineVars, taskVars
  <2>1. UNCHANGED <<contextVars, taskVars>> BY <1>3
  <2>2. TypeInv' BY <1>3, <2>1 DEF Phases, TypeInv, contextVars
  <2>3. \A u \in Runners : Active(u)' => Active(u)
    BY <1>3, <2>1 DEF Active, Self, Inner, Runners, TypeInv
  <2> QED BY <2>1, <2>2, <2>3, OthersKeep
<1>4. ASSUME NEW r \in Runs, StartTask(r) \/ LoopEnds(r) \/ NextItem(r) \/ BuildFails(r)
      PROVE ContextInv'
  <2> USE DEF StartTask, LoopEnds, NextItem, BuildFails, Answer, engineVars
  <2>1. UNCHANGED <<contextVars, phase, kind, turn>> BY <1>4
  <2>2. stage'[r] = "checked" => turn[r] <= Items + 1
    <3>1. CASE StartTask(r)
      <4>1. turn[r] = 1 BY <3>1 DEF TypeInv
      <4> QED BY <4>1
    <3>2. CASE NextItem(r)
      <4>1. Length(r) \in Nat /\ Length(r) <= Items + 1 BY DEF Length
      <4>2. turn[r] <= Length(r) /\ turn[r] \in Nat BY <3>2 DEF TypeInv
      <4> QED BY <4>1, <4>2
    <3>3. CASE LoopEnds(r) \/ BuildFails(r) BY <3>3 DEF TypeInv
    <3> QED BY <1>4, <3>1, <3>2, <3>3
  <2>3. TypeInv'
    <3>1. stage' \in [Runs -> Stages] BY <1>4 DEF TypeInv, Stages
    <3>2. stage'[r] \in {"top", "checked", "end"} BY <1>4 DEF TypeInv
    <3>3. \A q \in Runs \ {r} : stage'[q] = stage[q] BY <1>4 DEF TypeInv
    <3> QED BY <2>1, <2>2, <3>1, <3>2, <3>3 DEF TypeInv, contextVars
  <2>4. stage'[r] # "inner" /\ \A q \in Runs \ {r} : stage'[q] = stage[q] BY <1>4 DEF TypeInv
  <2> QED BY <2>1, <2>3, <2>4, TaskKeeps
<1>5. ASSUME NEW r \in Runs, BeginInner(r) PROVE ContextInv'
  <2>1. PICK o \in Objects : NewDataContext(Inner(r), o) BY <1>5 DEF BeginInner
  <2>2. Inner(r) \in Runners BY <1>5 DEF Inner, Runners, BeginInner, TypeInv
  <2>3. TypeInv' BY <1>5, <2>1, <2>2 DEF TypeInv, BeginInner, NewDataContext, engineVars, Stages
  <2>4. \A u \in Runners : Active(u)' => Active(u) \/ u = Inner(r)
    BY <1>5 DEF Active, Self, Inner, Runners, BeginInner, engineVars, TypeInv
  <2> QED BY <2>1, <2>2, <2>3, <2>4, NewKeeps
<1>6. ASSUME NEW r \in Runs, NEW s \in Ends, EndInner(r, s) PROVE ContextInv'
  <2>1. Inner(r) \in Runners /\ Active(Inner(r))
    BY <1>6 DEF Inner, Runners, Active, EndInner, TypeInv
  <2>2. context[Inner(r)] \in made BY <2>1 DEF ActiveAreMade
  <2>3. stage'[r] \in {"top", "end"} /\ turn'[r] \in Nat \ {0}
        /\ stage' = [stage EXCEPT ![r] = stage'[r]] /\ turn' = [turn EXCEPT ![r] = turn'[r]]
        /\ UNCHANGED <<phase, kind>>
    BY <1>6 DEF EndInner, Answer, Collect, TypeInv, engineVars
  <2>4. TypeInv' BY <1>6, <2>1, <2>2, <2>3 DEF TypeInv, EndInner, Release, Stages
  <2>5. \A u \in Runners : Active(u)' => Active(u) /\ u # Inner(r)
    BY <1>6, <2>3 DEF Active, Self, Inner, Runners, TypeInv, EndInner
  <2> QED BY <1>6, <2>1, <2>4, <2>5, ReleaseKeeps DEF EndInner
<1>7. CASE UNCHANGED vars
  <2>1. TypeInv' BY <1>7 DEF TypeInv, vars, contextVars, engineVars, taskVars
  <2>2. \A u \in Runners : Active(u)' => Active(u)
    BY <1>7 DEF Active, Inner, vars, engineVars, taskVars
  <2> QED BY <1>7, <2>1, <2>2, OthersKeep DEF vars
<1> QED BY <1>1, <1>2, <1>3, <1>4, <1>5, <1>6, <1>7 DEF Next, EngineStep, TaskStep

\* The inductive invariant of Engine's data contexts.
THEOREM Invariance == Spec => []ContextInv
<1>1. Init => ContextInv BY InitContext
<1>2. ContextInv /\ [Next]_vars => ContextInv' BY ContextStep
<1> QED BY <1>1, <1>2, PTL DEF Spec

\* A run that goes on finds itself and its own store in its data context: the
\* pool never gives a data context to two runs, and Release clears what
\* NewDataContext would keep (data_context.go).
THEOREM ContextsAreOwned == Spec => []RunsOwnTheirContext
<1>1. ContextInv => RunsOwnTheirContext BY DEF ContextInv
<1> QED BY <1>1, Invariance, PTL

-----------------------------------------------------------------------------
(* The loops.                                                              *)

\* A context that is done stays done, and a loop counts an inner run only then.
LoopInv ==
  /\ done \in [Runs -> BOOLEAN]
  /\ late \in [Runs -> Nat]
  /\ \A r \in Runs : kind[r] = "loop" =>
       /\ late[r] <= 1
       /\ done[r] \/ late[r] = 0
       /\ stage[r] = "checked" => late[r] = 0

LEMMA LoopStep == TypeInv /\ LoopInv /\ [Next]_vars => LoopInv'
<1> SUFFICES ASSUME TypeInv, LoopInv, [Next]_vars PROVE LoopInv' OBVIOUS
<1> USE DEF LoopInv
<1>1. ASSUME NEW r \in Runs,
             \/ Create(r) \/ Cancel(r) \/ Announce(r) \/ Acquire(r) \/ WalkEnds(r)
             \/ RunReturns(r) \/ FreeSlot(r) \/ Report(r) \/ Log(r)
      PROVE LoopInv'
  <2>1. UNCHANGED <<kind, stage, late>>
    BY <1>1 DEF Create, Cancel, Announce, Acquire, WalkEnds, RunReturns, FreeSlot, Report, Log, taskVars
  <2>2. done' = done \/ done' = [done EXCEPT ![r] = TRUE]
    BY <1>1 DEF Create, Cancel, Announce, Acquire, WalkEnds, RunReturns, FreeSlot, Report, Log
  <2> QED BY <2>1, <2>2
<1>2. ASSUME NEW r \in Runs, StartTask(r) \/ LoopEnds(r) \/ BuildFails(r) PROVE LoopInv'
  <2>1. UNCHANGED <<kind, late, done>> BY <1>2 DEF StartTask, LoopEnds, BuildFails
  <2>2. \A q \in Runs : kind[q] = "loop" /\ stage'[q] = "checked" => stage[q] = "checked"
    BY <1>2 DEF StartTask, LoopEnds, BuildFails, Answer, TypeInv
  <2> QED BY <2>1, <2>2
<1>3. ASSUME NEW r \in Runs, NextItem(r) PROVE LoopInv'
  <2>1. UNCHANGED <<kind, late, done>> BY <1>3 DEF NextItem
  <2>2. \A q \in Runs : stage'[q] = "checked" => stage[q] = "checked" \/ ~done[q]
    BY <1>3 DEF NextItem, Answer, TypeInv
  <2> QED BY <2>1, <2>2
<1>4. ASSUME NEW r \in Runs, BeginInner(r) PROVE LoopInv'
  <2>1. UNCHANGED <<kind, done>> /\ stage' = [stage EXCEPT ![r] = "inner"] /\ stage[r] = "checked"
    BY <1>4 DEF BeginInner
  <2>2. CASE done[r]
    <3>1. late' = [late EXCEPT ![r] = late[r] + 1] BY <1>4, <2>2 DEF BeginInner
    <3> QED BY <2>1, <2>2, <3>1 DEF TypeInv
  <2>3. CASE ~done[r]
    <3>1. late' = late BY <1>4, <2>3 DEF BeginInner
    <3> QED BY <2>1, <3>1 DEF TypeInv
  <2> QED BY <2>2, <2>3
<1>5. ASSUME NEW r \in Runs, NEW s \in Ends, EndInner(r, s) PROVE LoopInv'
  <2>1. UNCHANGED <<kind, late, done>> BY <1>5 DEF EndInner
  <2>2. \A q \in Runs : stage'[q] = "checked" => stage[q] = "checked"
    BY <1>5 DEF EndInner, Answer, Collect, TypeInv
  <2> QED BY <2>1, <2>2
<1>6. CASE UNCHANGED vars BY <1>6 DEF vars, taskVars
<1> QED BY <1>1, <1>2, <1>3, <1>4, <1>5, <1>6 DEF Next, EngineStep, TaskStep

\* A loop whose context is done begins at most the inner run it had already
\* checked for (loop.go, the select before each iteration).
THEOREM LoopsStopInTime == Spec => []LoopsStop
<1>1. Init => LoopInv BY DEF Init, LoopInv
<1>2. ContextInv /\ LoopInv /\ [Next]_vars => LoopInv' BY LoopStep DEF ContextInv
<1>3. LoopInv => LoopsStop BY DEF LoopInv, LoopsStop
<1> QED BY <1>1, <1>2, <1>3, Invariance, PTL DEF Spec

-----------------------------------------------------------------------------
(* The results of a loop.                                                  *)

Limited(r) == kind[r] = "loop" /\ MaxLoop > 0

AnswerValues == {"init", "success", "failure", "blocked"}

Expected(r) ==
  IF kind[r] = "embed" THEN 1 ELSE IF MaxLoop > 0 /\ MaxLoop < Items THEN MaxLoop ELSE Items

\* What was collected so far, for the items before this turn.
Collected(r) ==
  /\ \A i \in 1 .. Len(results[r]) :
       results[r][i] = IF <<r, i>> \in succeeded THEN <<r, i>> ELSE NoResult
  /\ \A i \in Nat : <<r, i>> \in succeeded => i < turn[r]
  /\ stage[r] # "end" => Len(results[r]) = turn[r] - 1

\* How far a loop got.
Advanced(r) ==
  kind[r] # "plain" =>
    /\ stage[r] # "end" => turn[r] <= Length(r) + 1 /\ (Limited(r) => turn[r] <= MaxLoop + 1)
    /\ stage[r] \in {"checked", "inner"} =>
         turn[r] <= Length(r) /\ (Limited(r) => turn[r] <= MaxLoop)
    /\ stage[r] = "end" /\ answer[r] = "success" => Len(results[r]) = Expected(r)

ResultInv ==
  /\ results \in [Runs -> Seq(Runners \cup {NoResult})]
  /\ answer \in [Runs -> AnswerValues]
  /\ \A r \in Runs : Collected(r) /\ Advanced(r)

\* What a step does not touch about q stays right.
LEMMA UntouchedStays ==
  ASSUME ResultInv, NEW q \in Runs, kind' = kind, results'[q] = results[q], turn'[q] = turn[q],
         stage'[q] = stage[q], answer'[q] = answer[q],
         \A i \in Nat : <<q, i>> \in succeeded' <=> <<q, i>> \in succeeded
  PROVE  Collected(q)' /\ Advanced(q)'
<1>1. Collected(q) /\ Advanced(q) /\ Len(results[q]) \in Nat BY DEF ResultInv
<1>2. Collected(q)' BY <1>1 DEF Collected
<1>3. Advanced(q)' BY <1>1 DEF Advanced, Limited, Expected, Length
<1> QED BY <1>2, <1>3

\* Steps between inner runs: only the stage and the answer change.
LEMMA ControlStays ==
  ASSUME TypeInv, ResultInv, NEW r \in Runs,
         UNCHANGED <<kind, results, turn, succeeded>>, answer' \in [Runs -> AnswerValues],
         \A q \in Runs \ {r} : stage'[q] = stage[q] /\ answer'[q] = answer[q],
         stage[r] # "end", Advanced(r)'
  PROVE  ResultInv'
<1>1. \A q \in Runs \ {r} : Collected(q)' /\ Advanced(q)' BY UntouchedStays
<1>2. Collected(r)' BY DEF ResultInv, Collected
<1> QED BY <1>1, <1>2 DEF ResultInv

LEMMA ResultStep == TypeInv /\ ResultInv /\ [Next]_vars => ResultInv'
<1> SUFFICES ASSUME TypeInv, ResultInv, [Next]_vars PROVE ResultInv' OBVIOUS
<1> USE DEF Ends
<1>1. ASSUME NEW r \in Runs,
             \/ Create(r) \/ Cancel(r) \/ Announce(r) \/ Acquire(r) \/ WalkEnds(r)
             \/ RunReturns(r) \/ FreeSlot(r) \/ Report(r) \/ Log(r)
      PROVE UNCHANGED taskVars
  BY <1>1 DEF Create, Cancel, Announce, Acquire, WalkEnds, RunReturns, FreeSlot, Report, Log
<1>2. CASE UNCHANGED taskVars
  <2>1. UNCHANGED <<kind, stage, turn, answer, results, succeeded>> BY <1>2 DEF taskVars
  <2>2. \A q \in Runs : Collected(q)' /\ Advanced(q)' BY <2>1, UntouchedStays
  <2> QED BY <2>1, <2>2 DEF ResultInv
<1>3. ASSUME NEW r \in Runs, StartTask(r) PROVE ResultInv'
  <2>1. UNCHANGED <<kind, results, turn, succeeded>> BY <1>3 DEF StartTask
  <2>2. /\ answer' \in [Runs -> AnswerValues]
        /\ \A q \in Runs \ {r} : stage'[q] = stage[q] /\ answer'[q] = answer[q]
    <3>1. CASE UNCHANGED answer
      <4>1. \A q \in Runs \ {r} : stage'[q] = stage[q] BY <1>3 DEF StartTask, Answer, TypeInv
      <4> QED BY <3>1, <4>1 DEF ResultInv
    <3>2. CASE \E s \in Ends : Answer(r, s)
      BY <3>2 DEF Answer, TypeInv, ResultInv, AnswerValues
    <3> QED BY <1>3, <3>1, <3>2 DEF StartTask
  <2>3. Advanced(r)'
    <3>1. CASE kind[r] = "loop"
      <4>1. stage'[r] = "top" BY <1>3, <3>1 DEF StartTask, TypeInv
      <4>2. turn[r] = 1 BY <1>3 DEF StartTask, TypeInv
      <4> QED BY <2>1, <3>1, <4>1, <4>2 DEF Advanced, Length, Limited
    <3>2. CASE kind[r] = "embed"
      <4>1. stage'[r] = "checked" BY <1>3, <3>2 DEF StartTask, TypeInv
      <4>2. turn[r] = 1 BY <1>3 DEF StartTask, TypeInv
      <4> QED BY <2>1, <3>2, <4>1, <4>2 DEF Advanced, Length, Limited
    <3>3. CASE kind[r] = "plain" BY <3>3, <2>1 DEF Advanced
    <3> QED BY <3>1, <3>2, <3>3 DEF TypeInv
  <2>4. stage[r] # "end" BY <1>3 DEF StartTask
  <2> QED BY <2>1, <2>2, <2>3, <2>4, ControlStays
<1>4. ASSUME NEW r \in Runs, LoopEnds(r) PROVE ResultInv'
  <2>1. UNCHANGED <<kind, results, turn, succeeded>> BY <1>4 DEF LoopEnds
  <2>2. /\ answer' \in [Runs -> AnswerValues]
        /\ \A q \in Runs \ {r} : stage'[q] = stage[q] /\ answer'[q] = answer[q]
        /\ stage[r] = "top" /\ stage[r] # "end" /\ stage'[r] = "end"
    BY <1>4 DEF LoopEnds, Answer, TypeInv, ResultInv, AnswerValues
  <2>3. /\ turn[r] \in Nat /\ Len(results[r]) = turn[r] - 1
        /\ kind[r] # "plain" => turn[r] <= Length(r) + 1 /\ (Limited(r) => turn[r] <= MaxLoop + 1)
    BY <2>2 DEF ResultInv, Collected, Advanced, TypeInv
  <2>4. turn[r] > Length(r) \/ (turn[r] <= Length(r) /\ AtLimit(r)) BY <1>4 DEF LoopEnds
  <2>5. kind[r] # "plain" => Len(results[r]) = Expected(r)
    BY <2>3, <2>4 DEF Expected, Length, Limited, AtLimit, TypeInv
  <2>6. Advanced(r)' BY <2>1, <2>2, <2>5 DEF Advanced, Expected
  <2> QED BY <2>1, <2>2, <2>6, ControlStays
<1>5. ASSUME NEW r \in Runs, NextItem(r) \/ BuildFails(r) \/ BeginInner(r) PROVE ResultInv'
  <2> USE DEF NextItem, BuildFails, BeginInner
  <2>1. UNCHANGED <<kind, results, turn, succeeded>> BY <1>5
  <2>2. /\ answer' \in [Runs -> AnswerValues]
        /\ \A q \in Runs \ {r} : stage'[q] = stage[q] /\ answer'[q] = answer[q]
        /\ stage[r] # "end"
        /\ \/ stage'[r] = "end" /\ answer'[r] = "failure"
           \/ stage'[r] = "checked" /\ stage[r] = "top" /\ turn[r] <= Length(r) /\ ~AtLimit(r)
           \/ stage'[r] = "inner" /\ stage[r] = "checked"
    <3>1. CASE UNCHANGED answer BY <1>5, <3>1 DEF Answer, TypeInv, ResultInv
    <3>2. CASE Answer(r, "failure") /\ stage[r] \in {"top", "checked"}
      BY <3>2 DEF Answer, TypeInv, ResultInv, AnswerValues
    <3> QED BY <1>5, <3>1, <3>2
  <2>3. Advanced(r) /\ turn[r] \in Nat BY DEF ResultInv, TypeInv
  <2>4. Advanced(r)' BY <2>1, <2>2, <2>3 DEF Advanced, Length, Limited, AtLimit
  <2> QED BY <2>1, <2>2, <2>4, ControlStays
<1>6. ASSUME NEW r \in Runs, NEW s \in Ends, EndInner(r, s) PROVE ResultInv'
  <2>1. kind' = kind /\ stage[r] = "inner" BY <1>6 DEF EndInner
  <2>2. Collected(r) /\ Advanced(r) /\ turn[r] \in Nat \ {0} /\ results[r] \in Seq(Runners \cup {NoResult})
    BY DEF ResultInv, TypeInv
  <2>3. <<r, turn[r]>> \notin succeeded /\ Len(results[r]) = turn[r] - 1
    BY <2>1, <2>2 DEF Collected
  <2>4. CASE s # "success" /\ Answer(r, "failure") /\ UNCHANGED <<results, turn>>
    <3>1. UNCHANGED <<kind, results, turn, succeeded>> BY <1>6, <2>1, <2>4 DEF EndInner
    <3>2. /\ answer' \in [Runs -> AnswerValues]
          /\ \A q \in Runs \ {r} : stage'[q] = stage[q] /\ answer'[q] = answer[q]
          /\ stage[r] # "end" /\ stage'[r] = "end" /\ answer'[r] = "failure"
      BY <2>1, <2>4 DEF Answer, TypeInv, ResultInv, AnswerValues
    <3>3. Advanced(r)' BY <3>2 DEF Advanced
    <3> QED BY <2>1, <3>1, <3>2, <3>3, ControlStays
  <2>5. CASE Collect(r, s)
    <3> DEFINE x == IF s = "success" THEN Inner(r) ELSE NoResult
    <3>1. /\ results' = [results EXCEPT ![r] = Append(results[r], x)]
          /\ turn' = [turn EXCEPT ![r] = turn[r] + 1]
          /\ stage' = [stage EXCEPT ![r] = "top"] /\ answer' = answer
      BY <2>5 DEF Collect
    <3>2. succeeded' = IF s = "success" THEN succeeded \cup {<<r, turn[r]>>} ELSE succeeded
      BY <1>6 DEF EndInner, Inner
    <3>3. \A q \in Runs \ {r} : Collected(q)' /\ Advanced(q)'
      <4> TAKE q \in Runs \ {r}
      <4>1. /\ results'[q] = results[q] /\ turn'[q] = turn[q] /\ stage'[q] = stage[q]
            /\ answer'[q] = answer[q]
        BY <3>1 DEF ResultInv, TypeInv
      <4>2. \A i \in Nat : <<q, i>> \in succeeded' <=> <<q, i>> \in succeeded BY <3>2
      <4> QED BY <2>1, <4>1, <4>2, UntouchedStays
    <3>4. x \in Runners \cup {NoResult}
      <4>1. turn[r] <= Items + 1 BY <2>1 DEF TypeInv
      <4> QED BY <2>2, <4>1 DEF Inner, Runners
    <3>5. results' \in [Runs -> Seq(Runners \cup {NoResult})]
      BY <2>2, <3>1, <3>4 DEF ResultInv
    <3>6. /\ results'[r] = Append(results[r], x) /\ turn'[r] = turn[r] + 1
          /\ stage'[r] = "top"
      BY <3>1 DEF ResultInv, TypeInv
    <3>7. /\ Len(results'[r]) = turn[r]
          /\ \A i \in 1 .. Len(results[r]) : results'[r][i] = results[r][i]
          /\ results'[r][turn[r]] = x
      BY <2>2, <2>3, <3>4, <3>6
    <3>8. Collected(r)'
      <4>1. ASSUME NEW i \in 1 .. Len(results'[r])
            PROVE results'[r][i] = IF <<r, i>> \in succeeded' THEN <<r, i>> ELSE NoResult
        <5>1. CASE i = turn[r] BY <5>1, <2>3, <3>2, <3>7 DEF Inner
        <5>2. CASE i # turn[r]
          <6>1. i \in 1 .. Len(results[r]) BY <5>2, <2>2, <2>3, <3>7
          <6>2. <<r, i>> \in succeeded' <=> <<r, i>> \in succeeded BY <5>2, <3>2
          <6> QED BY <2>2, <3>7, <6>1, <6>2 DEF Collected
        <5> QED BY <5>1, <5>2
      <4>2. \A i \in Nat : <<r, i>> \in succeeded' => i < turn'[r]
        BY <2>2, <3>2, <3>6 DEF Collected
      <4> QED BY <4>1, <4>2, <2>2, <3>6, <3>7 DEF Collected
    <3>9. Advanced(r)'
      BY <2>1, <2>2, <3>6 DEF Advanced, Length, Limited
    <3> QED BY <3>1, <3>3, <3>5, <3>8, <3>9 DEF ResultInv
  <2> QED BY <1>6, <2>4, <2>5 DEF EndInner
<1> QED BY <1>1, <1>2, <1>3, <1>4, <1>5, <1>6 DEF Next, EngineStep, TaskStep, vars

\* A loop or sub-pipeline that succeeds holds one result for each item up to the
\* limit, at its place: what its inner run returned, or nothing (loop.go).
THEOREM ResultsKeepTheirPlaces == Spec => []ResultsAreExact
<1>1. Init => ResultInv
  <2> SUFFICES ASSUME Init PROVE ResultInv OBVIOUS
  <2>1. /\ results = [r \in Runs |-> <<>>] /\ answer = [r \in Runs |-> "init"]
        /\ succeeded = {} /\ turn = [r \in Runs |-> 1] /\ stage = [r \in Runs |-> "off"]
        /\ kind \in [Runs -> {"plain", "loop", "embed"}]
    BY DEF Init
  <2>2. \A r \in Runs : Collected(r)
    <3> TAKE r \in Runs
    <3>1. results[r] = <<>> /\ Len(results[r]) = 0 /\ turn[r] = 1 BY <2>1
    <3> QED BY <2>1, <3>1 DEF Collected
  <2>3. \A r \in Runs : Advanced(r) BY <2>1 DEF Advanced, Length, Limited
  <2> QED BY <2>1, <2>2, <2>3 DEF ResultInv, AnswerValues
<1>2. ContextInv /\ ResultInv /\ [Next]_vars => ResultInv' BY ResultStep DEF ContextInv
<1>3. ResultInv => ResultsAreExact
  <2> SUFFICES ASSUME ResultInv, NEW r \in Runs,
                      kind[r] # "plain", stage[r] = "end", answer[r] = "success"
               PROVE  /\ Len(results[r]) = Expected(r)
                      /\ \A i \in DOMAIN results[r] :
                           results[r][i] = IF <<r, i>> \in succeeded THEN <<r, i>> ELSE NoResult
    BY DEF ResultsAreExact, Expected
  <2>1. DOMAIN results[r] = 1 .. Len(results[r]) BY DEF ResultInv
  <2> QED BY <2>1 DEF ResultInv, Collected, Advanced
<1> QED BY <1>1, <1>2, <1>3, Invariance, PTL DEF Spec
=============================================================================
