---------------------------- MODULE WalkerProofs ----------------------------
(***************************************************************************)
(* Theorems about the walker, for every graph, every set of answers and    *)
(* every number of walks.  Acyclicity is not needed for safety.            *)
(***************************************************************************)
EXTENDS Walker, TLAPS

-----------------------------------------------------------------------------
\* The constructors of helper/response.go and the setters stay in Response.
LEMMA ResponseTypes ==
  /\ WarnResponse \in Response
  /\ SuccessResponse \in Response
  /\ NoResponse \in Response
  /\ \A resp \in Response : SetFailureLevel(resp, Warning) \in Response
BY DEF WarnResponse, SuccessResponse, NoResponse, Response, SetFailureLevel,
       FailureLevel, TaskStatus, Normal, Warning, Fatal

\* Demotion, as waitDeps does it, keeps the type of the responses, whether
\* each of them passed, and every level it does not set to Warning.
LEMMA DemotionKeepsPass ==
  ASSUME response \in [Vertices -> Response], NEW v \in Vertices
  PROVE  /\ Demoted(v) \in [Vertices -> Response]
         /\ \A d \in Vertices : /\ Demoted(v)[d].pass = response[d].pass
                                /\ Demoted(v)[d].level \in {response[d].level, Warning}
<1>1. \A resp \in Response : /\ SetFailureLevel(resp, Warning) \in Response
                             /\ SetFailureLevel(resp, Warning).pass = resp.pass
                             /\ SetFailureLevel(resp, Warning).level = Warning
  BY ResponseTypes DEF SetFailureLevel, Response
<1>2. Demoted(v) = [d \in Vertices |->
                      IF v \in AnyNodes \cup NotNodes /\ d \in Deps(v) /\ ~response[d].pass
                      THEN SetFailureLevel(response[d], Warning)
                      ELSE response[d]]
  BY DEF Demoted
<1>3. QED
  BY <1>1, <1>2

-----------------------------------------------------------------------------
\* Every step of the walker keeps the types of its variables.
LEMMA TypeInitially == Init => TypeOK
<1> SUFFICES ASSUME Init PROVE TypeOK
  OBVIOUS
<1>1. verdict \in [Vertices -> {"pending", "pass", "fail"}]
  BY DEF Init, FirstVerdict
<1>2. taskStatus \in [Vertices -> TaskStatus]
  BY DEF Init, TaskStatus
<1>3. response \in [Vertices -> Response]
  BY ResponseTypes DEF Init
<1>4. walks \in 1 .. MaxWalks
  BY CallbackAssumption DEF Init
<1>5. QED
  BY <1>1, <1>2, <1>3, <1>4 DEF Init, TypeOK

LEMMA TypeInductive == TypeOK /\ [Next]_vars => TypeOK'
<1> SUFFICES ASSUME TypeOK, [Next]_vars PROVE TypeOK'
  OBVIOUS
<1> USE DEF TypeOK
<1>1. CASE NewWalk
  <2>1. verdict' \in [Vertices -> {"pending", "pass", "fail"}]
    BY <1>1 DEF NewWalk, FirstVerdict
  <2>2. response' \in [Vertices -> Response]
    BY <1>1, ResponseTypes DEF NewWalk
  <2>3. walks' \in 1 .. MaxWalks
    BY <1>1, CallbackAssumption DEF NewWalk
  <2>4. QED
    BY <1>1, <2>1, <2>2, <2>3 DEF NewWalk
<1>2. CASE Cancel
  BY <1>2 DEF Cancel
<1>3. ASSUME NEW v \in Vertices, WaitDeps(v) PROVE TypeOK'
  BY <1>3, DemotionKeepsPass DEF WaitDeps
<1>4. ASSUME NEW v \in Vertices, WaitCancelled(v) PROVE TypeOK'
  BY <1>4 DEF WaitCancelled
<1>5. ASSUME NEW v \in Vertices, PassOver(v) PROVE TypeOK'
  BY <1>5, ResponseTypes DEF PassOver
<1>6. ASSUME NEW v \in Vertices, Skip(v) PROVE TypeOK'
  BY <1>6, ResponseTypes DEF Skip, SetTaskStatus, TaskStatus
<1>7. ASSUME NEW v \in Vertices, StartCallback(v) PROVE TypeOK'
  BY <1>7 DEF StartCallback
<1>8. ASSUME NEW v \in Vertices, NEW resp \in CallbackResponses[v], CallbackReturns(v, resp)
      PROVE  TypeOK'
  <2>1. resp \in Response
    BY CallbackAssumption
  <2>2. resp.status \in TaskStatus
    BY <2>1 DEF Response
  <2>3. QED
    BY <1>8, <2>1, <2>2 DEF CallbackReturns, SetTaskStatus
<1>9. ASSUME NEW v \in Vertices, Record(v) PROVE TypeOK'
  BY <1>9 DEF Record
<1>10. CASE UNCHANGED vars
  BY <1>10 DEF vars
<1>11. QED
  BY <1>1, <1>2, <1>3, <1>4, <1>5, <1>6, <1>7, <1>8, <1>9, <1>10
     DEF Next, Terminated, Waiter, WalkVertex, Callback, UpstreamFailed, ConditionMismatch

\* Type correctness, for every graph.
THEOREM TypeCorrect == Spec => []TypeOK
BY TypeInitially, TypeInductive, PTL DEF Spec

-----------------------------------------------------------------------------
\* VerdictJustified is not inductive alone: a step that changes the response
\* of a vertex must not be one a verdict was read from.  The vertices that
\* call back are those with a passing verdict, and a response only changes
\* before its vertex is done.
CallbacksHaveVerdict ==
  \A v \in Vertices : pc[v] \in {"running", "returned"} => verdict[v] = "pass"

Inv == TypeOK /\ CallbacksHaveVerdict /\ VerdictJustified

\* The verdict waitDeps computes agrees with the passing dependencies.
LEMMA VerdictsAgree ==
  ASSUME NEW v \in Vertices, NEW pass \in Verdicts(v)
  PROVE  /\ pass => Satisfied(v)
         /\ ~pass => Refused(v)
<1>1. CASE v \in AnyNodes
  <2>1. pass = (\E d \in Deps(v) : response[d].pass)
    BY <1>1 DEF Verdicts
  <2>2. QED
    BY <1>1, <2>1 DEF Satisfied, Refused
<1>2. CASE v \notin AnyNodes /\ v \in NotNodes
  <2>1. PICK d \in Deps(v) : pass = ~response[d].pass
    BY <1>2 DEF Verdicts
  <2>2. QED
    BY <1>2, <2>1 DEF Satisfied, Refused
<1>3. CASE v \notin AnyNodes \cup NotNodes
  <2>1. pass = (\A d \in Deps(v) : response[d].pass)
    BY <1>3 DEF Verdicts
  <2>2. QED
    BY <1>3, <2>1 DEF Satisfied, Refused
<1>4. QED
  BY <1>1, <1>2, <1>3

\* What a vertex's dependencies say depends only on which of them passed, and
\* stays if none of them changes that or leaves "done".
LEMMA JustificationStays ==
  ASSUME NEW v \in Vertices, DepsDone(v),
         \A d \in Deps(v) : pc'[d] = "done" /\ response'[d].pass = response[d].pass
  PROVE  /\ DepsDone(v)'
         /\ Satisfied(v) => Satisfied(v)'
         /\ Refused(v) => Refused(v)'
<1>1. Deps(v)' = Deps(v)
  BY DEF Deps
<1>2. DepsDone(v)'
  BY DEF DepsDone, Deps
<1>3. Satisfied(v) => Satisfied(v)'
  BY <1>1 DEF Satisfied
<1>4. Refused(v) => Refused(v)'
  BY <1>1 DEF Refused
<1>5. QED
  BY <1>2, <1>3, <1>4

\* Inv holds initially: only vertices without dependencies have a verdict.
LEMMA InvInitially == Init => Inv
<1> SUFFICES ASSUME Init PROVE CallbacksHaveVerdict /\ VerdictJustified
  BY TypeInitially DEF Inv
<1>1. CallbacksHaveVerdict
  BY DEF Init, CallbacksHaveVerdict
<1>2. ASSUME NEW v \in Vertices, verdict[v] # "pending"
      PROVE  verdict[v] = "pass" /\ Deps(v) = {}
  BY <1>2 DEF Init, FirstVerdict
<1>3. VerdictJustified
  BY <1>2 DEF VerdictJustified, DepsDone, Satisfied
<1>4. QED
  BY <1>1, <1>3

\* Within a walk no step touches what a recorded response said: it stays
\* recorded, it keeps its pass flag and its level changes to Warning at most.
RecordedStay ==
  \A d \in Vertices : pc[d] = "done" =>
    /\ pc'[d] = "done"
    /\ response'[d].pass = response[d].pass
    /\ response'[d].level \in {response[d].level, Warning}

WithinWalk ==
  \/ Cancel
  \/ \E v \in Vertices : Waiter(v) \/ WalkVertex(v) \/ Callback(v)
  \/ UNCHANGED vars

LEMMA RecordedStayWithinWalk == TypeOK /\ WithinWalk => RecordedStay
<1> SUFFICES ASSUME TypeOK, WithinWalk PROVE RecordedStay
  OBVIOUS
<1> USE DEF TypeOK, RecordedStay
<1>1. CASE Cancel
  BY <1>1 DEF Cancel
<1>2. ASSUME NEW v \in Vertices, WaitDeps(v) PROVE RecordedStay
  BY <1>2, DemotionKeepsPass DEF WaitDeps
<1>3. ASSUME NEW v \in Vertices, WaitCancelled(v) PROVE RecordedStay
  BY <1>3 DEF WaitCancelled
<1>4. ASSUME NEW v \in Vertices, PassOver(v) PROVE RecordedStay
  BY <1>4 DEF PassOver
<1>5. ASSUME NEW v \in Vertices, Skip(v) PROVE RecordedStay
  BY <1>5 DEF Skip
<1>6. ASSUME NEW v \in Vertices, StartCallback(v) PROVE RecordedStay
  BY <1>6 DEF StartCallback
<1>7. ASSUME NEW v \in Vertices, NEW resp, CallbackReturns(v, resp) PROVE RecordedStay
  BY <1>7 DEF CallbackReturns
<1>8. ASSUME NEW v \in Vertices, Record(v) PROVE RecordedStay
  BY <1>8 DEF Record
<1>9. CASE UNCHANGED vars
  BY <1>9 DEF vars
<1>10. QED
  BY <1>1, <1>2, <1>3, <1>4, <1>5, <1>6, <1>7, <1>8, <1>9
     DEF WithinWalk, Waiter, WalkVertex, Callback, UpstreamFailed, ConditionMismatch

\* One vertex of VerdictJustified.
Justified(v) ==
  /\ verdict[v] = "pass" => DepsDone(v) /\ Satisfied(v)
  /\ verdict[v] = "fail" => ctxDone \/ (DepsDone(v) /\ Refused(v))

LEMMA JustifiedStays ==
  ASSUME NEW v \in Vertices, Justified(v), RecordedStay,
         verdict'[v] = verdict[v], ctxDone => ctxDone'
  PROVE  Justified(v)'
<1>1. DepsDone(v) => DepsDone(v)' /\ (Satisfied(v) => Satisfied(v)') /\ (Refused(v) => Refused(v)')
  <2> HAVE DepsDone(v)
  <2>1. \A d \in Deps(v) : pc'[d] = "done" /\ response'[d].pass = response[d].pass
    BY DEF RecordedStay, DepsDone, Deps
  <2>2. QED
    BY <2>1, JustificationStays
<1>2. QED
  BY <1>1 DEF Justified

\* The verdict is the only thing WaitDeps adds to justify, and it is read from
\* responses the step leaves as they passed.
LEMMA JustifiedByWaitDeps ==
  ASSUME TypeOK, RecordedStay, NEW v \in Vertices, WaitDeps(v)
  PROVE  Justified(v)'
<1>1. DepsDone(v)
  BY DEF WaitDeps
<1>2. PICK pass \in Verdicts(v) :
        verdict' = [verdict EXCEPT ![v] = IF pass THEN "pass" ELSE "fail"]
  BY DEF WaitDeps
<1>3. /\ pass => Satisfied(v)
      /\ ~pass => Refused(v)
  BY VerdictsAgree
<1>4. \A d \in Deps(v) : pc'[d] = "done" /\ response'[d].pass = response[d].pass
  BY <1>1 DEF RecordedStay, DepsDone, Deps
<1>5. /\ DepsDone(v)'
      /\ Satisfied(v) => Satisfied(v)'
      /\ Refused(v) => Refused(v)'
  BY <1>1, <1>4, JustificationStays
<1>6. CASE pass
  <2>1. verdict'[v] = "pass"
    BY <1>2, <1>6 DEF TypeOK
  <2>2. QED
    BY <2>1, <1>3, <1>5, <1>6 DEF Justified
<1>7. CASE ~pass
  <2>1. verdict'[v] = "fail"
    BY <1>2, <1>7 DEF TypeOK
  <2>2. QED
    BY <2>1, <1>3, <1>5, <1>7 DEF Justified
<1>8. QED
  BY <1>6, <1>7

\* A walk begins like the first one.
LEMMA JustifiedByNewWalk ==
  ASSUME NewWalk, NEW v \in Vertices
  PROVE  Justified(v)' /\ pc'[v] = "waiting"
<1>1. verdict'[v] # "fail" /\ (verdict'[v] = "pass" => Deps(v) = {})
  BY DEF NewWalk, FirstVerdict
<1>2. Deps(v)' = Deps(v)
  BY DEF Deps
<1>3. QED
  BY <1>1, <1>2 DEF NewWalk, Justified, DepsDone, Satisfied

LEMMA VerdictJustifiedInductive == TypeOK /\ VerdictJustified /\ [Next]_vars => VerdictJustified'
<1> SUFFICES ASSUME TypeOK, VerdictJustified, [Next]_vars, NEW v \in Vertices
             PROVE  Justified(v)'
  BY DEF VerdictJustified, Justified
<1>1. Justified(v)
  BY DEF VerdictJustified, Justified
<1>2. CASE NewWalk
  BY <1>2, JustifiedByNewWalk
<1>3. CASE WithinWalk
  <2>1. RecordedStay
    BY <1>3, RecordedStayWithinWalk
  <2>2. ctxDone => ctxDone'
    BY <1>3 DEF WithinWalk, Cancel, Waiter, WaitDeps, WaitCancelled, WalkVertex, UpstreamFailed,
                ConditionMismatch, PassOver, Skip, StartCallback, Record, Callback,
                CallbackReturns, vars
  <2>3. CASE verdict'[v] = verdict[v]
    BY <2>1, <2>2, <2>3, <1>1, JustifiedStays
  <2>4. CASE WaitDeps(v)
    BY <2>1, <2>4, JustifiedByWaitDeps
  <2>5. CASE WaitCancelled(v)
    BY <2>5 DEF WaitCancelled, Justified, TypeOK
  <2>6. verdict'[v] = verdict[v] \/ WaitDeps(v) \/ WaitCancelled(v)
    BY <1>3 DEF WithinWalk, Cancel, Waiter, WaitDeps, WaitCancelled, WalkVertex, UpstreamFailed,
                ConditionMismatch, PassOver, Skip, StartCallback, Record, Callback,
                CallbackReturns, vars, TypeOK
  <2>7. QED
    BY <2>3, <2>4, <2>5, <2>6
<1>4. QED
  BY <1>2, <1>3 DEF Next, WithinWalk, Terminated

LEMMA CallbacksInductive == TypeOK /\ CallbacksHaveVerdict /\ [Next]_vars => CallbacksHaveVerdict'
<1> SUFFICES ASSUME TypeOK, CallbacksHaveVerdict, [Next]_vars PROVE CallbacksHaveVerdict'
  OBVIOUS
<1> USE DEF TypeOK, CallbacksHaveVerdict
<1>1. CASE NewWalk
  BY <1>1 DEF NewWalk
<1>2. CASE Cancel
  BY <1>2 DEF Cancel
<1>3. ASSUME NEW v \in Vertices, Waiter(v) PROVE CallbacksHaveVerdict'
  BY <1>3 DEF Waiter, WaitDeps, WaitCancelled
<1>4. ASSUME NEW v \in Vertices, PassOver(v) PROVE CallbacksHaveVerdict'
  BY <1>4 DEF PassOver
<1>5. ASSUME NEW v \in Vertices, Skip(v) \/ StartCallback(v) PROVE CallbacksHaveVerdict'
  BY <1>5 DEF Skip, StartCallback
<1>6. ASSUME NEW v \in Vertices, NEW resp, CallbackReturns(v, resp) PROVE CallbacksHaveVerdict'
  BY <1>6 DEF CallbackReturns
<1>7. ASSUME NEW v \in Vertices, Record(v) PROVE CallbacksHaveVerdict'
  BY <1>7 DEF Record
<1>8. CASE UNCHANGED vars
  BY <1>8 DEF vars
<1>9. QED
  BY <1>1, <1>2, <1>3, <1>4, <1>5, <1>6, <1>7, <1>8
     DEF Next, Terminated, WalkVertex, Callback, UpstreamFailed, ConditionMismatch

LEMMA InvInductive == Inv /\ [Next]_vars => Inv'
BY TypeInductive, CallbacksInductive, VerdictJustifiedInductive DEF Inv

\* The invariant holds in every behaviour of the walker.
THEOREM Invariance == Spec => []Inv
BY InvInitially, InvInductive, PTL DEF Spec

\* The verdict every vertex acts on is right, and stays right, for every graph.
THEOREM VerdictsAreJustified == Spec => []VerdictJustified
<1>1. Inv => VerdictJustified
  BY DEF Inv
<1>2. QED
  BY <1>1, Invariance, PTL

\* No callback runs before every dependency of its vertex is recorded.
THEOREM CallbacksStartAfterDeps == Spec => []StartAfterDeps
<1>1. Inv => StartAfterDeps
  BY DEF Inv, CallbacksHaveVerdict, VerdictJustified, StartAfterDeps
<1>2. QED
  BY <1>1, Invariance, PTL

-----------------------------------------------------------------------------
\* A recorded answer is final until the next walk.
THEOREM AnswersAreFinal == Spec => RecordedAnswersAreFinal
<1>1. TypeOK /\ [Next]_vars => [AnswerIsFinal]_vars
  <2> SUFFICES ASSUME TypeOK, [Next]_vars PROVE AnswerIsFinal
    OBVIOUS
  <2>1. CASE NewWalk
    BY <2>1 DEF NewWalk, AnswerIsFinal
  <2>2. CASE WithinWalk
    BY <2>2, RecordedStayWithinWalk DEF RecordedStay, AnswerIsFinal
  <2>3. QED
    BY <2>1, <2>2 DEF Next, WithinWalk, Terminated
<1>2. QED
  BY <1>1, TypeCorrect, PTL DEF Spec, RecordedAnswersAreFinal

\* Settled statuses survive every later answer and every later walk.
THEOREM SettledStatusesAreKept == Spec => SettledStatusesStay
<1>1. TypeOK /\ [Next]_vars => [StatusIsSettled]_vars
  <2> SUFFICES ASSUME TypeOK, [Next]_vars PROVE StatusIsSettled
    OBVIOUS
  <2> USE DEF TypeOK, StatusIsSettled
  <2>1. CASE UNCHANGED taskStatus
    BY <2>1
  <2>2. ASSUME NEW v \in Vertices, NEW status, SetTaskStatus(v, status) PROVE StatusIsSettled
    BY <2>2 DEF SetTaskStatus
  <2>3. UNCHANGED taskStatus \/ \E v \in Vertices : \E status : SetTaskStatus(v, status)
    BY DEF Next, NewWalk, Cancel, Terminated, Waiter, WaitDeps, WaitCancelled, WalkVertex,
           UpstreamFailed, ConditionMismatch, PassOver, Skip, StartCallback, Record, Callback,
           CallbackReturns, vars
  <2>4. QED
    BY <2>1, <2>2, <2>3
<1>2. QED
  BY <1>1, TypeCorrect, PTL DEF Spec, SettledStatusesStay

-----------------------------------------------------------------------------
\* No callback answers with a failure that is already a warning: the
\* constructors of helper/response.go build none.
NoSilentAnswer ==
  \A v \in Vertices : \A resp \in CallbackResponses[v] : resp.pass \/ resp.level # Warning

\* Also between the answer and its record there is no silenced failure.
SilencedInv ==
  \A d \in Vertices :
    pc[d] \in {"returned", "done"} /\ ~response[d].pass /\ response[d].level = Warning =>
      \E v \in AnyNodes \cup NotNodes : d \in Deps(v) /\ verdict[v] # "pending"

LEMMA SilencedInductive ==
  ASSUME NoSilentAnswer
  PROVE  TypeOK /\ SilencedInv /\ [Next]_vars => SilencedInv'
<1> SUFFICES ASSUME TypeOK, SilencedInv, [Next]_vars PROVE SilencedInv'
  OBVIOUS
<1> USE GraphAssumption DEF TypeOK, SilencedInv, Deps
<1>1. CASE NewWalk
  BY <1>1 DEF NewWalk
<1>2. CASE Cancel
  BY <1>2 DEF Cancel
<1>3. ASSUME NEW v \in Vertices, WaitDeps(v) PROVE SilencedInv'
  <2>1. PICK sent \in {"pass", "fail"} : verdict' = [verdict EXCEPT ![v] = sent]
    BY <1>3 DEF WaitDeps
  <2>2. \A w \in Vertices : verdict[w] # "pending" => verdict'[w] # "pending"
    BY <2>1
  <2>3. \A d \in Vertices : response'[d] = response[d] \/ (v \in AnyNodes \cup NotNodes /\ d \in Deps(v))
    BY <1>3 DEF WaitDeps, Demoted
  <2>4. \A d \in Vertices : response'[d].pass = response[d].pass
    BY <1>3, DemotionKeepsPass DEF WaitDeps
  <2>5. verdict'[v] # "pending" /\ UNCHANGED pc
    BY <1>3, <2>1 DEF WaitDeps
  <2>6. QED
    BY <2>2, <2>3, <2>4, <2>5
<1>4. ASSUME NEW v \in Vertices, WaitCancelled(v) PROVE SilencedInv'
  BY <1>4 DEF WaitCancelled
<1>5. ASSUME NEW v \in Vertices, PassOver(v) PROVE SilencedInv'
  BY <1>5 DEF PassOver, WarnResponse
<1>6. ASSUME NEW v \in Vertices, Skip(v) PROVE SilencedInv'
  BY <1>6 DEF Skip, SuccessResponse
<1>7. ASSUME NEW v \in Vertices, StartCallback(v) PROVE SilencedInv'
  BY <1>7 DEF StartCallback
<1>8. ASSUME NEW v \in Vertices, NEW resp \in CallbackResponses[v], CallbackReturns(v, resp)
      PROVE  SilencedInv'
  BY <1>8, NoSilentAnswer DEF CallbackReturns, NoSilentAnswer
<1>9. ASSUME NEW v \in Vertices, Record(v) PROVE SilencedInv'
  BY <1>9 DEF Record
<1>10. CASE UNCHANGED vars
  BY <1>10 DEF vars
<1>11. QED
  BY <1>1, <1>2, <1>3, <1>4, <1>5, <1>6, <1>7, <1>8, <1>9, <1>10
     DEF Next, Terminated, Waiter, WalkVertex, Callback, UpstreamFailed, ConditionMismatch

\* A failure is silenced only by an Any or Not node that depends on it, if no
\* callback answers with a silent failure itself.
THEOREM OnlyLogicNodesSilence ==
  ASSUME NoSilentAnswer
  PROVE  Spec => []SilencedOnlyByLogicNodes
<1>1. Init => SilencedInv
  BY DEF Init, SilencedInv
<1>2. TypeOK /\ SilencedInv /\ [Next]_vars => SilencedInv'
  BY SilencedInductive
<1>3. SilencedInv => SilencedOnlyByLogicNodes
  BY DEF SilencedInv, SilencedOnlyByLogicNodes
<1>4. QED
  BY <1>1, <1>2, <1>3, TypeCorrect, PTL DEF Spec

-----------------------------------------------------------------------------
\* The refinement mapping of passed changes at one vertex.
Passed(v) == pc[v] = "done" /\ response[v].pass

LEMMA PassedUpdate ==
  ASSUME NEW v \in Vertices, NEW pass \in BOOLEAN,
         Passed(v)' <=> pass,
         \A w \in Vertices \ {v} : Passed(w)' <=> Passed(w)
  PROVE  [w \in Vertices |-> pc[w] = "done" /\ response[w].pass]'
           = [[w \in Vertices |-> pc[w] = "done" /\ response[w].pass] EXCEPT ![v] = pass]
<1>1. \A w \in Vertices : (pc'[w] = "done" /\ response'[w].pass)
                             = IF w = v THEN pass ELSE pc[w] = "done" /\ response[w].pass
  BY DEF Passed
<1>2. QED
  BY <1>1

LEMMA DepsCorrespond ==
  ASSUME NEW v \in Vertices, DepsDone(v)
  PROVE  /\ Logic!DepsFinished(v)
         /\ Satisfied(v) => Logic!Satisfiable(v)
         /\ Refused(v) => Logic!Refusable(v)
<1>1. Logic!Deps(v) = Deps(v)
  BY DEF Logic!Deps, Deps
<1>2. \A d \in Deps(v) : d \in Vertices /\ pc[d] = "done"
  BY DEF DepsDone, Deps
<1>3. Logic!DepsFinished(v)
  BY <1>1, <1>2 DEF Logic!DepsFinished
<1>4. Satisfied(v) => Logic!Satisfiable(v)
  BY <1>1, <1>2 DEF Satisfied, Logic!Satisfiable
<1>5. Refused(v) => Logic!Refusable(v)
  BY <1>1, <1>2 DEF Refused, Logic!Refusable
<1>6. QED
  BY <1>3, <1>4, <1>5

\* The walker implements the dependency logic: a verdict, a demotion and the
\* gap between an answer and its record are stuttering steps.
THEOREM Refinement == Spec => ImplementsLogic
<1>1. Init => Logic!Init
  BY DEF Init, Logic!Init
<1>2. Inv /\ [Next]_vars => [Logic!Next]_(Logic!vars)
  <2> SUFFICES ASSUME Inv, [Next]_vars PROVE Logic!Next \/ UNCHANGED Logic!vars
    OBVIOUS
  <2> USE DEF Inv, TypeOK
  <2>1. CASE NewWalk
    <3>1. Logic!Again
      BY <2>1 DEF NewWalk, AllDone, Logic!Again
    <3>2. QED
      BY <3>1 DEF Logic!Next
  <2>2. CASE Cancel
    <3>1. Logic!Stop
      BY <2>2 DEF Cancel, Logic!Stop
    <3>2. QED
      BY <3>1 DEF Logic!Next
  <2>3. ASSUME NEW v \in Vertices, WaitDeps(v) PROVE UNCHANGED Logic!vars
    BY <2>3, DemotionKeepsPass DEF WaitDeps, Logic!vars
  <2>4. ASSUME NEW v \in Vertices, WaitCancelled(v) PROVE UNCHANGED Logic!vars
    BY <2>4 DEF WaitCancelled, Logic!vars
  <2>5. ASSUME NEW v \in Vertices, UpstreamFailed(v) \/ ConditionMismatch(v) PROVE Logic!Next
    <3> USE <2>5 DEF UpstreamFailed, ConditionMismatch, PassOver
    <3>1. Logic!Complete(v)
      <4>1. Passed(v)' <=> TRUE
        BY DEF Passed, WarnResponse
      <4>2. \A w \in Vertices \ {v} : Passed(w)' <=> Passed(w)
        BY DEF Passed
      <4>3. QED
        BY <4>1, <4>2, PassedUpdate DEF Logic!Complete
    <3>2. CASE UpstreamFailed(v)
      BY <3>1, <3>2, DepsCorrespond
         DEF UpstreamFailed, VerdictJustified, Logic!PassOver, Logic!Next
    <3>3. CASE ConditionMismatch(v)
      BY <3>1, <3>3, DepsCorrespond
         DEF ConditionMismatch, VerdictJustified, Logic!PassOver, Logic!Next
    <3>4. QED
      BY <2>5, <3>2, <3>3
  <2>6. ASSUME NEW v \in Vertices, Skip(v) PROVE Logic!Next
    <3>1. Logic!Complete(v)
      <4>1. Passed(v)' <=> TRUE
        BY <2>6 DEF Skip, Passed, SuccessResponse
      <4>2. \A w \in Vertices \ {v} : Passed(w)' <=> Passed(w)
        BY <2>6 DEF Skip, Passed
      <4>3. QED
        BY <2>6, <4>1, <4>2, PassedUpdate DEF Skip, Logic!Complete
    <3>2. QED
      BY <2>6, <3>1, DepsCorrespond DEF Skip, VerdictJustified, Logic!Skip, Logic!Next
  <2>7. ASSUME NEW v \in Vertices, StartCallback(v) PROVE Logic!Next
    <3>1. Logic!DepsFinished(v) /\ Logic!Satisfiable(v)
      BY <2>7, DepsCorrespond DEF StartCallback, VerdictJustified
    <3>2. Logic!Start(v)
      BY <2>7, <3>1 DEF StartCallback, Logic!Start
    <3>3. QED
      BY <3>2 DEF Logic!Next
  <2>8. ASSUME NEW v \in Vertices, NEW resp, CallbackReturns(v, resp)
        PROVE  Logic!Next \/ UNCHANGED Logic!vars
    <3>1. UNCHANGED <<Logic!vars[1], Logic!vars[2]>>
      BY <2>8 DEF CallbackReturns, Logic!vars
    <3>2. ctxDone' = ctxDone \/ (~ctxDone /\ ctxDone')
      BY <2>8 DEF CallbackReturns
    <3>3. QED
      BY <3>1, <3>2 DEF Logic!vars, Logic!Stop, Logic!Next
  <2>9. ASSUME NEW v \in Vertices, Record(v) PROVE Logic!Next
    <3>1. PICK pass \in BOOLEAN : pass <=> response[v].pass
      OBVIOUS
    <3>2. Passed(v)' <=> pass
      BY <2>9, <3>1 DEF Record, Passed
    <3>3. \A w \in Vertices \ {v} : Passed(w)' <=> Passed(w)
      BY <2>9 DEF Record, Passed
    <3>4. Logic!Finish(v, pass)
      BY <2>9, <3>2, <3>3, PassedUpdate DEF Record, Logic!Finish
    <3>5. QED
      BY <3>4 DEF Logic!Next
  <2>10. CASE UNCHANGED vars
    BY <2>10 DEF vars, Logic!vars
  <2>11. QED
    BY <2>1, <2>2, <2>3, <2>4, <2>5, <2>6, <2>7, <2>8, <2>9, <2>10
       DEF Next, Terminated, Waiter, WalkVertex, Callback
<1>3. QED
  BY <1>1, <1>2, Invariance, PTL DEF Spec, ImplementsLogic, Logic!Spec
=============================================================================
