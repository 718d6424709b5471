-------------------------- MODULE DependencyLogic --------------------------
(***************************************************************************)
(* What a walk of the graph promises, without goroutines, channels or      *)
(* verdicts: a vertex starts only once every dependency has finished and   *)
(* only if the dependencies satisfy it, it is visited once per walk, and   *)
(* it is passed over only if they do not satisfy it, if one of its         *)
(* conditions may fail, or if the walk was stopped.  Walker implements it. *)
(*                                                                         *)
(* The logic is the code's: the three node types of dag/node.go as         *)
(* waitDeps reads them.  A vertex that is passed over counts as passed for *)
(* its own dependents, because upstream failures and failed conditions are *)
(* recorded with NewWarnResponse.                                          *)
(***************************************************************************)
CONSTANTS Vertices, Edges, AnyNodes, NotNodes, Conditional, SkipExecution

VARIABLES phase,    \* [Vertices -> {"pending", "running", "finished"}]
          passed,   \* [Vertices -> BOOLEAN], TRUE only once finished
          stopped   \* the context of the walk is done

vars == <<phase, passed, stopped>>

Deps(v) == {d \in Vertices : <<d, v>> \in Edges}

DepsFinished(v) == \A d \in Deps(v) : phase[d] = "finished"

\* The dependencies may let v run.
Satisfiable(v) ==
  \/ Deps(v) = {}
  \/ v \in AnyNodes /\ \E d \in Deps(v) : passed[d]
  \/ v \in NotNodes /\ \E d \in Deps(v) : ~passed[d]
  \/ v \notin AnyNodes \cup NotNodes /\ \A d \in Deps(v) : passed[d]

\* The dependencies may keep v from running.  Only a Not node with several
\* dependencies can be both: the last one waitDeps reads decides.
Refusable(v) ==
  \/ v \in AnyNodes /\ \A d \in Deps(v) : ~passed[d]
  \/ v \in NotNodes /\ \E d \in Deps(v) : passed[d]
  \/ v \notin AnyNodes \cup NotNodes /\ \E d \in Deps(v) : ~passed[d]

Init ==
  /\ phase = [v \in Vertices |-> "pending"]
  /\ passed = [v \in Vertices |-> FALSE]
  /\ stopped = FALSE

Stop ==
  /\ ~stopped
  /\ stopped' = TRUE
  /\ UNCHANGED <<phase, passed>>

Start(v) ==
  /\ phase[v] = "pending"
  /\ DepsFinished(v)
  /\ Satisfiable(v)
  /\ v \notin SkipExecution
  /\ phase' = [phase EXCEPT ![v] = "running"]
  /\ UNCHANGED <<passed, stopped>>

Finish(v, pass) ==
  /\ phase[v] = "running"
  /\ phase' = [phase EXCEPT ![v] = "finished"]
  /\ passed' = [passed EXCEPT ![v] = pass]
  /\ UNCHANGED stopped

Complete(v) ==
  /\ phase[v] = "pending"
  /\ phase' = [phase EXCEPT ![v] = "finished"]
  /\ passed' = [passed EXCEPT ![v] = TRUE]
  /\ UNCHANGED stopped

\* A vertex configured with skip_execution answers without running.
Skip(v) ==
  /\ v \in SkipExecution
  /\ DepsFinished(v)
  /\ Satisfiable(v)
  /\ Complete(v)

PassOver(v) ==
  /\ \/ stopped
     \/ DepsFinished(v) /\ (Refusable(v) \/ v \in Conditional)
  /\ Complete(v)

\* The pipeline walks its graph again, with a new walker.
Again ==
  /\ \A v \in Vertices : phase[v] = "finished"
  /\ phase' = [v \in Vertices |-> "pending"]
  /\ passed' = [v \in Vertices |-> FALSE]
  /\ stopped' = FALSE

Next ==
  \/ Stop
  \/ Again
  \/ \E v \in Vertices :
        \/ Start(v)
        \/ \E pass \in BOOLEAN : Finish(v, pass)
        \/ Skip(v)
        \/ PassOver(v)

Spec == Init /\ [][Next]_vars
=============================================================================
