----------------------------- MODULE Responses -----------------------------
(***************************************************************************)
(* What a task answers: the response objects of helper/response.go and the *)
(* enumerations of types.go they are built from.  The data a response      *)
(* carries is left out (no property here tells two payloads apart) and an  *)
(* error is kept only as "there is one", which is what GraphWalker.Walk    *)
(* asks of it.                                                             *)
(***************************************************************************)
EXTENDS Naturals

\* types.go: FailureLevel is an iota, compared with > by the walkers.
Normal  == 0
Warning == 1
Error   == 2
Fatal   == 3

FailureLevel == Normal .. Fatal

TaskStatus == {"init", "blocked", "skipped", "success", "failure"}

\* The states Pipeline.SetTaskStatus never overwrites.
SettledStatus == {"skipped", "success", "failure"}

Response == [pass : BOOLEAN, level : FailureLevel, err : BOOLEAN, status : TaskStatus]

ErrorResponse(err) == [pass |-> FALSE, level |-> Error, err |-> err, status |-> "failure"]
FatalResponse == [pass |-> FALSE, level |-> Fatal, err |-> TRUE, status |-> "failure"]
WarnResponse == [pass |-> TRUE, level |-> Warning, err |-> TRUE, status |-> "success"]
BlockedResponse == [pass |-> FALSE, level |-> Normal, err |-> FALSE, status |-> "blocked"]
SuccessResponse == [pass |-> TRUE, level |-> Normal, err |-> FALSE, status |-> "success"]

\* The zero value of the struct, whose empty Status GetStatus reads as init:
\* it stands for "no response recorded yet".
NoResponse == [pass |-> FALSE, level |-> Normal, err |-> FALSE, status |-> "init"]

SetPass(r, pass) == [r EXCEPT !.pass = pass]
SetFailureLevel(r, level) == [r EXCEPT !.level = level]

\* What helper's constructors can return to a component.
AnyConstructed ==
  {SuccessResponse, WarnResponse, BlockedResponse,
   ErrorResponse(TRUE), ErrorResponse(FALSE), FatalResponse}
=============================================================================
