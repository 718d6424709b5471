------------------------------ MODULE MCWalker ------------------------------
(***************************************************************************)
(* A graph for TLC.  The root r fans out to a and b; the Any node y and    *)
(* the Not node n absorb failures, the task d needs both a and b.          *)
(***************************************************************************)
EXTENDS Walker

CONSTANTS r, a, b, y, n, d

MCVertices == {r, a, b, y, n, d}
MCEdges == {<<r, a>>, <<r, b>>, <<a, y>>, <<b, y>>, <<a, n>>, <<b, n>>, <<a, d>>, <<b, d>>}
MCAny == {y}
MCNot == {n}
MCConditional == {d}
MCSkip == {d}
\* A builtin node succeeds, unless the context is done before it answers.
\* The root succeeds (what its failure does below it, a failure of a does),
\* a answers everything there is.
MCResponses ==
  [v \in MCVertices |->
     CASE v = r -> {SuccessResponse}
       [] v = a -> {SuccessResponse, BlockedResponse, ErrorResponse(TRUE), FatalResponse}
       [] OTHER -> {SuccessResponse, ErrorResponse(TRUE)}]
=============================================================================
