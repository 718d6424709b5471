----------------------------- MODULE MCPipeline -----------------------------
(***************************************************************************)
(* Pipelines for TLC.                                                      *)
(***************************************************************************)
EXTENDS Pipeline

CONSTANTS r, a, b, y, c

\* The root fans out to a and b, the Any node y absorbs their failures and
\* the task c needs a.
ForkVertices == {r, a, b, y, c}
ForkEdges == {<<r, a>>, <<r, b>>, <<a, y>>, <<b, y>>, <<a, c>>}

\* r, a and c one after the other.
ChainVertices == {r, a, c}
ChainEdges == {<<r, a>>, <<a, c>>}

Nobody == {}
OnlyR == {r}
OnlyA == {a}
OnlyB == {b}
OnlyC == {c}
OnlyY == {y}
AandB == {a, b}

Plain == {SuccessResponse, BlockedResponse, ErrorResponse(TRUE)}
=============================================================================
