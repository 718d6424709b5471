--------------------------- MODULE MCWalkerUpdate ---------------------------
(***************************************************************************)
(* Graphs a walk is updated to, for TLC.                                   *)
(***************************************************************************)
EXTENDS WalkerUpdate

CONSTANTS a, b, c

Graph(vs, es) == [vertices |-> vs, edges |-> es]

\* c waits for a; then also for b, for b instead of a, or for nobody.
Chain == Graph({a, c}, {<<a, c>>})
Grown == {Graph({a, b, c}, {<<a, c>>, <<b, c>>}), Graph({b, c}, {<<b, c>>}), Graph({a, b, c}, {<<a, b>>})}

\* c is removed and comes back.
Back == {Graph({a}, {}), Chain}

Plain == {SuccessResponse, BlockedResponse}
Passing == {SuccessResponse}
=============================================================================
