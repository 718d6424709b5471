----------------------------- MODULE MCDagGraph -----------------------------
(***************************************************************************)
(* Graphs for TLC.                                                         *)
(***************************************************************************)
EXTENDS DagGraph

ThreeIds == {<<"a">>, <<"b">>, <<"c">>}

\* What the theorems assume of ids holds of these.
ASSUME Ids = ThreeIds => JoinIsInjective
=============================================================================
