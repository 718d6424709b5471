------------------------------ MODULE MCEngine ------------------------------
(***************************************************************************)
(* Runs of an engine for TLC.                                              *)
(***************************************************************************)
EXTENDS Engine, TLC

CONSTANTS p, q

Both == {p, q}
OnlyP == {p}
OnlyQ == {q}

\* A loop beside a task that is plain or holds a run of its own.
MixedKinds == (p :> {"loop"}) @@ (q :> {"plain", "embed"})
PlainKinds == [r \in Both |-> {"plain"}]
=============================================================================
