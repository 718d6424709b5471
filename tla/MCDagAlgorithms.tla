--------------------------- MODULE MCDagAlgorithms ---------------------------
(***************************************************************************)
(* Graphs for TLC.                                                         *)
(***************************************************************************)
EXTENDS DagAlgorithms

A == <<"a">>
B == <<"b">>
C == <<"c">>
D == <<"d">>
FourIds == {A, B, C, D}

\* All edges between the vertices are tried, so which vertices they are and
\* which of them a walk is called for makes no difference.
FirstIds == {{}, {A}, {A, B}, {A, B, C}, FourIds}
OneStart == {A}
=============================================================================
