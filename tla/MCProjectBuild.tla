--------------------------- MODULE MCProjectBuild ---------------------------
(***************************************************************************)
(* ProjectBuild on small instances, and what is checked of it.             *)
(***************************************************************************)
EXTENDS ProjectBuild, TLC

Symmetry == Permutations(Request) \cup Permutations(Plan) \cup Permutations(Input)
=============================================================================
