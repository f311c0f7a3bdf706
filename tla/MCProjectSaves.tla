--------------------------- MODULE MCProjectSaves ---------------------------
(* Small instances of ProjectSaves for TLC. *)
EXTENDS ProjectSaves, TLC

(* Projects are interchangeable. *)
Symmetry == Permutations(Projects)
=============================================================================
