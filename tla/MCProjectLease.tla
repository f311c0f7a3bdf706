-------------------------- MODULE MCProjectLease ---------------------------
(* The tabs of ProjectLease are interchangeable.                            *)
EXTENDS ProjectLease, TLC
Symmetry == Permutations(Tabs)
=============================================================================
