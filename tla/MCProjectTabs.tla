--------------------------- MODULE MCProjectTabs ---------------------------
(* Small instances of ProjectTabs for TLC. *)
EXTENDS ProjectTabs, TLC

(* Tabs, edits and tokens are interchangeable. *)
Symmetry == Permutations(Tabs) \cup Permutations(Edits) \cup Permutations(Tokens)
=============================================================================
