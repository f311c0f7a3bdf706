-------------------------- MODULE MCProjectLibrary --------------------------
(* Two projects that share a body, and a newer document of the first.       *)
EXTENDS ProjectLibrary, TLC
Doc(p, r, t) == [project |-> p, revision |-> r, text |-> t]
TwoProjects == {Doc("P", 1, "s"), Doc("P", 2, "s"), Doc("Q", 1, "s")}
Shared == [d \in Documents |-> IF d.revision = 2 THEN {"k", "l"} ELSE {"k"}]
Distinct == [b \in Bodies |-> [content |-> b]]
Equal == [b \in Bodies |-> [content |-> "k"]]
Symmetry == Permutations(Mains)
=============================================================================
