-------------------------- MODULE MCParallelStack --------------------------
(* Plans for the model checker: two stacks on two workers that a master on  *)
(* the first worker sums, and a chain of two tasks.                         *)
EXTENDS ParallelStack
MixTasks == {0, 1, 2}
MixOwner == [t \in MixTasks |-> IF t = 1 THEN "w2" ELSE "w1"]
MixDeps == [t \in MixTasks |-> IF t = 2 THEN {0, 1} ELSE {}]
ChainTasks == {0, 1}
ChainOwner == [t \in ChainTasks |-> IF t = 0 THEN "w1" ELSE "w2"]
ChainDeps == [t \in ChainTasks |-> {d \in ChainTasks : d < t}]
=============================================================================
