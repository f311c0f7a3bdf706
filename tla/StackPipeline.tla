--------------------------- MODULE StackPipeline ---------------------------
(***************************************************************************)
(* What a generation of parallel effect stacks promises: blocks of input   *)
(* go in one after the other, every task takes the blocks in order and     *)
(* only behind its dependencies, and a block is played only when every     *)
(* task has finished it.  Where blocks are kept and how workers find their *)
(* work is left to ParallelStack, which implements this module.            *)
(***************************************************************************)
EXTENDS Naturals

CONSTANTS
  Tasks,   \* the stacks and terminal tasks of the plan
  Deps     \* the tasks each task reads

VARIABLES
  published,   \* how many blocks of input have been handed to the workers
  finished,    \* for each task, how many blocks it has finished
  played       \* how many blocks the output has begun to play

pipeVars == <<published, finished, played>>

PipeInit ==
  /\ published = 0
  /\ finished = [t \in Tasks |-> 0]
  /\ played = 0

\* The next block of input.
PublishBlock ==
  /\ published' = published + 1
  /\ UNCHANGED <<finished, played>>

\* Task t finishes its next block: the block is there, and so is what t reads.
FinishTask(t) ==
  /\ finished[t] < published
  /\ \A d \in Deps[t] : finished[t] < finished[d]
  /\ finished' = [finished EXCEPT ![t] = @ + 1]
  /\ UNCHANGED <<published, played>>

\* The next block begins to play: every task has finished it.
PlayBlock ==
  /\ \A t \in Tasks : played < finished[t]
  /\ played' = played + 1
  /\ UNCHANGED <<published, finished>>

PipeNext ==
  \/ PublishBlock
  \/ \E t \in Tasks : FinishTask(t)
  \/ PlayBlock

PipeSpec == PipeInit /\ [][PipeNext]_pipeVars
=============================================================================
