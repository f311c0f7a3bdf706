-------------------------- MODULE MCEffectMailbox --------------------------
(* Two updates of different lengths, so that a torn copy differs in both.   *)
EXTENDS EffectMailbox
MCSize == [u \in Updates |-> u + 1]
=============================================================================
