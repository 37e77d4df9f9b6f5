---------------------------- MODULE MCMsuSystem ----------------------------
(* Instances of MsuSystem for TLC. *)
EXTENDS MsuSystem

\* Files of two chunks that fill their last chunk, or do not.
BothTails ==
  {[chunkCount |-> 2, seqNumberLimit |-> 2, tailSeqs |-> t] : t \in {0, 1}}

=============================================================================
