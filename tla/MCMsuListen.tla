----------------------------- MODULE MCMsuListen -----------------------------
(* Instances of MsuListen for TLC. *)
EXTENDS MsuListen

\* Files of one chunk: two sequences that fill it, or one that does not.
OneChunk == {[chunkCount |-> 1, seqNumberLimit |-> 2, tailSeqs |-> 0],
             [chunkCount |-> 1, seqNumberLimit |-> 2, tailSeqs |-> 1]}
=============================================================================
