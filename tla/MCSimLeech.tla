----------------------------- MODULE MCSimLeech -----------------------------
(* Instances of SimLeech for TLC. *)
EXTENDS SimLeech

\* A file of two chunks, of two sequences and of one.
ShortTail == {[chunkCount |-> 2, seqNumberLimit |-> 2, tailSeqs |-> 1]}
=============================================================================
