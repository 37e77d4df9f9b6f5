----------------------------- MODULE MCMsuLeech -----------------------------
(* Instances of MsuLeech for TLC. *)
EXTENDS MsuLeech

\* A file of two chunks of two sequences that fills its last chunk.
FullTail == [chunkCount |-> 2, seqNumberLimit |-> 2, tailSeqs |-> 0]

\* The same with a last chunk of one sequence.
ShortTail == [chunkCount |-> 2, seqNumberLimit |-> 2, tailSeqs |-> 1]

\* Three chunks: a jump may skip a chunk and leave two of them incomplete.
ThreeChunks == [chunkCount |-> 3, seqNumberLimit |-> 2, tailSeqs |-> 1]

BothTails == {FullTail, ShortTail}

ThreeChunksOnly == {ThreeChunks}
=============================================================================
