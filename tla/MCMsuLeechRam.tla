--------------------------- MODULE MCMsuLeechRam ---------------------------
(* Instances of MsuLeechRam for TLC. *)
EXTENDS MsuLeechRam

FullTail  == [chunkCount |-> 2, seqNumberLimit |-> 2, tailSeqs |-> 0]
ShortTail == [chunkCount |-> 2, seqNumberLimit |-> 2, tailSeqs |-> 1]

\* Two chunks of two sequences, the second with two or with one.
BothTails == {FullTail, ShortTail}

ShortTailOnly == {ShortTail}
=============================================================================
