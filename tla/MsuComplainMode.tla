-------------------------- MODULE MsuComplainMode --------------------------
(***************************************************************************)
(* The bookkeeping of MsuComplainMode.c: which sequences of the current    *)
(* chunk have arrived (recvdSeqBitMap) and which chunks are complete       *)
(* (recvdChnkArr).  A bitmap is the set of the numbers whose bit is set;   *)
(* module ComplainModeBits checks that the shifts and masks of the code    *)
(* compute these sets.  The operators take the bitmap they work on as an   *)
(* argument and return the new one: the state itself belongs to the leech. *)
(* A definition marked "mutant" is a plausible bug of the one that follows *)
(* it, here and in MsuLeech; no specification uses it.                     *)
(***************************************************************************)
EXTENDS Naturals, FiniteSets

CONSTANTS
  MaxChunk,   \* the largest chunkCount a session announces
  MaxSeq      \* the largest seqNumberLimit (MSU_MAX_SEQ_NUMBER, 32)

ASSUME MaxChunkAssumption == MaxChunk \in Nat \ {0}
ASSUME MaxSeqAssumption   == MaxSeq \in Nat \ {0}

Seqs   == 1 .. MaxSeq
Chunks == 1 .. MaxChunk

\* The words of ccm_seqVal: word c stands for ccm_seqVal[c - 1].  The leech
\* steps localChunkNumber past a completed chunk, hence one word more.
CcmSlots == 1 .. (MaxChunk + 1)

SetRecvdSeqBit(bits, s) == bits \cup {s}

IsSeqRecvd(bits, s) == s \in bits

(***************************************************************************)
(* getMissedSeqBitMap keeps its result in a static variable, assigned only *)
(* when some bit under the mask is set: with no such bit the caller gets   *)
(* the result of an earlier call (stale).                                  *)
(***************************************************************************)
GetMissedSeqBitMapOffByOne(bits, numOfSeqns, stale) ==   \* mutant
  LET mask == 1 .. (numOfSeqns - 1)
  IN  IF bits \cap mask # {} THEN mask \ bits ELSE stale

GetMissedSeqBitMap(bits, numOfSeqns, stale) ==
  LET mask == 1 .. numOfSeqns
  IN  IF bits \cap mask # {} THEN mask \ bits ELSE stale

SetRecvdChnkBitOnly(recvd, c) == IF c \in Chunks THEN {c} ELSE recvd   \* mutant

SetRecvdChnkBit(recvd, c) == IF c \in Chunks THEN recvd \cup {c} ELSE recvd

IsChnkRecvd(recvd, c) == c \in Chunks /\ c \in recvd

GetMissedChnkNumsOffByOne(recvd, total) ==   \* mutant
  {c \in 1 .. (total - 1) : ~IsChnkRecvd(recvd, c)}

\* The chunk numbers getMissedChnkNumsArry lists; getMissedChnkBitMap is
\* their number.
GetMissedChnkNums(recvd, total) == {c \in 1 .. total : ~IsChnkRecvd(recvd, c)}
=============================================================================
