-------------------------- MODULE ComplainModeBits --------------------------
(***************************************************************************)
(* MsuComplainMode.c as it stands: the bitmaps are unsigned words, the     *)
(* functions shift and mask them.  The invariants say that the words       *)
(* always hold what the sets of MsuComplainMode say, so that the other     *)
(* modules may use the sets.  Sequence s is bit WordBits - s, the order    *)
(* the words have in an SCM message; chunk c is bit (c - 1) % WordBits of  *)
(* word (c - 1) \div WordBits.                                             *)
(*                                                                         *)
(* A word is a row of WordBits bits, bit 0 the lowest; what is shifted out *)
(* of it is lost.  missedChnkArr, written by getMissedChnkBitMap, is read  *)
(* by no function, and clrRecvdChnkBit and clrRecvdChnkBitMap are not      *)
(* called: they are left out.  A definition marked "mutant" is a plausible *)
(* bug of the one that follows it; no specification uses it.               *)
(***************************************************************************)
EXTENDS Integers, FiniteSets, Sequences

CONSTANTS
  WordBits,    \* CHUNK_NUM_DIV, MSU_MAX_NUM_OF_SEQ: 32
  NumWords,    \* MAX_NUM_CHNKS: the words of recvdChnkArr, 128
  Supported    \* MAX_NUM_CHUNKS_SUPPPORTED: 3968

ASSUME WordsAssumption ==
  /\ WordBits \in Nat \ {0}
  /\ NumWords \in Nat \ {0}
  /\ Supported \in 1 .. (NumWords * WordBits)

Sets == INSTANCE MsuComplainMode WITH MaxChunk <- Supported, MaxSeq <- WordBits

VARIABLES
  recvdSeqBitMap,
  tempMissed,      \* static in getMissedSeqBitMap
  recvdChnkArr,
  seqs, missed, chunks   \* the same as sets, kept by the operators of Sets

words == <<recvdSeqBitMap, tempMissed, recvdChnkArr>>
vars  == <<words, seqs, missed, chunks>>

SeqNums == 1 .. WordBits
\* The chunk numbers a packet or a sync message may name, within the bound.
ChunkNums == 0 .. (Supported + 2)

-----------------------------------------------------------------------------
(* Words and the operators of C on them. *)

Bits == 0 .. (WordBits - 1)
Word == [Bits -> {0, 1}]

Zero == [b \in Bits |-> 0]
SEQUENCE_MASK == [b \in Bits |-> 1]

OneShl(n)    == [b \in Bits |-> IF b = n THEN 1 ELSE 0]                   \* 1 << n
Shr(x, n)    == [b \in Bits |-> IF b + n \in Bits THEN x[b + n] ELSE 0]   \* x >> n
BitOr(x, y)  == [b \in Bits |-> IF x[b] = 1 \/ y[b] = 1 THEN 1 ELSE 0]    \* x | y
BitAnd(x, y) == [b \in Bits |-> IF x[b] = 1 /\ y[b] = 1 THEN 1 ELSE 0]    \* x & y
BitXor(x, y) == [b \in Bits |-> IF x[b] # y[b] THEN 1 ELSE 0]             \* x ^ y

NoWords == [i \in 0 .. (NumWords - 1) |-> Zero]

-----------------------------------------------------------------------------
(* The functions. *)

SeqBit(seqNum) == OneShl(WordBits - seqNum)

isSeqRecvd(seqNum) == BitAnd(recvdSeqBitMap, SeqBit(seqNum)) # Zero

\* mask |= 1 << (32 - index) for each index up to numOfSeqns
SeqMask[numOfSeqns \in 0 .. WordBits] ==
  IF numOfSeqns = 0 THEN Zero
  ELSE BitOr(SeqMask[numOfSeqns - 1], SeqBit(numOfSeqns))

MissedSeqBitsUnmasked(numOfSeqns) ==   \* mutant
  IF BitAnd(recvdSeqBitMap, SeqMask[numOfSeqns]) # Zero
  THEN BitXor(recvdSeqBitMap, SEQUENCE_MASK)
  ELSE tempMissed

MissedSeqBits(numOfSeqns) ==
  IF BitAnd(recvdSeqBitMap, SeqMask[numOfSeqns]) # Zero
  THEN BitAnd(BitXor(recvdSeqBitMap, SEQUENCE_MASK), SeqMask[numOfSeqns])
  ELSE tempMissed

\* The loop shifts the word until it is zero and counts the ones in bit 0; once
\* it is zero there are none.
getMissedSeqCount(seqBitmapVal) ==
  LET ctr[n \in 0 .. WordBits] ==
        IF n = 0 THEN 0 ELSE ctr[n - 1] + Shr(seqBitmapVal, n - 1)[0]
  IN  ctr[WordBits]

InRangeBelow(chnkNum) == chnkNum \in 1 .. (Supported - 1)   \* mutant

InRange(chnkNum) == chnkNum \in 1 .. Supported

ChunkWord(chnkNum) == (chnkNum - 1) \div WordBits

ChunkBit(chnkNum) == OneShl((chnkNum - 1) % WordBits)

isChnkRecvd(chnkNum) ==
  /\ InRange(chnkNum)
  /\ BitAnd(recvdChnkArr[ChunkWord(chnkNum)], ChunkBit(chnkNum)) # Zero

\* getMissedChnkNumsArry: the list in the order it is filled; its length is
\* the result of getMissedChnkBitMap.
missedChnkNums(totalChnksExpected) ==
  LET list[chnkNum \in 0 .. totalChnksExpected] ==
        IF chnkNum = 0 THEN <<>>
        ELSE IF isChnkRecvd(chnkNum) THEN list[chnkNum - 1]
        ELSE Append(list[chnkNum - 1], chnkNum)
  IN  list[totalChnksExpected]

-----------------------------------------------------------------------------
(* A run of calls.  setSeqBitMap puts back any word that getSeqBitMap gave: *)
(* it is called with ccm_seqVal words only.                                 *)

Init ==
  /\ recvdSeqBitMap = Zero
  /\ tempMissed = Zero
  /\ recvdChnkArr = NoWords
  /\ seqs = {}
  /\ missed = {}
  /\ chunks = {}

setRecvdSeqBit(seqNum) ==
  /\ recvdSeqBitMap' = BitOr(recvdSeqBitMap, SeqBit(seqNum))
  /\ seqs' = Sets!SetRecvdSeqBit(seqs, seqNum)
  /\ UNCHANGED <<tempMissed, recvdChnkArr, missed, chunks>>

clearSeqBitMap ==
  /\ recvdSeqBitMap' = Zero
  /\ seqs' = {}
  /\ UNCHANGED <<tempMissed, recvdChnkArr, missed, chunks>>

SeqsOf(word) == {s \in SeqNums : word[WordBits - s] = 1}

setSeqBitMap(seqbitmapVal) ==
  /\ recvdSeqBitMap' = seqbitmapVal
  /\ seqs' = SeqsOf(seqbitmapVal)
  /\ UNCHANGED <<tempMissed, recvdChnkArr, missed, chunks>>

getMissedSeqBitMap(numOfSeqns) ==
  /\ tempMissed' = MissedSeqBits(numOfSeqns)
  /\ missed' = Sets!GetMissedSeqBitMap(seqs, numOfSeqns, missed)
  /\ UNCHANGED <<recvdSeqBitMap, recvdChnkArr, seqs, chunks>>

setRecvdChnkBit(chnkNum) ==
  /\ recvdChnkArr' =
       IF InRange(chnkNum)
       THEN [recvdChnkArr EXCEPT ![ChunkWord(chnkNum)] = BitOr(@, ChunkBit(chnkNum))]
       ELSE recvdChnkArr
  /\ chunks' = Sets!SetRecvdChnkBit(chunks, chnkNum)
  /\ UNCHANGED <<recvdSeqBitMap, tempMissed, seqs, missed>>

complainModeInit ==
  /\ recvdSeqBitMap' = Zero
  /\ recvdChnkArr' = NoWords
  /\ seqs' = {}
  /\ chunks' = {}
  /\ UNCHANGED <<tempMissed, missed>>

Next ==
  \/ \E s \in SeqNums : setRecvdSeqBit(s)
  \/ clearSeqBitMap
  \/ \E w \in Word : setSeqBitMap(w)
  \/ \E n \in 0 .. WordBits : getMissedSeqBitMap(n)
  \/ \E c \in ChunkNums : setRecvdChnkBit(c)
  \/ complainModeInit

Spec == Init /\ [][Next]_vars

-----------------------------------------------------------------------------
(* Properties. *)

\* The words of the sequences hold the sets: no shift leaves the word, and the
\* mask of the last chunk cuts exactly the sequences it does not have.  The
\* count of an SCM message is that of the sequences it asks for.
SeqWordsHoldTheSets ==
  /\ recvdSeqBitMap \in Word /\ tempMissed \in Word
  /\ SeqsOf(recvdSeqBitMap) = seqs
  /\ SeqsOf(tempMissed) = missed
  /\ \A s \in SeqNums : isSeqRecvd(s) = Sets!IsSeqRecvd(seqs, s)
  /\ getMissedSeqCount(tempMissed) = Cardinality(missed)

\* So do the words of the chunks, at the borders between words and for chunk
\* numbers the bitmap refuses; the list of a CCM message names the missing
\* chunks once each and in ascending order.
ChunkWordsHoldTheSets ==
  /\ recvdChnkArr \in [0 .. (NumWords - 1) -> Word]
  /\ \A c \in ChunkNums : isChnkRecvd(c) = Sets!IsChnkRecvd(chunks, c)
  /\ \A total \in ChunkNums :
       LET list == missedChnkNums(total)
       IN  /\ {list[i] : i \in DOMAIN list} = Sets!GetMissedChnkNums(chunks, total)
           /\ \A i, j \in DOMAIN list : i < j => list[i] < list[j]
=============================================================================
