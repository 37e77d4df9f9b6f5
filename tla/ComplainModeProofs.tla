------------------------- MODULE ComplainModeProofs -------------------------
(***************************************************************************)
(* The words of MsuComplainMode.c hold the sets of module MsuComplainMode, *)
(* for every width of a word, every number of words and every limit on the *)
(* chunks.  A word is described by SeqsOf, the set of its bits, and the    *)
(* loops by LoopLemmas.                                                    *)
(***************************************************************************)
EXTENDS ComplainModeBits, LoopLemmas, FiniteSetTheorems

LEMMA WordBitsNat == WordBits \in Nat /\ WordBits # 0
  BY WordsAssumption

-----------------------------------------------------------------------------
(* Operators on words as operators on sets. *)

\* Bits and sequences are the same positions, counted from either end.
LEMMA BitOfSeq ==
  /\ \A s \in SeqNums : WordBits - s \in Bits
  /\ \A b \in Bits : WordBits - b \in SeqNums /\ WordBits - (WordBits - b) = b
  /\ \A s, t \in SeqNums : WordBits - s = WordBits - t => s = t
  BY WordBitsNat DEF SeqNums, Bits

LEMMA WordTypes ==
  /\ Zero \in Word /\ SEQUENCE_MASK \in Word
  /\ \A n : OneShl(n) \in Word
  /\ \A x, y : BitOr(x, y) \in Word /\ BitAnd(x, y) \in Word /\ BitXor(x, y) \in Word
  BY DEF Word, Zero, SEQUENCE_MASK, OneShl, BitOr, BitAnd, BitXor

LEMMA ZeroIsEmpty == SeqsOf(Zero) = {}
  BY BitOfSeq DEF SeqsOf, Zero

\* Only zero has no bits.
LEMMA EmptyIsZero ==
  ASSUME NEW x \in Word, x # Zero
  PROVE  SeqsOf(x) # {}
<1>1. PICK b \in Bits : x[b] # 0
  BY DEF Word, Zero
<1>2. x[b] = 1
  BY <1>1 DEF Word
<1>3. WordBits - b \in SeqNums /\ x[WordBits - (WordBits - b)] = 1
  BY <1>2, BitOfSeq
<1> QED
  BY <1>3 DEF SeqsOf

LEMMA SeqsOfOr ==
  ASSUME NEW x, NEW y
  PROVE  SeqsOf(BitOr(x, y)) = SeqsOf(x) \cup SeqsOf(y)
  BY BitOfSeq DEF SeqsOf, BitOr

LEMMA SeqsOfAnd ==
  ASSUME NEW x, NEW y
  PROVE  SeqsOf(BitAnd(x, y)) = SeqsOf(x) \cap SeqsOf(y)
  BY BitOfSeq DEF SeqsOf, BitAnd

LEMMA SeqsOfNot ==
  ASSUME NEW x \in Word
  PROVE  SeqsOf(BitXor(x, SEQUENCE_MASK)) = SeqNums \ SeqsOf(x)
<1>1. \A b \in Bits : x[b] \in {0, 1}
  BY DEF Word
<1> QED
  BY <1>1, BitOfSeq DEF SeqsOf, BitXor, SEQUENCE_MASK

LEMMA SeqsOfSeqBit ==
  ASSUME NEW s \in SeqNums
  PROVE  SeqsOf(SeqBit(s)) = {s}
  BY BitOfSeq DEF SeqsOf, SeqBit, OneShl

-----------------------------------------------------------------------------
(* The mask of the first sequences of a chunk. *)

LEMMA MaskLoop ==
  /\ SeqMask[0] = Zero
  /\ \A n \in 1 .. WordBits : SeqMask[n] = BitOr(SeqMask[n - 1], SeqBit(n))
<1> DEFINE round == [n \in 1 .. WordBits |-> [x \in Word |-> BitOr(x, SeqBit(n))]]
<1>1. round \in [1 .. WordBits -> [Word -> Word]]
  BY WordTypes
<1>2. \A n \in 1 .. WordBits : \A x \in Word : round[n][x] = BitOr(x, SeqBit(n))
  OBVIOUS
<1> HIDE DEF round
<1>3. PICK f : IsLoop(f, WordBits, Word, Zero, round)
  BY <1>1, WordTypes, WordBitsNat, LoopExists
<1>4. /\ f \in [0 .. WordBits -> Word]
      /\ f[0] = Zero
      /\ \A n \in 1 .. WordBits : f[n - 1] \in Word /\ f[n] = round[n][f[n - 1]]
  BY <1>3, WordBitsNat, LoopRounds
<1>5. \A n \in 0 .. WordBits :
        f[n] = IF n = 0 THEN Zero ELSE BitOr(f[n - 1], SeqBit(n))
  BY <1>2, <1>4, WordBitsNat
<1>6. f = [n \in 0 .. WordBits |-> IF n = 0 THEN Zero ELSE BitOr(f[n - 1], SeqBit(n))]
  <2>1. f = [n \in 0 .. WordBits |-> f[n]]
    BY <1>4
  <2> QED
    BY <1>5, <2>1
<1>7. SeqMask = [n \in 0 .. WordBits |->
                   IF n = 0 THEN Zero ELSE BitOr(SeqMask[n - 1], SeqBit(n))]
  BY <1>6 DEF SeqMask
<1>8. \A n \in 0 .. WordBits :
        SeqMask[n] = IF n = 0 THEN Zero ELSE BitOr(SeqMask[n - 1], SeqBit(n))
  BY <1>7
<1>9. 0 \in 0 .. WordBits /\ \A n \in 1 .. WordBits : n \in 0 .. WordBits /\ n # 0
  BY WordBitsNat
<1> QED
  BY <1>8, <1>9

LEMMA MaskIsFirst ==
  ASSUME NEW n \in 0 .. WordBits
  PROVE  SeqMask[n] \in Word /\ SeqsOf(SeqMask[n]) = 1 .. n
<1> DEFINE S == {m \in 0 .. WordBits :
                   SeqMask[m] \in Word /\ SeqsOf(SeqMask[m]) = 1 .. m}
<1>1. 0 \in S
  BY MaskLoop, WordTypes, ZeroIsEmpty, WordBitsNat
<1>2. ASSUME NEW m \in 1 .. WordBits, m - 1 \in S
      PROVE  m \in S
  <2>1. m \in SeqNums /\ m \in 0 .. WordBits
    BY WordBitsNat DEF SeqNums
  <2>2. SeqMask[m] = BitOr(SeqMask[m - 1], SeqBit(m))
    BY MaskLoop
  <2>3. SeqsOf(SeqMask[m]) = (1 .. (m - 1)) \cup {m}
    BY <1>2, <2>1, <2>2, SeqsOfOr, SeqsOfSeqBit
  <2>4. (1 .. (m - 1)) \cup {m} = 1 .. m
    BY WordBitsNat
  <2> QED
    BY <2>1, <2>2, <2>3, <2>4, WordTypes
<1> HIDE DEF S
<1>3. \A m \in 0 .. WordBits : m \in S
  BY <1>1, <1>2, WordBitsNat, InductionUpTo
<1> QED
  BY <1>3 DEF S

\* getMissedSeqBitMap computes on words what GetMissedSeqBitMap does on sets.
LEMMA MissedWordIsMissedSet ==
  ASSUME NEW n \in 0 .. WordBits, recvdSeqBitMap \in Word, tempMissed \in Word
  PROVE  /\ MissedSeqBits(n) \in Word
         /\ SeqsOf(MissedSeqBits(n))
              = Sets!GetMissedSeqBitMap(SeqsOf(recvdSeqBitMap), n, SeqsOf(tempMissed))
<1> DEFINE under == BitAnd(recvdSeqBitMap, SeqMask[n])
<1>1. SeqMask[n] \in Word /\ SeqsOf(SeqMask[n]) = 1 .. n
  BY MaskIsFirst
<1>2. 1 .. n \subseteq SeqNums
  BY WordBitsNat DEF SeqNums
<1>3. under \in Word /\ SeqsOf(under) = SeqsOf(recvdSeqBitMap) \cap (1 .. n)
  BY <1>1, WordTypes, SeqsOfAnd
<1>4. under # Zero <=> SeqsOf(recvdSeqBitMap) \cap (1 .. n) # {}
  BY <1>3, EmptyIsZero, ZeroIsEmpty
<1>5. SeqsOf(BitAnd(BitXor(recvdSeqBitMap, SEQUENCE_MASK), SeqMask[n]))
        = (1 .. n) \ SeqsOf(recvdSeqBitMap)
  BY <1>1, <1>2, SeqsOfAnd, SeqsOfNot
<1> QED
  BY <1>4, <1>5, WordTypes DEF MissedSeqBits, Sets!GetMissedSeqBitMap

LEMMA SeqTestIsMembership ==
  ASSUME NEW s \in SeqNums, recvdSeqBitMap \in Word
  PROVE  isSeqRecvd(s) <=> s \in SeqsOf(recvdSeqBitMap)
<1>1. SeqsOf(BitAnd(recvdSeqBitMap, SeqBit(s))) = SeqsOf(recvdSeqBitMap) \cap {s}
  BY SeqsOfAnd, SeqsOfSeqBit
<1> QED
  BY <1>1, WordTypes, EmptyIsZero, ZeroIsEmpty DEF isSeqRecvd

-----------------------------------------------------------------------------
(* The count of an SCM message. *)

LEMMA CountLoop ==
  ASSUME NEW x \in Word
  PROVE  \E ctr \in [0 .. WordBits -> Nat] :
           /\ getMissedSeqCount(x) = ctr[WordBits]
           /\ ctr[0] = 0
           /\ \A n \in 1 .. WordBits : ctr[n] = ctr[n - 1] + x[n - 1]
<1> DEFINE round == [n \in 1 .. WordBits |-> [k \in Nat |-> k + Shr(x, n - 1)[0]]]
           IsCtr(f) == f = [n \in 0 .. WordBits |->
                              IF n = 0 THEN 0 ELSE f[n - 1] + Shr(x, n - 1)[0]]
<1>1. \A n \in 1 .. WordBits : Shr(x, n - 1)[0] = x[n - 1] /\ x[n - 1] \in {0, 1}
  BY WordBitsNat DEF Shr, Bits, Word
<1>2. round \in [1 .. WordBits -> [Nat -> Nat]]
  BY <1>1
<1>3. \A n \in 1 .. WordBits : \A k \in Nat : round[n][k] = k + Shr(x, n - 1)[0]
  OBVIOUS
<1> HIDE DEF round
<1>4. PICK f : IsLoop(f, WordBits, Nat, 0, round)
  BY <1>2, WordBitsNat, LoopExists
<1>5. /\ f \in [0 .. WordBits -> Nat]
      /\ f[0] = 0
      /\ \A n \in 1 .. WordBits : f[n - 1] \in Nat /\ f[n] = round[n][f[n - 1]]
  BY <1>4, WordBitsNat, LoopRounds
<1>6. \A n \in 0 .. WordBits : f[n] = IF n = 0 THEN 0 ELSE f[n - 1] + Shr(x, n - 1)[0]
  <2>1. \A n \in 0 .. WordBits : n = 0 \/ n \in 1 .. WordBits
    BY WordBitsNat
  <2> QED
    BY <1>3, <1>5, <2>1
<1>7. IsCtr(f)
  <2>1. f = [n \in 0 .. WordBits |-> f[n]]
    BY <1>5
  <2> QED
    BY <1>6, <2>1
<1>8. PICK g : IsCtr(g) /\ getMissedSeqCount(x) = g[WordBits]
  <2>1. IsCtr(CHOOSE g : IsCtr(g))
    BY <1>7
  <2>2. getMissedSeqCount(x) = (CHOOSE g : IsCtr(g))[WordBits]
    BY DEF getMissedSeqCount
  <2> QED
    BY <2>1, <2>2
<1>9. \A n \in 0 .. WordBits : g[n] = IF n = 0 THEN 0 ELSE g[n - 1] + x[n - 1]
  BY <1>1, <1>8, WordBitsNat
<1>10. g[0] = 0 /\ \A n \in 1 .. WordBits : g[n] = g[n - 1] + x[n - 1]
  BY <1>9, WordBitsNat
<1>11. g \in [0 .. WordBits -> Nat]
  <2> DEFINE S == {n \in 0 .. WordBits : g[n] \in Nat}
  <2>1. 0 \in S
    BY <1>10, WordBitsNat
  <2>2. ASSUME NEW n \in 1 .. WordBits, n - 1 \in S
        PROVE  n \in S
    BY <1>1, <1>10, <2>2
  <2> HIDE DEF S
  <2>3. \A n \in 0 .. WordBits : n \in S
    BY <2>1, <2>2, WordBitsNat, InductionUpTo
  <2>4. \A n \in 0 .. WordBits : g[n] \in Nat
    BY <2>3 DEF S
  <2> QED
    BY <1>8, <2>4
<1> QED
  BY <1>8, <1>10, <1>11

\* The bits of a word below bit n.
Low(x, n) == {s \in SeqsOf(x) : WordBits - s < n}

LEMMA LowBits ==
  ASSUME NEW x \in Word
  PROVE  /\ Low(x, 0) = {}
         /\ Low(x, WordBits) = SeqsOf(x)
         /\ \A n \in 1 .. WordBits :
              \E s : /\ s \notin Low(x, n - 1)
                     /\ \/ x[n - 1] = 1 /\ Low(x, n) = Low(x, n - 1) \cup {s}
                        \/ x[n - 1] = 0 /\ Low(x, n) = Low(x, n - 1)
<1>1. Low(x, 0) = {}
  BY WordBitsNat DEF Low, SeqsOf, SeqNums
<1>2. Low(x, WordBits) = SeqsOf(x)
  BY WordBitsNat DEF Low, SeqsOf, SeqNums
<1>3. ASSUME NEW n \in 1 .. WordBits
      PROVE  \E s : /\ s \notin Low(x, n - 1)
                    /\ \/ x[n - 1] = 1 /\ Low(x, n) = Low(x, n - 1) \cup {s}
                       \/ x[n - 1] = 0 /\ Low(x, n) = Low(x, n - 1)
  <2> DEFINE s == WordBits - (n - 1)
  <2>1. s \in SeqNums /\ WordBits - s = n - 1 /\ s \notin Low(x, n - 1)
    BY WordBitsNat DEF SeqNums, Low
  <2>2. x[n - 1] \in {0, 1}
    BY WordBitsNat DEF Word, Bits
  <2>3. \A t \in SeqNums : WordBits - t < n <=> (WordBits - t < n - 1 \/ t = s)
    BY WordBitsNat DEF SeqNums
  <2> HIDE DEF s
  <2>4. s \in SeqsOf(x) <=> x[n - 1] = 1
    BY <2>1 DEF SeqsOf
  <2>5. \A t : t \in Low(x, n) <=> t \in Low(x, n - 1) \/ (t = s /\ x[n - 1] = 1)
    BY <2>3, <2>4 DEF Low, SeqsOf
  <2> QED
    BY <2>1, <2>2, <2>5
<1> QED
  BY <1>1, <1>2, <1>3

\* getMissedSeqCount counts the sequences of its word.
LEMMA CountIsCardinality ==
  ASSUME NEW x \in Word
  PROVE  getMissedSeqCount(x) = Cardinality(SeqsOf(x))
<1>1. PICK ctr \in [0 .. WordBits -> Nat] :
        /\ getMissedSeqCount(x) = ctr[WordBits]
        /\ ctr[0] = 0
        /\ \A n \in 1 .. WordBits : ctr[n] = ctr[n - 1] + x[n - 1]
  BY CountLoop
<1> DEFINE S == {n \in 0 .. WordBits :
                   IsFiniteSet(Low(x, n)) /\ Cardinality(Low(x, n)) = ctr[n]}
<1>2. 0 \in S
  <2>1. IsFiniteSet(Low(x, 0)) /\ Cardinality(Low(x, 0)) = 0
    BY LowBits, FS_EmptySet
  <2> QED
    BY <1>1, <2>1, WordBitsNat
<1>3. ASSUME NEW n \in 1 .. WordBits, n - 1 \in S
      PROVE  n \in S
  <2>1. PICK s : /\ s \notin Low(x, n - 1)
                 /\ \/ x[n - 1] = 1 /\ Low(x, n) = Low(x, n - 1) \cup {s}
                    \/ x[n - 1] = 0 /\ Low(x, n) = Low(x, n - 1)
    BY LowBits
  <2>2. IsFiniteSet(Low(x, n - 1)) /\ Cardinality(Low(x, n - 1)) = ctr[n - 1]
    BY <1>3
  <2>3. ctr[n] = ctr[n - 1] + x[n - 1] /\ ctr[n - 1] \in Nat /\ n \in 0 .. WordBits
    BY <1>1, WordBitsNat
  <2>4. CASE x[n - 1] = 1 /\ Low(x, n) = Low(x, n - 1) \cup {s}
    BY <2>1, <2>2, <2>3, <2>4, FS_AddElement
  <2>5. CASE x[n - 1] = 0 /\ Low(x, n) = Low(x, n - 1)
    BY <2>2, <2>3, <2>5
  <2> QED
    BY <2>1, <2>4, <2>5
<1> HIDE DEF S
<1>4. \A n \in 0 .. WordBits : n \in S
  BY <1>2, <1>3, WordBitsNat, InductionUpTo
<1>5. WordBits \in S
  BY <1>4, WordBitsNat
<1> QED
  BY <1>1, <1>5, LowBits DEF S

-----------------------------------------------------------------------------
(* Words and bits of chunks. *)

\* Each supported chunk has a bit, and no two have the same.
LEMMA ChunkPlace ==
  ASSUME NEW c \in 1 .. Supported
  PROVE  /\ ChunkWord(c) \in 0 .. (NumWords - 1)
         /\ (c - 1) % WordBits \in Bits
         /\ c - 1 = WordBits * ChunkWord(c) + ((c - 1) % WordBits)
<1>1. c - 1 \in Nat /\ c - 1 < NumWords * WordBits
  BY WordsAssumption
<1>2. (c - 1) \div WordBits \in Int
  BY <1>1, WordBitsNat
<1>3. (c - 1) % WordBits \in 0 .. (WordBits - 1)
  BY <1>1, WordBitsNat
<1>4. c - 1 = WordBits * ((c - 1) \div WordBits) + ((c - 1) % WordBits)
  BY <1>1, WordBitsNat
<1>5. (c - 1) \div WordBits >= 0
  BY <1>1, <1>2, <1>3, <1>4, WordBitsNat
<1>6. (c - 1) \div WordBits < NumWords
  BY <1>1, <1>2, <1>3, <1>4, WordsAssumption
<1> QED
  BY <1>2, <1>3, <1>4, <1>5, <1>6, WordsAssumption DEF ChunkWord, Bits

HasBit(arr, c) == arr[ChunkWord(c)][(c - 1) % WordBits] = 1

ChunkArrays == [0 .. (NumWords - 1) -> Word]

LEMMA NoBitsInNoWords ==
  /\ NoWords \in ChunkArrays
  /\ \A c \in 1 .. Supported : ~HasBit(NoWords, c)
<1>1. NoWords \in ChunkArrays
  BY WordTypes DEF NoWords, ChunkArrays
<1>2. ASSUME NEW c \in 1 .. Supported
      PROVE  ~HasBit(NoWords, c)
  <2>1. NoWords[ChunkWord(c)] = Zero
    BY ChunkPlace DEF NoWords
  <2> QED
    BY <2>1, ChunkPlace DEF HasBit, Zero
<1> QED
  BY <1>1, <1>2

WithBit(arr, c) == [arr EXCEPT ![ChunkWord(c)] = BitOr(@, ChunkBit(c))]

\* Setting the bit of a chunk sets no other.
LEMMA SetsOneBit ==
  ASSUME NEW arr \in ChunkArrays, NEW c \in 1 .. Supported
  PROVE  /\ WithBit(arr, c) \in ChunkArrays
         /\ \A d \in 1 .. Supported :
              HasBit(WithBit(arr, c), d) <=> HasBit(arr, d) \/ d = c
<1> DEFINE new == WithBit(arr, c)
           w == ChunkWord(c)
           b == (c - 1) % WordBits
<1>1. w \in 0 .. (NumWords - 1) /\ b \in Bits
  BY ChunkPlace
<1>2. new \in ChunkArrays
  BY <1>1, WordTypes DEF ChunkArrays, WithBit
<1>3. ASSUME NEW d \in 1 .. Supported
      PROVE  HasBit(new, d) <=> HasBit(arr, d) \/ d = c
  <2> DEFINE v == ChunkWord(d)
             e == (d - 1) % WordBits
  <2>1. v \in 0 .. (NumWords - 1) /\ e \in Bits
    BY ChunkPlace
  <2>2. d = c <=> v = w /\ e = b
    <3>1. c - 1 = WordBits * w + b /\ d - 1 = WordBits * v + e
      BY ChunkPlace
    <3> QED
      BY <3>1
  <2>3. CASE v = w
    <3>1. new[v] = BitOr(arr[v], OneShl(b))
      BY <1>1, <2>3 DEF ChunkArrays, ChunkBit, WithBit
    <3>2. new[v][e] = IF arr[v][e] = 1 \/ OneShl(b)[e] = 1 THEN 1 ELSE 0
      BY <2>1, <3>1 DEF BitOr
    <3>3. OneShl(b)[e] = IF e = b THEN 1 ELSE 0
      BY <2>1 DEF OneShl
    <3> QED
      BY <2>2, <2>3, <3>2, <3>3 DEF HasBit
  <2>4. CASE v # w
    <3>1. new[v] = arr[v]
      BY <2>1, <2>4 DEF ChunkArrays, WithBit
    <3> QED
      BY <2>2, <2>4, <3>1 DEF HasBit
  <2> QED
    BY <2>3, <2>4
<1> QED
  BY <1>2, <1>3

LEMMA ChunkTestIsBit ==
  ASSUME recvdChnkArr \in ChunkArrays, NEW c
  PROVE  isChnkRecvd(c) <=> c \in 1 .. Supported /\ HasBit(recvdChnkArr, c)
<1>1. CASE c \in 1 .. Supported
  <2> DEFINE x == recvdChnkArr[ChunkWord(c)]
             b == (c - 1) % WordBits
  <2>1. b \in Bits
    BY <1>1, ChunkPlace
  <2>2. BitAnd(x, OneShl(b)) = [e \in Bits |-> IF x[e] = 1 /\ e = b THEN 1 ELSE 0]
    BY DEF BitAnd, OneShl
  <2> HIDE DEF x, b
  <2>3. BitAnd(x, OneShl(b)) # Zero <=> x[b] = 1
    BY <2>1, <2>2 DEF Zero
  <2> QED
    BY <1>1, <2>3 DEF x, b, isChnkRecvd, InRange, ChunkBit, HasBit
<1>2. CASE c \notin 1 .. Supported
  BY <1>2 DEF isChnkRecvd, InRange
<1> QED
  BY <1>1, <1>2

-----------------------------------------------------------------------------
(* The list of a CCM message. *)

\* l lists the missing chunks up to n.
Lists(l, n) ==
  /\ l \in Seq(Nat)
  /\ {l[i] : i \in DOMAIN l} = {c \in 1 .. n : ~isChnkRecvd(c)}
  /\ \A i, j \in DOMAIN l : i < j => l[i] < l[j]

LEMMA ListRound ==
  ASSUME NEW l, NEW n \in Nat \ {0}, Lists(l, n - 1)
  PROVE  Lists(IF isChnkRecvd(n) THEN l ELSE Append(l, n), n)
<1>1. CASE isChnkRecvd(n)
  <2>1. \A c \in 1 .. n : ~isChnkRecvd(c) => c \in 1 .. (n - 1)
    BY <1>1
  <2>2. {c \in 1 .. n : ~isChnkRecvd(c)} = {c \in 1 .. (n - 1) : ~isChnkRecvd(c)}
    BY <2>1
  <2> QED
    BY <1>1, <2>2 DEF Lists
<1>2. CASE ~isChnkRecvd(n)
  <2> DEFINE m == Append(l, n)
  <2>1. l \in Seq(Nat) /\ Len(l) \in Nat /\ DOMAIN l = 1 .. Len(l)
    BY DEF Lists
  <2>2. /\ m \in Seq(Nat) /\ DOMAIN m = 1 .. (Len(l) + 1)
        /\ \A i \in 1 .. Len(l) : m[i] = l[i]
        /\ m[Len(l) + 1] = n
    BY <2>1
  <2> HIDE DEF m
  <2>3. \A i \in 1 .. Len(l) : l[i] \in 1 .. (n - 1) /\ ~isChnkRecvd(l[i])
    BY <2>1 DEF Lists
  <2>4. \A c \in 1 .. (n - 1) : ~isChnkRecvd(c) => \E i \in 1 .. Len(l) : c = l[i]
    BY <2>1 DEF Lists
  <2>5. {m[i] : i \in DOMAIN m} = {c \in 1 .. n : ~isChnkRecvd(c)}
    <3>1. ASSUME NEW i \in DOMAIN m
          PROVE  m[i] \in 1 .. n /\ ~isChnkRecvd(m[i])
      <4>1. CASE i = Len(l) + 1
        BY <1>2, <2>2, <4>1
      <4>2. CASE i # Len(l) + 1
        <5>1. i \in 1 .. Len(l)
          BY <2>1, <2>2, <4>2
        <5> QED
          BY <2>2, <2>3, <5>1
      <4> QED
        BY <4>1, <4>2
    <3>2. ASSUME NEW c \in 1 .. n, ~isChnkRecvd(c)
          PROVE  \E i \in DOMAIN m : c = m[i]
      <4>1. CASE c = n
        BY <2>1, <2>2, <4>1
      <4>2. CASE c # n
        <5>1. c \in 1 .. (n - 1)
          BY <4>2
        <5>2. PICK i \in 1 .. Len(l) : c = l[i]
          BY <2>4, <3>2, <5>1
        <5>3. i \in DOMAIN m /\ m[i] = c
          BY <2>1, <2>2, <5>2
        <5> QED
          BY <5>3
      <4> QED
        BY <4>1, <4>2
    <3> QED
      BY <3>1, <3>2
  <2>6. ASSUME NEW i \in DOMAIN m, NEW j \in DOMAIN m, i < j
        PROVE  m[i] < m[j]
    <3>1. i \in 1 .. Len(l) /\ m[i] = l[i] /\ l[i] \in 1 .. (n - 1)
      BY <2>1, <2>2, <2>3, <2>6
    <3>2. CASE j = Len(l) + 1
      BY <2>2, <3>1, <3>2
    <3>3. CASE j # Len(l) + 1
      <4>1. j \in 1 .. Len(l) /\ m[j] = l[j]
        BY <2>1, <2>2, <3>3
      <4> QED
        BY <2>1, <2>6, <3>1, <4>1 DEF Lists
    <3> QED
      BY <3>2, <3>3
  <2>7. Lists(m, n)
    BY <2>2, <2>5, <2>6 DEF Lists
  <2> QED
    BY <1>2, <2>7 DEF m
<1> QED
  BY <1>1, <1>2

LEMMA ListIsMissing ==
  ASSUME NEW total \in Nat
  PROVE  Lists(missedChnkNums(total), total)
<1> DEFINE round == [n \in 1 .. total |-> [l \in Seq(Nat) |->
                       IF isChnkRecvd(n) THEN l ELSE Append(l, n)]]
           IsList(f) == f = [chnkNum \in 0 .. total |->
                               IF chnkNum = 0 THEN <<>>
                               ELSE IF isChnkRecvd(chnkNum) THEN f[chnkNum - 1]
                               ELSE Append(f[chnkNum - 1], chnkNum)]
<1>1. round \in [1 .. total -> [Seq(Nat) -> Seq(Nat)]]
  OBVIOUS
<1>2. \A n \in 1 .. total : \A l \in Seq(Nat) :
        round[n][l] = IF isChnkRecvd(n) THEN l ELSE Append(l, n)
  OBVIOUS
<1> HIDE DEF round
<1>3. <<>> \in Seq(Nat)
  OBVIOUS
<1>4. PICK f : IsLoop(f, total, Seq(Nat), <<>>, round)
  BY <1>1, <1>3, LoopExists
<1>5. /\ f \in [0 .. total -> Seq(Nat)]
      /\ f[0] = <<>>
      /\ \A n \in 1 .. total : f[n - 1] \in Seq(Nat) /\ f[n] = round[n][f[n - 1]]
  BY <1>4, LoopRounds
<1>6. IsList(f)
  <2>1. f = [n \in 0 .. total |-> f[n]]
    BY <1>5
  <2>2. \A n \in 0 .. total : n = 0 \/ n \in 1 .. total
    OBVIOUS
  <2>3. \A n \in 0 .. total :
          f[n] = IF n = 0 THEN <<>>
                 ELSE IF isChnkRecvd(n) THEN f[n - 1] ELSE Append(f[n - 1], n)
    BY <1>2, <1>5, <2>2
  <2> QED
    BY <2>1, <2>3
<1>7. PICK g : IsList(g) /\ missedChnkNums(total) = g[total]
  <2>1. IsList(CHOOSE g : IsList(g))
    BY <1>6
  <2>2. missedChnkNums(total) = (CHOOSE g : IsList(g))[total]
    BY DEF missedChnkNums
  <2> QED
    BY <2>1, <2>2
<1>8. /\ g[0] = <<>>
      /\ \A n \in 1 .. total :
           g[n] = IF isChnkRecvd(n) THEN g[n - 1] ELSE Append(g[n - 1], n)
  <2>1. \A n \in 0 .. total :
          g[n] = IF n = 0 THEN <<>>
                 ELSE IF isChnkRecvd(n) THEN g[n - 1] ELSE Append(g[n - 1], n)
    BY <1>7
  <2>2. 0 \in 0 .. total /\ \A n \in 1 .. total : n \in 0 .. total /\ n # 0
    OBVIOUS
  <2> QED
    BY <2>1, <2>2
<1> DEFINE S == {n \in 0 .. total : Lists(g[n], n)}
<1>9. 0 \in S
  <2>1. Lists(<<>>, 0)
    BY DEF Lists
  <2> QED
    BY <1>8, <2>1
<1>10. ASSUME NEW n \in 1 .. total, n - 1 \in S
       PROVE  n \in S
  <2>1. n \in Nat \ {0} /\ n \in 0 .. total /\ Lists(g[n - 1], n - 1)
    BY <1>10
  <2>2. Lists(IF isChnkRecvd(n) THEN g[n - 1] ELSE Append(g[n - 1], n), n)
    BY <2>1, ListRound
  <2>3. g[n] = IF isChnkRecvd(n) THEN g[n - 1] ELSE Append(g[n - 1], n)
    BY <1>8
  <2> QED
    BY <2>1, <2>2, <2>3
<1> HIDE DEF S
<1>11. \A n \in 0 .. total : n \in S
  BY <1>9, <1>10, InductionUpTo
<1>12. total \in S
  BY <1>11
<1> QED
  BY <1>7, <1>12 DEF S

-----------------------------------------------------------------------------
(* The invariant. *)

\* What the calls keep: the words are words, and each bit is that of its set.
WordsInv ==
  /\ recvdSeqBitMap \in Word /\ seqs = SeqsOf(recvdSeqBitMap)
  /\ tempMissed \in Word /\ missed = SeqsOf(tempMissed)
  /\ recvdChnkArr \in ChunkArrays
  /\ \A c \in 1 .. Supported : HasBit(recvdChnkArr, c) <=> c \in chunks

LEMMA InitWords == Init => WordsInv
  BY WordTypes, ZeroIsEmpty, NoBitsInNoWords DEF Init, WordsInv

LEMMA SetSeqBitKeeps ==
  ASSUME WordsInv, NEW s \in SeqNums, setRecvdSeqBit(s)
  PROVE  WordsInv'
<1>1. recvdSeqBitMap' \in Word
      /\ SeqsOf(recvdSeqBitMap') = SeqsOf(recvdSeqBitMap) \cup {s}
  BY WordTypes, SeqsOfOr, SeqsOfSeqBit DEF setRecvdSeqBit
<1> QED
  BY <1>1 DEF WordsInv, setRecvdSeqBit, Sets!SetRecvdSeqBit

LEMMA GetMissedKeeps ==
  ASSUME WordsInv, NEW n \in 0 .. WordBits, getMissedSeqBitMap(n)
  PROVE  WordsInv'
<1>1. tempMissed' \in Word /\ SeqsOf(tempMissed')
        = Sets!GetMissedSeqBitMap(SeqsOf(recvdSeqBitMap), n, SeqsOf(tempMissed))
  BY MissedWordIsMissedSet DEF WordsInv, getMissedSeqBitMap
<1> QED
  BY <1>1 DEF WordsInv, getMissedSeqBitMap

LEMMA SetChunkBitKeeps ==
  ASSUME WordsInv, NEW c \in ChunkNums, setRecvdChnkBit(c)
  PROVE  WordsInv'
<1>1. CASE c \in 1 .. Supported
  <2>1. recvdChnkArr' = WithBit(recvdChnkArr, c)
    BY <1>1 DEF setRecvdChnkBit, InRange, WithBit
  <2>2. /\ recvdChnkArr' \in ChunkArrays
        /\ \A d \in 1 .. Supported :
             HasBit(recvdChnkArr', d) <=> HasBit(recvdChnkArr, d) \/ d = c
    <3>1. recvdChnkArr \in ChunkArrays
      BY DEF WordsInv
    <3> QED
      BY <1>1, <2>1, <3>1, SetsOneBit
  <2>3. chunks' = chunks \cup {c}
    BY <1>1 DEF setRecvdChnkBit, Sets!SetRecvdChnkBit, Sets!Chunks
  <2> QED
    BY <2>2, <2>3 DEF WordsInv, setRecvdChnkBit
<1>2. CASE c \notin 1 .. Supported
  BY <1>2 DEF WordsInv, setRecvdChnkBit, InRange, Sets!SetRecvdChnkBit, Sets!Chunks
<1> QED
  BY <1>1, <1>2

LEMMA CallsKeepWords == WordsInv /\ [Next]_vars => WordsInv'
<1> SUFFICES ASSUME WordsInv, [Next]_vars
             PROVE  WordsInv'
  OBVIOUS
<1>1. ASSUME NEW s \in SeqNums, setRecvdSeqBit(s)
      PROVE  WordsInv'
  BY <1>1, SetSeqBitKeeps
<1>2. CASE clearSeqBitMap
  BY <1>2, WordTypes, ZeroIsEmpty DEF WordsInv, clearSeqBitMap
<1>3. ASSUME NEW w \in Word, setSeqBitMap(w)
      PROVE  WordsInv'
  BY <1>3 DEF WordsInv, setSeqBitMap
<1>4. ASSUME NEW n \in 0 .. WordBits, getMissedSeqBitMap(n)
      PROVE  WordsInv'
  BY <1>4, GetMissedKeeps
<1>5. ASSUME NEW c \in ChunkNums, setRecvdChnkBit(c)
      PROVE  WordsInv'
  BY <1>5, SetChunkBitKeeps
<1>6. CASE complainModeInit
  BY <1>6, WordTypes, ZeroIsEmpty, NoBitsInNoWords DEF WordsInv, complainModeInit
<1>7. CASE UNCHANGED vars
  BY <1>7 DEF vars, words, WordsInv
<1> QED
  BY <1>1, <1>2, <1>3, <1>4, <1>5, <1>6, <1>7 DEF Next

LEMMA SeqWords == WordsInv => SeqWordsHoldTheSets
<1> SUFFICES ASSUME WordsInv
             PROVE  SeqWordsHoldTheSets
  OBVIOUS
<1>1. /\ recvdSeqBitMap \in Word /\ seqs = SeqsOf(recvdSeqBitMap)
      /\ tempMissed \in Word /\ missed = SeqsOf(tempMissed)
  BY DEF WordsInv
<1>2. \A s \in SeqNums : isSeqRecvd(s) <=> s \in seqs
  BY <1>1, SeqTestIsMembership
<1>3. \A s \in SeqNums : isSeqRecvd(s) = Sets!IsSeqRecvd(seqs, s)
  BY <1>2 DEF isSeqRecvd, Sets!IsSeqRecvd
<1>4. getMissedSeqCount(tempMissed) = Cardinality(missed)
  BY <1>1, CountIsCardinality
<1> QED
  BY <1>1, <1>3, <1>4 DEF SeqWordsHoldTheSets

LEMMA ChunkWords == WordsInv => ChunkWordsHoldTheSets
<1> SUFFICES ASSUME WordsInv
             PROVE  ChunkWordsHoldTheSets
  OBVIOUS
<1>1. ASSUME NEW c
      PROVE  isChnkRecvd(c) <=> c \in 1 .. Supported /\ c \in chunks
  BY ChunkTestIsBit DEF WordsInv
<1>2. \A c : isChnkRecvd(c) = Sets!IsChnkRecvd(chunks, c)
  BY <1>1 DEF Sets!IsChnkRecvd, Sets!Chunks, isChnkRecvd
<1>3. ASSUME NEW total \in ChunkNums
      PROVE  /\ {missedChnkNums(total)[i] : i \in DOMAIN missedChnkNums(total)}
                  = Sets!GetMissedChnkNums(chunks, total)
             /\ \A i, j \in DOMAIN missedChnkNums(total) :
                  i < j => missedChnkNums(total)[i] < missedChnkNums(total)[j]
  <2>1. total \in Nat
    BY WordsAssumption DEF ChunkNums
  <2>2. Lists(missedChnkNums(total), total)
    BY <2>1, ListIsMissing
  <2>3. {c \in 1 .. total : ~isChnkRecvd(c)} = Sets!GetMissedChnkNums(chunks, total)
    BY <1>2 DEF Sets!GetMissedChnkNums
  <2> QED
    BY <2>2, <2>3 DEF Lists
<1> QED
  BY <1>2, <1>3 DEF WordsInv, ChunkArrays, ChunkWordsHoldTheSets

-----------------------------------------------------------------------------
(* The theorems. *)

LEMMA WordsStay == Spec => []WordsInv
<1>1. WordsInv /\ [Next]_vars => WordsInv'
  BY CallsKeepWords
<1> QED
  BY <1>1, InitWords, PTL DEF Spec

\* The words of the sequences of a chunk (recvdSeqBitMap and the result of
\* getMissedSeqBitMap) are the sets the other modules have for them, and
\* getMissedSeqCount counts what an SCM message asks for, for every word width.
THEOREM SeqWordsAreSets == Spec => []SeqWordsHoldTheSets
  BY WordsStay, SeqWords, PTL

\* So are the words of the chunks, and getMissedChnkNumsArry lists the missing
\* ones once each and in order, for every number of words and limit on chunks.
THEOREM ChunkWordsAreSets == Spec => []ChunkWordsHoldTheSets
  BY WordsStay, ChunkWords, PTL
=============================================================================
