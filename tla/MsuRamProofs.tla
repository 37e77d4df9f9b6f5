---------------------------- MODULE MsuRamProofs ----------------------------
(***************************************************************************)
(* Proofs about module MsuLeechRam.  The data path changes nothing of the  *)
(* leech, so that Inv of MsuLeechProofs holds of it; with Inv, RamInv is   *)
(* inductive.  The argument is about one chunk: BufferOf says that the     *)
(* buffer holds what is counted of the chunk, a packet that follows keeps  *)
(* it so, and a write of a complete chunk puts it at its place and at no   *)
(* other.  The three handlers differ in how they reach that state          *)
(* (RunningReady, ScmTidy, CcmReady).                                      *)
(***************************************************************************)
EXTENDS MsuLeechRam, MsuLeechProofs, FiniteSetTheorems

-----------------------------------------------------------------------------
(* The data path adds to the leech and takes nothing away. *)

\* Every step of the data path is a step of the leech.
LEMMA RamStepIsLeechStep == [RamNext]_<<vars, ramVars>> => [Next]_vars
<1> SUFFICES ASSUME [RamNext]_<<vars, ramVars>>
             PROVE  [Next]_vars
  OBVIOUS
<1>1. CASE RamStart
  BY <1>1 DEF RamStart, Next, MachineStep
<1>2. CASE RamOther
  BY <1>2 DEF RamOther, Next, MachineStep, ReceiveStep
<1>3. ASSUME NEW p \in DataPackets(sync), RamPacket(p)
      PROVE  Next
  BY <1>3 DEF RamPacket, DataPacket, Next, ReceiveStep
<1>4. CASE UNCHANGED <<vars, ramVars>>
  BY <1>4
<1> QED
  BY <1>1, <1>2, <1>3, <1>4 DEF RamNext

\* A leech with its data path is a leech: what MsuLeechProofs shows of MsuLeech
\* holds of it, the implementation of UpgradeSession included.
THEOREM RamIsLeech == RamSpec => Spec
<1>1. RamInit => Init
  BY DEF RamInit
<1> QED
  BY <1>1, RamStepIsLeechStep, PTL DEF RamSpec, Spec

-----------------------------------------------------------------------------
(* Where the chunks lie in the file. *)

\* Multiplication by a number of sequences is monotone.
LEMMA TimesMonotone ==
  ASSUME NEW a \in Nat, NEW b \in Nat, a <= b, NEW n \in Nat
  PROVE  a * n <= b * n /\ n * a <= n * b /\ a * n \in Nat
<1>1. PICK d \in Nat : b = a + d
  <2>1. b - a \in Nat /\ b = a + (b - a)
    OBVIOUS
  <2> QED
    BY <2>1
<1>2. b * n = a * n + d * n /\ d * n \in Nat /\ a * n \in Nat /\ b * n \in Nat
  BY <1>1
<1>3. n * a = a * n /\ n * b = b * n
  OBVIOUS
<1> QED
  BY <1>2, <1>3

\* A chunk of the file begins where the one before it ends when that one is
\* full, lies within the file, and has at most seqNumberLimit sequences.
LEMMA ChunkPlaces ==
  ASSUME sync \in Syncs, NEW c \in Chunks
  PROVE  /\ ChunkStart(c) \in 0 .. (MaxChunk * MaxSeq)
         /\ ChunkStart(c) \in Nat
         /\ ChunkStart(1) = 0
         /\ ChunkStart(c) + sync.seqNumberLimit = ChunkStart(c + 1)
         /\ ChunkStart(c + 1) \in 1 .. (MaxChunk * MaxSeq)
         /\ NumSeqs(sync, c) \in 1 .. sync.seqNumberLimit
         /\ \A s \in 1 .. sync.seqNumberLimit : ChunkStart(c) + s \in Places
<1> DEFINE L == sync.seqNumberLimit
<1>1. /\ L \in Nat /\ 1 <= L /\ L <= MaxSeq /\ MaxSeq \in Nat
      /\ c \in Nat /\ 1 <= c /\ c <= MaxChunk /\ MaxChunk \in Nat
      /\ c - 1 \in Nat
  BY SyncFacts, MaxSeqAssumption, MaxChunkAssumption DEF Chunks, Seqs
<1>2. c * L <= MaxChunk * L /\ MaxChunk * L <= MaxChunk * MaxSeq /\ MaxChunk * L \in Nat
  BY <1>1, TimesMonotone
<1>3. c * L \in Nat /\ (c - 1) * L \in Nat /\ MaxChunk * MaxSeq \in Nat
  BY <1>1, TimesMonotone
<1>4. (c - 1) * L + L = c * L
  BY <1>1
<1>5. ChunkStart(c) = (c - 1) * L /\ ChunkStart(c + 1) = c * L
  BY <1>1 DEF ChunkStart
<1>6. ChunkStart(1) = 0
  BY <1>1 DEF ChunkStart
<1>7. NumSeqs(sync, c) \in 1 .. L
  BY <1>1, SyncFacts, SyncsAssumption DEF NumSeqs
<1> HIDE DEF L
<1>8. /\ (c - 1) * L \in 0 .. (MaxChunk * MaxSeq)
      /\ c * L \in 1 .. (MaxChunk * MaxSeq)
      /\ \A s \in 1 .. L : (c - 1) * L + s \in 1 .. (MaxChunk * MaxSeq)
  BY <1>1, <1>2, <1>3, <1>4
<1>9. \A s \in 1 .. L : ChunkStart(c) + s \in Places
  BY <1>5, <1>8 DEF Places
<1> QED
  BY <1>3, <1>4, <1>5, <1>6, <1>7, <1>8, <1>9 DEF L

\* The places of two chunks are apart.
LEMMA ChunksApart ==
  ASSUME sync \in Syncs, NEW c \in Chunks, NEW d \in Chunks, c # d,
         NEW s \in 1 .. sync.seqNumberLimit, NEW t \in 1 .. sync.seqNumberLimit
  PROVE  ChunkStart(c) + s # ChunkStart(d) + t
<1>1. sync.seqNumberLimit \in Nat /\ c \in Nat /\ d \in Nat /\ 1 <= c /\ 1 <= d
  BY SyncFacts, MaxSeqAssumption, MaxChunkAssumption DEF Chunks, Seqs
<1>2. ASSUME NEW a \in Chunks, NEW b \in Chunks, a < b, a \in Nat, b \in Nat, 1 <= a
      PROVE  ChunkStart(a) + sync.seqNumberLimit <= ChunkStart(b)
  <2>1. ChunkStart(a) + sync.seqNumberLimit = ChunkStart(a + 1)
    BY <1>2, ChunkPlaces
  <2>2. ChunkStart(a + 1) = a * sync.seqNumberLimit
    BY <1>1, <1>2 DEF ChunkStart
  <2>3. a * sync.seqNumberLimit <= (b - 1) * sync.seqNumberLimit
    <3>1. b - 1 \in Nat /\ a <= b - 1
      BY <1>2
    <3> QED
      BY <1>1, <1>2, <3>1, TimesMonotone
  <2> QED
    BY <2>1, <2>2, <2>3 DEF ChunkStart
<1>3. ChunkStart(c) \in Nat /\ ChunkStart(d) \in Nat
  BY ChunkPlaces
<1>4. c < d \/ d < c
  BY <1>1
<1>5. CASE c < d
  <2>1. ChunkStart(c) + sync.seqNumberLimit <= ChunkStart(d)
    BY <1>1, <1>2, <1>5
  <2> QED
    BY <1>1, <1>3, <2>1
<1>6. CASE d < c
  <2>1. ChunkStart(d) + sync.seqNumberLimit <= ChunkStart(c)
    BY <1>1, <1>2, <1>6
  <2> QED
    BY <1>1, <1>3, <2>1
<1> QED
  BY <1>4, <1>5, <1>6

-----------------------------------------------------------------------------
(* One chunk: collecting it and writing it. *)

\* With size sequences counted, the buffer is what it should be of chunk c when
\* bits are the bits of that chunk.
BufferOf(c, bits, size) ==
  /\ bits \subseteq 1 .. NumSeqs(sync, c)
  /\ size \in Nat /\ size <= Cardinality(bits)
  /\ Collected(bits, size) \subseteq bits
  /\ Holds(c, Collected(bits, size))

\* A packet of the file.
OfTheFile(p) ==
  /\ p.chunk \in 1 .. sync.chunkCount
  /\ p.chunk \in Chunks
  /\ p.seq \in Seqs
  /\ p.seq \in 1 .. NumSeqs(sync, p.chunk)

LEMMA WithPacketType ==
  ASSUME RamTypeOK, NEW p, p.chunk \in Chunks, p.seq \in Seqs
  PROVE  /\ WithPacket(p) \in [Seqs -> Packets \cup {Zero}]
         /\ WithPacket(p)[p.seq] = <<p.chunk, p.seq>>
         /\ \A s \in Seqs : s # p.seq => WithPacket(p)[s] = info_array[s]
  BY DEF WithPacket, RamTypeOK, Packets

LEMMA ClearedType == Cleared \in [Seqs -> Packets \cup {Zero}]
  BY DEF Cleared

\* The sequences of a chunk are slots of the buffer, and finitely many.
LEMMA SeqsOfChunk ==
  ASSUME sync \in Syncs, NEW c \in Chunks
  PROVE  /\ NumSeqs(sync, c) \in Nat
         /\ 1 .. NumSeqs(sync, c) \subseteq Seqs
         /\ Cardinality(1 .. NumSeqs(sync, c)) = NumSeqs(sync, c)
         /\ \A bits \in SUBSET (1 .. NumSeqs(sync, c)) :
              IsFiniteSet(bits) /\ Cardinality(bits) \in Nat
<1>1. /\ NumSeqs(sync, c) \in 1 .. sync.seqNumberLimit
      /\ sync.seqNumberLimit \in Nat /\ sync.seqNumberLimit <= MaxSeq /\ MaxSeq \in Nat
  BY ChunkPlaces, SyncFacts, MaxSeqAssumption DEF Seqs
<1>2. NumSeqs(sync, c) \in Nat /\ NumSeqs(sync, c) >= 1
  BY <1>1
<1>3. IsFiniteSet(1 .. NumSeqs(sync, c)) /\ Cardinality(1 .. NumSeqs(sync, c)) = NumSeqs(sync, c)
  BY <1>2, FS_Interval
<1>4. 1 .. NumSeqs(sync, c) \subseteq Seqs
  BY <1>1 DEF Seqs
<1> QED
  BY <1>2, <1>3, <1>4, FS_Subset, FS_CardinalityType

\* An empty buffer will do for any chunk.
LEMMA NothingCollected ==
  ASSUME sync \in Syncs, NEW c \in Chunks, NEW bits, bits \subseteq 1 .. NumSeqs(sync, c)
  PROVE  Collected(bits, 0) = {} /\ BufferOf(c, bits, 0)
<1>1. IsFiniteSet(bits) /\ Cardinality(bits) \in Nat
  BY SeqsOfChunk
<1>2. 0 = Cardinality(bits) => bits = {}
  BY <1>1, FS_EmptySet
<1>3. Collected(bits, 0) = {}
  BY <1>2 DEF Collected
<1> QED
  BY <1>1, <1>3 DEF BufferOf, Holds

\* With the next packet of the chunk the buffer is again what it should be, and
\* the count still agrees with the bits if it did before.
LEMMA NextPacket ==
  ASSUME RamTypeOK, sync \in Syncs, NEW p, OfTheFile(p), NEW bits, NEW size,
         BufferOf(p.chunk, bits, size), Follows(p, bits, size)
  PROVE  /\ bits \cup {p.seq} \subseteq 1 .. NumSeqs(sync, p.chunk)
         /\ size + 1 \in Nat /\ size + 1 <= Cardinality(bits \cup {p.seq})
         /\ size = Cardinality(bits) => size + 1 = Cardinality(bits \cup {p.seq})
         /\ Collected(bits \cup {p.seq}, size + 1) \subseteq bits \cup {p.seq}
         /\ \A s \in Collected(bits \cup {p.seq}, size + 1) : WithPacket(p)[s] = <<p.chunk, s>>
<1> DEFINE c == p.chunk
           more == bits \cup {p.seq}
<1>1. more \subseteq 1 .. NumSeqs(sync, c) /\ p.seq \in Nat /\ size \in Nat
  <2>1. /\ bits \subseteq 1 .. NumSeqs(sync, c) /\ p.seq \in 1 .. NumSeqs(sync, c)
        /\ size \in Nat
    BY DEF OfTheFile, BufferOf
  <2>2. p.seq \in Nat
    BY MaxSeqAssumption DEF OfTheFile, Seqs
  <2> QED
    BY <2>1, <2>2
<1>2. /\ IsFiniteSet(bits) /\ Cardinality(bits) \in Nat
      /\ IsFiniteSet(more) /\ Cardinality(more) \in Nat
  BY <1>1, SeqsOfChunk DEF OfTheFile, BufferOf
<1>3. more \subseteq Seqs
  BY <1>1, SeqsOfChunk DEF OfTheFile
<1>4. WithPacket(p)[p.seq] = <<c, p.seq>>
  BY WithPacketType DEF OfTheFile
<1>5. \A s \in Collected(bits, size) \cup {p.seq} : WithPacket(p)[s] = <<c, s>>
  BY <1>3, <1>4, WithPacketType DEF OfTheFile, BufferOf, Holds
<1>6. CASE size = Cardinality(bits)
  <2>1. Collected(bits, size) = bits /\ p.seq \notin bits
    BY <1>6 DEF Collected, Follows
  <2>2. Cardinality(more) = size + 1
    BY <1>2, <1>6, <2>1, FS_AddElement
  <2>3. Collected(more, size + 1) = more
    BY <2>2 DEF Collected
  <2>4. \A s \in more : WithPacket(p)[s] = <<c, s>>
    BY <1>5, <2>1
  <2>5. size + 1 \in Nat /\ size + 1 <= Cardinality(more)
    BY <1>1, <2>2
  <2> QED
    BY <1>1, <2>2, <2>3, <2>4, <2>5
<1>7. CASE size # Cardinality(bits)
  <2>1. p.seq = size + 1 /\ Collected(bits, size) = 1 .. size /\ 1 .. size \subseteq bits
    BY <1>7 DEF Collected, Follows, BufferOf
  <2>2. 1 .. (size + 1) = (1 .. size) \cup {p.seq}
    BY <1>1, <2>1
  <2>3. 1 .. (size + 1) \subseteq more
    BY <2>1, <2>2
  <2>4. Cardinality(1 .. (size + 1)) = size + 1
    BY <1>1, FS_Interval
  <2>5. /\ size + 1 <= Cardinality(more)
        /\ size + 1 = Cardinality(more) => more = 1 .. (size + 1)
    BY <1>2, <2>3, <2>4, FS_Subset
  <2>6. Collected(more, size + 1) = 1 .. (size + 1)
    BY <2>5 DEF Collected
  <2>7. \A s \in 1 .. (size + 1) : WithPacket(p)[s] = <<c, s>>
    BY <1>5, <2>1, <2>2
  <2>8. size + 1 \in Nat
    BY <1>1
  <2> QED
    BY <1>1, <1>7, <2>3, <2>5, <2>6, <2>7, <2>8
<1> QED
  BY <1>6, <1>7

\* If that packet completes the chunk, the buffer is the whole chunk, and is
\* counted as long as it is.
LEMMA LastPacket ==
  ASSUME RamTypeOK, sync \in Syncs, NEW p, OfTheFile(p), NEW bits, NEW size,
         BufferOf(p.chunk, bits, size), Follows(p, bits, size),
         1 .. NumSeqs(sync, p.chunk) \subseteq bits \cup {p.seq},
         size = Cardinality(bits) \/ p.seq = NumSeqs(sync, p.chunk)
  PROVE  /\ size + 1 = NumSeqs(sync, p.chunk)
         /\ \A s \in 1 .. NumSeqs(sync, p.chunk) : WithPacket(p)[s] = <<p.chunk, s>>
<1> DEFINE n == NumSeqs(sync, p.chunk)
<1>0. /\ bits \cup {p.seq} \subseteq 1 .. n
      /\ size = Cardinality(bits) => size + 1 = Cardinality(bits \cup {p.seq})
      /\ \A s \in Collected(bits \cup {p.seq}, size + 1) : WithPacket(p)[s] = <<p.chunk, s>>
  BY NextPacket
<1>1. bits \cup {p.seq} = 1 .. n
  BY <1>0
<1>2. Cardinality(1 .. n) = n
  BY SeqsOfChunk DEF OfTheFile
<1>3. size + 1 = n
  <2>1. CASE size = Cardinality(bits)
    BY <1>0, <1>1, <1>2, <2>1
  <2>2. CASE size # Cardinality(bits)
    BY <2>2 DEF Follows
  <2> QED
    BY <2>1, <2>2
<1>4. Collected(bits \cup {p.seq}, size + 1) = 1 .. n
  BY <1>1, <1>2, <1>3 DEF Collected
<1> QED
  BY <1>0, <1>3, <1>4

\* Writing a complete chunk puts each of its sequences at its place, touches no
\* place of another chunk, and leaves the file where the next chunk begins.
LEMMA WriteKeeps ==
  ASSUME RamTypeOK, sync \in Syncs, UNCHANGED sync, NEW p, OfTheFile(p), NEW size,
         size + 1 = NumSeqs(sync, p.chunk),
         \A s \in 1 .. NumSeqs(sync, p.chunk) : WithPacket(p)[s] = <<p.chunk, s>>,
         Writes(p, size, ChunkStart(p.chunk))
  PROVE  /\ ChunkSize' = 0
         /\ p.chunk < sync.chunkCount => position' = ChunkStart(p.chunk + 1)
         /\ InPlace(p.chunk)'
         /\ \A d \in Chunks : InPlace(d) => InPlace(d)'
<1> DEFINE c == p.chunk
           at == ChunkStart(c)
           L == sync.seqNumberLimit
           n == NumSeqs(sync, c)
<1>1. /\ c \in Chunks /\ n \in 1 .. L /\ L \in Nat /\ 1 <= L /\ L <= MaxSeq
      /\ MaxSeq \in Nat /\ n \in Nat
  BY ChunkPlaces, SyncFacts, MaxSeqAssumption DEF OfTheFile, Seqs
<1>2. size + 1 = n
  OBVIOUS
<1>3. at \in Nat
  BY <1>1, ChunkPlaces
<1>4. \A s \in 1 .. n : s \in Seqs /\ WithPacket(p)[s] = <<c, s>>
  BY <1>1 DEF Seqs
<1>5. file' = [i \in Places |->
                 IF i \notin (at + 1) .. (at + n) THEN file[i]
                 ELSE IF i - at \in Seqs THEN WithPacket(p)[i - at] ELSE Beyond]
  BY <1>2 DEF Writes, FileWith
<1>6. \A d : ChunkStart(d)' = ChunkStart(d)
  BY DEF ChunkStart
<1>7. \A s \in 1 .. n : file'[ChunkStart(c) + s] = <<c, s>>
  <2> SUFFICES ASSUME NEW s \in 1 .. n
               PROVE  file'[ChunkStart(c) + s] = <<c, s>>
    OBVIOUS
  <2>1. at + s \in Places
    BY <1>1, <1>3, ChunkPlaces
  <2>2. at + s \in (at + 1) .. (at + n) /\ (at + s) - at = s
    BY <1>1, <1>3
  <2> QED
    BY <1>3, <1>4, <1>5, <2>1, <2>2
<1>8. InPlace(c)'
  BY <1>6, <1>7 DEF InPlace
<1>9. ASSUME NEW d \in Chunks, InPlace(d), d # c
      PROVE  InPlace(d)'
  <2> SUFFICES ASSUME NEW s \in 1 .. NumSeqs(sync, d)
               PROVE  file'[ChunkStart(d) + s] = <<d, s>>
    BY <1>6 DEF InPlace
  <2>1. s \in 1 .. L
    BY <1>1, ChunkPlaces
  <2>2. ChunkStart(d) + s \in Places /\ ChunkStart(d) \in Nat
    BY <2>1, ChunkPlaces
  <2>3. ChunkStart(d) + s \notin (at + 1) .. (at + n)
    <3> SUFFICES ASSUME ChunkStart(d) + s \in (at + 1) .. (at + n)
                 PROVE  FALSE
      OBVIOUS
    <3> DEFINE t == ChunkStart(d) + s - at
    <3>1. t \in 1 .. L /\ ChunkStart(c) + t = ChunkStart(d) + s
      BY <1>1, <1>3, <2>1, <2>2
    <3> QED
      BY <1>1, <1>9, <2>1, <3>1, ChunksApart
  <2>4. file'[ChunkStart(d) + s] = file[ChunkStart(d) + s]
    BY <1>5, <2>2, <2>3
  <2> QED
    BY <1>9, <2>4 DEF InPlace
<1>10. ASSUME c < sync.chunkCount
       PROVE  position' = ChunkStart(c + 1)
  <2>1. n = L
    BY <1>1, <1>10, SyncFacts, MaxChunkAssumption DEF NumSeqs, Chunks
  <2>2. at + n = ChunkStart(c + 1) /\ at + n \in Places
    BY <1>1, <1>3, <2>1, ChunkPlaces DEF Places
  <2> QED
    BY <1>2, <2>2 DEF Writes, After
<1> QED
  BY <1>8, <1>9, <1>10 DEF Writes

-----------------------------------------------------------------------------
(* The type invariant of the data path. *)

LEMMA RamInitType == RamInit => RamTypeOK
<1>1. MaxChunk * MaxSeq \in Nat /\ MaxSize \in Nat
  BY MaxChunkAssumption, MaxSeqAssumption, MaxSizeAssumption, TimesMonotone
<1> QED
  BY <1>1, ClearedType DEF RamInit, RamTypeOK, EmptyFile

\* What is collected or written has its type.
LEMMA DataType ==
  ASSUME RamTypeOK, NEW p, p.chunk \in Chunks, p.seq \in Seqs,
         NEW size \in 0 .. MaxSize, NEW at \in 0 .. (MaxChunk * MaxSeq),
         Collects(p, size, at) \/ Writes(p, size, at)
  PROVE  /\ info_array' \in [Seqs -> Packets \cup {Zero}]
         /\ ChunkSize' \in 0 .. MaxSize
         /\ position' \in 0 .. (MaxChunk * MaxSeq)
         /\ file' \in [Places -> Packets \cup {Zero, Beyond}]
<1>1. MaxChunk * MaxSeq \in Nat /\ MaxSize \in Nat
  BY MaxChunkAssumption, MaxSeqAssumption, MaxSizeAssumption, TimesMonotone
<1>2. WithPacket(p) \in [Seqs -> Packets \cup {Zero}]
  BY WithPacketType
<1>3. CASE Collects(p, size, at)
  BY <1>1, <1>2, <1>3 DEF Collects, RamTypeOK
<1>4. CASE Writes(p, size, at)
  <2>1. FileWith(WithPacket(p), size + 1, at) \in [Places -> Packets \cup {Zero, Beyond}]
    BY <1>2 DEF FileWith, RamTypeOK
  <2>2. After(size + 1, at) \in 0 .. (MaxChunk * MaxSeq)
    BY <1>1 DEF After, Places
  <2> QED
    BY <1>1, <1>4, <2>1, <2>2, ClearedType DEF Writes
<1> QED
  BY <1>3, <1>4

LEMMA RamPacketType ==
  ASSUME RamTypeOK, sync \in Syncs, NEW p \in DataPackets(sync), RamPacket(p)
  PROVE  RamTypeOK'
<1>1. p.chunk \in Chunks /\ p.seq \in Seqs
  BY PacketFacts
<1>2. ChunkStart(p.chunk) \in 0 .. (MaxChunk * MaxSeq)
  BY <1>1, ChunkPlaces
<1>3. /\ ChunkSize \in 0 .. MaxSize /\ 0 \in 0 .. MaxSize
      /\ position \in 0 .. (MaxChunk * MaxSeq)
  BY MaxSizeAssumption DEF RamTypeOK
<1>4. tidy' \in BOOLEAN
  BY DEF RamPacket
<1>5. ASSUME UNCHANGED dataVars
      PROVE  RamTypeOK'
  BY <1>4, <1>5 DEF RamTypeOK, dataVars
<1>6. ASSUME NEW size \in 0 .. MaxSize, NEW at \in 0 .. (MaxChunk * MaxSeq),
             Collects(p, size, at) \/ Writes(p, size, at)
      PROVE  RamTypeOK'
  BY <1>1, <1>4, <1>6, DataType DEF RamTypeOK
<1>7. CASE RunningData(p)
  <2>1. /\ RunningSize(p) \in 0 .. MaxSize
        /\ RunningPosition(p) \in 0 .. (MaxChunk * MaxSeq)
    BY <1>2, <1>3 DEF RunningSize, RunningPosition
  <2> QED
    BY <1>5, <1>6, <1>7, <2>1 DEF RunningData
<1>8. CASE ScmData(p)
  BY <1>3, <1>5, <1>6, <1>8 DEF ScmData
<1>9. CASE CcmData(p)
  <2>1. /\ CcmSize(p) \in 0 .. MaxSize
        /\ CcmPosition(p) \in 0 .. (MaxChunk * MaxSeq)
    BY <1>2, <1>3 DEF CcmSize, CcmPosition
  <2> QED
    BY <1>2, <1>5, <1>6, <1>9, <2>1 DEF CcmData
<1> QED
  BY <1>7, <1>8, <1>9 DEF RamPacket

LEMMA RamStartType ==
  ASSUME RamTypeOK, RamStart
  PROVE  RamTypeOK'
<1>1. MaxChunk * MaxSeq \in Nat /\ 0 \in 0 .. (MaxChunk * MaxSeq)
  BY MaxChunkAssumption, MaxSeqAssumption, TimesMonotone
<1> QED
  BY <1>1 DEF RamStart, RamTypeOK, EmptyFile

-----------------------------------------------------------------------------
(* The steps keep the tidy properties. *)

Tidy == TidyChunksAreInPlace /\ TidyCountMatchesBits /\ TidyBufferIsTheChunk

\* What tidy says within a receiving state.
LEMMA TidyMeans ==
  ASSUME RamTypeOK, Tidy, eMsuState \in Receiving, tidy
  PROVE  /\ \A c \in recvdChnk : InPlace(c)
         /\ FromRunning => ChunkSize = Cardinality(recvdSeqBitMap)
         /\ localChunkNumber \in 1 .. sync.chunkCount =>
              /\ BufferOf(localChunkNumber, recvdSeqBitMap, ChunkSize)
              /\ FromRunning => position = ChunkStart(localChunkNumber)
<1>1. ChunkSize \in Nat
  BY MaxSizeAssumption DEF RamTypeOK
<1> QED
  BY <1>1 DEF Tidy, TidyChunksAreInPlace, TidyCountMatchesBits, TidyBufferIsTheChunk, BufferOf,
              InSession

\* A step that collects one more packet of chunk p.chunk into its buffer.
LEMMA TidyAfterCollect ==
  ASSUME RamTypeOK, Tidy, eMsuState \in Receiving, tidy, sync \in Syncs, UNCHANGED sync,
         NEW p, OfTheFile(p), NEW bits, NEW size, NEW at,
         BufferOf(p.chunk, bits, size), Follows(p, bits, size), Collects(p, size, at),
         recvdSeqBitMap' = bits \cup {p.seq}, recvdChnk' = recvdChnk,
         localChunkNumber' \in {p.chunk, 0},
         FromRunning' => size = Cardinality(bits) /\ at = ChunkStart(p.chunk)
  PROVE  Tidy'
<1>1. /\ info_array' = WithPacket(p) /\ ChunkSize' = size + 1 /\ position' = at /\ file' = file
  BY DEF Collects
<1>2. \A c : ChunkStart(c)' = ChunkStart(c) /\ (InPlace(c) => InPlace(c)')
  BY <1>1 DEF ChunkStart, InPlace
<1>3. TidyChunksAreInPlace'
  BY <1>2, TidyMeans DEF TidyChunksAreInPlace
<1>4. TidyCountMatchesBits'
  BY <1>1, NextPacket DEF TidyCountMatchesBits
<1>5. TidyBufferIsTheChunk'
  <2> SUFFICES ASSUME localChunkNumber' = p.chunk
               PROVE  TidyBufferIsTheChunk'
    BY DEF TidyBufferIsTheChunk, OfTheFile
  <2>1. /\ bits \cup {p.seq} \subseteq 1 .. NumSeqs(sync, p.chunk)
        /\ Collected(bits \cup {p.seq}, size + 1) \subseteq bits \cup {p.seq}
        /\ \A s \in Collected(bits \cup {p.seq}, size + 1) : WithPacket(p)[s] = <<p.chunk, s>>
    BY NextPacket
  <2>2. FromRunning' => position' = ChunkStart(p.chunk)'
    BY <1>1, <1>2
  <2>3. Collected(recvdSeqBitMap, ChunkSize)' = Collected(bits \cup {p.seq}, size + 1)
    BY <1>1 DEF Collected
  <2> QED
    BY <1>1, <2>1, <2>2, <2>3 DEF TidyBufferIsTheChunk, Holds
<1> QED
  BY <1>3, <1>4, <1>5 DEF Tidy

\* A step that writes chunk p.chunk, now complete.  The CCM handler leaves its
\* bits as they are, the others go on to the next chunk.
LEMMA TidyAfterWrite ==
  ASSUME RamTypeOK, Tidy, eMsuState \in Receiving, tidy, sync \in Syncs, UNCHANGED sync,
         recvdChnk \in SUBSET Chunks,
         NEW p, OfTheFile(p), NEW bits, NEW size,
         BufferOf(p.chunk, bits, size), Follows(p, bits, size),
         1 .. NumSeqs(sync, p.chunk) \subseteq bits \cup {p.seq},
         size = Cardinality(bits) \/ p.seq = NumSeqs(sync, p.chunk),
         Writes(p, size, ChunkStart(p.chunk)),
         recvdChnk' = SetRecvdChnkBit(recvdChnk, p.chunk),
         \/ recvdSeqBitMap' = {} /\ localChunkNumber' \in {p.chunk + 1, 0}
         \/ recvdSeqBitMap' = bits \cup {p.seq} /\ localChunkNumber' = p.chunk /\ ~FromRunning'
  PROVE  Tidy'
<1>1. /\ ChunkSize' = 0
      /\ p.chunk < sync.chunkCount => position' = ChunkStart(p.chunk + 1)
      /\ InPlace(p.chunk)'
      /\ \A d \in Chunks : InPlace(d) => InPlace(d)'
  BY LastPacket, WriteKeeps
<1>2. TidyChunksAreInPlace'
  BY <1>1, TidyMeans DEF TidyChunksAreInPlace, SetRecvdChnkBit
<1>3. bits \cup {p.seq} \subseteq 1 .. NumSeqs(sync, p.chunk)
  BY NextPacket
<1>4. CASE recvdSeqBitMap' = {} /\ localChunkNumber' \in {p.chunk + 1, 0}
  <2>1. TidyCountMatchesBits'
    BY <1>1, <1>4, FS_EmptySet DEF TidyCountMatchesBits
  <2>2. Collected({}, 0) = {}
    BY FS_EmptySet DEF Collected
  <2>3. TidyBufferIsTheChunk'
    <3> SUFFICES ASSUME localChunkNumber' \in 1 .. sync.chunkCount
                 PROVE  position' = ChunkStart(localChunkNumber)'
      BY <1>1, <1>4, <2>2 DEF TidyBufferIsTheChunk, Holds
    <3>1. sync.chunkCount \in Nat /\ p.chunk \in Nat
      BY SyncFacts, MaxChunkAssumption DEF Chunks, OfTheFile
    <3>2. localChunkNumber' = p.chunk + 1 /\ p.chunk < sync.chunkCount
      BY <1>4, <3>1
    <3> QED
      BY <1>1, <3>2 DEF ChunkStart
  <2> QED
    BY <1>2, <2>1, <2>3 DEF Tidy
<1>5. CASE recvdSeqBitMap' = bits \cup {p.seq} /\ localChunkNumber' = p.chunk /\ ~FromRunning'
  <2>1. BufferOf(p.chunk, bits \cup {p.seq}, 0) /\ Collected(bits \cup {p.seq}, 0) = {}
    BY <1>3, NothingCollected DEF OfTheFile
  <2>2. TidyCountMatchesBits'
    BY <1>1, <1>5, <2>1 DEF TidyCountMatchesBits, BufferOf
  <2>3. TidyBufferIsTheChunk'
    BY <1>1, <1>3, <1>5, <2>1 DEF TidyBufferIsTheChunk, Holds, Collected
  <2> QED
    BY <1>2, <2>2, <2>3 DEF Tidy
<1> QED
  BY <1>4, <1>5

\* The two things a step of MsuLeech can do that leave a tidy file alone.
LEMMA TidyAfterNothing ==
  ASSUME Tidy, UNCHANGED <<eMsuState, recvdSeqBitMap, recvdChnk, localChunkNumber, sync>>,
         FromRunning' => FromRunning, UNCHANGED dataVars, tidy' => tidy
  PROVE  Tidy'
<1>1. \A c : ChunkStart(c)' = ChunkStart(c) /\ (InPlace(c) => InPlace(c)')
  BY DEF ChunkStart, InPlace, dataVars
<1> QED
  BY <1>1 DEF Tidy, TidyChunksAreInPlace, TidyCountMatchesBits, TidyBufferIsTheChunk, dataVars,
              Holds, Collected

\* The state in which the Running handler meets a packet that is in order: the
\* count and the position it works from are those of the chunk of the packet.
LEMMA RunningReady ==
  ASSUME Inv, RamTypeOK, Tidy, tidy, sync \in Syncs, NEW p \in DataPackets(sync),
         eMsuState = "Running", InOrder(p), p.chunk >= localChunkNumber
  PROVE  LET bits == IF p.chunk = localChunkNumber THEN recvdSeqBitMap ELSE {}
         IN  /\ RunningBits(p) = bits \cup {p.seq}
             /\ BufferOf(p.chunk, bits, RunningSize(p))
             /\ Follows(p, bits, RunningSize(p))
             /\ RunningSize(p) = Cardinality(bits)
             /\ RunningPosition(p) = ChunkStart(p.chunk)
<1> DEFINE bits == IF p.chunk = localChunkNumber THEN recvdSeqBitMap ELSE {}
<1>1. OfTheFile(p) /\ p.chunk \in Nat /\ p.chunk # 0
  BY PacketFacts, MaxChunkAssumption DEF Chunks, OfTheFile
<1>2. localChunkNumber \in Nat
  BY MaxChunkAssumption DEF Inv, TypeOK
<1>3. /\ <<p.chunk, p.seq>> \notin delivered
      /\ <<p.chunk, p.seq>> = <<1, 1>> => delivered = {}
  BY <1>1, <1>2 DEF InOrder
<1>4. RunningBits(p) = bits \cup {p.seq}
  BY DEF RunningBits, SetRecvdSeqBit
<1>5. CASE p.chunk = localChunkNumber
  <2>1. \A s \in recvdSeqBitMap : <<p.chunk, s>> \in delivered
    <3>1. {p.chunk} \X recvdSeqBitMap \subseteq delivered
      BY <1>1, <1>5 DEF Inv, BitsBelongToTheirChunk, InSession, Receiving
    <3> QED
      BY <3>1
  <2>2. p.seq \notin recvdSeqBitMap
    BY <1>3, <2>1
  <2>3. /\ BufferOf(p.chunk, recvdSeqBitMap, ChunkSize)
        /\ ChunkSize = Cardinality(recvdSeqBitMap) /\ position = ChunkStart(p.chunk)
    BY <1>1, <1>5, TidyMeans DEF Receiving, FromRunning, OfTheFile
  <2>4. <<p.chunk, p.seq>> = <<1, 1>> => ChunkSize = 0
    <3> SUFFICES ASSUME <<p.chunk, p.seq>> = <<1, 1>>
                 PROVE  ChunkSize = 0
      OBVIOUS
    <3>1. recvdSeqBitMap = {}
      BY <1>3, <2>1
    <3> QED
      BY <2>3, <3>1, FS_EmptySet
  <2>5. RunningSize(p) = ChunkSize /\ RunningPosition(p) = position
    BY <1>5, <2>4 DEF RunningSize, RunningPosition
  <2> QED
    BY <1>4, <1>5, <2>2, <2>3, <2>5 DEF Follows
<1>6. CASE p.chunk # localChunkNumber
  <2>1. RunningSize(p) = 0 /\ RunningPosition(p) = ChunkStart(p.chunk)
    BY <1>6 DEF RunningSize, RunningPosition
  <2>2. BufferOf(p.chunk, {}, 0) /\ Cardinality({}) = 0
    BY <1>1, FS_EmptySet, NothingCollected DEF OfTheFile
  <2> QED
    BY <1>4, <1>6, <2>1, <2>2 DEF Follows
<1> QED
  BY <1>5, <1>6

LEMMA RunningTidy ==
  ASSUME Inv, RamTypeOK, Tidy, tidy, sync \in Syncs, UNCHANGED sync,
         NEW p \in DataPackets(sync), InOrder(p), RunningPacket(p), RunningData(p), tidy'
  PROVE  Tidy'
<1> DEFINE bits == IF p.chunk = localChunkNumber THEN recvdSeqBitMap ELSE {}
<1>1. eMsuState = "Running" /\ eMsuState \in Receiving /\ OfTheFile(p)
  BY PacketFacts DEF RunningPacket, Receiving, OfTheFile
<1>2. CASE RunningStale(p) /\ UNCHANGED dataVars
  BY <1>2, TidyAfterNothing DEF RunningStale, seqVars, FromRunning
<1>3. ASSUME p.chunk >= localChunkNumber
      PROVE  /\ RunningBits(p) = bits \cup {p.seq}
             /\ BufferOf(p.chunk, bits, RunningSize(p))
             /\ Follows(p, bits, RunningSize(p))
             /\ RunningSize(p) = Cardinality(bits)
             /\ RunningPosition(p) = ChunkStart(p.chunk)
  BY <1>1, <1>3, RunningReady
<1> HIDE DEF bits
<1>4. CASE RunningSeq(p) /\ Collects(p, RunningSize(p), RunningPosition(p))
  <2>1. /\ p.chunk >= localChunkNumber /\ recvdSeqBitMap' = RunningBits(p)
        /\ recvdChnk' = recvdChnk /\ localChunkNumber' = p.chunk
    BY <1>4 DEF RunningSeq, RunningTakes
  <2> QED
    BY <1>1, <1>3, <1>4, <2>1, TidyAfterCollect
<1>5. CASE RunningChunkMissed(p) /\ Collects(p, RunningSize(p), RunningPosition(p))
  <2>1. p.chunk >= localChunkNumber /\ recvdSeqBitMap' = RunningBits(p) /\ recvdChnk' = recvdChnk
    BY <1>5 DEF RunningChunkMissed, RunningTakes
  <2>2. localChunkNumber' \in {p.chunk, 0}
    BY <1>5 DEF RunningChunkMissed, AfterFileEnd
  <2> QED
    BY <1>1, <1>3, <1>5, <2>1, <2>2, TidyAfterCollect
<1>6. CASE RunningChunkReceived(p) /\ Writes(p, RunningSize(p), RunningPosition(p))
  <2>1. /\ p.chunk >= localChunkNumber /\ p.chunkEnd
        /\ GetMissedSeqBitMap(RunningBits(p), p.seq, tempMissed) = {}
        /\ recvdSeqBitMap' = {}
        /\ recvdChnk' = SetRecvdChnkBit(recvdChnk, p.chunk)
    BY <1>6 DEF RunningChunkReceived, RunningTakes
  <2>2. localChunkNumber' \in {p.chunk + 1, 0}
    BY <1>6 DEF RunningChunkReceived, AfterFileEnd
  <2>3. p.seq = NumSeqs(sync, p.chunk) /\ p.seq \in 1 .. p.seq
    BY <2>1, PacketFacts, MaxSeqAssumption DEF Seqs
  <2>4. RunningBits(p) = bits \cup {p.seq}
    BY <1>3, <2>1
  <2>5. 1 .. NumSeqs(sync, p.chunk) \subseteq bits \cup {p.seq}
    BY <2>1, <2>3, <2>4, NothingMissed
  <2>6. recvdChnk \in SUBSET Chunks
    BY DEF Inv, TypeOK
  <2> QED
    BY <1>1, <1>3, <1>6, <2>1, <2>2, <2>3, <2>5, <2>6, TidyAfterWrite
<1> QED
  BY <1>2, <1>4, <1>5, <1>6 DEF RunningData

LEMMA ScmTidy ==
  ASSUME Inv, RamTypeOK, Tidy, tidy, sync \in Syncs, UNCHANGED sync,
         NEW p \in DataPackets(sync), InOrder(p), ScmPacket(p), ScmData(p), tidy'
  PROVE  Tidy'
<1>1. /\ eMsuState = "SCM" /\ eMsuState \in Receiving /\ OfTheFile(p)
      /\ eMsuPrevState \in {"Running", "CCM"} /\ eMsuPrevState' = eMsuPrevState
  BY PacketFacts DEF ScmPacket, Receiving, OfTheFile, Inv, TypeOK
<1>2. p.chunk = localChunkNumber
  BY <1>1 DEF InOrder, ScmInOrder
<1>3. BufferOf(p.chunk, recvdSeqBitMap, ChunkSize)
  BY <1>1, <1>2, TidyMeans DEF OfTheFile
<1>4. CASE ScmDuplicate(p) /\ UNCHANGED dataVars
  BY <1>1, <1>4, TidyAfterNothing DEF ScmDuplicate, seqVars, FromRunning
\* Whichever way SCM was entered, a new packet finds the buffer in step.
<1>5. ASSUME ScmTakes(p)
      PROVE  /\ p.seq \notin recvdSeqBitMap
             /\ ChunkSize = Cardinality(recvdSeqBitMap)
             /\ position = ChunkStart(p.chunk)
             /\ Follows(p, recvdSeqBitMap, ChunkSize)
  <2>1. p.seq \notin recvdSeqBitMap
    BY <1>5 DEF ScmTakes, IsSeqRecvd
  <2>2. ChunkSize = Cardinality(recvdSeqBitMap) /\ position = ChunkStart(p.chunk)
    <3>1. CASE eMsuPrevState = "Running"
      BY <1>1, <1>2, <3>1, TidyMeans DEF FromRunning, OfTheFile
    <3>2. CASE eMsuPrevState = "CCM"
      BY <1>1, <1>2, <2>1, <3>2 DEF InOrder, ScmInOrder
    <3> QED
      BY <1>1, <3>1, <3>2
  <2> QED
    BY <2>1, <2>2 DEF Follows
<1>6. CASE ScmSeq(p) /\ Collects(p, ChunkSize, position)
  <2>1. /\ ScmTakes(p) /\ recvdSeqBitMap' = recvdSeqBitMap \cup {p.seq}
        /\ recvdChnk' = recvdChnk /\ localChunkNumber' = p.chunk
    BY <1>2, <1>6 DEF ScmSeq, SetRecvdSeqBit
  <2> QED
    BY <1>1, <1>3, <1>5, <1>6, <2>1, TidyAfterCollect
<1>7. CASE ScmChunkReceived(p) /\ Writes(p, ChunkSize, position)
  <2>1. /\ ScmTakes(p)
        /\ recvdSeqBitMap' = {}
        /\ recvdChnk' = SetRecvdChnkBit(recvdChnk, p.chunk)
        /\ localChunkNumber' \in {p.chunk + 1, 0}
    BY <1>2, <1>7 DEF ScmChunkReceived
  <2>2. GetMissedSeqBitMap(recvdSeqBitMap \cup {p.seq}, ScmNoOfSeq, tempMissed) = {}
    BY <1>7 DEF ScmChunkReceived, ScmTakes, SetRecvdSeqBit
  <2>3. tempMissed # {}
    BY <1>1 DEF Inv, ScmNeverHoldsEmptyMiss
  <2>4. /\ 1 .. ScmNoOfSeq \subseteq recvdSeqBitMap \cup {p.seq}
        /\ (recvdSeqBitMap \cup {p.seq}) \cap (1 .. ScmNoOfSeq) # {}
    BY <2>2, <2>3, NothingMissed
  <2>5. ScmNoOfSeq = NumSeqs(sync, p.chunk)
    <3>1. ScmNoOfSeq # 0
      BY <2>4
    <3> QED
      BY <1>2, <3>1 DEF ScmNoOfSeq, NumSeqs
  <2>6. recvdChnk \in SUBSET Chunks
    BY DEF Inv, TypeOK
  <2> QED
    BY <1>1, <1>3, <1>5, <1>7, <2>1, <2>4, <2>5, <2>6, TidyAfterWrite
<1>8. ~ScmJump(p)
  BY <1>2 DEF ScmJump
<1> QED
  BY <1>4, <1>6, <1>7, <1>8 DEF ScmData

\* Bitmaps put aside name sequences of their chunk.
LEMMA SavedBitsFit ==
  ASSUME Inv, DeliveredIsOfTheFile, eMsuState \in InSession, sync \in Syncs, NEW c \in Chunks
  PROVE  ccm_seqVal[c] \subseteq 1 .. NumSeqs(sync, c)
<1>1. c \in CcmSlots
  BY MaxChunkAssumption DEF Chunks, CcmSlots
<1>2. {c} \X ccm_seqVal[c] \subseteq delivered
  BY <1>1 DEF Inv, BitsBelongToTheirChunk
<1> SUFFICES ASSUME NEW s \in ccm_seqVal[c]
             PROVE  s \in 1 .. NumSeqs(sync, c)
  OBVIOUS
<1>3. <<c, s>> \in AllPackets(sync)
  BY <1>2 DEF DeliveredIsOfTheFile
<1> QED
  BY <1>3 DEF AllPackets

\* The state in which the CCM handler meets a packet that is in order: a chunk
\* that it opens finds the buffer empty, a chunk that it goes on with finds it as
\* it was left.
LEMMA CcmReady ==
  ASSUME Inv, RamTypeOK, DeliveredIsOfTheFile, Tidy, tidy, sync \in Syncs,
         NEW p \in DataPackets(sync), eMsuState = "CCM", InOrder(p), p.chunk \notin recvdChnk
  PROVE  /\ BufferOf(p.chunk, CcmBits(p), CcmSize(p))
         /\ Follows(p, CcmBits(p), CcmSize(p))
<1>1. eMsuState \in Receiving /\ eMsuState \in InSession /\ OfTheFile(p)
  BY PacketFacts DEF Receiving, InSession, OfTheFile
<1>2. (firstTime => ChunkSize = 0) /\ Follows(p, CcmBits(p), CcmSize(p))
  BY DEF InOrder, CcmInOrder
<1>3. CASE firstTime \/ localChunkNumber # p.chunk
  <2>1. CcmBits(p) = ccm_seqVal[p.chunk] /\ CcmSize(p) = 0
    BY <1>2, <1>3 DEF CcmBits, CcmSize, CcmJumps
  <2>2. ccm_seqVal[p.chunk] \subseteq 1 .. NumSeqs(sync, p.chunk)
    BY <1>1, SavedBitsFit DEF OfTheFile
  <2> QED
    BY <1>1, <1>2, <2>1, <2>2, NothingCollected DEF OfTheFile
<1>4. CASE ~firstTime /\ localChunkNumber = p.chunk
  <2>1. CcmBits(p) = recvdSeqBitMap /\ CcmSize(p) = ChunkSize
    BY <1>4 DEF CcmBits, CcmSize, CcmJumps
  <2> QED
    BY <1>1, <1>2, <1>4, <2>1, TidyMeans DEF OfTheFile
<1> QED
  BY <1>3, <1>4

LEMMA CcmTidy ==
  ASSUME Inv, RamTypeOK, DeliveredIsOfTheFile, Tidy, tidy, sync \in Syncs, UNCHANGED sync,
         NEW p \in DataPackets(sync), InOrder(p), CcmPacket(p), CcmData(p), tidy'
  PROVE  Tidy'
<1>1. /\ eMsuState = "CCM" /\ eMsuState \in Receiving /\ OfTheFile(p)
      /\ recvdChnk \in SUBSET Chunks
  BY PacketFacts DEF CcmPacket, Receiving, OfTheFile, Inv, TypeOK
<1>2. CASE CcmIgnored(p) /\ UNCHANGED dataVars
  BY <1>1, <1>2, TidyAfterNothing DEF CcmIgnored, seqVars, FromRunning
<1>3. ASSUME CcmOpens(p)
      PROVE  /\ BufferOf(p.chunk, CcmBits(p), CcmSize(p))
             /\ Follows(p, CcmBits(p), CcmSize(p))
             /\ localChunkNumber' = p.chunk
  <2>1. p.chunk \notin recvdChnk /\ localChunkNumber' = p.chunk
    BY <1>1, <1>3 DEF CcmOpens, IsChnkRecvd, OfTheFile
  <2> QED
    BY <1>1, <2>1, CcmReady
<1>4. CASE (CcmDuplicate(p) \/ CcmSeq(p) \/ CcmChunkMissed(p))
           /\ Collects(p, CcmSize(p), CcmPosition(p))
  <2>1. CcmOpens(p) /\ recvdSeqBitMap' = CcmBits(p) \cup {p.seq} /\ recvdChnk' = recvdChnk
    BY <1>4 DEF CcmDuplicate, CcmSeq, CcmChunkMissed, CcmTakes, IsSeqRecvd, SetRecvdSeqBit
  <2>2. ~FromRunning'
    BY <1>1, <1>4 DEF CcmDuplicate, CcmSeq, CcmChunkMissed, FromRunning
  <2> QED
    BY <1>1, <1>3, <1>4, <2>1, <2>2, TidyAfterCollect
<1>5. CASE CcmChunkReceived(p) /\ Writes(p, CcmSize(p), ChunkStart(p.chunk))
  <2>1. /\ CcmOpens(p) /\ p.chunkEnd
        /\ recvdSeqBitMap' = CcmBits(p) \cup {p.seq}
        /\ GetMissedSeqBitMap(recvdSeqBitMap', p.seq, tempMissed) = {}
        /\ recvdChnk' = SetRecvdChnkBit(recvdChnk, p.chunk)
    BY <1>5 DEF CcmChunkReceived, CcmTakes, SetRecvdSeqBit
  <2>2. ~FromRunning'
    BY <1>1, <1>5 DEF CcmChunkReceived, FromRunning
  <2>3. p.seq = NumSeqs(sync, p.chunk) /\ p.seq \in 1 .. p.seq
    BY <2>1, PacketFacts, MaxSeqAssumption DEF Seqs
  <2>4. 1 .. NumSeqs(sync, p.chunk) \subseteq CcmBits(p) \cup {p.seq}
    BY <2>1, <2>3, NothingMissed
  <2> QED
    BY <1>1, <1>3, <1>5, <2>1, <2>2, <2>3, <2>4, TidyAfterWrite
<1> QED
  BY <1>2, <1>4, <1>5 DEF CcmData

\* msuLeechConfigure: an empty file, and nothing in the buffer if the session
\* begins tidy.
LEMMA StartTidy ==
  ASSUME Inv, RamStart
  PROVE  Tidy'
<1>1. /\ recvdChnk = {} /\ recvdSeqBitMap = {}
      /\ recvdChnk' = {} /\ recvdSeqBitMap' = {} /\ localChunkNumber' = 1
      /\ sync' = sync /\ sync \in Syncs /\ position' = 0
      /\ tidy' = (ChunkSize = 0) /\ ChunkSize' = ChunkSize
  BY DEF RamStart, StartSession, Inv, SessionsStartClean, SessionHasSync, InSession, Receiving
<1>2. 1 \in Chunks
  BY MaxChunkAssumption DEF Chunks
<1>3. ChunkStart(1)' = 0
  BY <1>1, <1>2, ChunkPlaces DEF ChunkStart
<1>4. Cardinality({}) = 0 /\ Collected({}, 0) = {}
  BY FS_EmptySet DEF Collected
<1>5. TidyChunksAreInPlace' /\ TidyCountMatchesBits'
  <2>1. tidy' => ChunkSize' = 0
    BY <1>1
  <2>2. Cardinality(recvdSeqBitMap)' = 0
    BY <1>1, <1>4
  <2> QED
    BY <1>1, <2>1, <2>2 DEF TidyChunksAreInPlace, TidyCountMatchesBits
<1>6. TidyBufferIsTheChunk'
  BY <1>1, <1>3, <1>4 DEF TidyBufferIsTheChunk, Holds
<1> QED
  BY <1>5, <1>6 DEF Tidy

\* The steps that touch neither the buffer nor the file.
LEMMA OtherTidy ==
  ASSUME Inv, Tidy, RamOther
  PROVE  Tidy'
<1>1. UNCHANGED dataVars /\ tidy' = tidy
  BY DEF RamOther, ramVars
<1>2. CASE (\E m \in ControlMessages : ControlMessage(m)) \/ RecvError \/ RecvTimeout
  <2>1. ControlFrame
    BY <1>2 DEF ControlMessage, TransferComplete, CCMComplete, SCMComplete, AbortTransfer,
                RecvError, RecvTimeout
  <2>2. localChunkNumber' \in {localChunkNumber, 0}
    BY <1>2 DEF ControlMessage, TransferComplete, CCMComplete, SCMComplete, AbortTransfer,
                RecvError, RecvTimeout, AsksForChunks, FinishesWith
  <2>3. /\ eMsuState \in Receiving
        /\ UNCHANGED <<recvdSeqBitMap, recvdChnk, sync>>
    BY <2>1 DEF ControlFrame, resVars
  <2>4. \A c : ChunkStart(c)' = ChunkStart(c) /\ (InPlace(c) => InPlace(c)')
    BY <1>1, <2>3 DEF ChunkStart, InPlace, dataVars
  \* CCM, once begun, is not left for Running.
  <2>5. FromRunning' => FromRunning
    BY <1>2, <2>1
       DEF ControlMessage, TransferComplete, CCMComplete, SCMComplete, AbortTransfer, RecvError,
           RecvTimeout, AsksForChunks, AsksForSeqs, FinishesWith, ControlFrame, FromRunning,
           Receiving, Inv, TypeOK, RunningHasChunk
  <2> QED
    BY <1>1, <2>2, <2>3, <2>4, <2>5
       DEF Tidy, TidyChunksAreInPlace, TidyCountMatchesBits, TidyBufferIsTheChunk, dataVars,
           InSession, Holds, Collected
<1>3. CASE Abort \/ Done
  <2>1. /\ eMsuState \in InSession /\ eMsuState' = "LoopBack"
        /\ UNCHANGED <<recvdSeqBitMap, recvdChnk, localChunkNumber, sync>>
    BY <1>3 DEF Abort, Done, seqVars, resVars, InSession
  <2>2. \A c : InPlace(c) => InPlace(c)'
    BY <1>1, <2>1 DEF ChunkStart, InPlace, dataVars
  <2> QED
    BY <1>1, <2>1, <2>2
       DEF Tidy, TidyChunksAreInPlace, TidyCountMatchesBits, TidyBufferIsTheChunk, Receiving
<1>4. CASE Initialize \/ Configure \/ StartFails \/ LoopBack \/ Listen
  <2>1. eMsuState' \notin InSession
    BY <1>4 DEF Initialize, Configure, StartFails, LoopBack, Listen, ListenReplaysSync,
                ListenSync, InSession, Receiving
  <2> QED
    BY <2>1
       DEF Tidy, TidyChunksAreInPlace, TidyCountMatchesBits, TidyBufferIsTheChunk, InSession
<1> QED
  BY <1>2, <1>3, <1>4 DEF RamOther

\* A session begins with no packet and takes none but its own.
LEMMA DeliveredStep ==
  Inv /\ DeliveredIsOfTheFile /\ [Next]_vars => DeliveredIsOfTheFile'
<1> SUFFICES ASSUME Inv, DeliveredIsOfTheFile, [Next]_vars
             PROVE  DeliveredIsOfTheFile'
  OBVIOUS
<1>1. ASSUME NEW p \in DataPackets(sync), DataPacket(p)
      PROVE  DeliveredIsOfTheFile'
  <2>1. eMsuState \in InSession /\ UNCHANGED sync /\ Arrives(p)
    BY <1>1, DataFrame DEF Inv, InSession, resVars
  <2>2. sync \in Syncs
    BY <2>1 DEF Inv, SessionHasSync
  <2>3. <<p.chunk, p.seq>> \in AllPackets(sync)
    BY <2>2, PacketFacts DEF AllPackets
  <2> QED
    BY <2>1, <2>3 DEF DeliveredIsOfTheFile, Arrives
<1>2. CASE (\E m \in ControlMessages : ControlMessage(m)) \/ RecvError \/ RecvTimeout
  BY <1>2, ControlFrameFacts DEF Inv, DeliveredIsOfTheFile, InSession
<1>3. CASE StartSession
  BY <1>3 DEF StartSession, DeliveredIsOfTheFile
<1>4. CASE Abort \/ Done
  BY <1>4 DEF Abort, Done, DeliveredIsOfTheFile, InSession, pduVars, resVars
<1>5. CASE Initialize \/ Configure \/ StartFails \/ LoopBack \/ Listen
  BY <1>5 DEF Initialize, Configure, StartFails, LoopBack, Listen, ListenReplaysSync,
              ListenSync, InSession, Receiving, DeliveredIsOfTheFile
<1>6. CASE UNCHANGED vars
  BY <1>6 DEF vars, pduVars, resVars, DeliveredIsOfTheFile
<1> QED
  BY <1>1, <1>2, <1>3, <1>4, <1>5, <1>6 DEF Next, MachineStep, ReceiveStep

-----------------------------------------------------------------------------
(* The theorems. *)

LEMMA RamInitInv == RamInit => Inv /\ RamInv
<1> SUFFICES ASSUME RamInit
             PROVE  Inv /\ RamInv
  OBVIOUS
<1>1. Inv /\ RamTypeOK
  BY InitInv, RamInitType DEF RamInit
<1>2. Tidy /\ DeliveredIsOfTheFile
  BY DEF RamInit, Init, Tidy, TidyChunksAreInPlace, TidyCountMatchesBits,
         TidyBufferIsTheChunk, DeliveredIsOfTheFile, InSession, Receiving
<1> QED
  BY <1>1, <1>2 DEF RamInv, Tidy

\* With Inv the invariant of the data path is inductive.
LEMMA RamInvStep == Inv /\ RamInv /\ [RamNext]_<<vars, ramVars>> => RamInv'
<1> SUFFICES ASSUME Inv, RamInv, [RamNext]_<<vars, ramVars>>
             PROVE  RamTypeOK' /\ Tidy'
  BY RamStepIsLeechStep, DeliveredStep DEF RamInv, Tidy
<1>1. RamTypeOK /\ DeliveredIsOfTheFile /\ Tidy
  BY DEF RamInv, Tidy
<1>2. CASE RamStart
  BY <1>1, <1>2, RamStartType, StartTidy
<1>3. CASE RamOther
  <2>1. RamTypeOK'
    BY <1>1, <1>3 DEF RamOther, ramVars, dataVars, RamTypeOK
  <2> QED
    BY <1>1, <1>3, <2>1, OtherTidy
<1>4. ASSUME NEW p \in DataPackets(sync), RamPacket(p)
      PROVE  RamTypeOK' /\ Tidy'
  <2>1. DataPacket(p) /\ tidy' = (tidy /\ InOrder(p)) /\ TypeOK
    BY <1>4 DEF RamPacket, DataPacket, Inv
  <2>2. eMsuState \in Receiving /\ UNCHANGED sync
    BY <2>1, DataFrame DEF resVars
  <2>3. sync \in Syncs
    BY <2>2 DEF Inv, SessionHasSync, InSession
  <2>4. RamTypeOK'
    BY <1>1, <1>4, <2>3, RamPacketType
  <2>5. CASE ~tidy'
    BY <2>4, <2>5
       DEF Tidy, TidyChunksAreInPlace, TidyCountMatchesBits, TidyBufferIsTheChunk
  <2>6. CASE tidy'
    <3>1. tidy /\ InOrder(p)
      BY <2>1, <2>6
    <3> QED
      BY <1>1, <1>4, <2>2, <2>3, <2>4, <2>6, <3>1, RunningTidy, ScmTidy, CcmTidy
         DEF RamPacket
  <2> QED
    BY <2>5, <2>6
<1>5. CASE UNCHANGED <<vars, ramVars>>
  <2>1. UNCHANGED dataVars /\ tidy' = tidy
    BY <1>5 DEF ramVars
  <2>2. UNCHANGED <<eMsuState, eMsuPrevState, recvdSeqBitMap, recvdChnk, localChunkNumber, sync>>
    BY <1>5 DEF vars, seqVars, resVars
  <2> QED
    BY <1>1, <2>1, <2>2, TidyAfterNothing DEF RamTypeOK, dataVars, FromRunning
<1> QED
  BY <1>2, <1>3, <1>4, <1>5 DEF RamNext

\* The invariant of the data path holds in every reachable state, for every
\* number of chunks and sequences, every set of sessions and every size of the
\* buffer.  What it says of the buffer, the count and the file it says while
\* the order of InOrder lasts, in Running, in SCM and in CCM; of other orders it
\* gives the types and the packets of the session.
THEOREM RamInvariance == RamSpec => []RamInv
<1>1. RamInit => Inv /\ RamInv
  BY RamInitInv
<1>2. Inv /\ RamInv /\ [RamNext]_<<vars, ramVars>> => (Inv /\ RamInv)'
  BY RamInvStep, RamStepIsLeechStep, InvStep
<1> QED
  BY <1>1, <1>2, PTL DEF RamSpec

\* While the packets come in the order of InOrder, a chunk marked complete is in
\* the file, each of its sequences at its place, whichever handler wrote it.
THEOREM CompleteChunksAreInPlace == RamSpec => []TidyChunksAreInPlace
  BY RamInvariance, PTL DEF RamInv

\* While the packets come in the order of InOrder, the count of the sequences in
\* the buffer is never ahead of the bitmap of the current chunk, and agrees with
\* it until CCM begins.
THEOREM CountMatchesBits == RamSpec => []TidyCountMatchesBits
  BY RamInvariance, PTL DEF RamInv

\* A file reported Passed by a session whose packets came in the order of InOrder
\* is the file that was sent: each sequence of every chunk is at its place in it,
\* also of the chunks collected again in CCM.
THEOREM TidyPassedFile == RamSpec => []TidyFileIsTheOneSent
<1>1. RamInit => TidyFileIsTheOneSent
  BY OnlyStatusReports DEF RamInit, Init, TidyFileIsTheOneSent, PassedFileIsTheOneSent
<1>2. /\ Inv /\ Inv' /\ RamInv /\ TidyFileIsTheOneSent
      /\ [RamNext]_<<vars, ramVars>>
      => TidyFileIsTheOneSent'
  <2> SUFFICES ASSUME Inv, Inv', RamInv, TidyFileIsTheOneSent, [RamNext]_<<vars, ramVars>>,
                      tidy', sent'.type = "status", sent'.result = "Passed",
                      NEW c \in 1 .. sync.chunkCount'
               PROVE  InPlace(c)'
    BY DEF TidyFileIsTheOneSent, PassedFileIsTheOneSent
  <2>1. eMsuState' = "LoopBack"
    BY DEF Inv, StatusEndsSession
  <2>2. CASE UNCHANGED <<vars, ramVars>>
    BY <2>2
       DEF vars, resVars, ramVars, dataVars, TidyFileIsTheOneSent, PassedFileIsTheOneSent,
           InPlace, ChunkStart
  <2>3. ASSUME RamNext
        PROVE  Done /\ UNCHANGED ramVars
    <3>1. ASSUME NEW p, DataPacket(p)
          PROVE  FALSE
      BY <2>1, <3>1, DataFrame DEF Inv, Receiving
    <3>2. ASSUME (\E m \in ControlMessages : ControlMessage(m)) \/ RecvError \/ RecvTimeout
          PROVE  FALSE
      BY <2>1, <3>2, ControlFrameFacts DEF Inv, Receiving
    <3>3. ~RamStart
      BY <2>1 DEF RamStart, StartSession
    <3>4. ASSUME Initialize \/ Configure \/ StartFails \/ Abort \/ LoopBack \/ Listen
          PROVE  FALSE
      BY <2>1, <3>4, OnlyStatusReports
         DEF Initialize, Configure, StartFails, Abort, LoopBack, Listen, ListenReplaysSync,
             ListenSync
    <3> QED
      BY <2>3, <3>1, <3>2, <3>3, <3>4 DEF RamNext, RamOther, RamPacket, DataPacket
  <2>4. CASE RamNext
    <3>1. /\ eMsuState = "Done" /\ UNCHANGED <<sync, tidy, file>>
      BY <2>3, <2>4 DEF Done, ramVars, dataVars
    <3>2. Missing(recvdChnk) = {}
      BY <3>1 DEF Inv, DoneMeansNothingMissing
    <3>3. c \in recvdChnk
      BY <3>1, <3>2 DEF Missing, GetMissedChnkNums, IsChnkRecvd
    <3>4. InPlace(c)
      BY <3>1, <3>3 DEF RamInv, TidyChunksAreInPlace, InSession
    <3> QED
      BY <3>1, <3>4 DEF InPlace, ChunkStart
  <2> QED
    BY <2>2, <2>4
<1>3. Spec => []Inv
  BY Invariance
<1> QED
  BY <1>1, <1>2, <1>3, RamInvariance, RamIsLeech, PTL DEF RamSpec
=============================================================================
