---------------------------- MODULE MsuLeechRam ----------------------------
(***************************************************************************)
(* The data path of the device build (CHUNK_IN_RAM): the handlers copy     *)
(* each packet into its slot of info_array, count its bytes in ChunkSize,  *)
(* and write ChunkSize bytes of info_array to the file when the chunk is   *)
(* complete.  The module adds these effects to the actions of MsuLeech; it *)
(* changes none of them, so every behaviour here is one of the leech.      *)
(*                                                                         *)
(* The unit of ChunkSize and of a file position is one sequence: seqSize   *)
(* is the size of a slot (1460), and a shorter last sequence of the file   *)
(* counts as one.  Writes succeed, and a seek past the end extends the     *)
(* file.                                                                   *)
(***************************************************************************)
EXTENDS MsuLeech

\* Bound of the model: sequences collected before a write.  In the code the
\* UINT16 ChunkSize wraps at 65536 bytes, between 44 and 45 sequences.
CONSTANT MaxSize

ASSUME MaxSizeAssumption == MaxSize \in Nat /\ MaxSize >= MaxSeq
ASSUME WritesSucceed == "write" \notin Faults

VARIABLES
  info_array,   \* the packet in each slot
  ChunkSize,
  position,     \* where pMsuFileDes stands
  file,         \* the packet at each place of the announced file
  tidy          \* history: see InOrder

dataVars == <<info_array, ChunkSize, position, file>>
ramVars  == <<dataVars, tidy>>

Zero   == <<0, 0>>   \* bytes that were cleared or never written
Beyond == <<0, 1>>   \* the memory behind info_array
Packets == Chunks \X Seqs
Places  == 1 .. (MaxChunk * MaxSeq)

Cleared   == [s \in Seqs |-> Zero]
EmptyFile == [i \in Places |-> Zero]

\* Where chunk c begins, as computed for msuFileSeek.
ChunkStart(c) == (c - 1) * sync.seqNumberLimit

RamInit ==
  /\ Init
  /\ info_array = Cleared
  /\ ChunkSize = 0
  /\ position = 0
  /\ file = EmptyFile
  /\ tidy = TRUE

-----------------------------------------------------------------------------
(* What a handler does with the data of packet p when the buffer counts    *)
(* size sequences and the file stands at position at.                      *)

WithPacketAppended(p) ==   \* mutant
  IF ChunkSize < MaxSeq THEN [info_array EXCEPT ![ChunkSize + 1] = <<p.chunk, p.seq>>]
  ELSE info_array

WithPacket(p) == [info_array EXCEPT ![p.seq] = <<p.chunk, p.seq>>]

Collects(p, size, at) ==
  /\ size < MaxSize
  /\ info_array' = WithPacket(p)
  /\ ChunkSize' = size + 1
  /\ position' = at
  /\ UNCHANGED file

\* The file after msuFileWrite of n sequences of the buffer at position at.
FileWith(buffer, n, at) ==
  [i \in Places |->
     IF i \notin (at + 1) .. (at + n) THEN file[i]
     ELSE IF i - at \in Seqs THEN buffer[i - at] ELSE Beyond]

\* The file stands after them; past the last place all positions are alike.
After(n, at) == IF at + n \in Places THEN at + n ELSE MaxChunk * MaxSeq

WritesKeepingSize(p, size, at) ==   \* mutant
  /\ size < MaxSize
  /\ file' = FileWith(WithPacket(p), size + 1, at)
  /\ position' = After(size + 1, at)
  /\ info_array' = Cleared
  /\ ChunkSize' = size + 1

Writes(p, size, at) ==
  /\ size < MaxSize
  /\ file' = FileWith(WithPacket(p), size + 1, at)
  /\ position' = After(size + 1, at)
  /\ info_array' = Cleared
  /\ ChunkSize' = 0

-----------------------------------------------------------------------------
(* The handlers. *)

\* A jump starts the count anew; so does the first packet of the file.
RunningSize(p) ==
  IF p.chunk # localChunkNumber \/ <<p.chunk, p.seq>> = <<1, 1>> THEN 0 ELSE ChunkSize

RunningPositionKept(p) == position   \* mutant

RunningPosition(p) == IF p.chunk # localChunkNumber THEN ChunkStart(p.chunk) ELSE position

RunningData(p) ==
  \/ RunningStale(p) /\ UNCHANGED dataVars
  \/ /\ RunningSeq(p) \/ RunningChunkMissed(p)
     /\ Collects(p, RunningSize(p), RunningPosition(p))
  \/ /\ RunningChunkReceived(p)
     /\ Writes(p, RunningSize(p), RunningPosition(p))

\* A jump in SCM neither seeks nor starts the count anew.
ScmData(p) ==
  \/ ScmDuplicate(p) /\ UNCHANGED dataVars
  \/ (ScmSeq(p) \/ ScmJump(p)) /\ Collects(p, ChunkSize, position)
  \/ ScmChunkReceived(p) /\ Writes(p, ChunkSize, position)

CcmSizeKept(p) == ChunkSize   \* mutant

\* The chunk that opens after firstTime does neither.  A duplicate is copied and
\* counted.  A complete chunk is written at its place.
CcmSize(p) == IF CcmJumps(p) THEN 0 ELSE ChunkSize

CcmPosition(p) == IF CcmJumps(p) THEN ChunkStart(p.chunk) ELSE position

CcmData(p) ==
  \/ CcmIgnored(p) /\ UNCHANGED dataVars
  \/ /\ CcmDuplicate(p) \/ CcmSeq(p) \/ CcmChunkMissed(p)
     /\ Collects(p, CcmSize(p), CcmPosition(p))
  \/ CcmChunkReceived(p) /\ Writes(p, CcmSize(p), ChunkStart(p.chunk))

(***************************************************************************)
(* The order in which the collection works.  Packets of lower chunks in    *)
(* Running and of complete chunks in CCM are ignored.                      *)
(*  - In Running a packet is new, and the first packet of the file comes   *)
(*    before any other.                                                    *)
(*  - In SCM it is one of the current chunk.  In an SCM that goes back to  *)
(*    CCM a new one finds the buffer holding what the bits say, and the    *)
(*    file where the chunk begins, which nothing has seen to if the chunk  *)
(*    was opened after firstTime.                                          *)
(*  - In CCM a chunk opened after firstTime finds the buffer empty.  If    *)
(*    the buffer holds what the bits of the chunk say, a packet is new.    *)
(*    If not, these bits were put aside in an earlier state and their      *)
(*    packets are lost to the buffer: then the chunk comes anew from its   *)
(*    first sequence on, in order.                                         *)
(***************************************************************************)
\* The sequences of a chunk with these bits that a buffer counting size holds.
Collected(bits, size) == IF size = Cardinality(bits) THEN bits ELSE 1 .. size

Follows(p, bits, size) ==
  IF size = Cardinality(bits) THEN p.seq \notin bits ELSE p.seq = size + 1

ScmInOrder(p) ==
  /\ p.chunk = localChunkNumber
  /\ eMsuPrevState = "CCM" =>
       \/ p.seq \in recvdSeqBitMap
       \/ /\ ChunkSize = Cardinality(recvdSeqBitMap)
          /\ position = ChunkStart(localChunkNumber)

CcmInOrder(p) ==
  \/ p.chunk \in recvdChnk
  \/ /\ firstTime => ChunkSize = 0
     /\ Follows(p, CcmBits(p), CcmSize(p))

InOrder(p) ==
  /\ eMsuState = "Running" =>
       \/ p.chunk < localChunkNumber
       \/ /\ <<p.chunk, p.seq>> \notin delivered
          /\ <<p.chunk, p.seq>> = <<1, 1>> => delivered = {}
  /\ eMsuState = "SCM" => ScmInOrder(p)
  /\ eMsuState = "CCM" => CcmInOrder(p)

RamPacket(p) ==
  /\ \/ RunningPacket(p) /\ RunningData(p)
     \/ ScmPacket(p) /\ ScmData(p)
     \/ CcmPacket(p) /\ CcmData(p)
  /\ tidy' = (tidy /\ InOrder(p))

\* msuFileOpen empties the file.  Nothing empties the buffer.
RamStart ==
  /\ StartSession
  /\ file' = EmptyFile
  /\ position' = 0
  /\ tidy' = (ChunkSize = 0)
  /\ UNCHANGED <<info_array, ChunkSize>>

RamOther ==
  /\ \/ Initialize \/ Configure \/ StartFails \/ Abort \/ Done \/ LoopBack
     \/ Listen \/ RecvTimeout \/ RecvError
     \/ \E m \in ControlMessages : ControlMessage(m)
  /\ UNCHANGED ramVars

RamNext == RamStart \/ RamOther \/ \E p \in DataPackets(sync) : RamPacket(p)

RamSpec == RamInit /\ [][RamNext]_<<vars, ramVars>>

-----------------------------------------------------------------------------
(* Properties. *)

\* What the buffer, the count and the file may hold.
RamTypeOK ==
  /\ info_array \in [Seqs -> Packets \cup {Zero}]
  /\ ChunkSize \in 0 .. MaxSize
  /\ position \in 0 .. (MaxChunk * MaxSeq)
  /\ file \in [Places -> Packets \cup {Zero, Beyond}]
  /\ tidy \in BOOLEAN

InPlace(c) ==
  \A s \in 1 .. NumSeqs(sync, c) : file[ChunkStart(c) + s] = <<c, s>>

\* As long as nothing has upset the collection, a chunk marked complete is in
\* the file, each sequence at its place: with sequences lost and asked for again
\* in SCM, chunks left out and sent again in CCM, and the file written without a
\* seek per sequence.
TidyChunksAreInPlace ==
  eMsuState \in InSession /\ tidy => \A c \in recvdChnk : InPlace(c)

\* CCM has not begun: from then on the bits of a chunk may be ahead of its buffer.
FromRunning == eMsuState = "Running" \/ (eMsuState = "SCM" /\ eMsuPrevState = "Running")

\* A write is never longer than its chunk, and until CCM begins it is as long:
\* the count of the collected sequences does not drift from the bitmap of the
\* current chunk, whichever handler collects, and is never ahead of it.
TidyCountMatchesBits ==
  eMsuState \in Receiving /\ tidy =>
    /\ ChunkSize <= Cardinality(recvdSeqBitMap)
    /\ FromRunning => ChunkSize = Cardinality(recvdSeqBitMap)

Holds(c, seqs) == \A s \in seqs : info_array[s] = <<c, s>>

\* The buffer belongs to the current chunk: it holds the sequences of its bits, or
\* as many of them from the first on as are counted; and in Running the file
\* stands where the chunk begins.
TidyBufferIsTheChunk ==
  eMsuState \in Receiving /\ tidy /\ localChunkNumber \in 1 .. sync.chunkCount =>
    /\ recvdSeqBitMap \subseteq 1 .. NumSeqs(sync, localChunkNumber)
    /\ FromRunning => position = ChunkStart(localChunkNumber)
    /\ Collected(recvdSeqBitMap, ChunkSize) \subseteq recvdSeqBitMap
    /\ Holds(localChunkNumber, Collected(recvdSeqBitMap, ChunkSize))

\* Every packet a session has had is one of its file: a packet of an earlier
\* session does not count for it.
DeliveredIsOfTheFile == eMsuState \in InSession => delivered \subseteq AllPackets(sync)

\* The five together, which with Inv are inductive.
RamInv ==
  /\ RamTypeOK
  /\ DeliveredIsOfTheFile
  /\ TidyChunksAreInPlace
  /\ TidyCountMatchesBits
  /\ TidyBufferIsTheChunk

-----------------------------------------------------------------------------
(* What comments of MsuLeech.c say of the data.  Runs show otherwise. *)

\* msuLeechStateMachine: "if everything is received it enters into done state
\* and does check sum validation on the received file", so that a Passed
\* status speaks of the file that was sent.
PassedFileIsTheOneSent ==
  sent.type = "status" /\ sent.result = "Passed"
    => \A c \in 1 .. sync.chunkCount : InPlace(c)

\* What is true of it: a file reported Passed is the one that was sent, each
\* sequence of every chunk at its place, if nothing has upset the collection.
TidyFileIsTheOneSent == tidy => PassedFileIsTheOneSent
=============================================================================
