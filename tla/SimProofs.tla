----------------------------- MODULE SimProofs ------------------------------
(***************************************************************************)
(* Proofs about module SimLeech, for every number of chunks and sequences, *)
(* every set of sessions and every set of faults.  SimInv is inductive; it *)
(* is kept by the machine steps, the data packets and the messages, and    *)
(* each of its parts has a lemma for each of the three.                    *)
(***************************************************************************)
EXTENDS SimLeech, TLAPS

-----------------------------------------------------------------------------
(* Facts about the operators. *)

\* What a session announces fits the arrays.
LEMMA SimSyncFacts ==
  ASSUME NEW y \in Syncs
  PROVE  /\ y.chunkCount \in Chunks
         /\ y.seqNumberLimit \in Seqs
         /\ y.tailSeqs \in 0 .. MaxSeq
         /\ 1 .. y.chunkCount \subseteq Chunks
         /\ \A c : NumSeqs(y, c) \in Seqs
<1>1. /\ y.chunkCount \in Chunks
      /\ y.seqNumberLimit \in Seqs
      /\ y.tailSeqs \in 0 .. MaxSeq
  BY SimSyncsAssumption DEF SyncType
<1>2. 1 .. y.chunkCount \subseteq Chunks
  BY <1>1, MaxChunkAssumption DEF Chunks
<1>3. \A c : NumSeqs(y, c) \in Seqs
  BY <1>1, MaxSeqAssumption DEF NumSeqs, Seqs
<1> QED
  BY <1>1, <1>2, <1>3

\* A data packet names a chunk and a sequence of the file.
LEMMA SimPacketFacts ==
  ASSUME NEW y \in Syncs, NEW p \in DataPackets(y)
  PROVE  /\ p.chunk \in Chunks
         /\ p.seq \in Seqs
         /\ p.seq \in 1 .. NumSeqs(y, p.chunk)
         /\ p.chunkEnd = (p.seq = NumSeqs(y, p.chunk))
         /\ p.fileEnd \in BOOLEAN
<1>1. PICK q \in AllPackets(y), f \in BOOLEAN :
        p = [type |-> "data", chunk |-> q[1], seq |-> q[2],
             chunkEnd |-> q[2] = NumSeqs(y, q[1]),
             fileEnd |-> f /\ q = <<y.chunkCount, NumSeqs(y, y.chunkCount)>>]
  BY DEF DataPackets
<1>2. PICK c \in 1 .. y.chunkCount : q \in {c} \X (1 .. NumSeqs(y, c))
  BY DEF AllPackets
<1>3. q[1] = c /\ q[2] \in 1 .. NumSeqs(y, c) /\ NumSeqs(y, c) \in Seqs /\ c \in Chunks
  BY <1>2, SimSyncFacts
<1>4. q[2] \in Seqs
  BY <1>3, MaxSeqAssumption DEF Seqs
<1> QED
  BY <1>1, <1>3, <1>4

\* No session has packets before it is announced.
LEMMA NoPackets == DataPackets(NoSync) = {}
  BY DEF DataPackets, AllPackets, NoSync

\* When getMissedSeqBitMap answers with nothing, either every sequence it was
\* asked about has its bit or its last answer was nothing as well.
LEMMA SimNothingMissed ==
  ASSUME NEW bits, NEW n, MissedSeqs(bits, n) = {},
         bits \cap (1 .. n) # {} \/ tempMissed # {}
  PROVE  1 .. n \subseteq bits /\ bits \cap (1 .. n) # {}
  BY DEF MissedSeqs, GetMissedSeqBitMap

LEMMA SimMissedType ==
  ASSUME SimTypeOK, NEW bits, NEW n \in 0 .. MaxSeq
  PROVE  MissedSeqs(bits, n) \subseteq Seqs
<1>1. 1 .. n \subseteq Seqs /\ tempMissed \subseteq Seqs
  BY MaxSeqAssumption DEF Seqs, SimTypeOK
<1> QED
  BY <1>1 DEF MissedSeqs, GetMissedSeqBitMap

LEMMA SimSavedType ==
  ASSUME SimTypeOK
  PROVE  SavedSeqVals \in [CcmSlots -> SUBSET Seqs] /\ NoSeqVals \in [CcmSlots -> SUBSET Seqs]
  BY DEF SavedSeqVals, NoSeqVals, SimTypeOK

LEMMA SimRetryType ==
  ASSUME NEW n \in 0 .. (CounterRange - 1)
  PROVE  NextRetry(n) \in 0 .. (CounterRange - 1)
  BY SimCounterAssumption DEF NextRetry

\* The lowest free number of a table that has one.
LEMMA LowestFreeIsFree ==
  ASSUME NEW table \in [Numbers -> {"free", "default", "update", "file"}],
         \E n \in Numbers : table[n] = "free"
  PROVE  LowestFree(table) \in Numbers /\ table[LowestFree(table)] = "free"
<1> DEFINE F == {n \in DOMAIN table : table[n] = "free"}
<1>1. F \subseteq 3 .. 5 /\ F # {} /\ DOMAIN table = Numbers
  BY DEF Numbers
<1>2. \E x \in F : \A y \in F : x =< y
  <2>1. CASE 3 \in F
    BY <1>1, <2>1
  <2>2. CASE 3 \notin F /\ 4 \in F
    BY <1>1, <2>2
  <2>3. CASE 3 \notin F /\ 4 \notin F
    BY <1>1, <2>3
  <2> QED
    BY <2>1, <2>2, <2>3
<1>3. Min(F) \in F
  BY <1>2 DEF Min
<1> QED
  BY <1>1, <1>3 DEF LowestFree

\* Storing a packet leaves the content of the others, and something of it.
LEMMA StoresFacts ==
  ASSUME NEW p, NEW w, SimTypeOK, p.chunk \in Chunks, p.seq \in Seqs, Stores(p, w)
  PROVE  /\ content' \in [Chunks \X Seqs -> {"nothing", "part", "all"}]
         /\ content'[<<p.chunk, p.seq>>] # "nothing"
         /\ \A q \in Chunks \X Seqs : content[q] # "nothing" => content'[q] # "nothing"
         /\ \A q \in Chunks \X Seqs : content[q] = "all" => content'[q] = "all"
         /\ \A q \in Chunks \X Seqs :
              q # <<p.chunk, p.seq>> => content'[q] = content[q]
<1>1. content \in [Chunks \X Seqs -> {"nothing", "part", "all"}]
  BY DEF SimTypeOK
<1>2. <<p.chunk, p.seq>> \in Chunks \X Seqs
  OBVIOUS
<1>3. CASE w = "all"
  <2>1. content' = [content EXCEPT ![<<p.chunk, p.seq>>] = "all"]
    BY <1>3 DEF Stores
  <2>2. \A q \in Chunks \X Seqs :
          content'[q] = IF q = <<p.chunk, p.seq>> THEN "all" ELSE content[q]
    BY <1>1, <1>2, <2>1
  <2>3. content' \in [Chunks \X Seqs -> {"nothing", "part", "all"}]
    BY <1>1, <2>1
  <2> QED
    BY <1>2, <2>2, <2>3
<1>4. CASE w # "all" /\ content[<<p.chunk, p.seq>>] = "nothing"
  <2>1. content' = [content EXCEPT ![<<p.chunk, p.seq>>] = "part"]
    BY <1>4 DEF Stores
  <2>2. \A q \in Chunks \X Seqs :
          content'[q] = IF q = <<p.chunk, p.seq>> THEN "part" ELSE content[q]
    BY <1>1, <1>2, <2>1
  <2>3. content' \in [Chunks \X Seqs -> {"nothing", "part", "all"}]
    BY <1>1, <2>1
  <2> QED
    BY <1>2, <1>4, <2>2, <2>3
<1>5. CASE w # "all" /\ content[<<p.chunk, p.seq>>] # "nothing"
  <2>1. content' = content
    BY <1>1, <1>2, <1>5 DEF Stores
  <2> QED
    BY <1>1, <1>2, <1>5, <2>1
<1> QED
  BY <1>3, <1>4, <1>5

-----------------------------------------------------------------------------
(* The data packets. *)

\* What every data packet leaves alone, and what it leaves in the buffer.
LEMMA SimDataFrame ==
  ASSUME NEW p, SimTypeOK, SimDataPacket(p)
  PROVE  /\ eMsuState \in Receiving
         /\ eMsuState' \in Receiving \cup {"Done"}
         /\ UNCHANGED <<sync, descriptors, msuDefaultSocket, msuUpdateSocket, pMsuFileDes,
                        deviceUpgadeStatus>>
         /\ gMsgBuffer' = NoMsg
         /\ sent'.type # "status"
         /\ mcastChunk' = p.chunk
<1> USE DEF NoReplay
<1>1. /\ NoMsg.type # "status"
      /\ \A c, m : ScmMsg(c, m).type # "status"
      /\ \A m : CcmMsg(m).type # "status"
  BY DEF NoMsg, ScmMsg, CcmMsg
<1>2. CASE SimRunningPacket(p)
  <2>1. ASSUME NEW next, NEW err, RunningFileEnd(p, next, err), eMsuState = "Running"
        PROVE  eMsuState' \in Receiving \cup {"Done"} /\ gMsgBuffer' = NoMsg /\ sent'.type # "status"
    BY <1>1, <2>1 DEF RunningFileEnd, Answered, Request, Receiving
  <2>2. ASSUME NEW w, RunningChunkEnd(p, w), eMsuState = "Running"
        PROVE  eMsuState' \in Receiving \cup {"Done"} /\ gMsgBuffer' = NoMsg /\ sent'.type # "status"
    BY <1>1, <2>1, <2>2 DEF RunningChunkEnd, Request, Receiving
  <2>3. CASE RunningStale(p)
    BY <1>1, <1>2, <2>3 DEF SimRunningPacket, RunningStale, Answered, Receiving, SimDataPacket, handles
  <2>4. ASSUME NEW w, RunningWriteFails(p, w) \/ RunningSeq(p, w) \/ RunningChunkEnd(p, w)
        PROVE  eMsuState' \in Receiving \cup {"Done"} /\ gMsgBuffer' = NoMsg /\ sent'.type # "status"
    BY <1>1, <1>2, <2>2, <2>4
       DEF SimRunningPacket, RunningWriteFails, RunningSeq, Answered, Receiving
  <2> QED
    BY <1>2, <2>3, <2>4 DEF SimRunningPacket, SimDataPacket, Receiving, handles
<1>3. CASE SimScmPacket(p)
  BY <1>1, <1>3
     DEF SimScmPacket, ScmDuplicate, ScmOwnChunk, ScmOtherChunk, ScmWriteFails, Answered,
         SimDataPacket, handles, Receiving, SimTypeOK
<1>4. CASE SimCcmPacket(p)
  <2>1. eMsuState = "CCM"
    BY <1>4 DEF SimCcmPacket
  <2>2. CASE CcmIgnored(p) \/ CcmNotTaken(p) \/ CcmSeq(p)
    BY <1>1, <2>1, <2>2
       DEF CcmIgnored, CcmNotTaken, CcmSeq, Answered, SimDataPacket, handles, Receiving
  <2>3. CASE CcmChunkReceived(p)
    BY <1>1, <2>1, <2>3 DEF CcmChunkReceived, Answered, SimDataPacket, handles, Receiving
  <2>4. CASE CcmChunkMissed(p)
    BY <1>1, <2>1, <2>4 DEF CcmChunkMissed, Request, SimDataPacket, handles, Receiving
  <2> QED
    BY <1>4, <2>2, <2>3, <2>4 DEF SimCcmPacket, CcmTaken
<1> QED
  BY <1>2, <1>3, <1>4 DEF SimDataPacket

\* The type of what RunningFileEnd sets.
LEMMA RunningFileEndType ==
  ASSUME NEW p, NEW next \in 0 .. (MaxChunk + 1), NEW err \in 0 .. 255,
         SimTypeOK, eMsuState = "Running", RunningFileEnd(p, next, err)
  PROVE  /\ eMsuState' \in SimStates
         /\ eMsuPrevState' \in {"Running", "CCM"}
         /\ localChunkNumber' \in 0 .. (MaxChunk + 1)
         /\ ccmRetryCount' \in 0 .. (CounterRange - 1)
         /\ MsuGlobalError' \in 0 .. 255
<1>1. NextRetry(ccmRetryCount) \in 0 .. (CounterRange - 1) /\ 0 \in 0 .. (MaxChunk + 1)
  BY SimRetryType, MaxChunkAssumption DEF SimTypeOK
<1>2. CASE ~p.fileEnd \/ Missing(recvdChnk') = {}
  BY <1>2 DEF RunningFileEnd, Answered, SimTypeOK, SimStates
<1>3. CASE ~(~p.fileEnd \/ Missing(recvdChnk') = {})
  BY <1>1, <1>3
     DEF RunningFileEnd, Request, SimTypeOK, SimStates, Receiving, SocketTxFailed
<1> QED
  BY <1>2, <1>3

LEMMA SimRunningType ==
  ASSUME NEW p, SimTypeOK, p.chunk \in Chunks, p.seq \in Seqs, p.fileEnd \in BOOLEAN,
         SimDataPacket(p), SimRunningPacket(p)
  PROVE  SimTypeOK'
<1>1. /\ p.chunk \in 0 .. MaxChunk /\ p.chunk \in 0 .. (MaxChunk + 1)
      /\ p.chunk + 1 \in 0 .. (MaxChunk + 1)
  BY MaxChunkAssumption DEF Chunks
<1>2. /\ RunningBits(p) \subseteq Seqs
      /\ SetRecvdSeqBit(RunningBits(p), p.seq) \subseteq Seqs
      /\ RunningSaved(p) \in [CcmSlots -> SUBSET Seqs]
      /\ \A bits : MissedSeqs(bits, p.seq) \subseteq Seqs
  <2>1. p.seq \in 0 .. MaxSeq
    BY MaxSeqAssumption DEF Seqs
  <2>2. \A bits : MissedSeqs(bits, p.seq) \subseteq Seqs
    BY <2>1, SimMissedType
  <2> QED
    BY <2>2, SimSavedType DEF RunningBits, RunningSaved, SetRecvdSeqBit, SimTypeOK
<1>3. /\ mcastChunk' \in 0 .. MaxChunk /\ gMsgBuffer' = NoMsg
      /\ UNCHANGED <<sync, descriptors, msuDefaultSocket, msuUpdateSocket, pMsuFileDes,
                     deviceUpgadeStatus>>
  BY <1>1, SimDataFrame
<1>4. eMsuState = "Running"
  BY DEF SimRunningPacket
<1>5. CASE RunningStale(p)
  BY <1>3, <1>5 DEF RunningStale, Answered, seqVars, ccmVars, SimTypeOK
<1>6. ASSUME NEW w, Stores(p, w), ccm_seqVal' = RunningSaved(p), UNCHANGED firstTime,
             RunningWriteFails(p, w) \/ RunningSeq(p, w) \/ RunningChunkEnd(p, w)
      PROVE  SimTypeOK'
  <2>1. content' \in [Chunks \X Seqs -> {"nothing", "part", "all"}]
    BY <1>6, StoresFacts
  <2>2. CASE RunningWriteFails(p, w) \/ RunningSeq(p, w)
    BY <1>1, <1>2, <1>3, <1>6, <2>1, <2>2
       DEF RunningWriteFails, RunningSeq, Answered, SimTypeOK, FileWriteFailed
  <2>3. CASE RunningChunkEnd(p, w)
    <3>1. /\ tempMissed' \subseteq Seqs /\ recvdSeqBitMap' \subseteq Seqs
          /\ recvdChnk' \subseteq Chunks
      BY <1>2, <2>3 DEF RunningChunkEnd, SetRecvdChnkBit, SimTypeOK
    <3>2. /\ eMsuState' \in SimStates
          /\ eMsuPrevState' \in {"Running", "CCM"}
          /\ localChunkNumber' \in 0 .. (MaxChunk + 1)
          /\ ccmRetryCount' \in 0 .. (CounterRange - 1)
          /\ MsuGlobalError' \in 0 .. 255
      <4>1. CASE /\ MsuGlobalError' = MsuGlobalError
                 /\ eMsuState' = "SCM"
                 /\ eMsuPrevState' = "Running"
                 /\ localChunkNumber' = p.chunk
                 /\ UNCHANGED ccmRetryCount
        BY <1>1, <4>1 DEF SimTypeOK, SimStates, Receiving
      <4>2. CASE \/ RunningFileEnd(p, p.chunk + 1, MsuGlobalError)
                 \/ RunningFileEnd(p, p.chunk, SocketTxFailed)
        <5>1. MsuGlobalError \in 0 .. 255 /\ SocketTxFailed \in 0 .. 255
          BY DEF SimTypeOK, SocketTxFailed
        <5>2. PICK next \in 0 .. (MaxChunk + 1), err \in 0 .. 255 : RunningFileEnd(p, next, err)
          BY <1>1, <4>2, <5>1
        <5> QED
          BY <1>4, <5>2, RunningFileEndType
      <4> QED
        BY <2>3, <4>1, <4>2 DEF RunningChunkEnd, Request
    <3> QED
      BY <1>2, <1>3, <1>6, <2>1, <2>3, <3>1, <3>2 DEF RunningChunkEnd, SimTypeOK
  <2> QED
    BY <1>6, <2>2, <2>3
<1> QED
  BY <1>5, <1>6 DEF SimRunningPacket

LEMMA SimScmType ==
  ASSUME NEW p, SimTypeOK, sync \in Syncs, p.chunk \in Chunks, p.seq \in Seqs,
         SimDataPacket(p), SimScmPacket(p)
  PROVE  SimTypeOK'
<1>1. p.chunk \in 0 .. MaxChunk /\ p.chunk \in 0 .. (MaxChunk + 1) /\ p.chunk + 1 \in 0 .. (MaxChunk + 1)
  BY MaxChunkAssumption DEF Chunks
<1>2. /\ SetRecvdSeqBit(recvdSeqBitMap, p.seq) \subseteq Seqs
      /\ \A bits : MissedSeqs(bits, ScmNoOfSeq) \subseteq Seqs
      /\ SavedSeqVals \in [CcmSlots -> SUBSET Seqs]
  <2>1. ScmNoOfSeq \in 0 .. MaxSeq
    BY SimSyncFacts, MaxSeqAssumption DEF ScmNoOfSeq, Seqs
  <2> QED
    BY <2>1, SimMissedType, SimSavedType DEF SetRecvdSeqBit, SimTypeOK
<1>3. /\ mcastChunk' \in 0 .. MaxChunk /\ gMsgBuffer' = NoMsg
      /\ UNCHANGED <<sync, descriptors, msuDefaultSocket, msuUpdateSocket, pMsuFileDes,
                     deviceUpgadeStatus>>
  BY <1>1, SimDataFrame
<1>4. eMsuState = "SCM" /\ UNCHANGED eMsuPrevState
  BY DEF SimScmPacket
<1>5. CASE ScmDuplicate(p)
  BY <1>3, <1>4, <1>5 DEF ScmDuplicate, Answered, seqVars, ccmVars, SimTypeOK
<1>6. ASSUME NEW w, Stores(p, w), ScmOwnChunk(p, w)
      PROVE  SimTypeOK'
  <2>1. content' \in [Chunks \X Seqs -> {"nothing", "part", "all"}]
    BY <1>6, StoresFacts
  <2>2. MsuGlobalError' \in 0 .. 255
    BY <1>6 DEF ScmOwnChunk, ScmWriteFails, Answered, SimTypeOK, FileWriteFailed
  <2>3. eMsuState' \in SimStates
    BY <1>4, <1>6 DEF ScmOwnChunk, ScmWriteFails, SimTypeOK, SimStates, Receiving
  <2>4. /\ tempMissed' \subseteq Seqs /\ recvdSeqBitMap' \subseteq Seqs
        /\ recvdChnk' \subseteq Chunks
    BY <1>2, <1>6 DEF ScmOwnChunk, ScmWriteFails, SetRecvdChnkBit, SimTypeOK
  <2>5. localChunkNumber' \in 0 .. (MaxChunk + 1)
    BY <1>1, <1>6 DEF ScmOwnChunk, SimTypeOK
  <2> QED
    BY <1>3, <1>4, <1>6, <2>1, <2>2, <2>3, <2>4, <2>5 DEF ScmOwnChunk, ccmVars, SimTypeOK
<1>7. ASSUME NEW w, Stores(p, w), ScmOtherChunk(p, w)
      PROVE  SimTypeOK'
  <2>1. content' \in [Chunks \X Seqs -> {"nothing", "part", "all"}]
    BY <1>7, StoresFacts
  <2>2. /\ ccmSent' \in BOOLEAN /\ ccmRetryCount' \in 0 .. (CounterRange - 1)
        /\ firstTime' \in BOOLEAN
    BY <1>7 DEF ScmOtherChunk, MayWriteBeforeArray, FirstTimeAfter, SimTypeOK
  <2>3. /\ MsuGlobalError' \in 0 .. 255 /\ eMsuState' \in SimStates
        /\ recvdSeqBitMap' \subseteq Seqs /\ tempMissed' \subseteq Seqs
    BY <1>4, <1>7
       DEF ScmOtherChunk, ScmWriteFails, Answered, SimTypeOK, FileWriteFailed, SimStates, Receiving
  <2> QED
    BY <1>1, <1>2, <1>3, <1>4, <1>7, <2>1, <2>2, <2>3 DEF ScmOtherChunk, SimTypeOK
<1> QED
  BY <1>5, <1>6, <1>7 DEF SimScmPacket

LEMMA SimCcmType ==
  ASSUME NEW p, SimTypeOK, p.chunk \in Chunks, p.seq \in Seqs,
         SimDataPacket(p), SimCcmPacket(p)
  PROVE  SimTypeOK'
<1>1. /\ p.chunk \in 0 .. MaxChunk /\ p.chunk \in 0 .. (MaxChunk + 1) /\ p.chunk \in CcmSlots
      /\ p.seq \in 0 .. MaxSeq
  BY MaxChunkAssumption, MaxSeqAssumption DEF Chunks, CcmSlots, Seqs
<1>2. /\ CcmBits(p) \subseteq Seqs
      /\ SetRecvdSeqBit(CcmBits(p), p.seq) \subseteq Seqs
      /\ CcmSaved(p) \in [CcmSlots -> SUBSET Seqs]
      /\ CcmFirstTime(p) \subseteq BOOLEAN
      /\ \A bits : MissedSeqs(bits, p.seq) \subseteq Seqs
  BY <1>1, SimMissedType, SimSavedType
     DEF CcmBits, CcmSaved, CcmFirstTime, FirstTimeAfter, SetRecvdSeqBit, SimTypeOK
<1>3. /\ mcastChunk' \in 0 .. MaxChunk /\ gMsgBuffer' = NoMsg
      /\ UNCHANGED <<sync, descriptors, msuDefaultSocket, msuUpdateSocket, pMsuFileDes,
                     deviceUpgadeStatus>>
  BY <1>1, SimDataFrame
<1>4. eMsuState = "CCM"
  BY DEF SimCcmPacket
<1>5. CASE CcmIgnored(p)
  BY <1>3, <1>5 DEF CcmIgnored, Answered, seqVars, ccmVars, SimTypeOK
<1>6. CASE /\ localChunkNumber' = p.chunk
           /\ MayWriteBeforeArray(CcmJumps(p))
           /\ CcmNotTaken(p) \/ CcmTaken(p)
  <2>1. content' \in [Chunks \X Seqs -> {"nothing", "part", "all"}]
    BY <1>6, StoresFacts DEF CcmNotTaken, CcmTaken, SimTypeOK
  <2>2. ccmSent' \in BOOLEAN /\ ccmRetryCount' \in 0 .. (CounterRange - 1)
    BY <1>6 DEF MayWriteBeforeArray, SimTypeOK
  <2>3. CASE CcmNotTaken(p)
    <3>1. /\ firstTime' \in CcmFirstTime(p)
          /\ recvdSeqBitMap' = CcmBits(p) /\ ccm_seqVal' = CcmSaved(p)
          /\ UNCHANGED <<eMsuState, eMsuPrevState, tempMissed, recvdChnk>>
          /\ \/ Answered(NoReplay, MsuGlobalError)
             \/ Answered(NoReplay, FileWriteFailed)
      BY <2>3 DEF CcmNotTaken
    <3>2. MsuGlobalError' \in 0 .. 255
      BY <3>1 DEF Answered, SimTypeOK, FileWriteFailed
    <3> QED
      BY <1>1, <1>2, <1>3, <1>6, <2>1, <2>2, <3>1, <3>2 DEF SimTypeOK
  <2>4. CASE CcmTaken(p)
    <3>1. recvdSeqBitMap' \in SUBSET Seqs
      BY <1>2, <2>4 DEF CcmTaken
    <3>2. CASE CcmSeq(p)
      BY <1>1, <1>2, <1>3, <1>6, <2>1, <2>2, <3>1, <3>2
         DEF CcmSeq, Answered, SimTypeOK
    <3>3. CASE tempMissed' = MissedSeqs(recvdSeqBitMap', p.seq) /\ CcmChunkReceived(p)
      <4>1. recvdChnk' \subseteq Chunks /\ eMsuState' \in SimStates /\ firstTime' \in BOOLEAN
        BY <1>2, <1>4, <3>3
           DEF CcmChunkReceived, SetRecvdChnkBit, SimTypeOK, SimStates, Receiving
      <4> QED
        BY <1>1, <1>2, <1>3, <1>6, <2>1, <2>2, <3>1, <3>3, <4>1
           DEF CcmChunkReceived, Answered, SimTypeOK
    <3>4. CASE tempMissed' = MissedSeqs(recvdSeqBitMap', p.seq) /\ CcmChunkMissed(p)
      <4>1. ccm_seqVal' \in [CcmSlots -> SUBSET Seqs]
        BY <1>1, <1>2, <3>1, <3>4 DEF CcmChunkMissed
      <4>2. /\ eMsuState' \in SimStates /\ eMsuPrevState' \in {"Running", "CCM"}
            /\ MsuGlobalError' \in 0 .. 255
        BY <1>4, <3>4
           DEF CcmChunkMissed, Request, SimTypeOK, SimStates, Receiving, SocketTxFailed
      <4> QED
        BY <1>1, <1>2, <1>3, <1>6, <2>1, <2>2, <3>1, <3>4, <4>1, <4>2
           DEF CcmChunkMissed, SimTypeOK
    <3> QED
      BY <2>4, <3>2, <3>3, <3>4 DEF CcmTaken
  <2> QED
    BY <1>6, <2>3, <2>4
<1> QED
  BY <1>5, <1>6 DEF SimCcmPacket

\* What a data packet does not touch keeps its invariants.
LEMMA SimDataKeeps ==
  ASSUME NEW p, SimInv, SimDataPacket(p)
  PROVE  /\ DescriptorsFitTheState'
         /\ HandlesAreLive'
         /\ DeafOnlyAfterFailedStart'
         /\ ReplayIsHarmless'
         /\ SimSessionsStartClean'
<1>1. /\ eMsuState \in Receiving
      /\ eMsuState' \in Receiving \cup {"Done"}
      /\ UNCHANGED <<sync, descriptors, msuDefaultSocket, msuUpdateSocket, pMsuFileDes>>
      /\ gMsgBuffer' = NoMsg
  BY SimDataFrame DEF SimInv
<1>2. eMsuState' \notin {"Initialize", "Configure", "Listen", "Start", "LoopBack"}
  BY <1>1 DEF Receiving
<1>3. DescriptorsFitTheState' /\ DeafOnlyAfterFailedStart'
  BY <1>2 DEF DescriptorsFitTheState, DeafOnlyAfterFailedStart, Hears
<1>4. HandlesAreLive'
  BY <1>1 DEF SimInv, HandlesAreLive
<1>5. ReplayIsHarmless'
  BY <1>1, <1>2 DEF ReplayIsHarmless, NoMsg
<1>6. SimSessionsStartClean'
  BY <1>1, <1>2 DEF SimInv, SimSessionsStartClean
<1> QED
  BY <1>3, <1>4, <1>5, <1>6

\* The parts of BitsWereWritten.
BitsOf(c, bits) == c \in Chunks => \A s \in bits : content[<<c, s>>] # "nothing"

MarkOf(c) == \A s \in 1 .. NumSeqs(sync, c) : content[<<c, s>>] # "nothing"

LEMMA BitsInParts ==
  BitsWereWritten <=>
    (eMsuState \in Receiving \cup {"Done"} =>
       /\ BitsOf(localChunkNumber, recvdSeqBitMap)
       /\ \A c \in Chunks : BitsOf(c, ccm_seqVal[c])
       /\ \A c \in recvdChnk : MarkOf(c))
  BY DEF BitsWereWritten, BitsOf, MarkOf

\* The bits put aside are those of the current chunk or were there before.
LEMMA SimSavedBits ==
  ASSUME SimTypeOK, BitsWereWritten, eMsuState \in Receiving
  PROVE  \A c \in Chunks : BitsOf(c, SavedSeqVals[c]) /\ BitsOf(c, ccm_seqVal[c])
<1>1. \A c \in Chunks : c \in CcmSlots
  BY MaxChunkAssumption DEF Chunks, CcmSlots
<1> QED
  BY <1>1, BitsInParts DEF SavedSeqVals

\* What the content backs after the step: the bits the handlers had before it,
\* current, put aside or just saved, and the marks.
LEMMA BitsBacked ==
  ASSUME NEW p, NEW w, SimTypeOK, BitsWereWritten, eMsuState \in Receiving,
         sync \in Syncs, UNCHANGED sync, p.chunk \in Chunks, p.seq \in Seqs,
         Stores(p, w) \/ UNCHANGED content
  PROVE  /\ \A s \in recvdSeqBitMap :
              localChunkNumber \in Chunks => content'[<<localChunkNumber, s>>] # "nothing"
         /\ \A c \in Chunks : \A s \in ccm_seqVal[c] \cup SavedSeqVals[c] :
              content'[<<c, s>>] # "nothing"
         /\ \A c \in recvdChnk : \A s \in 1 .. NumSeqs(sync, c) : content'[<<c, s>>] # "nothing"
         /\ Stores(p, w) => content'[<<p.chunk, p.seq>>] # "nothing"
<1>1. /\ recvdSeqBitMap \subseteq Seqs
      /\ \A c \in Chunks : ccm_seqVal[c] \subseteq Seqs /\ SavedSeqVals[c] \subseteq Seqs
      /\ recvdChnk \subseteq Chunks
  BY SimSavedType, MaxChunkAssumption DEF SimTypeOK, Chunks, CcmSlots
<1>2. /\ BitsOf(localChunkNumber, recvdSeqBitMap)
      /\ \A c \in Chunks : BitsOf(c, SavedSeqVals[c]) /\ BitsOf(c, ccm_seqVal[c])
      /\ \A c \in recvdChnk : MarkOf(c)
  BY SimSavedBits, BitsInParts
<1>3. /\ \A q \in Chunks \X Seqs : content[q] # "nothing" => content'[q] # "nothing"
      /\ Stores(p, w) => content'[<<p.chunk, p.seq>>] # "nothing"
  BY StoresFacts
<1>4. \A c : 1 .. NumSeqs(sync, c) \subseteq Seqs
  BY SimSyncFacts, MaxSeqAssumption DEF Seqs
<1> QED
  BY <1>1, <1>2, <1>3, <1>4 DEF BitsOf, MarkOf

\* The handlers of the data packets keep what SimInv says of the bitmaps: in
\* Running,
LEMMA SimRunningKeeps ==
  ASSUME NEW p, SimInv, sync \in Syncs, UNCHANGED sync, p \in DataPackets(sync),
         SimRunningPacket(p)
  PROVE  BitsWereWritten' /\ SimScmHoldsMiss'
<1>1. /\ p.chunk \in Chunks /\ p.seq \in Seqs /\ p.seq \in 1 .. p.seq
      /\ p.chunkEnd = (p.seq = NumSeqs(sync, p.chunk))
      /\ 0 \notin Chunks
  BY SimPacketFacts, MaxSeqAssumption DEF Seqs, Chunks
<1>2. eMsuState = "Running" /\ eMsuState \in Receiving /\ SimTypeOK /\ BitsWereWritten
  BY DEF SimRunningPacket, Receiving, SimInv
<1>3. CASE RunningStale(p)
  <2>1. UNCHANGED <<eMsuState, localChunkNumber, recvdSeqBitMap, ccm_seqVal, recvdChnk, content>>
    BY <1>3 DEF RunningStale, seqVars, ccmVars
  <2> QED
    BY <1>2, <2>1 DEF BitsWereWritten, SimScmHoldsMiss
<1>4. ASSUME NEW w, Stores(p, w), ccm_seqVal' = RunningSaved(p),
             RunningWriteFails(p, w) \/ RunningSeq(p, w) \/ RunningChunkEnd(p, w)
      PROVE  BitsWereWritten' /\ SimScmHoldsMiss'
  <2>1. /\ \A s \in recvdSeqBitMap :
             localChunkNumber \in Chunks => content'[<<localChunkNumber, s>>] # "nothing"
        /\ \A c \in Chunks : \A s \in ccm_seqVal[c] \cup SavedSeqVals[c] :
             content'[<<c, s>>] # "nothing"
        /\ \A c \in recvdChnk : \A s \in 1 .. NumSeqs(sync, c) : content'[<<c, s>>] # "nothing"
        /\ content'[<<p.chunk, p.seq>>] # "nothing"
    BY <1>1, <1>2, <1>4, BitsBacked
  <2>2. \A s \in RunningBits(p) \cup {p.seq} : content'[<<p.chunk, s>>] # "nothing"
    BY <1>1, <2>1 DEF RunningBits
  <2>3. \A c \in Chunks : \A s \in ccm_seqVal'[c] : content'[<<c, s>>] # "nothing"
    BY <1>4, <2>1 DEF RunningSaved
  <2>4. /\ recvdSeqBitMap' \subseteq RunningBits(p) \cup {p.seq}
        /\ recvdSeqBitMap' = {} \/ localChunkNumber' \in {p.chunk, 0}
    BY <1>4
       DEF RunningWriteFails, RunningSeq, RunningChunkEnd, RunningFileEnd, SetRecvdSeqBit
  <2>5. recvdChnk' = recvdChnk
          \/ (recvdChnk' = recvdChnk \cup {p.chunk}
                /\ 1 .. NumSeqs(sync, p.chunk) \subseteq RunningBits(p) \cup {p.seq})
    <3>1. CASE RunningWriteFails(p, w) \/ RunningSeq(p, w)
      BY <3>1 DEF RunningWriteFails, RunningSeq
    <3>2. CASE RunningChunkEnd(p, w) /\ recvdChnk' # recvdChnk
      <4>1. /\ p.chunkEnd
            /\ MissedSeqs(RunningBits(p) \cup {p.seq}, p.seq) = {}
            /\ recvdChnk' = recvdChnk \cup {p.chunk}
        BY <1>1, <3>2 DEF RunningChunkEnd, SetRecvdSeqBit, SetRecvdChnkBit
      <4> QED
        BY <1>1, <4>1, SimNothingMissed
    <3> QED
      BY <1>4, <3>1, <3>2
  <2>6. eMsuState' = "SCM" => tempMissed' # {}
    BY <1>2, <1>4
       DEF RunningWriteFails, RunningSeq, RunningChunkEnd, RunningFileEnd
  <2> QED
    BY <1>1, <2>1, <2>2, <2>3, <2>4, <2>5, <2>6 DEF BitsWereWritten, SimScmHoldsMiss
<1> QED
  BY <1>3, <1>4 DEF SimRunningPacket

\* in SCM,
LEMMA SimScmKeeps ==
  ASSUME NEW p, SimInv, sync \in Syncs, UNCHANGED sync, p \in DataPackets(sync),
         SimScmPacket(p)
  PROVE  BitsWereWritten' /\ SimScmHoldsMiss'
<1>1. /\ p.chunk \in Chunks /\ p.seq \in Seqs
      /\ 0 \notin Chunks
  BY SimPacketFacts DEF Chunks
<1>2. /\ eMsuState = "SCM" /\ eMsuState \in Receiving /\ SimTypeOK /\ BitsWereWritten
      /\ tempMissed # {} /\ eMsuPrevState # "SCM"
  BY DEF SimScmPacket, Receiving, SimInv, SimScmHoldsMiss, SimTypeOK
<1>3. CASE ScmDuplicate(p)
  <2>1. UNCHANGED <<eMsuState, localChunkNumber, recvdSeqBitMap, tempMissed, ccm_seqVal,
                    recvdChnk, content>>
    BY <1>3 DEF ScmDuplicate, seqVars, ccmVars
  <2> QED
    BY <1>2, <2>1 DEF BitsWereWritten, SimScmHoldsMiss
<1>4. ASSUME NEW w, Stores(p, w)
      PROVE  /\ \A s \in recvdSeqBitMap :
                  localChunkNumber \in Chunks => content'[<<localChunkNumber, s>>] # "nothing"
             /\ \A c \in Chunks : \A s \in ccm_seqVal[c] \cup SavedSeqVals[c] :
                  content'[<<c, s>>] # "nothing"
             /\ \A c \in recvdChnk : \A s \in 1 .. NumSeqs(sync, c) :
                  content'[<<c, s>>] # "nothing"
             /\ content'[<<p.chunk, p.seq>>] # "nothing"
  BY <1>1, <1>2, <1>4, BitsBacked
<1>5. ASSUME NEW w, Stores(p, w), ScmOwnChunk(p, w)
      PROVE  BitsWereWritten' /\ SimScmHoldsMiss'
  <2>1. \A s \in recvdSeqBitMap \cup {p.seq} : content'[<<p.chunk, s>>] # "nothing"
    BY <1>1, <1>4, <1>5 DEF ScmOwnChunk
  <2>2. /\ recvdSeqBitMap' \subseteq recvdSeqBitMap \cup {p.seq}
        /\ recvdSeqBitMap' = {} \/ localChunkNumber' = p.chunk
        /\ ccm_seqVal' = ccm_seqVal
        /\ eMsuState' = "SCM" => tempMissed' # {}
    BY <1>2, <1>5 DEF ScmOwnChunk, ScmWriteFails, SetRecvdSeqBit, ccmVars
  <2>3. recvdChnk' = recvdChnk
          \/ (recvdChnk' = recvdChnk \cup {p.chunk}
                /\ 1 .. NumSeqs(sync, p.chunk) \subseteq recvdSeqBitMap \cup {p.seq})
    <3> SUFFICES ASSUME recvdChnk' # recvdChnk
                 PROVE  /\ recvdChnk' = recvdChnk \cup {p.chunk}
                        /\ 1 .. NumSeqs(sync, p.chunk) \subseteq recvdSeqBitMap \cup {p.seq}
      OBVIOUS
    <3>1. /\ p.chunk = localChunkNumber
          /\ MissedSeqs(recvdSeqBitMap \cup {p.seq}, ScmNoOfSeq) = {}
          /\ recvdChnk' = recvdChnk \cup {p.chunk}
      BY <1>1, <1>5 DEF ScmOwnChunk, SetRecvdSeqBit, SetRecvdChnkBit
    <3>2. /\ 1 .. ScmNoOfSeq \subseteq recvdSeqBitMap \cup {p.seq}
          /\ (recvdSeqBitMap \cup {p.seq}) \cap (1 .. ScmNoOfSeq) # {}
      BY <1>2, <3>1, SimNothingMissed
    <3>3. ScmNoOfSeq # 0
      BY <3>2
    <3>4. ScmNoOfSeq = NumSeqs(sync, p.chunk)
      BY <3>1, <3>3 DEF ScmNoOfSeq, NumSeqs
    <3> QED
      BY <3>1, <3>2, <3>4
  <2> QED
    BY <1>1, <1>4, <1>5, <2>1, <2>2, <2>3 DEF BitsWereWritten, SimScmHoldsMiss
<1>6. ASSUME NEW w, Stores(p, w), ScmOtherChunk(p, w)
      PROVE  BitsWereWritten' /\ SimScmHoldsMiss'
  <2>1. /\ recvdSeqBitMap' \subseteq {p.seq} /\ localChunkNumber' = p.chunk
        /\ ccm_seqVal' = SavedSeqVals /\ recvdChnk' = recvdChnk
        /\ eMsuState' = "SCM" => tempMissed' # {}
    BY <1>2, <1>6 DEF ScmOtherChunk, ScmWriteFails
  <2> QED
    BY <1>1, <1>4, <1>6, <2>1 DEF BitsWereWritten, SimScmHoldsMiss
<1> QED
  BY <1>3, <1>5, <1>6 DEF SimScmPacket

\* and in CCM.
LEMMA SimCcmKeeps ==
  ASSUME NEW p, SimInv, sync \in Syncs, UNCHANGED sync, p \in DataPackets(sync),
         SimCcmPacket(p)
  PROVE  BitsWereWritten' /\ SimScmHoldsMiss'
<1>1. /\ p.chunk \in Chunks /\ p.chunk \in CcmSlots /\ p.seq \in Seqs /\ p.seq \in 1 .. p.seq
      /\ p.chunkEnd = (p.seq = NumSeqs(sync, p.chunk))
  BY SimPacketFacts, MaxSeqAssumption, MaxChunkAssumption DEF Seqs, Chunks, CcmSlots
<1>2. /\ eMsuState = "CCM" /\ eMsuState \in Receiving /\ SimTypeOK /\ BitsWereWritten
  BY DEF SimCcmPacket, Receiving, SimInv
<1>3. CASE CcmIgnored(p)
  <2>1. UNCHANGED <<eMsuState, localChunkNumber, recvdSeqBitMap, ccm_seqVal, recvdChnk, content>>
    BY <1>3 DEF CcmIgnored, seqVars, ccmVars
  <2> QED
    BY <1>2, <2>1 DEF BitsWereWritten, SimScmHoldsMiss
<1>4. ASSUME NEW w, Stores(p, w) \/ UNCHANGED content
      PROVE  /\ \A s \in CcmBits(p) : content'[<<p.chunk, s>>] # "nothing"
             /\ \A c \in Chunks : \A s \in CcmSaved(p)[c] : content'[<<c, s>>] # "nothing"
             /\ \A c \in recvdChnk : \A s \in 1 .. NumSeqs(sync, c) :
                  content'[<<c, s>>] # "nothing"
             /\ Stores(p, w) => content'[<<p.chunk, p.seq>>] # "nothing"
  <2>1. /\ \A s \in recvdSeqBitMap :
             localChunkNumber \in Chunks => content'[<<localChunkNumber, s>>] # "nothing"
        /\ \A c \in Chunks : \A s \in ccm_seqVal[c] \cup SavedSeqVals[c] :
             content'[<<c, s>>] # "nothing"
        /\ \A c \in recvdChnk : \A s \in 1 .. NumSeqs(sync, c) :
             content'[<<c, s>>] # "nothing"
        /\ Stores(p, w) => content'[<<p.chunk, p.seq>>] # "nothing"
    BY <1>1, <1>2, <1>4, BitsBacked
  <2> QED
    BY <1>1, <2>1 DEF CcmBits, CcmSaved
<1>5. CASE localChunkNumber' = p.chunk /\ CcmNotTaken(p)
  <2>1. PICK w : Stores(p, w) \/ UNCHANGED content
    BY <1>5 DEF CcmNotTaken
  <2>2. /\ recvdSeqBitMap' = CcmBits(p) /\ ccm_seqVal' = CcmSaved(p)
        /\ UNCHANGED <<eMsuState, recvdChnk>>
    BY <1>5 DEF CcmNotTaken
  <2>3. /\ \A s \in CcmBits(p) : content'[<<p.chunk, s>>] # "nothing"
        /\ \A c \in Chunks : \A s \in CcmSaved(p)[c] : content'[<<c, s>>] # "nothing"
        /\ \A c \in recvdChnk : \A s \in 1 .. NumSeqs(sync, c) :
             content'[<<c, s>>] # "nothing"
    BY <1>4, <2>1
  <2> QED
    BY <1>2, <1>5, <2>2, <2>3 DEF BitsWereWritten, SimScmHoldsMiss
<1>6. CASE localChunkNumber' = p.chunk /\ CcmTaken(p)
  <2>1. PICK w : Stores(p, w)
    BY <1>6 DEF CcmTaken
  <2>2. /\ \A s \in CcmBits(p) \cup {p.seq} : content'[<<p.chunk, s>>] # "nothing"
        /\ \A c \in Chunks : \A s \in CcmSaved(p)[c] : content'[<<c, s>>] # "nothing"
        /\ \A c \in recvdChnk : \A s \in 1 .. NumSeqs(sync, c) :
             content'[<<c, s>>] # "nothing"
    BY <1>4, <2>1
  <2>3. recvdSeqBitMap' = CcmBits(p) \cup {p.seq}
    BY <1>6 DEF CcmTaken, SetRecvdSeqBit
  <2>4. CcmSaved(p) \in [CcmSlots -> SUBSET Seqs]
    BY <1>2, SimSavedType DEF CcmSaved, SimTypeOK
  <2>5. CASE CcmSeq(p)
    BY <1>2, <1>6, <2>2, <2>3, <2>5 DEF CcmSeq, BitsWereWritten, SimScmHoldsMiss
  <2>6. CASE p.chunkEnd /\ tempMissed' = MissedSeqs(recvdSeqBitMap', p.seq) /\ CcmChunkReceived(p)
    <3>1. 1 .. NumSeqs(sync, p.chunk) \subseteq CcmBits(p) \cup {p.seq}
      <4>1. MissedSeqs(CcmBits(p) \cup {p.seq}, p.seq) = {}
        BY <2>3, <2>6 DEF CcmChunkReceived
      <4> QED
        BY <1>1, <2>6, <4>1, SimNothingMissed
    <3>2. recvdChnk' = recvdChnk \cup {p.chunk} /\ ccm_seqVal' = CcmSaved(p) /\ eMsuState' # "SCM"
      BY <1>1, <1>2, <2>6 DEF CcmChunkReceived, SetRecvdChnkBit
    <3> QED
      BY <1>6, <2>2, <2>3, <3>1, <3>2 DEF BitsWereWritten, SimScmHoldsMiss
  <2>7. CASE tempMissed' = MissedSeqs(recvdSeqBitMap', p.seq) /\ CcmChunkMissed(p)
    <3>1. /\ ccm_seqVal' = [CcmSaved(p) EXCEPT ![p.chunk] = CcmBits(p) \cup {p.seq}]
          /\ recvdChnk' = recvdChnk /\ tempMissed' # {}
      BY <2>3, <2>7 DEF CcmChunkMissed
    <3>2. \A c \in Chunks : c \in CcmSlots
      BY MaxChunkAssumption DEF Chunks, CcmSlots
    <3>3. \A c \in Chunks : \A s \in ccm_seqVal'[c] : content'[<<c, s>>] # "nothing"
      BY <1>1, <2>2, <2>4, <3>1, <3>2
    <3> QED
      BY <1>6, <2>2, <2>3, <3>1, <3>3 DEF BitsWereWritten, SimScmHoldsMiss
  <2> QED
    BY <1>6, <2>5, <2>6, <2>7 DEF CcmTaken
<1> QED
  BY <1>3, <1>5, <1>6 DEF SimCcmPacket

-----------------------------------------------------------------------------
(* The control messages, received or left in the buffer, and silence. *)

\* What a message in the buffer may do.
LEMMA ProcessesFacts ==
  ASSUME NEW m \in ControlMessages \cup {NoMsg, SyncMsg}, SimTypeOK, ControlFrame,
         SimScmHoldsMiss, Processes(m)
  PROVE  /\ eMsuState' \in Receiving \cup {"Done", "Abort"}
         /\ localChunkNumber' \in {localChunkNumber, 0}
         /\ eMsuPrevState' \in {eMsuPrevState, "CCM"}
         /\ tempMissed' \in {tempMissed, MissedSeqs(recvdSeqBitMap, sync.seqNumberLimit)}
         /\ ccmSent' \in BOOLEAN
         /\ ccmRetryCount' \in {ccmRetryCount, NextRetry(ccmRetryCount)}
         /\ gMsgBuffer' \in {m, NoMsg}
         /\ sent'.type # "status"
         /\ MsuGlobalError' \in {MsuGlobalError, SocketTxFailed, ExceedCcmRetry}
         /\ eMsuState' = "SCM" => tempMissed' # {}
<1>1. /\ NoMsg.type # "status"
      /\ \A c, s : ScmMsg(c, s).type # "status"
      /\ \A s : CcmMsg(s).type # "status"
  BY DEF NoMsg, ScmMsg, CcmMsg
<1>2. /\ eMsuState \in Receiving /\ eMsuPrevState \in {"Running", "CCM"} /\ ccmSent \in BOOLEAN
      /\ eMsuState = "SCM" => tempMissed # {}
  BY DEF ControlFrame, SimTypeOK, SimScmHoldsMiss
<1>3. CASE SimTransferComplete(m)
  BY <1>1, <1>2, <1>3
     DEF SimTransferComplete, FinishesWith, AsksForChunks, Answered, Request, Receiving
<1>4. CASE SimCCMComplete(m)
  BY <1>1, <1>2, <1>4
     DEF SimCCMComplete, FinishesWith, AsksForChunks, Answered, Request, Receiving
<1>5. CASE SimSCMComplete(m)
  BY <1>1, <1>2, <1>5 DEF SimSCMComplete, Answered, Request, Receiving
<1>6. CASE SimAbortTransfer(m)
  BY <1>1, <1>2, <1>6 DEF SimAbortTransfer, FinishesWith, Answered, Receiving
<1> QED
  BY <1>3, <1>4, <1>5, <1>6 DEF Processes

\* What is left in the buffer has nothing to do if it is processed again.
LEMMA ProcessedIsHarmless ==
  ASSUME NEW m \in ControlMessages \cup {NoMsg, SyncMsg}, SimTypeOK, ControlFrame, Processes(m)
  PROVE  ReplayIsHarmless'
<1>1. /\ eMsuPrevState \in {"Running", "CCM"} /\ NoMsg.type = "none"
      /\ recvdSeqBitMap' = recvdSeqBitMap /\ sync' = sync
      /\ eMsuState \in Receiving /\ eMsuState # "Start"
  BY DEF SimTypeOK, NoMsg, ControlFrame, Receiving
<1>2. CASE gMsgBuffer' = NoMsg
  <2>1. eMsuState' # "Start"
    BY <1>1 DEF Processes, SimTransferComplete, SimCCMComplete, SimSCMComplete,
                SimAbortTransfer, FinishesWith, AsksForChunks
  <2> QED
    BY <1>1, <1>2, <2>1 DEF ReplayIsHarmless
<1>3. CASE SimTransferComplete(m) /\ gMsgBuffer' # NoMsg
  <2>1. ~AsksForChunks(m, eMsuPrevState, TRUE)
    BY <1>3 DEF AsksForChunks, Request
  <2>2. /\ gMsgBuffer' = m /\ m.type = "transferComplete"
        /\ eMsuState' \in {eMsuState, "Done"}
        /\ eMsuState' = "Done" \/ (ccmSent /\ ccmSent' = ccmSent)
    BY <1>3, <2>1 DEF SimTransferComplete, FinishesWith, Answered
  <2> QED
    BY <1>1, <2>2 DEF ReplayIsHarmless, Receiving
<1>4. CASE SimCCMComplete(m) /\ gMsgBuffer' # NoMsg
  BY <1>1, <1>4
     DEF SimCCMComplete, FinishesWith, AsksForChunks, Answered, Request, ReplayIsHarmless,
         Receiving
<1>5. CASE SimSCMComplete(m) /\ gMsgBuffer' # NoMsg
  <2>1. /\ gMsgBuffer' = m /\ eMsuState' = eMsuPrevState /\ eMsuPrevState' = eMsuPrevState
        /\ m.type = "scmComplete"
        /\ m.retry => tempMissed' = MissedSeqs(recvdSeqBitMap, sync.seqNumberLimit)
                        /\ tempMissed' = {}
    BY <1>1, <1>5 DEF SimSCMComplete, Answered, Request
  <2>2. m.retry => MissedSeqs(recvdSeqBitMap, sync.seqNumberLimit)' = {}
    BY <1>1, <2>1 DEF MissedSeqs, GetMissedSeqBitMap
  <2> QED
    BY <1>1, <2>1, <2>2 DEF ReplayIsHarmless
<1>6. CASE SimAbortTransfer(m)
  BY <1>6 DEF SimAbortTransfer, FinishesWith, ReplayIsHarmless, Receiving
<1> QED
  BY <1>2, <1>3, <1>4, <1>5, <1>6 DEF Processes

LEMMA SimControlKeeps ==
  ASSUME SimInv, (\E m \in ControlMessages : SimControlMessage(m)) \/ Silence
  PROVE  SimInv'
<1>1. /\ ControlFrame /\ SimTypeOK /\ SimScmHoldsMiss
      /\ eMsuState \in Receiving
      /\ UNCHANGED <<recvdSeqBitMap, recvdChnk, firstTime, ccm_seqVal, sync, descriptors,
                     msuDefaultSocket, msuUpdateSocket, pMsuFileDes, content,
                     deviceUpgadeStatus>>
  BY DEF SimControlMessage, Silence, ControlFrame, handles, SimInv
<1>2. sync \in Syncs
  BY <1>1 DEF SimInv, SimSessionsStartClean
<1> DEFINE Handled ==
      /\ eMsuState' \in Receiving \cup {"Done", "Abort"}
      /\ localChunkNumber' \in {localChunkNumber, 0}
      /\ eMsuPrevState' \in {eMsuPrevState, "CCM"}
      /\ tempMissed' \in {tempMissed, MissedSeqs(recvdSeqBitMap, sync.seqNumberLimit)}
      /\ ccmSent' \in BOOLEAN
      /\ ccmRetryCount' \in {ccmRetryCount, NextRetry(ccmRetryCount)}
      /\ gMsgBuffer' \in ControlMessages \cup {NoMsg, SyncMsg}
      /\ mcastChunk' \in {mcastChunk, 0}
      /\ MsuGlobalError' \in {MsuGlobalError, SocketTxFailed, ExceedCcmRetry}
      /\ eMsuState' = "SCM" => tempMissed' # {}
      /\ ReplayIsHarmless'
<1>3. Handled
  <2>1. ASSUME NEW m \in ControlMessages \cup {NoMsg, SyncMsg}, Processes(m),
               UNCHANGED mcastChunk
        PROVE  Handled
    BY <1>1, <2>1, ProcessesFacts, ProcessedIsHarmless
  <2>2. CASE /\ gMsgBuffer \in {NoMsg, SyncMsg}
             /\ FinishesWith(gMsgBuffer, eMsuState, MsuGlobalError)
             /\ mcastChunk' \in {mcastChunk, 0}
             /\ UNCHANGED <<tempMissed, eMsuPrevState>>
    BY <1>1, <2>2
       DEF FinishesWith, Answered, SimTypeOK, SimScmHoldsMiss, SimInv, ReplayIsHarmless, NoMsg,
           SyncMsg, Receiving
  <2>3. gMsgBuffer \in ControlMessages \cup {NoMsg, SyncMsg}
    BY <1>1 DEF SimTypeOK
  <2> QED
    BY <2>1, <2>2, <2>3 DEF SimControlMessage, Silence
<1>4. SimTypeOK'
  <2>1. NextRetry(ccmRetryCount) \in 0 .. (CounterRange - 1)
    BY <1>1, SimRetryType DEF SimTypeOK
  <2>2. tempMissed' \subseteq Seqs
    <3>1. sync.seqNumberLimit \in 0 .. MaxSeq
      BY <1>2, SimSyncFacts, MaxSeqAssumption DEF Seqs
    <3> QED
      BY <1>1, <1>3, <3>1, SimMissedType DEF SimTypeOK
  <2>3. /\ localChunkNumber' \in 0 .. (MaxChunk + 1) /\ mcastChunk' \in 0 .. MaxChunk
        /\ MsuGlobalError' \in 0 .. 255 /\ eMsuPrevState' \in {"Running", "CCM"}
        /\ ccmRetryCount' \in 0 .. (CounterRange - 1) /\ eMsuState' \in SimStates
    BY <1>1, <1>3, <2>1, MaxChunkAssumption
       DEF SimTypeOK, SocketTxFailed, ExceedCcmRetry, SimStates
  <2> QED
    BY <1>1, <1>3, <2>2, <2>3 DEF SimTypeOK
<1>5. eMsuState' \notin {"Initialize", "Configure", "Listen", "Start", "LoopBack"}
  BY <1>3 DEF Receiving
<1>6. DescriptorsFitTheState' /\ DeafOnlyAfterFailedStart' /\ SimSessionsStartClean'
  BY <1>1, <1>2, <1>5
     DEF DescriptorsFitTheState, DeafOnlyAfterFailedStart, Hears, SimSessionsStartClean
<1>7. HandlesAreLive'
  BY <1>1 DEF SimInv, HandlesAreLive
<1>8. BitsWereWritten'
  <2>1. 0 \notin Chunks
    BY DEF Chunks
  <2> QED
    BY <1>1, <1>3, <2>1 DEF SimInv, BitsWereWritten
<1>9. SimScmHoldsMiss'
  BY <1>3 DEF SimScmHoldsMiss
<1> QED
  BY <1>3, <1>4, <1>6, <1>7, <1>8, <1>9 DEF SimInv
-----------------------------------------------------------------------------
(* The steps between sessions. *)

\* Closing a number frees it and leaves the others.
LEMMA ClosedFacts ==
  ASSUME NEW table \in [Numbers -> {"free", "default", "update", "file"}], NEW n
  PROVE  /\ Closed(table, n) \in [Numbers -> {"free", "default", "update", "file"}]
         /\ n \in Numbers => Closed(table, n)[n] = "free"
         /\ \A k \in Numbers \ {n} : Closed(table, n)[k] = table[k]
         /\ \A k \in Numbers : table[k] = "free" => Closed(table, n)[k] = "free"
  BY DEF Closed

LEMMA SimInitializeKeeps ==
  ASSUME SimInv, SimInitialize
  PROVE  SimInv'
<1> USE DEF SimInv
<1>1. SimTypeOK'
  BY MaxChunkAssumption
     DEF SimTypeOK, SimInitialize, ComplainModeInit, SimStates, ccmVars, handles, statVars
<1>2. eMsuState = "Initialize" /\ eMsuState' = "Configure" /\ UNCHANGED handles
      /\ recvdSeqBitMap' = {} /\ recvdChnk' = {}
  BY DEF SimInitialize, ComplainModeInit
<1>3. SimSessionsStartClean' /\ SimScmHoldsMiss' /\ HandlesAreLive' /\ ReplayIsHarmless'
      /\ BitsWereWritten'
  BY <1>2 DEF SimSessionsStartClean, SimScmHoldsMiss, HandlesAreLive, ReplayIsHarmless,
              BitsWereWritten, Receiving
<1>4. DescriptorsFitTheState' /\ DeafOnlyAfterFailedStart'
  BY <1>2 DEF DescriptorsFitTheState, DeafOnlyAfterFailedStart, Hears, handles
<1> QED
  BY <1>1, <1>3, <1>4

LEMMA SimConfigureKeeps ==
  ASSUME SimInv, SimConfigure
  PROVE  SimInv'
<1>1. /\ SimTypeOK /\ eMsuState = "Configure" /\ eMsuState' \in {"Configure", "Listen"}
      /\ \A n \in Numbers : descriptors[n] = "free"
      /\ recvdSeqBitMap = {} /\ recvdChnk = {}
      /\ descriptors \in [Numbers -> {"free", "default", "update", "file"}]
  BY DEF SimConfigure, SimInv, DescriptorsFitTheState, SimSessionsStartClean, SimTypeOK
<1>2. LowestFree(descriptors) \in Numbers
  BY <1>1, LowestFreeIsFree DEF Numbers
<1>3. \/ /\ eMsuState' = "Listen" /\ msuDefaultSocket' = LowestFree(descriptors)
         /\ descriptors' = [descriptors EXCEPT ![msuDefaultSocket'] = "default"]
      \/ /\ eMsuState' = "Configure" /\ msuDefaultSocket' = -1 /\ descriptors' = descriptors
  BY <1>1 DEF SimConfigure
<1>4. SimTypeOK'
  <2>1. /\ descriptors' \in [Numbers -> {"free", "default", "update", "file"}]
        /\ msuDefaultSocket' \in Numbers \cup {-1}
        /\ eMsuState' \in SimStates
    BY <1>1, <1>2, <1>3 DEF SimStates
  <2> QED
    BY <1>1, <2>1 DEF SimTypeOK, SimConfigure, seqVars, ccmVars, statVars
<1>5. SimSessionsStartClean' /\ SimScmHoldsMiss' /\ HandlesAreLive' /\ ReplayIsHarmless'
      /\ BitsWereWritten'
  BY <1>1 DEF SimConfigure, seqVars, SimSessionsStartClean, SimScmHoldsMiss, HandlesAreLive,
              ReplayIsHarmless, BitsWereWritten, Receiving
<1>6. DescriptorsFitTheState' /\ DeafOnlyAfterFailedStart'
  <2>1. CASE eMsuState' = "Listen"
    <3>1. /\ msuDefaultSocket' \in Numbers
          /\ descriptors'[msuDefaultSocket'] = "default"
          /\ \A n \in Numbers \ {msuDefaultSocket'} : descriptors'[n] = "free"
      BY <1>1, <1>2, <1>3, <2>1
    <3> QED
      BY <2>1, <3>1 DEF DescriptorsFitTheState, DeafOnlyAfterFailedStart, Hears
  <2>2. CASE eMsuState' = "Configure"
    BY <1>1, <1>3, <2>2 DEF DescriptorsFitTheState, DeafOnlyAfterFailedStart, Hears
  <2> QED
    BY <1>1, <2>1, <2>2
<1> QED
  BY <1>4, <1>5, <1>6 DEF SimInv

LEMMA SimListenSyncKeeps ==
  ASSUME NEW y \in Syncs, SimInv, SimListenSync(y)
  PROVE  SimInv'
<1>1. /\ SimTypeOK /\ Hears /\ eMsuState = "Listen" /\ eMsuState' = "Start"
      /\ msuDefaultSocket \in Numbers
      /\ \A n \in Numbers \ {msuDefaultSocket} : descriptors[n] = "free"
      /\ recvdSeqBitMap = {} /\ recvdChnk = {}
      /\ descriptors \in [Numbers -> {"free", "default", "update", "file"}]
      /\ UNCHANGED <<msuDefaultSocket, recvdSeqBitMap, recvdChnk>>
  BY DEF SimListenSync, Hears, SimInv, DescriptorsFitTheState, SimSessionsStartClean, SimTypeOK,
         seqVars
<1>2. /\ descriptors' \in [Numbers -> {"free", "default", "update", "file"}]
      /\ \A n \in Numbers : descriptors'[n] = "free"
  BY <1>1, ClosedFacts DEF SimListenSync
<1>3. SimTypeOK'
  <2>1. /\ eMsuState' \in SimStates /\ sync' \in Syncs \cup {NoSync}
        /\ gMsgBuffer' \in ControlMessages \cup {NoMsg, SyncMsg}
    BY DEF SimListenSync, SimStates
  <2>2. UNCHANGED <<eMsuPrevState, seqVars, ccmVars, mcastChunk, msuDefaultSocket,
                    msuUpdateSocket, pMsuFileDes, content, statVars>>
    BY DEF SimListenSync
  <2> QED
    BY <1>1, <1>2, <2>1, <2>2 DEF SimTypeOK, seqVars, ccmVars, statVars
<1>4. SimSessionsStartClean' /\ SimScmHoldsMiss' /\ HandlesAreLive' /\ ReplayIsHarmless'
      /\ BitsWereWritten'
  BY <1>1 DEF SimListenSync, SimSessionsStartClean, SimScmHoldsMiss, HandlesAreLive,
              ReplayIsHarmless, BitsWereWritten, Receiving
<1>5. DescriptorsFitTheState' /\ DeafOnlyAfterFailedStart'
  BY <1>1, <1>2 DEF DescriptorsFitTheState, DeafOnlyAfterFailedStart, Hears
<1> QED
  BY <1>3, <1>4, <1>5 DEF SimInv

\* A listen that leaves the leech where it is.
LEMMA SimListenKeeps ==
  ASSUME SimInv, SimRejectsSync \/ SimListensInVain
  PROVE  SimInv'
<1>1. /\ SimTypeOK /\ eMsuState = "Listen" /\ eMsuState' = "Listen"
      /\ UNCHANGED <<seqVars, handles>>
      /\ Hears \/ MsuGlobalError' = MsuGlobalError
  BY DEF SimRejectsSync, SimListensInVain, Hears, SimInv, statVars
<1>2. SimTypeOK'
  <2>1. CASE SimRejectsSync
    <3>1. MsuGlobalError' \in 0 .. 255
      BY <2>1 DEF SimRejectsSync, SyncRejects
    <3> QED
      BY <1>1, <2>1, <3>1 DEF SimTypeOK, SimRejectsSync, seqVars, ccmVars, handles
  <2>2. CASE SimListensInVain
    BY <1>1, <2>2 DEF SimTypeOK, SimListensInVain, seqVars, ccmVars, handles, statVars
  <2> QED
    BY <2>1, <2>2
<1>3. SimSessionsStartClean' /\ SimScmHoldsMiss' /\ HandlesAreLive' /\ ReplayIsHarmless'
      /\ BitsWereWritten'
  BY <1>1 DEF SimInv, SimSessionsStartClean, SimScmHoldsMiss, HandlesAreLive,
              ReplayIsHarmless, BitsWereWritten, Receiving, seqVars
<1>4. DescriptorsFitTheState' /\ DeafOnlyAfterFailedStart'
  BY <1>1 DEF SimInv, DescriptorsFitTheState, DeafOnlyAfterFailedStart, Hears, handles
<1> QED
  BY <1>2, <1>3, <1>4 DEF SimInv

LEMMA SimStartSessionKeeps ==
  ASSUME SimInv, SimStartSession
  PROVE  SimInv'
<1>1. /\ SimTypeOK /\ eMsuState = "Start" /\ eMsuState' = "Running" /\ eMsuState' \in Receiving
      /\ \A n \in Numbers : descriptors[n] = "free"
      /\ recvdSeqBitMap = {} /\ recvdChnk = {} /\ gMsgBuffer = SyncMsg /\ sync \in Syncs
      /\ descriptors \in [Numbers -> {"free", "default", "update", "file"}]
      /\ UNCHANGED <<recvdSeqBitMap, recvdChnk, gMsgBuffer, sync>>
  BY DEF SimStartSession, SimInv, DescriptorsFitTheState, SimSessionsStartClean, SimTypeOK,
         ReplayIsHarmless, Receiving
<1> DEFINE f == LowestFree(descriptors)
           table == [descriptors EXCEPT ![f] = "file"]
           u == LowestFree(table)
<1>2. f \in Numbers
  BY <1>1, LowestFreeIsFree DEF Numbers
<1>3. /\ table \in [Numbers -> {"free", "default", "update", "file"}]
      /\ table[f] = "file"
      /\ \A n \in Numbers \ {f} : table[n] = "free"
  BY <1>1, <1>2
<1>4. \E n \in Numbers : table[n] = "free"
  BY <1>2, <1>3 DEF Numbers
<1>5. u \in Numbers /\ u # f
  <2>1. u \in Numbers /\ table[u] = "free"
    BY <1>3, <1>4, LowestFreeIsFree
  <2> QED
    BY <1>3, <2>1
<1>6. pMsuFileDes' = f /\ msuUpdateSocket' = u /\ descriptors' = [table EXCEPT ![u] = "update"]
  BY DEF SimStartSession, StartOpens
<1>7. HandlesAreLive'
  <2>1. /\ descriptors'[f] = "file" /\ descriptors'[u] = "update"
        /\ \A n \in Numbers \ {f, u} : descriptors'[n] = "free"
    <3> HIDE DEF f, table, u
    <3> QED
      BY <1>2, <1>3, <1>5, <1>6
  <2> QED
    BY <1>2, <1>5, <1>6, <2>1 DEF HandlesAreLive
<1>8. SimTypeOK'
  <2>1. /\ descriptors' \in [Numbers -> {"free", "default", "update", "file"}]
        /\ {pMsuFileDes', msuUpdateSocket'} \subseteq Numbers \cup {-1}
    <3> HIDE DEF f, table, u
    <3> QED
      BY <1>2, <1>3, <1>5, <1>6
  <2>2. Blank \in [Chunks \X Seqs -> {"nothing", "part", "all"}]
    BY DEF Blank
  <2>3. 1 \in 0 .. (MaxChunk + 1) /\ 0 \in 0 .. (CounterRange - 1) /\ NoError \in 0 .. 255
    BY MaxChunkAssumption, SimCounterAssumption DEF NoError
  <2> QED
    BY <1>1, <2>1, <2>2, <2>3, SimSavedType DEF SimTypeOK, SimStartSession, SimStates
<1>9. SimSessionsStartClean' /\ SimScmHoldsMiss' /\ ReplayIsHarmless'
  BY <1>1 DEF SimSessionsStartClean, SimScmHoldsMiss, ReplayIsHarmless, SyncMsg, Receiving
<1>10. BitsWereWritten'
  <2>1. /\ \A c \in Chunks : c \in CcmSlots
        /\ ccm_seqVal' = NoSeqVals
    BY MaxChunkAssumption DEF SimStartSession, Chunks, CcmSlots
  <2>2. \A c \in Chunks : ccm_seqVal'[c] = {}
    BY <2>1 DEF NoSeqVals
  <2> QED
    BY <1>1, <2>2 DEF BitsWereWritten
<1>11. DescriptorsFitTheState' /\ DeafOnlyAfterFailedStart'
  BY <1>1 DEF DescriptorsFitTheState, DeafOnlyAfterFailedStart, Hears
<1> QED
  BY <1>7, <1>8, <1>9, <1>10, <1>11 DEF SimInv

LEMMA SimStartFailsKeeps ==
  ASSUME SimInv, SimStartFails
  PROVE  SimInv'
<1>1. /\ SimTypeOK /\ eMsuState = "Start" /\ eMsuState' = "Listen"
      /\ \A n \in Numbers : descriptors[n] = "free"
      /\ recvdSeqBitMap = {} /\ recvdChnk = {} /\ msuDefaultSocket \in Numbers
      /\ descriptors \in [Numbers -> {"free", "default", "update", "file"}]
      /\ UNCHANGED <<recvdSeqBitMap, recvdChnk, msuDefaultSocket>>
  BY DEF SimStartFails, SimInv, DescriptorsFitTheState, SimSessionsStartClean, SimTypeOK
<1>2. LowestFree(descriptors) \in Numbers
  BY <1>1, LowestFreeIsFree DEF Numbers
<1>3. /\ pMsuFileDes' \in Numbers \cup {-1} /\ msuUpdateSocket' \in Numbers \cup {-1}
      /\ descriptors' \in [Numbers -> {"free", "default", "update", "file"}]
      /\ \A n \in Numbers : descriptors'[n] # "default"
      /\ MsuGlobalError' \in {FileOpenFailed, SocketOpenFailed}
      /\ localChunkNumber' \in 0 .. (MaxChunk + 1)
      /\ content' \in [Chunks \X Seqs -> {"nothing", "part", "all"}]
  <2>1. CASE UNCHANGED <<descriptors, msuUpdateSocket, localChunkNumber, content>>
             /\ pMsuFileDes' = -1 /\ MsuGlobalError' = FileOpenFailed
    BY <1>1, <2>1 DEF SimTypeOK
  <2>2. CASE /\ pMsuFileDes' = LowestFree(descriptors)
             /\ descriptors' = [descriptors EXCEPT ![pMsuFileDes'] = "file"]
             /\ content' = Blank /\ localChunkNumber' = 1 /\ msuUpdateSocket' = -1
             /\ MsuGlobalError' = SocketOpenFailed
    <3>1. Blank \in [Chunks \X Seqs -> {"nothing", "part", "all"}]
      BY DEF Blank
    <3>2. 1 \in 0 .. (MaxChunk + 1)
      BY MaxChunkAssumption
    <3>3. /\ descriptors' \in [Numbers -> {"free", "default", "update", "file"}]
          /\ \A n \in Numbers : descriptors'[n] # "default"
      BY <1>1, <1>2, <2>2
    <3> QED
      BY <1>2, <2>2, <3>1, <3>2, <3>3
  <2> QED
    BY <2>1, <2>2 DEF SimStartFails
<1>4. SimTypeOK'
  <2>1. MsuGlobalError' \in 0 .. 255 /\ eMsuState' \in SimStates
    BY <1>1, <1>3 DEF FileOpenFailed, SocketOpenFailed, SimStates
  <2>2. UNCHANGED <<eMsuPrevState, recvdSeqBitMap, tempMissed, recvdChnk, firstTime, ccmVars,
                    mcastChunk, sync, gMsgBuffer, msuDefaultSocket, deviceUpgadeStatus>>
    BY DEF SimStartFails
  <2> QED
    BY <1>1, <1>3, <2>1, <2>2 DEF SimTypeOK, ccmVars
<1>5. SimSessionsStartClean' /\ SimScmHoldsMiss' /\ HandlesAreLive' /\ ReplayIsHarmless'
      /\ BitsWereWritten'
  BY <1>1 DEF SimSessionsStartClean, SimScmHoldsMiss, HandlesAreLive, ReplayIsHarmless,
              BitsWereWritten, Receiving
<1>6. DescriptorsFitTheState' /\ DeafOnlyAfterFailedStart'
  BY <1>1, <1>3 DEF DescriptorsFitTheState, DeafOnlyAfterFailedStart, Hears
<1> QED
  BY <1>4, <1>5, <1>6 DEF SimInv

LEMMA SimAbortKeeps ==
  ASSUME SimInv, SimAbort
  PROVE  SimInv'
<1>1. /\ SimTypeOK /\ eMsuState = "Abort" /\ eMsuState' = "LoopBack"
      /\ \A n \in Numbers \ {pMsuFileDes, msuUpdateSocket} : descriptors[n] = "free"
      /\ UNCHANGED <<descriptors, pMsuFileDes, msuUpdateSocket>>
  BY DEF SimAbort, SimInv, HandlesAreLive, handles
<1>2. SimTypeOK'
  <2>1. MsuGlobalError \in 0 .. 255 => OrAbort(MsuGlobalError) \in 0 .. 255
    BY DEF OrAbort, StatusAbort
  <2> QED
    BY <1>1, <2>1 DEF SimTypeOK, SimAbort, SimStates, seqVars, ccmVars, handles
<1>3. SimSessionsStartClean' /\ SimScmHoldsMiss' /\ HandlesAreLive' /\ ReplayIsHarmless'
      /\ BitsWereWritten'
  BY <1>1 DEF SimSessionsStartClean, SimScmHoldsMiss, HandlesAreLive, ReplayIsHarmless,
              BitsWereWritten, Receiving
<1>4. DescriptorsFitTheState' /\ DeafOnlyAfterFailedStart'
  BY <1>1 DEF DescriptorsFitTheState, DeafOnlyAfterFailedStart, Hears
<1> QED
  BY <1>2, <1>3, <1>4 DEF SimInv

LEMMA SimDoneKeeps ==
  ASSUME SimInv, SimDone
  PROVE  SimInv'
<1>1. /\ SimTypeOK /\ eMsuState = "Done" /\ eMsuState' = "LoopBack"
      /\ pMsuFileDes' = -1 /\ msuUpdateSocket' = msuUpdateSocket
      /\ \A n \in Numbers \ {pMsuFileDes, msuUpdateSocket} : descriptors[n] = "free"
      /\ descriptors \in [Numbers -> {"free", "default", "update", "file"}]
      /\ descriptors' = Closed(descriptors, pMsuFileDes)
  BY DEF SimDone, SimInv, HandlesAreLive, SimTypeOK
<1>2. /\ descriptors' \in [Numbers -> {"free", "default", "update", "file"}]
      /\ \A n \in Numbers \ {msuUpdateSocket} : descriptors'[n] = "free"
  BY <1>1, ClosedFacts
<1>3. SimTypeOK'
  <2>1. deviceUpgadeStatus' \in {"Passed", "Failed"}
        /\ MsuGlobalError' \in {FileCrcFailed, MsuGlobalError}
    BY DEF SimDone
  <2>2. eMsuState' \in SimStates /\ FileCrcFailed \in 0 .. 255
    BY <1>1 DEF SimStates, FileCrcFailed
  <2>3. UNCHANGED <<eMsuPrevState, seqVars, ccmVars, mcastChunk, sync, gMsgBuffer,
                    msuDefaultSocket, msuUpdateSocket, content>>
    BY DEF SimDone
  <2> QED
    BY <1>1, <1>2, <2>1, <2>2, <2>3 DEF SimTypeOK, seqVars, ccmVars
<1>4. SimSessionsStartClean' /\ SimScmHoldsMiss' /\ HandlesAreLive' /\ ReplayIsHarmless'
      /\ BitsWereWritten'
  BY <1>1 DEF SimSessionsStartClean, SimScmHoldsMiss, HandlesAreLive, ReplayIsHarmless,
              BitsWereWritten, Receiving
<1>5. DescriptorsFitTheState' /\ DeafOnlyAfterFailedStart'
  BY <1>1, <1>2 DEF DescriptorsFitTheState, DeafOnlyAfterFailedStart, Hears
<1> QED
  BY <1>3, <1>4, <1>5 DEF SimInv

LEMMA SimLoopBackKeeps ==
  ASSUME SimInv, SimLoopBack
  PROVE  SimInv'
<1>1. /\ SimTypeOK /\ eMsuState = "LoopBack" /\ eMsuState' = "Configure"
      /\ \A n \in Numbers \ {pMsuFileDes, msuUpdateSocket} : descriptors[n] = "free"
      /\ descriptors \in [Numbers -> {"free", "default", "update", "file"}]
      /\ recvdSeqBitMap' = {} /\ recvdChnk' = {}
  BY DEF SimLoopBack, SimInv, DescriptorsFitTheState, SimTypeOK, ComplainModeInit
<1> DEFINE one == Closed(descriptors, msuUpdateSocket)
           two == Closed(one, msuDefaultSocket)
<1>2. /\ one \in [Numbers -> {"free", "default", "update", "file"}]
      /\ \A n \in Numbers \ {pMsuFileDes} : one[n] = "free"
  BY <1>1, ClosedFacts
<1>3. /\ two \in [Numbers -> {"free", "default", "update", "file"}]
      /\ \A n \in Numbers \ {pMsuFileDes} : two[n] = "free"
  <2> HIDE DEF one
  <2> QED
    BY <1>2, ClosedFacts
<1>4. /\ descriptors' \in [Numbers -> {"free", "default", "update", "file"}]
      /\ \A n \in Numbers : descriptors'[n] = "free"
  <2>1. descriptors' = Closed(two, pMsuFileDes)
    BY DEF SimLoopBack, ReleaseCloses
  <2> HIDE DEF two
  <2> QED
    BY <1>3, <2>1, ClosedFacts
<1>5. SimTypeOK'
  <2>1. /\ msuUpdateSocket' = -1 /\ msuDefaultSocket' = -1 /\ localChunkNumber' = 0
        /\ firstTime' = TRUE
        /\ UNCHANGED <<eMsuPrevState, tempMissed, ccmVars, mcastChunk, sync, gMsgBuffer,
                       pMsuFileDes, content, statVars>>
    BY DEF SimLoopBack
  <2>2. 0 \in 0 .. (MaxChunk + 1) /\ eMsuState' \in SimStates
    BY <1>1, MaxChunkAssumption DEF SimStates
  <2> QED
    BY <1>1, <1>4, <2>1, <2>2 DEF SimTypeOK, ccmVars, statVars
<1>6. SimSessionsStartClean' /\ SimScmHoldsMiss' /\ HandlesAreLive' /\ ReplayIsHarmless'
      /\ BitsWereWritten'
  BY <1>1 DEF SimSessionsStartClean, SimScmHoldsMiss, HandlesAreLive, ReplayIsHarmless,
              BitsWereWritten, Receiving
<1>7. DescriptorsFitTheState' /\ DeafOnlyAfterFailedStart'
  BY <1>1, <1>4 DEF DescriptorsFitTheState, DeafOnlyAfterFailedStart, Hears
<1> QED
  BY <1>5, <1>6, <1>7 DEF SimInv
-----------------------------------------------------------------------------
(* The invariant and what follows from it. *)

LEMMA SimInitInv ==
  ASSUME SimInit
  PROVE  SimInv
<1>1. /\ eMsuState = "Initialize" /\ recvdSeqBitMap = {} /\ recvdChnk = {}
      /\ \A n \in Numbers : descriptors[n] = "free"
  BY DEF SimInit
<1>2. SimTypeOK
  <2>1. /\ 0 \in 0 .. (MaxChunk + 1) /\ 0 \in 0 .. (CounterRange - 1) /\ 0 \in 0 .. MaxChunk
        /\ NoError \in 0 .. 255
    BY MaxChunkAssumption, SimCounterAssumption DEF NoError
  <2>2. Blank \in [Chunks \X Seqs -> {"nothing", "part", "all"}]
    BY DEF Blank
  <2>3. NoSeqVals \in [CcmSlots -> SUBSET Seqs]
    BY DEF NoSeqVals
  <2> QED
    BY <2>1, <2>2, <2>3 DEF SimInit, SimTypeOK, SimStates
<1>3. /\ SimSessionsStartClean /\ SimScmHoldsMiss /\ HandlesAreLive /\ ReplayIsHarmless
      /\ BitsWereWritten
  BY <1>1 DEF SimSessionsStartClean, SimScmHoldsMiss, HandlesAreLive, ReplayIsHarmless,
              BitsWereWritten, Receiving
<1>4. DescriptorsFitTheState /\ DeafOnlyAfterFailedStart
  BY <1>1 DEF DescriptorsFitTheState, DeafOnlyAfterFailedStart, Hears
<1> QED
  BY <1>2, <1>3, <1>4 DEF SimInv

LEMMA SimDataInv ==
  ASSUME NEW p \in DataPackets(sync), SimInv, SimDataPacket(p)
  PROVE  SimInv'
<1>1. SimTypeOK
  BY DEF SimInv
<1>2. sync \in Syncs /\ UNCHANGED sync
  BY <1>1, SimDataFrame DEF SimInv, SimSessionsStartClean
<1>3. p.chunk \in Chunks /\ p.seq \in Seqs /\ p.fileEnd \in BOOLEAN
  BY <1>2, SimPacketFacts
<1>4. SimTypeOK' /\ BitsWereWritten' /\ SimScmHoldsMiss'
  <2>1. CASE SimRunningPacket(p)
    BY <1>1, <1>2, <1>3, <2>1, SimRunningType, SimRunningKeeps
  <2>2. CASE SimScmPacket(p)
    BY <1>1, <1>2, <1>3, <2>2, SimScmType, SimScmKeeps
  <2>3. CASE SimCcmPacket(p)
    BY <1>1, <1>2, <1>3, <2>3, SimCcmType, SimCcmKeeps
  <2> QED
    BY <2>1, <2>2, <2>3 DEF SimDataPacket
<1> QED
  BY <1>4, SimDataKeeps DEF SimInv

LEMMA SimInvStep == SimInv /\ [SimNext]_simVars => SimInv'
<1> SUFFICES ASSUME SimInv, [SimNext]_simVars
             PROVE  SimInv'
  OBVIOUS
<1>1. CASE UNCHANGED simVars
  BY <1>1
     DEF simVars, seqVars, ccmVars, handles, statVars, SimInv, SimTypeOK, SimSessionsStartClean,
         SimScmHoldsMiss, DescriptorsFitTheState, HandlesAreLive, DeafOnlyAfterFailedStart,
         ReplayIsHarmless, BitsWereWritten, Hears, MissedSeqs
<1>2. CASE SimMachineStep
  BY <1>2, SimInitializeKeeps, SimConfigureKeeps, SimStartSessionKeeps, SimStartFailsKeeps,
     SimAbortKeeps, SimDoneKeeps, SimLoopBackKeeps DEF SimMachineStep
<1>3. CASE SimListen
  BY <1>3, SimListenKeeps, SimListenSyncKeeps DEF SimListen
<1>4. CASE SimReceiveStep
  BY <1>4, SimDataInv, SimControlKeeps DEF SimReceiveStep
<1> QED
  BY <1>1, <1>2, <1>3, <1>4 DEF SimNext

\* The inductive invariant of the simulator holds in every reachable state, for
\* every number of chunks and sequences, every set of sessions and of faults.
THEOREM SimInvariance == SimSpec => []SimInv
<1>1. SimInit => SimInv
  BY SimInitInv
<1> QED
  BY <1>1, SimInvStep, PTL DEF SimSpec

\* A bit in a bitmap or a chunk mark stands for packets the handlers have put
\* into the file.
THEOREM SimBitsWereWritten == SimSpec => []BitsWereWritten
  BY SimInvariance, PTL DEF SimInv

\* The file and the update socket of a session are open under the numbers the
\* simulator has for them, and nothing else is open.
THEOREM SimHandlesAreLive == SimSpec => []HandlesAreLive
  BY SimInvariance, PTL DEF SimInv

\* The leech listens without a socket only after a start that failed.
THEOREM SimDeafness == SimSpec => []DeafOnlyAfterFailedStart
  BY SimInvariance, PTL DEF SimInv

\* No descriptor is left open when a session is over.
THEOREM SimNoDescriptorLeft == SimSpec => []NoDescriptorLeft
<1>1. SimInv => NoDescriptorLeft
  BY DEF SimInv, DescriptorsFitTheState, NoDescriptorLeft
<1> QED
  BY <1>1, SimInvariance, PTL

\* Only msuStateDone reports a status, and then from the file it has read.
LEMMA OnlyDoneReports ==
  ASSUME SimInv, SimNext, sent'.type = "status"
  PROVE  SimDone
<1>1. NoMsg.type # "status" /\ SimTypeOK /\ SimScmHoldsMiss
  BY DEF NoMsg, SimInv
<1>2. CASE SimMachineStep
  BY <1>1, <1>2
     DEF SimMachineStep, SimInitialize, SimConfigure, SimStartSession, SimStartFails, SimAbort,
         SimLoopBack
<1>3. CASE SimListen
  BY <1>1, <1>3 DEF SimListen, SimRejectsSync, SimListensInVain, SimListenSync
<1>4. ASSUME NEW p, SimDataPacket(p)
      PROVE  FALSE
  BY <1>1, <1>4, SimDataFrame
<1>5. ASSUME NEW m \in ControlMessages \cup {NoMsg, SyncMsg}, ControlFrame, Processes(m)
      PROVE  FALSE
  BY <1>1, <1>5, ProcessesFacts
<1>6. CASE Silence
  <2>1. gMsgBuffer \in ControlMessages \cup {NoMsg, SyncMsg}
    BY <1>1 DEF SimTypeOK
  <2> QED
    BY <1>1, <1>5, <1>6, <2>1 DEF Silence, FinishesWith, Answered
<1>7. ASSUME NEW m \in ControlMessages, SimControlMessage(m)
      PROVE  FALSE
  BY <1>5, <1>7 DEF SimControlMessage
<1> QED
  BY <1>2, <1>3, <1>4, <1>6, <1>7 DEF SimNext, SimReceiveStep

\* A simulator that reports success has handed every packet to the file: Done asks
\* for every mark, and a mark stands for packets that were handed over.
THEOREM SimPassedMeansHanded == SimSpec => []PassedMeansHanded
<1>1. SimInit => PassedMeansHanded
  BY DEF SimInit, PassedMeansHanded, NoMsg
<1>2. SimInv /\ PassedMeansHanded /\ [SimNext]_simVars => PassedMeansHanded'
  <2> SUFFICES ASSUME SimInv, PassedMeansHanded, [SimNext]_simVars,
                      sent'.type = "status", sent'.result = "Passed"
               PROVE  \A p \in AllPackets(sync') : content'[p] # "nothing"
    BY DEF PassedMeansHanded
  <2>1. CASE UNCHANGED simVars
    BY <2>1 DEF simVars, PassedMeansHanded
  <2>2. CASE SimNext
    <3>1. SimDone
      BY <2>2, OnlyDoneReports
    <3>2. sent' = StatusMsg(deviceUpgadeStatus', MsuGlobalError')
      BY <3>1 DEF SimDone, NoMsg
    <3>3. deviceUpgadeStatus' = "Passed"
      BY <3>2 DEF StatusMsg
    <3>4. Missing(recvdChnk) = {} /\ UNCHANGED <<sync, content>> /\ eMsuState = "Done"
      BY <3>1, <3>3 DEF SimDone
    <3>5. sync \in Syncs
      BY <3>4 DEF SimInv, SimSessionsStartClean
    <3>6. ASSUME NEW c \in 1 .. sync.chunkCount, NEW s \in 1 .. NumSeqs(sync, c)
          PROVE  content[<<c, s>>] # "nothing"
      <4>1. c \in recvdChnk
        BY <3>4 DEF Missing, GetMissedChnkNums, IsChnkRecvd
      <4> QED
        BY <3>4, <4>1 DEF SimInv, BitsWereWritten
    <3> QED
      BY <3>4, <3>6 DEF AllPackets
  <2> QED
    BY <2>1, <2>2
<1> QED
  BY <1>1, <1>2, SimInvariance, PTL DEF SimSpec

\* A receive that fails or times out processes the message in the buffer again,
\* and changes nothing of the session.
THEOREM SimSilence == SimSpec => SilenceChangesNothing
<1>1. ASSUME SimInv, Silence
      PROVE  /\ sent' = NoMsg
             /\ UNCHANGED <<eMsuState, eMsuPrevState, seqVars, ccmVars, content,
                            MsuGlobalError>>
  <2>1. /\ SimTypeOK /\ ReplayIsHarmless /\ eMsuState \in Receiving
        /\ UNCHANGED <<recvdSeqBitMap, recvdChnk, firstTime, ccm_seqVal, content>>
    BY <1>1 DEF SimInv, Silence, ControlFrame
  <2>2. /\ gMsgBuffer.type \notin {"ccmComplete", "abort"}
        /\ gMsgBuffer.type = "transferComplete" => ccmSent
        /\ gMsgBuffer.type = "scmComplete" =>
             /\ eMsuState = eMsuPrevState
             /\ gMsgBuffer.retry =>
                  tempMissed = {} /\ MissedSeqs(recvdSeqBitMap, sync.seqNumberLimit) = {}
    BY <2>1 DEF ReplayIsHarmless
  <2>3. CASE gMsgBuffer \in {NoMsg, SyncMsg}
             /\ FinishesWith(gMsgBuffer, eMsuState, MsuGlobalError)
             /\ UNCHANGED <<tempMissed, eMsuPrevState>>
    BY <2>1, <2>3 DEF FinishesWith, Answered, seqVars, ccmVars
  <2>4. CASE Processes(gMsgBuffer)
    <3>1. ~SimCCMComplete(gMsgBuffer) /\ ~SimAbortTransfer(gMsgBuffer)
      BY <2>2 DEF SimCCMComplete, SimAbortTransfer
    <3>2. CASE SimTransferComplete(gMsgBuffer)
      BY <2>1, <2>2, <3>2 DEF SimTransferComplete, FinishesWith, Answered, seqVars, ccmVars
    <3>3. CASE SimSCMComplete(gMsgBuffer)
      <4>1. /\ eMsuState' = eMsuPrevState /\ Answered(gMsgBuffer, MsuGlobalError)
            /\ tempMissed' = tempMissed
        BY <2>2, <3>3 DEF SimSCMComplete
      <4> QED
        BY <2>1, <2>2, <3>3, <4>1 DEF SimSCMComplete, Answered, seqVars, ccmVars
    <3> QED
      BY <2>4, <3>1, <3>2, <3>3 DEF Processes
  <2> QED
    BY <1>1, <2>3, <2>4 DEF Silence
<1>2. SimInv /\ [SimNext]_simVars
      => [Silence => /\ sent' = NoMsg
                     /\ UNCHANGED <<eMsuState, eMsuPrevState, seqVars, ccmVars, content,
                                    MsuGlobalError>>]_simVars
  BY <1>1
<1> QED
  BY <1>2, SimInvariance, PTL DEF SimSpec, SilenceChangesNothing

-----------------------------------------------------------------------------
(* The simulator implements UpgradeSession. *)

LEMMA SimPhaseFacts ==
  /\ eMsuState \in Receiving => Phase = "receiving"
  /\ eMsuState = "Done" => Phase = "concluded"
  /\ eMsuState = "Abort" => Phase = "failed"
  /\ eMsuState = "LoopBack" => Phase = "closing"
  /\ eMsuState \in {"Initialize", "Configure", "Listen", "Start"} => Phase = "idle"
  BY DEF Phase, Receiving

LEMMA SimReportFacts ==
  /\ sent.type # "status" => Reported = "none"
  /\ Reported \in {"Passed", "none"}
  /\ NoMsg.type # "status"
  BY DEF Reported, NoMsg

\* The status is the last message of a session.
StatusEndsSession == sent.type = "status" => eMsuState = "LoopBack"

LEMMA SimStatusEndsSession == SimSpec => []StatusEndsSession
<1>1. SimInit => StatusEndsSession
  BY DEF SimInit, StatusEndsSession, NoMsg
<1>2. SimInv /\ StatusEndsSession /\ [SimNext]_simVars => StatusEndsSession'
  BY OnlyDoneReports DEF StatusEndsSession, SimDone, simVars
<1> QED
  BY <1>1, <1>2, SimInvariance, PTL DEF SimSpec

\* A data packet that stores anything stores its own packet.
LEMMA DataStores ==
  ASSUME NEW p, SimDataPacket(p)
  PROVE  UNCHANGED content \/ \E w : Stores(p, w)
<1>1. CASE SimRunningPacket(p)
  BY <1>1 DEF SimRunningPacket, RunningStale
<1>2. CASE SimScmPacket(p)
  BY <1>2 DEF SimScmPacket, ScmDuplicate
<1>3. CASE SimCcmPacket(p)
  BY <1>3 DEF SimCcmPacket, CcmIgnored, CcmNotTaken, CcmTaken
<1> QED
  BY <1>1, <1>2, <1>3 DEF SimDataPacket

\* The three handlers end a session only when every chunk is marked.
LEMMA DataEndsComplete ==
  ASSUME NEW p, SimTypeOK, SimDataPacket(p), eMsuState' = "Done"
  PROVE  Missing(recvdChnk') = {}
<1>1. eMsuState \in Receiving /\ eMsuState # "Done" /\ eMsuPrevState # "Done"
  BY SimDataFrame DEF Receiving, SimTypeOK
<1>2. CASE SimRunningPacket(p)
  <2>1. ASSUME NEW next, NEW err, RunningFileEnd(p, next, err)
        PROVE  Missing(recvdChnk') = {}
    BY <1>1, <2>1 DEF RunningFileEnd
  <2>2. ASSUME NEW w, RunningChunkEnd(p, w)
        PROVE  Missing(recvdChnk') = {}
    BY <2>1, <2>2 DEF RunningChunkEnd
  <2> QED
    BY <1>1, <1>2, <2>2 DEF SimRunningPacket, RunningStale, RunningWriteFails, RunningSeq
<1>3. CASE SimScmPacket(p)
  BY <1>1, <1>3
     DEF SimScmPacket, ScmDuplicate, ScmOwnChunk, ScmOtherChunk, ScmWriteFails
<1>4. CASE SimCcmPacket(p)
  BY <1>1, <1>4
     DEF SimCcmPacket, CcmIgnored, CcmNotTaken, CcmTaken, CcmSeq, CcmChunkReceived,
         CcmChunkMissed
<1> QED
  BY <1>2, <1>3, <1>4 DEF SimDataPacket

\* So do the control messages.
LEMMA ControlEndsComplete ==
  ASSUME NEW m, SimTypeOK, ControlFrame, Processes(m), eMsuState' = "Done"
  PROVE  Missing(recvdChnk) = {}
<1>1. eMsuState \in Receiving /\ eMsuState # "Done" /\ eMsuPrevState # "Done"
  BY DEF ControlFrame, Receiving, SimTypeOK
<1> QED
  BY <1>1 DEF Processes, SimTransferComplete, SimCCMComplete, SimSCMComplete,
              SimAbortTransfer, FinishesWith, AsksForChunks

\* A session with no chunk missing has handed every packet to the file.
LEMMA EverythingIsHanded ==
  ASSUME SimInv', eMsuState' = "Done", sync' = sync, Missing(recvdChnk') = {}
  PROVE  AllPackets(sync) \subseteq HandedToFile'
<1>1. /\ sync \in Syncs
      /\ content' \in [Chunks \X Seqs -> {"nothing", "part", "all"}]
      /\ \A c \in recvdChnk' : \A s \in 1 .. NumSeqs(sync, c) : content'[<<c, s>>] # "nothing"
  BY DEF SimInv, SimTypeOK, SimSessionsStartClean, BitsWereWritten
<1>2. HandedToFile' = {q \in Chunks \X Seqs : content'[q] # "nothing"}
  <2>1. Phase' # "idle"
    BY DEF Phase, Receiving
  <2> QED
    BY <1>1, <2>1 DEF HandedToFile
<1>3. ASSUME NEW c \in 1 .. sync.chunkCount, NEW s \in 1 .. NumSeqs(sync, c)
      PROVE  <<c, s>> \in HandedToFile'
  <2>1. c \in recvdChnk'
    BY DEF Missing, GetMissedChnkNums, IsChnkRecvd
  <2>2. c \in Chunks /\ s \in Seqs
    BY <1>1, SimSyncFacts, MaxSeqAssumption DEF Seqs
  <2> QED
    BY <1>1, <1>2, <2>1, <2>2
<1> QED
  BY <1>3 DEF AllPackets

\* A packet is a part of the file that arrives.
LEMMA SimDataImplements ==
  ASSUME SimInv, SimInv', NEW p \in DataPackets(sync), SimDataPacket(p)
  PROVE  Session!Receive
<1>1. /\ SimTypeOK /\ SimTypeOK'
      /\ sync \in Syncs /\ sync' = sync
      /\ eMsuState \in Receiving
      /\ eMsuState' \in Receiving \cup {"Done"}
      /\ sent'.type # "status"
  BY SimDataFrame DEF SimInv, SimSessionsStartClean
<1>2. p.chunk \in Chunks /\ p.seq \in Seqs
  BY <1>1, SimPacketFacts
<1>3. <<p.chunk, p.seq>> \in AllPackets(sync)
  <2>1. PICK q \in AllPackets(sync), f \in BOOLEAN :
          p = [type |-> "data", chunk |-> q[1], seq |-> q[2],
               chunkEnd |-> q[2] = NumSeqs(sync, q[1]),
               fileEnd |-> f /\ q = <<sync.chunkCount, NumSeqs(sync, sync.chunkCount)>>]
    BY DEF DataPackets
  <2>2. q = <<q[1], q[2]>>
    BY DEF AllPackets
  <2> QED
    BY <2>1, <2>2
<1>4. Phase = "receiving" /\ Phase' \in {"receiving", "concluded"} /\ Reported' = "none"
  BY <1>1 DEF Phase, Receiving, Reported
<1>5. /\ HandedToFile = {q \in Chunks \X Seqs : content[q] # "nothing"}
      /\ HandedToFile' = {q \in Chunks \X Seqs : content'[q] # "nothing"}
  BY <1>1, <1>4 DEF HandedToFile, SimTypeOK
<1>6. \/ HandedToFile' = HandedToFile
      \/ HandedToFile' = HandedToFile \cup {<<p.chunk, p.seq>>}
  <2>1. CASE UNCHANGED content
    BY <1>5, <2>1
  <2>2. CASE \E w : Stores(p, w)
    <3>1. /\ content'[<<p.chunk, p.seq>>] # "nothing"
          /\ \A q \in Chunks \X Seqs :
               q # <<p.chunk, p.seq>> => content'[q] = content[q]
      BY <1>1, <1>2, <2>2, StoresFacts
    <3> QED
      BY <1>2, <1>5, <3>1
  <2> QED
    BY <2>1, <2>2, DataStores
<1>7. Phase' = "concluded" => AllPackets(sync) \subseteq HandedToFile'
  <2> SUFFICES ASSUME Phase' = "concluded"
               PROVE  AllPackets(sync) \subseteq HandedToFile'
    OBVIOUS
  <2>1. eMsuState' = "Done"
    BY <1>1 DEF Phase, Receiving
  <2>2. Missing(recvdChnk') = {}
    BY <1>1, <2>1, DataEndsComplete
  <2> QED
    BY <1>1, <2>1, <2>2, EverythingIsHanded
<1> QED
  BY <1>1, <1>3, <1>4, <1>6, <1>7 DEF Session!Receive

\* A control message, one that is processed again, or silence concludes the
\* session, gives it up, or changes nothing of it.
LEMMA SimControlImplements ==
  ASSUME SimInv, SimInv', (\E m \in ControlMessages : SimControlMessage(m)) \/ Silence
  PROVE  Session!Next
<1>1. /\ SimTypeOK /\ SimScmHoldsMiss /\ ControlFrame
      /\ eMsuState \in Receiving
      /\ UNCHANGED <<sync, content, recvdChnk>>
  BY DEF SimInv, SimControlMessage, Silence, ControlFrame
<1>2. /\ eMsuState' \in Receiving \cup {"Done", "Abort"}
      /\ sent'.type # "status"
      /\ eMsuState' = "Done" => Missing(recvdChnk) = {}
  <2>1. ASSUME NEW m \in ControlMessages \cup {NoMsg, SyncMsg}, Processes(m)
        PROVE  /\ eMsuState' \in Receiving \cup {"Done", "Abort"}
               /\ sent'.type # "status"
               /\ eMsuState' = "Done" => Missing(recvdChnk) = {}
    BY <1>1, <2>1, ProcessesFacts, ControlEndsComplete
  <2>2. ASSUME FinishesWith(gMsgBuffer, eMsuState, MsuGlobalError)
        PROVE  eMsuState' = eMsuState /\ sent'.type # "status"
    BY <2>2, SimReportFacts DEF FinishesWith, Answered
  <2>3. gMsgBuffer \in ControlMessages \cup {NoMsg, SyncMsg}
    BY <1>1 DEF SimTypeOK
  <2>4. CASE \E m \in ControlMessages : SimControlMessage(m)
    BY <2>1, <2>4 DEF SimControlMessage
  <2>5. CASE Silence
    BY <1>1, <2>1, <2>2, <2>3, <2>5 DEF Silence, Receiving
  <2> QED
    BY <2>4, <2>5
<1>3. Phase = "receiving" /\ Reported' = "none"
  BY <1>1, <1>2, SimPhaseFacts DEF Reported
<1>4. Phase' # "idle" => HandedToFile' = HandedToFile
  BY <1>1, <1>3 DEF HandedToFile
<1>5. CASE eMsuState' \in Receiving
  <2>1. Phase' = "receiving"
    BY <1>5 DEF Phase, Receiving
  <2> QED
    BY <1>1, <1>3, <1>4, <2>1
       DEF Session!Next, Session!Receive
<1>6. CASE eMsuState' = "Done"
  <2>1. Phase' = "concluded"
    BY <1>6 DEF Phase, Receiving
  <2>2. Missing(recvdChnk') = {}
    BY <1>1, <1>2, <1>6
  <2>3. AllPackets(sync) \subseteq HandedToFile'
    BY <1>1, <1>6, <2>2, EverythingIsHanded
  <2> QED
    BY <1>1, <1>3, <1>4, <2>1, <2>3
       DEF Session!Next, Session!Receive
<1>7. CASE eMsuState' = "Abort"
  <2>1. Phase' = "failed"
    BY <1>7 DEF Phase, Receiving
  <2> QED
    BY <1>1, <1>3, <1>4, <2>1 DEF Session!Next, Session!GiveUp
<1> QED
  BY <1>2, <1>5, <1>6, <1>7

\* The steps outside the receiving states.
LEMMA SimMachineImplements ==
  ASSUME SimInv, SimInv', StatusEndsSession, SimMachineStep \/ SimListen
  PROVE  [Session!Next]_(Session!vars)
<1> DEFINE Idle == eMsuState \in {"Initialize", "Configure", "Listen", "Start"}
<1>1. Idle => Phase = "idle" /\ HandedToFile = {}
  BY SimPhaseFacts DEF HandedToFile
<1>2. Idle' => Phase' = "idle" /\ HandedToFile' = {}
  BY DEF Phase, Receiving, HandedToFile
<1>3. sent' = NoMsg => Reported' = "none"
  BY DEF Reported, NoMsg
<1>4. UNCHANGED content /\ Phase # "idle" /\ Phase' # "idle"
        => UNCHANGED HandedToFile
  BY DEF HandedToFile
<1> USE DEF Session!Next
<1>5. ASSUME NEW y \in Syncs, SimListenSync(y)
      PROVE  Session!Next
  <2>1. Idle /\ Idle' /\ sync' = y /\ Reported' = "none"
    BY <1>3, <1>5 DEF SimListenSync, Hears
  <2> QED
    BY <1>1, <1>2, <2>1 DEF Session!Announce
<1>6. CASE SimRejectsSync
  <2>1. Idle /\ Idle' /\ sync' = NoSync /\ Reported' = "none"
    BY <1>3, <1>6 DEF SimRejectsSync, Hears
  <2> QED
    BY <1>1, <1>2, <2>1 DEF Session!Withdraw
<1>7. CASE SimStartSession
  <2>1. /\ Idle /\ sync \in Syncs /\ sync' = sync /\ Reported' = "none"
        /\ eMsuState' = "Running" /\ content' = Blank
    BY <1>3, <1>7 DEF SimStartSession, SimInv, SimSessionsStartClean
  <2>2. Phase' = "receiving"
    BY <2>1 DEF Phase, Receiving
  <2>3. HandedToFile' = {}
    BY <2>1 DEF HandedToFile, Blank
  <2> QED
    BY <1>1, <2>1, <2>2, <2>3 DEF Session!Begin
<1>8. CASE SimAbort
  <2>1. /\ Phase = "failed" /\ Phase' = "closing" /\ Reported' = "none"
        /\ UNCHANGED <<content, sync>>
    BY <1>3, <1>8, SimPhaseFacts DEF SimAbort, Phase, Receiving
  <2> QED
    BY <1>4, <2>1 DEF Session!Fail
<1>9. CASE SimDone
  <2>1. Phase = "concluded" /\ Phase' = "closing" /\ UNCHANGED <<content, sync>>
    BY <1>9, SimPhaseFacts DEF SimDone, Phase, Receiving
  <2>2. Reported' \in {"Passed", "none"}
    BY DEF Reported
  <2> QED
    BY <1>4, <2>1, <2>2 DEF Session!Report
<1>10. CASE SimLoopBack
  <2>1. /\ Phase = "closing" /\ Idle' /\ Reported' = "none" /\ UNCHANGED sync
    BY <1>3, <1>10, SimPhaseFacts DEF SimLoopBack
  <2> QED
    BY <1>2, <2>1 DEF Session!Close
<1>11. CASE SimInitialize \/ SimConfigure \/ SimStartFails \/ SimListensInVain
  <2>1. Idle /\ Idle' /\ UNCHANGED sync /\ sent' = NoMsg
    BY <1>11 DEF SimInitialize, SimConfigure, SimStartFails, SimListensInVain
  <2>2. Reported = "none"
    BY <2>1 DEF Reported, StatusEndsSession
  <2> QED
    BY <1>1, <1>2, <1>3, <2>1, <2>2 DEF Session!vars
<1> QED
  BY <1>5, <1>6, <1>7, <1>8, <1>9, <1>10, <1>11 DEF SimMachineStep, SimListen

\* A step of the simulator is a step of UpgradeSession, or leaves it alone.
LEMMA SimStepImplements ==
  ASSUME SimInv, SimInv', StatusEndsSession, [SimNext]_simVars
  PROVE  [Session!Next]_(Session!vars)
<1>1. CASE UNCHANGED simVars
  BY <1>1 DEF simVars, handles, statVars, Session!vars,
              HandedToFile, Phase, Reported
<1>2. CASE SimMachineStep \/ SimListen
  BY <1>2, SimMachineImplements
<1>3. CASE \E p \in DataPackets(sync) : SimDataPacket(p)
  BY <1>3, SimDataImplements DEF Session!Next
<1>4. CASE (\E m \in ControlMessages : SimControlMessage(m)) \/ Silence
  BY <1>4, SimControlImplements
<1> QED
  BY <1>1, <1>2, <1>3, <1>4 DEF SimNext, SimReceiveStep

\* Every behaviour of the simulator is one of UpgradeSession, for every number of
\* chunks and sequences, every set of sessions and every set of faults.
THEOREM SimImplementation == SimSpec => ImplementsSession
<1>1. SimInit => Session!Init
  <2> SUFFICES ASSUME SimInit
               PROVE  Session!Init
    OBVIOUS
  <2>1. Phase = "idle" /\ Reported = "none"
    BY SimPhaseFacts, SimReportFacts DEF SimInit
  <2> QED
    BY <2>1 DEF SimInit, Session!Init, HandedToFile
<1>2. SimInv /\ SimInv' /\ StatusEndsSession /\ [SimNext]_simVars
        => [Session!Next]_(Session!vars)
  BY SimStepImplements
<1> QED
  BY <1>1, <1>2, SimInvariance, SimStatusEndsSession, PTL
     DEF SimSpec, ImplementsSession, Session!Spec
=============================================================================
