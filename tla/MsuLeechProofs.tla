--------------------------- MODULE MsuLeechProofs ---------------------------
(***************************************************************************)
(* Proofs about module MsuLeech, for every number of chunks and sequences, *)
(* every set of sessions and every set of faults.  Inv is the inductive    *)
(* invariant; the last theorems state what follows from it.                *)
(***************************************************************************)
EXTENDS MsuLeech, TLAPS

-----------------------------------------------------------------------------
(* Facts about the operators the handlers are built from. *)

\* What a session announces: its chunks fit the arrays, and every chunk has at
\* least one sequence and at most seqNumberLimit of them.
LEMMA SyncFacts ==
  ASSUME NEW y \in Syncs
  PROVE  /\ y \in SyncType
         /\ y.chunkCount \in Chunks
         /\ y.seqNumberLimit \in Seqs
         /\ y.tailSeqs \in 0 .. MaxSeq
         /\ 1 .. y.chunkCount \subseteq Chunks
         /\ \A c \in 1 .. y.chunkCount : NumSeqs(y, c) \in Seqs
<1>1. y \in SyncType
  BY SyncsAssumption
<1>2. /\ y.chunkCount \in Chunks
      /\ y.seqNumberLimit \in Seqs
      /\ y.tailSeqs \in 0 .. MaxSeq
  BY <1>1 DEF SyncType
<1>3. 1 .. y.chunkCount \subseteq Chunks
  BY <1>2, MaxChunkAssumption DEF Chunks
<1>4. \A c \in 1 .. y.chunkCount : NumSeqs(y, c) \in Seqs
  BY <1>2, MaxSeqAssumption DEF NumSeqs, Seqs
<1> QED
  BY <1>1, <1>2, <1>3, <1>4

\* A data packet of a session names a chunk and a sequence of the file, and is
\* flagged as the end of its chunk exactly when it is its last sequence.
LEMMA PacketFacts ==
  ASSUME NEW y \in Syncs, NEW p \in DataPackets(y)
  PROVE  /\ p.chunk \in 1 .. y.chunkCount
         /\ p.chunk \in Chunks
         /\ p.seq \in 1 .. NumSeqs(y, p.chunk)
         /\ p.seq \in Seqs
         /\ p.chunkEnd = (p.seq = NumSeqs(y, p.chunk))
         /\ p.fileEnd \in BOOLEAN
<1>1. PICK q \in AllPackets(y), f \in BOOLEAN :
        p = [type |-> "data", chunk |-> q[1], seq |-> q[2],
             chunkEnd |-> q[2] = NumSeqs(y, q[1]),
             fileEnd |-> f /\ q = <<y.chunkCount, NumSeqs(y, y.chunkCount)>>]
  BY DEF DataPackets
<1>2. PICK c \in 1 .. y.chunkCount : q \in {c} \X (1 .. NumSeqs(y, c))
  BY DEF AllPackets
<1>3. q[1] = c /\ q[2] \in 1 .. NumSeqs(y, c)
  BY <1>2
<1>4. NumSeqs(y, c) \in Seqs /\ c \in Chunks
  BY <1>2, SyncFacts
<1>5. q[2] \in Seqs
  BY <1>3, <1>4, MaxSeqAssumption DEF Seqs
<1> QED
  BY <1>1, <1>2, <1>3, <1>4, <1>5

\* When getMissedSeqBitMap finds no sequence missing although some bit under
\* the mask is set, every sequence it was asked about has its bit set.
LEMMA NothingMissed ==
  ASSUME NEW bits, NEW n, NEW stale,
         GetMissedSeqBitMap(bits, n, stale) = {},
         bits \cap (1 .. n) # {} \/ stale # {}
  PROVE  1 .. n \subseteq bits /\ bits \cap (1 .. n) # {}
  BY DEF GetMissedSeqBitMap

\* The result is a set of sequences.
LEMMA MissedType ==
  ASSUME NEW bits, NEW n \in 0 .. MaxSeq, NEW stale \in SUBSET Seqs
  PROVE  GetMissedSeqBitMap(bits, n, stale) \in SUBSET Seqs
  BY MaxSeqAssumption DEF GetMissedSeqBitMap, Seqs

\* The chunks a CCM message lists are chunks of the file.
LEMMA MissingType ==
  ASSUME NEW recvd, sync \in Syncs
  PROVE  Missing(recvd) \in SUBSET Chunks
  BY SyncFacts DEF Missing, GetMissedChnkNums

\* The messages the leech sends have their types.
LEMMA MessageTypes ==
  /\ NoMsg \in SentType
  /\ \A c \in 0 .. MaxChunk, m \in SUBSET Seqs : ScmMsg(c, m) \in SentType
  /\ \A m \in SUBSET Chunks : CcmMsg(m) \in SentType
  /\ TypeOK => \A r \in {"Passed", "Failed"} : StatusMsg(r) \in SentType
  BY DEF SentType, ScmMsg, CcmMsg, StatusMsg, NoMsg, TypeOK

\* Only a status message reports a result.
LEMMA OnlyStatusReports ==
  /\ NoMsg.type # "status"
  /\ \A c, m : ScmMsg(c, m).type # "status"
  /\ \A m : CcmMsg(m).type # "status"
  BY DEF NoMsg, ScmMsg, CcmMsg
\* ccm_seqVal stays an array of bitmaps when the current bits are put aside.
LEMMA SavedType ==
  ASSUME TypeOK
  PROVE  SavedSeqVals \in [CcmSlots -> SUBSET Seqs]
  BY DEF SavedSeqVals, TypeOK

LEMMA NoSeqValsType == NoSeqVals \in [CcmSlots -> SUBSET Seqs]
  BY DEF NoSeqVals

\* The retry counter is a counter again after it is incremented.
LEMMA RetryType ==
  ASSUME NEW n \in 0 .. (CounterRange - 1)
  PROVE  NextRetry(n) \in 0 .. (CounterRange - 1)
  BY CounterAssumption DEF NextRetry

-----------------------------------------------------------------------------
(* The type invariant. *)

LEMMA InitType == Init => TypeOK
<1> SUFFICES ASSUME Init PROVE TypeOK
  OBVIOUS
<1>1. ccm_seqVal \in [CcmSlots -> SUBSET Seqs] /\ sent \in SentType
  BY NoSeqValsType, MessageTypes DEF Init
<1>2. delivered \in SUBSET (Chunks \X Seqs)
  BY DEF Init
<1>3. /\ ccmRetryCount \in 0 .. (CounterRange - 1)
      /\ localChunkNumber \in 0 .. (MaxChunk + 1)
      /\ mcastChunk \in 0 .. MaxChunk
      /\ MsuGlobalError \in 0 .. 255
  BY CounterAssumption, MaxChunkAssumption DEF Init, NoError
<1>4. /\ eMsuState \in States
      /\ eMsuPrevState \in {"Running", "CCM"}
      /\ deviceUpgadeStatus \in {"Passed", "Failed"}
  BY DEF Init, States
<1>5. /\ recvdSeqBitMap \in SUBSET Seqs
      /\ recvdChnk \in SUBSET Chunks
      /\ tempMissed \in SUBSET Seqs
      /\ firstTime \in BOOLEAN
      /\ ccmSent \in BOOLEAN
  BY DEF Init
<1>6. /\ sync \in Syncs \cup {NoSync}
      /\ msuDefaultSocket \in {"invalid", "open", "closed"}
      /\ msuUpdateSocket \in {"invalid", "open"}
      /\ pMsuFileDes \in {"none", "open", "closed"}
  BY DEF Init
<1> QED
  BY <1>1, <1>2, <1>3, <1>4, <1>5, <1>6 DEF TypeOK

\* The steps outside the receiving states.
LEMMA MachineType ==
  ASSUME TypeOK, SessionHasSync, MachineStep \/ Listen
  PROVE  TypeOK'
<1> USE MaxChunkAssumption, CounterAssumption
<1>1. CASE Initialize
  BY <1>1, MessageTypes DEF Initialize, ComplainModeInit, TypeOK, ccmVars, statVars, States
<1>2. CASE Configure
  BY <1>2, MessageTypes
     DEF Configure, TypeOK, seqVars, ccmVars, pduVars, statVars, States, Outcomes
<1>3. CASE StartSession
  <2>1. ccm_seqVal' \in [CcmSlots -> SUBSET Seqs] /\ sent' \in SentType
    BY <1>3, MessageTypes, NoSeqValsType DEF StartSession
  <2>2. delivered' \in SUBSET (Chunks \X Seqs)
    BY <1>3 DEF StartSession
  <2>3. /\ localChunkNumber' \in 0 .. (MaxChunk + 1)
        /\ ccmRetryCount' \in 0 .. (CounterRange - 1)
        /\ MsuGlobalError' \in 0 .. 255
    BY <1>3 DEF StartSession, NoError
  <2>4. eMsuState' \in States /\ eMsuPrevState' \in {"Running", "CCM"}
    BY <1>3 DEF StartSession, States, InSession, Receiving
  <2> QED
    BY <1>3, <2>1, <2>2, <2>3, <2>4 DEF StartSession, TypeOK
<1>4. CASE StartFails
  BY <1>4, MessageTypes
     DEF StartFails, TypeOK, ccmVars, pduVars, States, FileOpenFailed, SocketOpenFailed
<1>5. CASE Abort
  BY <1>5, MessageTypes
     DEF Abort, TypeOK, seqVars, ccmVars, pduVars, resVars, States, InSession,
         OrAbort, StatusAbort
<1>6. CASE Done
  <2>1. deviceUpgadeStatus' \in {"Passed", "Failed"}
    BY <1>6 DEF Done
  <2>2. StatusMsg(deviceUpgadeStatus') \in SentType
    BY <2>1, MessageTypes
  <2>3. sent' \in SentType
    BY <1>6, <2>2, MessageTypes DEF Done
  <2> QED
    BY <1>6, <2>1, <2>3 DEF Done, TypeOK, seqVars, ccmVars, pduVars, States, InSession
<1>7. CASE LoopBack
  BY <1>7, MessageTypes DEF LoopBack, ComplainModeInit, TypeOK, ccmVars, pduVars, statVars, States
<1>8. CASE ListenReplaysSync
  BY <1>8, MessageTypes
     DEF ListenReplaysSync, TypeOK, seqVars, ccmVars, pduVars, resVars, statVars, States
<1>9. ASSUME NEW y \in Syncs, ListenSync(y)
      PROVE  TypeOK'
  BY <1>9, MessageTypes
     DEF ListenSync, TypeOK, seqVars, ccmVars, pduVars, statVars, States
<1> QED
  BY <1>1, <1>2, <1>3, <1>4, <1>5, <1>6, <1>7, <1>8, <1>9 DEF MachineStep, Listen
\* The Running handler.
LEMMA RunningType ==
  ASSUME TypeOK, sync \in Syncs, NEW p \in DataPackets(sync), RunningPacket(p)
  PROVE  TypeOK'
<1> USE MaxChunkAssumption, CounterAssumption
<1>1. /\ p.chunk \in Chunks /\ p.seq \in Seqs /\ p.fileEnd \in BOOLEAN
      /\ p.chunk \in Nat /\ p.chunk \in 0 .. MaxChunk /\ p.chunk + 1 \in 0 .. (MaxChunk + 1)
      /\ p.chunk \in 0 .. (MaxChunk + 1)
  BY PacketFacts DEF Chunks
<1>2. RunningBits(p) \in SUBSET Seqs
  BY <1>1 DEF RunningBits, SetRecvdSeqBit, TypeOK
<1>3. RunningSaved(p) \in [CcmSlots -> SUBSET Seqs]
  BY SavedType DEF RunningSaved, TypeOK
<1>4. GetMissedSeqBitMap(RunningBits(p), p.seq, tempMissed) \in SUBSET Seqs
  BY <1>1, MissedType, MaxSeqAssumption DEF TypeOK, Seqs
<1>5. Arrives(p) => mcastChunk' \in 0 .. MaxChunk /\ delivered' \in SUBSET (Chunks \X Seqs)
  BY <1>1 DEF Arrives, TypeOK
<1>6. UNCHANGED <<resVars, deviceUpgadeStatus>>
  BY DEF RunningPacket
<1>7. \A recvd \in SUBSET Chunks, err \in 0 .. 255 :
        RunningFileEnd(p, recvd, err) =>
          /\ eMsuState' \in States /\ eMsuPrevState' \in {"Running", "CCM"}
          /\ ccmRetryCount' \in 0 .. (CounterRange - 1)
          /\ sent' \in SentType /\ MsuGlobalError' \in 0 .. 255
  BY MissingType, MessageTypes, RetryType
     DEF RunningFileEnd, Send, SendsNothing, TypeOK, States, InSession, Receiving,
         SocketTxFailed
<1>8. CASE RunningStale(p)
  BY <1>5, <1>6, <1>8, MessageTypes
     DEF RunningStale, SendsNothing, seqVars, ccmVars, resVars, TypeOK
<1>9. CASE RunningSeq(p)
  BY <1>1, <1>2, <1>3, <1>5, <1>6, <1>9, MessageTypes
     DEF RunningSeq, RunningTakes, SendsNothing, resVars, TypeOK
<1>10. CASE RunningChunkReceived(p)
  <2>1. recvdChnk' \in SUBSET Chunks /\ tempMissed' \in SUBSET Seqs
    BY <1>1, <1>4, <1>10 DEF RunningChunkReceived, SetRecvdChnkBit, TypeOK
  <2>2. PICK err \in 0 .. 255 : RunningFileEnd(p, recvdChnk', err)
    BY <1>10 DEF RunningChunkReceived, AfterWrite, TypeOK, FileWriteFailed, Outcomes
  <2>3. localChunkNumber' \in 0 .. (MaxChunk + 1)
    BY <1>1, <1>10 DEF RunningChunkReceived, AfterFileEnd
  <2>4. /\ eMsuState' \in States /\ eMsuPrevState' \in {"Running", "CCM"}
        /\ ccmRetryCount' \in 0 .. (CounterRange - 1)
        /\ sent' \in SentType /\ MsuGlobalError' \in 0 .. 255
    BY <1>7, <2>1, <2>2
  <2> QED
    BY <1>3, <1>5, <1>6, <1>10, <2>1, <2>3, <2>4
       DEF RunningChunkReceived, RunningTakes, resVars, TypeOK
<1>11. CASE RunningChunkMissed(p)
  <2>1. tempMissed' \in SUBSET Seqs
    BY <1>4, <1>11 DEF RunningChunkMissed
  <2>2. CASE sent' = ScmMsg(p.chunk, tempMissed') /\ eMsuState' = "SCM"
             /\ eMsuPrevState' = "Running" /\ localChunkNumber' = p.chunk
             /\ UNCHANGED <<ccmRetryCount, MsuGlobalError>>
    <3>1. sent' \in SentType
      BY <1>1, <2>1, <2>2, MessageTypes
    <3> QED
      BY <1>1, <1>2, <1>3, <1>5, <1>6, <1>11, <2>1, <2>2, <3>1
         DEF RunningChunkMissed, RunningTakes, resVars, TypeOK, States, InSession, Receiving
  <2>3. CASE RunningFileEnd(p, recvdChnk, SocketTxFailed)
             /\ localChunkNumber' = AfterFileEnd(p.chunk)
    <3>1. localChunkNumber' \in 0 .. (MaxChunk + 1)
      BY <1>1, <2>3 DEF AfterFileEnd
    <3>2. SocketTxFailed \in 0 .. 255 /\ recvdChnk \in SUBSET Chunks
      BY DEF SocketTxFailed, TypeOK
    <3>3. /\ eMsuState' \in States /\ eMsuPrevState' \in {"Running", "CCM"}
          /\ ccmRetryCount' \in 0 .. (CounterRange - 1)
          /\ sent' \in SentType /\ MsuGlobalError' \in 0 .. 255
      BY <1>7, <2>3, <3>2
    <3> QED
      BY <1>2, <1>3, <1>5, <1>6, <1>11, <2>1, <3>1, <3>3
         DEF RunningChunkMissed, RunningTakes, resVars, TypeOK
  <2> QED
    BY <1>11, <2>2, <2>3 DEF RunningChunkMissed
<1> QED
  BY <1>8, <1>9, <1>10, <1>11 DEF RunningPacket

\* The SCM handler.
LEMMA ScmType ==
  ASSUME TypeOK, sync \in Syncs, NEW p \in DataPackets(sync), ScmPacket(p)
  PROVE  TypeOK'
<1> USE MaxChunkAssumption, CounterAssumption
<1>1. p.chunk \in Chunks /\ p.seq \in Seqs
  BY PacketFacts
<1>2. mcastChunk' \in 0 .. MaxChunk /\ delivered' \in SUBSET (Chunks \X Seqs)
  BY <1>1 DEF ScmPacket, Arrives, TypeOK, Chunks
<1>3. UNCHANGED <<eMsuPrevState, resVars, deviceUpgadeStatus>>
  BY DEF ScmPacket
<1>4. CASE ScmDuplicate(p)
  BY <1>2, <1>3, <1>4, MessageTypes
     DEF ScmDuplicate, SendsNothing, seqVars, ccmVars, resVars, TypeOK
<1>5. ASSUME ScmTakes(p)
      PROVE  tempMissed' \in SUBSET Seqs /\ SetRecvdSeqBit(recvdSeqBitMap, p.seq) \in SUBSET Seqs
  <2>1. ScmNoOfSeq \in 0 .. MaxSeq
    BY SyncFacts, MaxSeqAssumption DEF ScmNoOfSeq, Seqs
  <2> QED
    BY <1>1, <1>5, <2>1, MissedType DEF ScmTakes, SetRecvdSeqBit, TypeOK
<1>6. CASE ScmSeq(p)
  BY <1>2, <1>3, <1>5, <1>6, MessageTypes
     DEF ScmSeq, ScmTakes, SendsNothing, ccmVars, resVars, TypeOK
<1>7. CASE ScmChunkReceived(p)
  <2>1. recvdChnk' \in SUBSET Chunks /\ localChunkNumber' \in 0 .. (MaxChunk + 1)
    BY <1>1, <1>7 DEF ScmChunkReceived, ScmTakes, SetRecvdChnkBit, TypeOK, Chunks
  <2>2. sent' \in SentType /\ MsuGlobalError' \in 0 .. 255
    BY <1>7, MessageTypes
       DEF ScmChunkReceived, SendsNothing, AfterWrite, FileWriteFailed, TypeOK
  <2>3. eMsuState' \in States
    BY <1>7 DEF ScmChunkReceived, TypeOK, States, InSession, Receiving
  <2> QED
    BY <1>2, <1>3, <1>5, <1>7, <2>1, <2>2, <2>3
       DEF ScmChunkReceived, ScmTakes, ccmVars, resVars, TypeOK
<1>8. CASE ScmJump(p)
  BY <1>1, <1>2, <1>3, <1>8, SavedType, MessageTypes
     DEF ScmJump, MayWriteBeforeArray, FirstTimeAfter, SendsNothing, resVars, TypeOK, Chunks
<1> QED
  BY <1>4, <1>6, <1>7, <1>8 DEF ScmPacket
\* The CCM handler.
LEMMA CcmType ==
  ASSUME TypeOK, sync \in Syncs, NEW p \in DataPackets(sync), CcmPacket(p)
  PROVE  TypeOK'
<1> USE MaxChunkAssumption, CounterAssumption
<1>1. /\ p.chunk \in Chunks /\ p.seq \in Seqs
      /\ p.chunk \in 0 .. MaxChunk /\ p.chunk \in 0 .. (MaxChunk + 1)
      /\ p.chunk \in CcmSlots
  BY PacketFacts DEF Chunks, CcmSlots
<1>2. mcastChunk' \in 0 .. MaxChunk /\ delivered' \in SUBSET (Chunks \X Seqs)
  BY <1>1 DEF CcmPacket, Arrives, TypeOK
<1>3. UNCHANGED <<resVars, deviceUpgadeStatus>>
  BY DEF CcmPacket
<1>4. CASE CcmIgnored(p)
  BY <1>2, <1>3, <1>4, MessageTypes
     DEF CcmIgnored, SendsNothing, seqVars, ccmVars, resVars, TypeOK
<1>5. CcmBits(p) \in SUBSET Seqs
  BY <1>1 DEF CcmBits, TypeOK
<1>6. CcmSaved(p) \in [CcmSlots -> SUBSET Seqs]
  BY SavedType DEF CcmSaved, TypeOK
<1>7. ASSUME CcmOpens(p)
      PROVE  /\ localChunkNumber' \in 0 .. (MaxChunk + 1)
             /\ ccmSent' \in BOOLEAN
             /\ ccmRetryCount' \in 0 .. (CounterRange - 1)
  BY <1>1, <1>7 DEF CcmOpens, MayWriteBeforeArray, TypeOK
<1>8. CcmFirstTime(p) \subseteq BOOLEAN
  BY DEF CcmFirstTime, FirstTimeAfter
<1>9. CASE CcmDuplicate(p)
  BY <1>2, <1>3, <1>5, <1>6, <1>7, <1>9, <1>8, MessageTypes
     DEF CcmDuplicate, SendsNothing, resVars, TypeOK
<1>10. ASSUME CcmTakes(p)
      PROVE  /\ recvdSeqBitMap' \in SUBSET Seqs
             /\ GetMissedSeqBitMap(recvdSeqBitMap', p.seq, tempMissed) \in SUBSET Seqs
  <2>1. recvdSeqBitMap' \in SUBSET Seqs
    BY <1>1, <1>5, <1>10 DEF CcmTakes, SetRecvdSeqBit
  <2> QED
    BY <1>1, <2>1, MissedType, MaxSeqAssumption DEF TypeOK, Seqs
<1>11. CASE CcmSeq(p)
  BY <1>2, <1>3, <1>6, <1>7, <1>10, <1>11, <1>8, MessageTypes
     DEF CcmSeq, CcmTakes, SendsNothing, resVars, TypeOK
<1>12. CASE CcmChunkReceived(p)
  <2>1. recvdChnk' \in SUBSET Chunks /\ eMsuState' \in States /\ firstTime' \in BOOLEAN
    BY <1>12, <1>8 DEF CcmChunkReceived, SetRecvdChnkBit, TypeOK, States, InSession, Receiving
  <2>2. sent' \in SentType /\ MsuGlobalError' \in 0 .. 255
    BY <1>12, MessageTypes
       DEF CcmChunkReceived, SendsNothing, AfterWrite, FileWriteFailed, TypeOK
  <2>3. CcmTakes(p) /\ CcmOpens(p)
    BY <1>12 DEF CcmChunkReceived, CcmTakes
  <2>4. tempMissed' \in SUBSET Seqs
    BY <1>10, <1>12, <2>3 DEF CcmChunkReceived
  <2> QED
    BY <1>2, <1>3, <1>6, <1>7, <1>10, <1>12, <2>1, <2>2, <2>3, <2>4
       DEF CcmChunkReceived, resVars, TypeOK
<1>13. CASE CcmChunkMissed(p)
  <2>1. CcmTakes(p) /\ CcmOpens(p)
    BY <1>13 DEF CcmChunkMissed, CcmTakes
  <2>2. tempMissed' \in SUBSET Seqs
    BY <1>10, <1>13, <2>1 DEF CcmChunkMissed
  <2>3. ScmMsg(p.chunk, tempMissed') \in SentType
    BY <1>1, <2>2, MessageTypes
  <2>4. /\ sent' \in SentType /\ MsuGlobalError' \in 0 .. 255
        /\ eMsuState' \in States /\ eMsuPrevState' \in {"Running", "CCM"}
    BY <1>13, <2>3, MessageTypes
       DEF CcmChunkMissed, Send, SocketTxFailed, TypeOK, States, InSession, Receiving
  <2>5. ccm_seqVal' \in [CcmSlots -> SUBSET Seqs]
    BY <1>6, <1>10, <1>13, <2>1 DEF CcmChunkMissed
  <2> QED
    BY <1>2, <1>3, <1>7, <1>10, <1>13, <1>8, <2>1, <2>2, <2>4, <2>5
       DEF CcmChunkMissed, resVars, TypeOK
<1> QED
  BY <1>4, <1>9, <1>11, <1>12, <1>13 DEF CcmPacket

\* The control messages, the timeout and a failed receive.
LEMMA ControlType ==
  ASSUME TypeOK, sync \in Syncs,
         (\E m \in ControlMessages : ControlMessage(m)) \/ RecvError \/ RecvTimeout
  PROVE  TypeOK'
<1> USE MaxChunkAssumption, CounterAssumption
<1>1. Missing(recvdChnk) \in SUBSET Chunks
  BY MissingType
<1>2. ASSUME ControlFrame
      PROVE  /\ recvdSeqBitMap' \in SUBSET Seqs
             /\ recvdChnk' \in SUBSET Chunks
             /\ firstTime' \in BOOLEAN
             /\ ccm_seqVal' \in [CcmSlots -> SUBSET Seqs]
             /\ mcastChunk' \in 0 .. MaxChunk
             /\ delivered' \in SUBSET (Chunks \X Seqs)
             /\ sync' \in Syncs \cup {NoSync}
             /\ msuDefaultSocket' \in {"invalid", "open", "closed"}
             /\ msuUpdateSocket' \in {"invalid", "open"}
             /\ pMsuFileDes' \in {"none", "open", "closed"}
             /\ deviceUpgadeStatus' \in {"Passed", "Failed"}
  BY <1>2 DEF ControlFrame, pduVars, resVars, TypeOK
<1> DEFINE Rest == /\ eMsuState' \in States
                   /\ localChunkNumber' \in 0 .. (MaxChunk + 1)
                   /\ ccmSent' \in BOOLEAN
                   /\ ccmRetryCount' \in 0 .. (CounterRange - 1)
                   /\ sent' \in SentType
                   /\ MsuGlobalError' \in 0 .. 255
<1>3. ASSUME ControlFrame, Rest, eMsuPrevState' \in {"Running", "CCM"},
             tempMissed' \in SUBSET Seqs
      PROVE  TypeOK'
  BY <1>2, <1>3 DEF TypeOK
<1>4. ASSUME NEW prev \in {"Running", "CCM"}, NEW flag \in BOOLEAN, AsksForChunks(prev, flag)
      PROVE  Rest /\ eMsuPrevState' \in {"Running", "CCM"}
  BY <1>1, <1>4, MessageTypes, RetryType
     DEF AsksForChunks, Send, SocketTxFailed, TypeOK, States, InSession, Receiving
<1>5. ASSUME NEW state \in States, NEW err \in 0 .. 255, FinishesWith(state, err)
      PROVE  Rest
  BY <1>5, MessageTypes DEF FinishesWith, SendsNothing, TypeOK
<1>6. ASSUME TransferComplete
      PROVE  TypeOK'
  <2>1. ControlFrame /\ tempMissed' \in SUBSET Seqs
    BY <1>6 DEF TransferComplete, TypeOK
  <2>2. "Done" \in States /\ eMsuState \in States /\ MsuGlobalError \in 0 .. 255
        /\ eMsuPrevState \in {"Running", "CCM"}
    BY DEF States, InSession, TypeOK
  <2>3. CASE AsksForChunks(eMsuPrevState, TRUE)
    BY <1>3, <1>4, <2>1, <2>2, <2>3
  <2>4. CASE FinishesWith(eMsuState, MsuGlobalError) /\ UNCHANGED eMsuPrevState
    BY <1>3, <1>5, <2>1, <2>2, <2>4
  <2>5. CASE FinishesWith("Done", MsuGlobalError) /\ UNCHANGED eMsuPrevState
    BY <1>3, <1>5, <2>1, <2>2, <2>5
  <2> QED
    BY <1>6, <2>3, <2>4, <2>5 DEF TransferComplete
<1>7. ASSUME NEW retry \in BOOLEAN, CCMComplete(retry)
      PROVE  TypeOK'
  <2>1. ControlFrame /\ tempMissed' \in SUBSET Seqs
    BY <1>7 DEF CCMComplete, TypeOK
  <2>2. /\ "Done" \in States /\ "Abort" \in States
        /\ MsuGlobalError \in 0 .. 255 /\ ExceedCcmRetry \in 0 .. 255
        /\ "CCM" \in {"Running", "CCM"} /\ ccmSent \in BOOLEAN
    BY DEF States, InSession, TypeOK, ExceedCcmRetry
  <2>3. CASE AsksForChunks("CCM", ccmSent)
    BY <1>3, <1>4, <2>1, <2>2, <2>3
  <2>4. CASE FinishesWith("Done", MsuGlobalError) /\ eMsuPrevState' = "CCM"
    BY <1>3, <1>5, <2>1, <2>2, <2>4
  <2>5. CASE /\ FinishesWith("Abort", IF Missing(recvdChnk) # {} THEN ExceedCcmRetry
                                      ELSE MsuGlobalError)
             /\ eMsuPrevState' = "CCM"
    BY <1>3, <1>5, <2>1, <2>2, <2>5
  <2> QED
    BY <1>7, <2>3, <2>4, <2>5 DEF CCMComplete
<1>8. ASSUME NEW retry \in BOOLEAN, SCMComplete(retry)
      PROVE  TypeOK'
  <2>1. ControlFrame /\ eMsuPrevState' \in {"Running", "CCM"}
    BY <1>8 DEF SCMComplete, TypeOK
  <2>2. sync.seqNumberLimit \in 0 .. MaxSeq
    BY SyncFacts, MaxSeqAssumption DEF Seqs
  <2>3. tempMissed' \in SUBSET Seqs
    BY <1>8, <2>2, MissedType DEF SCMComplete, TypeOK
  <2>4. ScmMsg(mcastChunk, tempMissed') \in SentType
    BY <2>3, MessageTypes DEF TypeOK
  <2>5. Rest
    BY <1>8, <2>4, MessageTypes
       DEF SCMComplete, AsksForSeqs, Send, SendsNothing, SocketTxFailed, TypeOK, States, InSession, Receiving
  <2> QED
    BY <1>3, <2>1, <2>3, <2>5
<1>9. ASSUME AbortTransfer \/ RecvError \/ RecvTimeout
      PROVE  TypeOK'
  <2>1. /\ ControlFrame
        /\ tempMissed' \in SUBSET Seqs
        /\ eMsuPrevState' \in {"Running", "CCM"}
    BY <1>9 DEF AbortTransfer, RecvError, RecvTimeout, TypeOK
  <2>2. PICK state \in States, err \in 0 .. 255 : FinishesWith(state, err)
    BY <1>9, <2>1
       DEF AbortTransfer, RecvError, RecvTimeout, ControlFrame, TypeOK, States, InSession,
           Receiving, SocketRxFailed, TimedOut, ScmFailed, CcmFailed
  <2> QED
    BY <1>3, <1>5, <2>1, <2>2
<1>10. \A m \in ControlMessages :
         m.type \in {"ccmComplete", "scmComplete"} => m.retry \in BOOLEAN
  BY DEF ControlMessages
<1> QED
  BY <1>6, <1>7, <1>8, <1>9, <1>10 DEF ControlMessage

\* A step keeps the types.
LEMMA TypeStep == TypeOK /\ SessionHasSync /\ [Next]_vars => TypeOK'
<1> SUFFICES ASSUME TypeOK, SessionHasSync, [Next]_vars
             PROVE  TypeOK'
  OBVIOUS
<1>1. CASE UNCHANGED vars
  BY <1>1 DEF vars, seqVars, ccmVars, pduVars, resVars, statVars, TypeOK
<1>2. eMsuState \in Receiving => sync \in Syncs
  BY DEF SessionHasSync, InSession
<1>3. CASE MachineStep \/ Listen
  BY <1>3, MachineType
<1>4. ASSUME NEW p \in DataPackets(sync), DataPacket(p)
      PROVE  TypeOK'
  <2>1. sync \in Syncs
    BY <1>2, <1>4 DEF DataPacket, RunningPacket, ScmPacket, CcmPacket, Receiving
  <2> QED
    BY <1>4, <2>1, RunningType, ScmType, CcmType DEF DataPacket
<1>5. ASSUME (\E m \in ControlMessages : ControlMessage(m)) \/ RecvError \/ RecvTimeout
      PROVE  TypeOK'
  <2>1. eMsuState \in Receiving
    BY <1>5 DEF ControlMessage, TransferComplete, CCMComplete, SCMComplete, AbortTransfer,
                RecvError, RecvTimeout, ControlFrame
  <2> QED
    BY <1>2, <1>5, <2>1, ControlType
<1> QED
  BY <1>1, <1>3, <1>4, <1>5 DEF Next, ReceiveStep
-----------------------------------------------------------------------------
(* Facts the steps share. *)

\* A packet that arrives joins the delivered ones.
LEMMA Arrival ==
  ASSUME NEW p, Arrives(p)
  PROVE  delivered \subseteq delivered' /\ <<p.chunk, p.seq>> \in delivered'
  BY DEF Arrives

\* Bits put aside in ccm_seqVal stand for sequences that have arrived.
LEMMA SavedBelongs ==
  ASSUME TypeOK, BitsBelongToTheirChunk, eMsuState \in InSession
  PROVE  \A c \in CcmSlots : {c} \X SavedSeqVals[c] \subseteq delivered
<1> SUFFICES ASSUME NEW c \in CcmSlots
             PROVE  {c} \X SavedSeqVals[c] \subseteq delivered
  OBVIOUS
<1>1. CASE c = localChunkNumber
  BY <1>1, MaxChunkAssumption DEF SavedSeqVals, BitsBelongToTheirChunk, CcmSlots
<1>2. CASE c # localChunkNumber
  BY <1>2 DEF SavedSeqVals, BitsBelongToTheirChunk
<1> QED
  BY <1>1, <1>2

\* A step of the receiving states keeps the sync message and the handles of the
\* session and sends no status message.  A packet leaves the leech receiving or
\* done; only the other messages and the timeout abort.
LEMMA DataFrame ==
  ASSUME TypeOK, NEW p, DataPacket(p)
  PROVE  /\ eMsuState \in Receiving
         /\ eMsuState' \in Receiving \cup {"Done"}
         /\ UNCHANGED resVars
         /\ sent'.type # "status"
         /\ Arrives(p)
<1>1. CASE RunningPacket(p)
  <2>1. sent'.type # "status" /\ eMsuState' \in Receiving \cup {"Done"} /\ Arrives(p)
    BY <1>1, OnlyStatusReports
       DEF RunningPacket, RunningStale, RunningSeq, RunningChunkReceived, RunningTakes,
           RunningChunkMissed, RunningFileEnd, Send, SendsNothing, Receiving
  <2> QED
    BY <1>1, <2>1 DEF RunningPacket, Receiving
<1>2. CASE ScmPacket(p)
  <2>1. sent'.type # "status" /\ eMsuState' \in Receiving \cup {"Done"}
    BY <1>2, OnlyStatusReports
       DEF ScmPacket, ScmDuplicate, ScmSeq, ScmChunkReceived, ScmJump, SendsNothing,
           Receiving, TypeOK
  <2> QED
    BY <1>2, <2>1 DEF ScmPacket, Receiving
<1>3. CASE CcmPacket(p)
  <2>1. sent'.type # "status" /\ eMsuState' \in Receiving \cup {"Done"}
    <3>1. CASE CcmIgnored(p) \/ CcmDuplicate(p) \/ CcmSeq(p)
      BY <1>3, <3>1, OnlyStatusReports
         DEF CcmPacket, CcmIgnored, CcmDuplicate, CcmSeq, SendsNothing, Receiving
    <3>2. CASE CcmChunkReceived(p)
      BY <1>3, <3>2, OnlyStatusReports
         DEF CcmPacket, CcmChunkReceived, SendsNothing, Receiving
    <3>3. CASE CcmChunkMissed(p)
      BY <1>3, <3>3, OnlyStatusReports DEF CcmPacket, CcmChunkMissed, Send, Receiving
    <3> QED
      BY <1>3, <3>1, <3>2, <3>3 DEF CcmPacket
  <2> QED
    BY <1>3, <2>1 DEF CcmPacket, Receiving
<1> QED
  BY <1>1, <1>2, <1>3 DEF DataPacket

LEMMA ControlFrameFacts ==
  ASSUME TypeOK,
         (\E m \in ControlMessages : ControlMessage(m)) \/ RecvError \/ RecvTimeout
  PROVE  /\ eMsuState \in Receiving
         /\ eMsuState' \in Receiving \cup {"Done", "Abort"}
         /\ UNCHANGED <<delivered, sync, msuUpdateSocket, pMsuFileDes>>
         /\ sent'.type # "status"
<1>1. eMsuState \in Receiving /\ UNCHANGED <<delivered, sync, msuUpdateSocket, pMsuFileDes>>
  BY DEF ControlMessage, TransferComplete, CCMComplete, SCMComplete, AbortTransfer,
         RecvError, RecvTimeout, ControlFrame, pduVars, resVars
<1>2. sent'.type # "status" /\ eMsuState' \in Receiving \cup {"Done", "Abort"}
  BY <1>1, OnlyStatusReports
     DEF ControlMessage, TransferComplete, CCMComplete, SCMComplete, AbortTransfer,
         RecvError, RecvTimeout, AsksForSeqs, AsksForChunks, FinishesWith, Send, SendsNothing,
         Receiving, TypeOK
<1> QED
  BY <1>1, <1>2

LEMMA ReceiveFrame ==
  ASSUME TypeOK, SessionHasSync, ReceiveStep \/ RecvTimeout
  PROVE  /\ eMsuState \in Receiving
         /\ eMsuState' \in Receiving \cup {"Done", "Abort"}
         /\ sync \in Syncs
         /\ UNCHANGED <<sync, msuUpdateSocket, pMsuFileDes>>
         /\ sent'.type # "status"
<1>1. eMsuState \in Receiving => sync \in Syncs
  BY DEF SessionHasSync, InSession
<1>2. CASE \E p \in DataPackets(sync) : DataPacket(p)
  BY <1>1, <1>2, DataFrame DEF resVars
<1>3. CASE (\E m \in ControlMessages : ControlMessage(m)) \/ RecvError \/ RecvTimeout
  BY <1>1, <1>3, ControlFrameFacts
<1> QED
  BY <1>2, <1>3 DEF ReceiveStep

-----------------------------------------------------------------------------
(* The inductive invariant, step by step. *)

LEMMA InitInv == Init => Inv
<1> SUFFICES ASSUME Init
             PROVE  Inv
  OBVIOUS
<1>1. TypeOK
  BY InitType
<1>2. sent.type # "status"
  BY OnlyStatusReports DEF Init
<1> QED
  BY <1>1, <1>2
     DEF Init, Inv, SessionHasSync, StatusEndsSession, SessionsStartClean, RunningHasChunk,
         SessionHoldsItsHandles, BitsBelongToTheirChunk, MarkedChunksWereDelivered,
         ScmNeverHoldsEmptyMiss, DoneMeansNothingMissing, PassedMeansDelivered,
         InSession, Receiving

\* The parts of the invariant a step within a session cannot disturb.
LEMMA ReceiveKeeps ==
  ASSUME Inv, ReceiveStep \/ RecvTimeout
  PROVE  /\ SessionHasSync'
         /\ StatusEndsSession'
         /\ SessionsStartClean'
         /\ SessionHoldsItsHandles'
         /\ PassedMeansDelivered'
<1>1. /\ eMsuState \in Receiving
      /\ eMsuState' \in Receiving \cup {"Done", "Abort"}
      /\ sync \in Syncs
      /\ UNCHANGED <<sync, msuUpdateSocket, pMsuFileDes>>
      /\ sent'.type # "status"
  BY ReceiveFrame DEF Inv
<1> QED
  BY <1>1 DEF Inv, SessionHasSync, StatusEndsSession, SessionsStartClean,
              SessionHoldsItsHandles, PassedMeansDelivered, InSession, Receiving

\* The steps outside the receiving states: the bookkeeping they start from and
\* leave is empty, and Done reports success only with every chunk marked.
LEMMA MachineKeeps ==
  ASSUME Inv, MachineStep \/ Listen
  PROVE  /\ SessionHasSync'
         /\ StatusEndsSession'
         /\ SessionsStartClean'
         /\ RunningHasChunk'
         /\ SessionHoldsItsHandles'
         /\ BitsBelongToTheirChunk'
         /\ MarkedChunksWereDelivered'
         /\ ScmNeverHoldsEmptyMiss'
         /\ DoneMeansNothingMissing'
         /\ PassedMeansDelivered'
<1> USE DEF Inv, SessionHasSync, StatusEndsSession, SessionsStartClean, RunningHasChunk, SessionHoldsItsHandles,
            BitsBelongToTheirChunk, MarkedChunksWereDelivered, ScmNeverHoldsEmptyMiss,
            DoneMeansNothingMissing, PassedMeansDelivered, InSession, Receiving
<1>1. CASE Initialize
  BY <1>1, OnlyStatusReports DEF Initialize, ComplainModeInit
<1>2. CASE Configure
  BY <1>2, OnlyStatusReports DEF Configure, seqVars, pduVars, Outcomes
<1>3. CASE StartSession
  <2>1. \A c \in CcmSlots : {c} \X ccm_seqVal'[c] \subseteq delivered'
    BY <1>3 DEF StartSession, NoSeqVals
  <2>2. recvdChnk' = {} /\ recvdSeqBitMap' = {}
    BY <1>3 DEF StartSession
  <2> QED
    BY <1>3, <2>1, <2>2, OnlyStatusReports DEF StartSession
<1>4. CASE StartFails
  BY <1>4, OnlyStatusReports DEF StartFails, pduVars
<1>5. CASE Abort
  BY <1>5, OnlyStatusReports DEF Abort, seqVars, ccmVars, pduVars, resVars
<1>6. CASE Done
  <2>1. sent'.type = "status" /\ sent'.result = "Passed"
          => AllPackets(sync) \subseteq delivered
    <3>1. SUFFICES ASSUME sent'.type = "status", sent'.result = "Passed"
                   PROVE  AllPackets(sync) \subseteq delivered
      OBVIOUS
    <3>2. Missing(recvdChnk) = {}
      BY <1>6, <3>1, OnlyStatusReports DEF Done, StatusMsg, Missing
    <3>3. \A c \in 1 .. sync.chunkCount : c \in recvdChnk
      BY <3>2 DEF Missing, GetMissedChnkNums, IsChnkRecvd
    <3> QED
      BY <3>3 DEF AllPackets
  <2> QED
    BY <1>6, <2>1 DEF Done, seqVars, ccmVars, pduVars
<1>7. CASE LoopBack
  BY <1>7, OnlyStatusReports DEF LoopBack, ComplainModeInit, pduVars
<1>8. CASE ListenReplaysSync
  BY <1>8, OnlyStatusReports DEF ListenReplaysSync, seqVars, pduVars, resVars
<1>9. ASSUME NEW y \in Syncs, ListenSync(y)
      PROVE  /\ SessionHasSync'
             /\ StatusEndsSession'
             /\ SessionsStartClean'
             /\ RunningHasChunk'
             /\ SessionHoldsItsHandles'
             /\ BitsBelongToTheirChunk'
             /\ MarkedChunksWereDelivered'
             /\ ScmNeverHoldsEmptyMiss'
             /\ DoneMeansNothingMissing'
             /\ PassedMeansDelivered'
  BY <1>9, OnlyStatusReports DEF ListenSync, seqVars, pduVars
<1> QED
  BY <1>1, <1>2, <1>3, <1>4, <1>5, <1>6, <1>7, <1>8, <1>9 DEF MachineStep, Listen

\* The Running handler.
LEMMA RunningKeeps ==
  ASSUME Inv, sync \in Syncs, UNCHANGED sync,
         NEW p \in DataPackets(sync), RunningPacket(p)
  PROVE  /\ RunningHasChunk'
         /\ BitsBelongToTheirChunk'
         /\ MarkedChunksWereDelivered'
         /\ ScmNeverHoldsEmptyMiss'
         /\ DoneMeansNothingMissing'
<1>1. /\ p.chunk \in Chunks /\ p.chunk >= 1 /\ p.chunk + 1 >= 1 /\ p.chunk # 0
      /\ p.seq \in Seqs /\ p.seq \in 1 .. p.seq
      /\ p.chunkEnd = (p.seq = NumSeqs(sync, p.chunk))
  BY PacketFacts, MaxChunkAssumption, MaxSeqAssumption DEF Chunks, Seqs
<1>2. eMsuState = "Running" /\ localChunkNumber >= 1 /\ localChunkNumber # 0
  BY DEF RunningPacket, Inv, RunningHasChunk, TypeOK
<1>3. Arrives(p)
  BY DEF RunningPacket, RunningStale, RunningSeq, RunningChunkReceived, RunningChunkMissed,
         RunningTakes
<1>4. delivered \subseteq delivered' /\ <<p.chunk, p.seq>> \in delivered'
  BY <1>3, Arrival
<1>5. /\ {p.chunk} \X RunningBits(p) \subseteq delivered'
      /\ p.seq \in RunningBits(p)
  BY <1>1, <1>2, <1>4
     DEF RunningBits, SetRecvdSeqBit, Inv, BitsBelongToTheirChunk, InSession, Receiving
<1>6. \A c \in CcmSlots : {c} \X RunningSaved(p)[c] \subseteq delivered'
  BY <1>2, <1>4, SavedBelongs
     DEF RunningSaved, Inv, BitsBelongToTheirChunk, InSession, Receiving
<1>7. CASE RunningStale(p)
  BY <1>2, <1>4, <1>7
     DEF RunningStale, seqVars, ccmVars, Inv, RunningHasChunk, BitsBelongToTheirChunk,
         MarkedChunksWereDelivered, ScmNeverHoldsEmptyMiss, DoneMeansNothingMissing,
         InSession, Receiving
<1>8. CASE RunningSeq(p)
  BY <1>1, <1>2, <1>4, <1>5, <1>6, <1>8
     DEF RunningSeq, RunningTakes, Inv, RunningHasChunk, BitsBelongToTheirChunk,
         MarkedChunksWereDelivered, ScmNeverHoldsEmptyMiss, DoneMeansNothingMissing
<1>9. ASSUME NEW recvd, NEW err, RunningFileEnd(p, recvd, err)
      PROVE  /\ eMsuState' \in {"Running", "Done", "CCM"}
             /\ eMsuState' = "Done" => Missing(recvd) = {}
             /\ eMsuState' = "CCM" => eMsuPrevState' = "CCM"
  BY <1>2, <1>9 DEF RunningFileEnd
<1>10. CASE RunningChunkReceived(p)
  <2>1. PICK err : RunningFileEnd(p, recvdChnk', err)
    BY <1>10 DEF RunningChunkReceived
  <2>2. 1 .. p.seq \subseteq RunningBits(p)
    <3>1. GetMissedSeqBitMap(RunningBits(p), p.seq, tempMissed) = {}
      BY <1>10 DEF RunningChunkReceived
    <3>2. RunningBits(p) \cap (1 .. p.seq) # {}
      BY <1>1, <1>5
    <3> QED
      BY <3>1, <3>2, NothingMissed
  <2>3. {p.chunk} \X (1 .. NumSeqs(sync, p.chunk)) \subseteq delivered'
    BY <1>1, <1>5, <1>10, <2>2 DEF RunningChunkReceived
  <2>4. MarkedChunksWereDelivered'
    BY <1>4, <1>10, <2>3
       DEF RunningChunkReceived, SetRecvdChnkBit, Inv, MarkedChunksWereDelivered
  <2>5. BitsBelongToTheirChunk'
    BY <1>6, <1>10 DEF RunningChunkReceived, RunningTakes, BitsBelongToTheirChunk
  <2>6. RunningHasChunk'
    BY <1>1, <1>9, <1>10, <2>1 DEF RunningChunkReceived, AfterFileEnd, RunningHasChunk
  <2>7. DoneMeansNothingMissing' /\ ScmNeverHoldsEmptyMiss'
    BY <1>9, <2>1 DEF DoneMeansNothingMissing, ScmNeverHoldsEmptyMiss, Missing
  <2> QED
    BY <2>4, <2>5, <2>6, <2>7
<1>11. CASE RunningChunkMissed(p)
  <2>1. MarkedChunksWereDelivered'
    BY <1>4, <1>11 DEF RunningChunkMissed, Inv, MarkedChunksWereDelivered
  <2>2. localChunkNumber' \in {p.chunk, 0}
    BY <1>11 DEF RunningChunkMissed, AfterFileEnd
  <2>3. BitsBelongToTheirChunk'
    BY <1>5, <1>6, <1>11, <2>2 DEF RunningChunkMissed, RunningTakes, BitsBelongToTheirChunk
  <2>4. ScmNeverHoldsEmptyMiss'
    BY <1>11 DEF RunningChunkMissed, ScmNeverHoldsEmptyMiss
  <2>5. RunningHasChunk' /\ DoneMeansNothingMissing'
    BY <1>1, <1>9, <1>11
       DEF RunningChunkMissed, AfterFileEnd, RunningHasChunk, DoneMeansNothingMissing, Missing
  <2> QED
    BY <2>1, <2>3, <2>4, <2>5
<1> QED
  BY <1>7, <1>8, <1>10, <1>11 DEF RunningPacket
\* The SCM handler.  With no sequence to look for (a last chunk that is full)
\* getMissedSeqBitMap returns the stale result, which is not empty here.
LEMMA ScmKeeps ==
  ASSUME Inv, sync \in Syncs, UNCHANGED sync,
         NEW p \in DataPackets(sync), ScmPacket(p)
  PROVE  /\ RunningHasChunk'
         /\ BitsBelongToTheirChunk'
         /\ MarkedChunksWereDelivered'
         /\ ScmNeverHoldsEmptyMiss'
         /\ DoneMeansNothingMissing'
<1>1. /\ p.chunk \in Chunks /\ p.chunk >= 1 /\ p.chunk + 1 >= 1 /\ p.chunk # 0
      /\ p.chunk \in 1 .. sync.chunkCount
      /\ p.seq \in Seqs
  BY PacketFacts, MaxChunkAssumption DEF Chunks
<1>2. /\ eMsuState = "SCM" /\ Arrives(p) /\ UNCHANGED eMsuPrevState
      /\ tempMissed # {}
  BY DEF ScmPacket, Inv, ScmNeverHoldsEmptyMiss
<1>3. delivered \subseteq delivered' /\ <<p.chunk, p.seq>> \in delivered'
  BY <1>2, Arrival
<1>4. /\ eMsuPrevState \in {"Running", "CCM"}
      /\ eMsuPrevState = "Running" => localChunkNumber >= 1
  BY <1>2 DEF Inv, TypeOK, RunningHasChunk
<1>5. /\ localChunkNumber # 0 => {localChunkNumber} \X recvdSeqBitMap \subseteq delivered
      /\ \A c \in CcmSlots : {c} \X ccm_seqVal[c] \subseteq delivered
      /\ \A c \in CcmSlots : {c} \X SavedSeqVals[c] \subseteq delivered
  BY <1>2, SavedBelongs DEF Inv, BitsBelongToTheirChunk, InSession, Receiving
<1>6. CASE ScmDuplicate(p)
  BY <1>2, <1>3, <1>4, <1>5, <1>6
     DEF ScmDuplicate, seqVars, ccmVars, Inv, RunningHasChunk, BitsBelongToTheirChunk,
         MarkedChunksWereDelivered, ScmNeverHoldsEmptyMiss, DoneMeansNothingMissing
<1>7. ASSUME ScmTakes(p)
      PROVE  {p.chunk} \X SetRecvdSeqBit(recvdSeqBitMap, p.seq) \subseteq delivered'
  BY <1>1, <1>3, <1>5, <1>7 DEF ScmTakes, SetRecvdSeqBit
<1>8. CASE ScmSeq(p)
  <2>1. BitsBelongToTheirChunk'
    BY <1>3, <1>5, <1>7, <1>8 DEF ScmSeq, ScmTakes, ccmVars, BitsBelongToTheirChunk
  <2>2. MarkedChunksWereDelivered'
    BY <1>3, <1>8 DEF ScmSeq, Inv, MarkedChunksWereDelivered
  <2> QED
    BY <1>2, <1>4, <1>8, <2>1, <2>2
       DEF ScmSeq, RunningHasChunk, ScmNeverHoldsEmptyMiss, DoneMeansNothingMissing
<1>9. CASE ScmChunkReceived(p)
  <2> DEFINE bits == SetRecvdSeqBit(recvdSeqBitMap, p.seq)
  <2>1. p.chunk = localChunkNumber /\ GetMissedSeqBitMap(bits, ScmNoOfSeq, tempMissed) = {}
    BY <1>9 DEF ScmChunkReceived, ScmTakes
  <2>2. 1 .. ScmNoOfSeq \subseteq bits /\ bits \cap (1 .. ScmNoOfSeq) # {}
    BY <1>2, <2>1, NothingMissed
  <2>3. ScmNoOfSeq # 0
    BY <2>2
  <2>4. ScmNoOfSeq = NumSeqs(sync, p.chunk)
    BY <2>1, <2>3 DEF ScmNoOfSeq, NumSeqs
  <2>5. {p.chunk} \X (1 .. NumSeqs(sync, p.chunk)) \subseteq delivered'
    BY <1>7, <1>9, <2>2, <2>4 DEF ScmChunkReceived
  <2>6. MarkedChunksWereDelivered'
    BY <1>3, <1>9, <2>1, <2>5
       DEF ScmChunkReceived, SetRecvdChnkBit, Inv, MarkedChunksWereDelivered
  <2>7. BitsBelongToTheirChunk'
    BY <1>3, <1>5, <1>9 DEF ScmChunkReceived, ScmTakes, ccmVars, BitsBelongToTheirChunk
  <2>8. RunningHasChunk' /\ ScmNeverHoldsEmptyMiss' /\ DoneMeansNothingMissing'
    BY <1>1, <1>2, <1>4, <1>9, <2>1
       DEF ScmChunkReceived, RunningHasChunk, ScmNeverHoldsEmptyMiss,
           DoneMeansNothingMissing, Missing
  <2> QED
    BY <2>6, <2>7, <2>8
<1>10. CASE ScmJump(p)
  <2>1. BitsBelongToTheirChunk'
    BY <1>3, <1>5, <1>10 DEF ScmJump, BitsBelongToTheirChunk
  <2>2. MarkedChunksWereDelivered'
    BY <1>3, <1>10 DEF ScmJump, Inv, MarkedChunksWereDelivered
  <2> QED
    BY <1>1, <1>2, <1>10, <2>1, <2>2
       DEF ScmJump, RunningHasChunk, ScmNeverHoldsEmptyMiss, DoneMeansNothingMissing
<1> QED
  BY <1>6, <1>8, <1>9, <1>10 DEF ScmPacket
\* The CCM handler: the bits it works on are those of the packet's chunk, taken
\* back from ccm_seqVal when the chunk is opened.
LEMMA CcmKeeps ==
  ASSUME Inv, sync \in Syncs, UNCHANGED sync,
         NEW p \in DataPackets(sync), CcmPacket(p)
  PROVE  /\ RunningHasChunk'
         /\ BitsBelongToTheirChunk'
         /\ MarkedChunksWereDelivered'
         /\ ScmNeverHoldsEmptyMiss'
         /\ DoneMeansNothingMissing'
<1>1. /\ p.chunk \in Chunks /\ p.chunk >= 1 /\ p.chunk # 0 /\ p.chunk \in CcmSlots
      /\ p.seq \in Seqs /\ p.seq \in 1 .. p.seq
      /\ p.chunkEnd = (p.seq = NumSeqs(sync, p.chunk))
  BY PacketFacts, MaxChunkAssumption, MaxSeqAssumption DEF Chunks, Seqs, CcmSlots
<1>2. eMsuState = "CCM" /\ eMsuPrevState = "CCM" /\ Arrives(p)
  BY DEF CcmPacket, Inv, RunningHasChunk
<1>3. delivered \subseteq delivered' /\ <<p.chunk, p.seq>> \in delivered'
  BY <1>2, Arrival
<1>4. /\ localChunkNumber # 0 => {localChunkNumber} \X recvdSeqBitMap \subseteq delivered
      /\ \A c \in CcmSlots : {c} \X ccm_seqVal[c] \subseteq delivered
      /\ \A c \in CcmSlots : {c} \X SavedSeqVals[c] \subseteq delivered
  BY <1>2, SavedBelongs DEF Inv, BitsBelongToTheirChunk, InSession, Receiving
<1>5. {p.chunk} \X CcmBits(p) \subseteq delivered
  BY <1>1, <1>4 DEF CcmBits
<1>6. \A c \in CcmSlots : {c} \X CcmSaved(p)[c] \subseteq delivered'
  BY <1>3, <1>4 DEF CcmSaved
<1>7. CASE CcmIgnored(p)
  BY <1>2, <1>3, <1>4, <1>7
     DEF CcmIgnored, seqVars, ccmVars, Inv, RunningHasChunk, BitsBelongToTheirChunk,
         MarkedChunksWereDelivered, ScmNeverHoldsEmptyMiss, DoneMeansNothingMissing
<1>8. CASE CcmDuplicate(p)
  <2>1. BitsBelongToTheirChunk'
    BY <1>3, <1>5, <1>6, <1>8 DEF CcmDuplicate, CcmOpens, BitsBelongToTheirChunk
  <2>2. MarkedChunksWereDelivered'
    BY <1>3, <1>8 DEF CcmDuplicate, Inv, MarkedChunksWereDelivered
  <2> QED
    BY <1>2, <1>8, <2>1, <2>2
       DEF CcmDuplicate, RunningHasChunk, ScmNeverHoldsEmptyMiss, DoneMeansNothingMissing
<1>9. ASSUME CcmTakes(p)
      PROVE  /\ localChunkNumber' = p.chunk
             /\ {p.chunk} \X recvdSeqBitMap' \subseteq delivered'
             /\ p.seq \in recvdSeqBitMap'
  BY <1>3, <1>5, <1>9 DEF CcmTakes, CcmOpens, SetRecvdSeqBit
<1>10. CASE CcmSeq(p)
  <2>1. BitsBelongToTheirChunk'
    BY <1>6, <1>9, <1>10 DEF CcmSeq, BitsBelongToTheirChunk
  <2>2. MarkedChunksWereDelivered'
    BY <1>3, <1>10 DEF CcmSeq, Inv, MarkedChunksWereDelivered
  <2> QED
    BY <1>2, <1>10, <2>1, <2>2
       DEF CcmSeq, RunningHasChunk, ScmNeverHoldsEmptyMiss, DoneMeansNothingMissing
<1>11. CASE CcmChunkReceived(p)
  <2>1. GetMissedSeqBitMap(recvdSeqBitMap', p.seq, tempMissed) = {} /\ CcmTakes(p)
    BY <1>11 DEF CcmChunkReceived
  <2>2. recvdSeqBitMap' \cap (1 .. p.seq) # {}
    BY <1>1, <1>9, <2>1
  <2>3. 1 .. p.seq \subseteq recvdSeqBitMap'
    BY <2>1, <2>2, NothingMissed
  <2>4. {p.chunk} \X (1 .. NumSeqs(sync, p.chunk)) \subseteq delivered'
    BY <1>1, <1>9, <1>11, <2>1, <2>3 DEF CcmChunkReceived
  <2>5. MarkedChunksWereDelivered'
    BY <1>3, <1>11, <2>4
       DEF CcmChunkReceived, SetRecvdChnkBit, Inv, MarkedChunksWereDelivered
  <2>6. BitsBelongToTheirChunk'
    BY <1>6, <1>9, <1>11, <2>1 DEF CcmChunkReceived, BitsBelongToTheirChunk
  <2>7. RunningHasChunk' /\ ScmNeverHoldsEmptyMiss' /\ DoneMeansNothingMissing'
    BY <1>2, <1>11
       DEF CcmChunkReceived, RunningHasChunk, ScmNeverHoldsEmptyMiss,
           DoneMeansNothingMissing, Missing
  <2> QED
    BY <2>5, <2>6, <2>7
<1>12. CASE CcmChunkMissed(p)
  <2>1. \A c \in CcmSlots : {c} \X ccm_seqVal'[c] \subseteq delivered'
    BY <1>6, <1>9, <1>12 DEF CcmChunkMissed
  <2>2. BitsBelongToTheirChunk'
    BY <1>9, <1>12, <2>1 DEF CcmChunkMissed, BitsBelongToTheirChunk
  <2>3. MarkedChunksWereDelivered'
    BY <1>3, <1>12 DEF CcmChunkMissed, Inv, MarkedChunksWereDelivered
  <2> QED
    BY <1>2, <1>12, <2>2, <2>3
       DEF CcmChunkMissed, RunningHasChunk, ScmNeverHoldsEmptyMiss, DoneMeansNothingMissing
<1> QED
  BY <1>7, <1>8, <1>10, <1>11, <1>12 DEF CcmPacket

\* The control messages, the timeout and a failed receive touch none of the
\* bookkeeping the invariant relates; they move the state machine.
LEMMA ControlKeeps ==
  ASSUME Inv, UNCHANGED sync,
         (\E m \in ControlMessages : ControlMessage(m)) \/ RecvError \/ RecvTimeout
  PROVE  /\ RunningHasChunk'
         /\ BitsBelongToTheirChunk'
         /\ MarkedChunksWereDelivered'
         /\ ScmNeverHoldsEmptyMiss'
         /\ DoneMeansNothingMissing'
<1>1. ControlFrame
  BY DEF ControlMessage, TransferComplete, CCMComplete, SCMComplete, AbortTransfer,
         RecvError, RecvTimeout
<1>2. localChunkNumber' \in {localChunkNumber, 0}
  BY DEF ControlMessage, TransferComplete, CCMComplete, SCMComplete, AbortTransfer,
         RecvError, RecvTimeout, AsksForSeqs, AsksForChunks, FinishesWith
<1>3. BitsBelongToTheirChunk' /\ MarkedChunksWereDelivered'
  BY <1>1, <1>2
     DEF ControlFrame, pduVars, Inv, BitsBelongToTheirChunk, MarkedChunksWereDelivered,
         InSession
<1>4. RunningHasChunk'
  <2>1. ASSUME NEW m \in ControlMessages, ControlMessage(m)
        PROVE  RunningHasChunk'
    BY <1>1, <2>1
       DEF ControlMessage, TransferComplete, CCMComplete, SCMComplete, AbortTransfer,
           AsksForSeqs, AsksForChunks, FinishesWith, ControlFrame, Inv, RunningHasChunk, TypeOK, Receiving
  <2> QED
    BY <1>1, <2>1
       DEF RecvError, RecvTimeout, FinishesWith, ControlFrame, Inv, RunningHasChunk
<1>5. ScmNeverHoldsEmptyMiss'
  BY DEF ControlMessage, TransferComplete, CCMComplete, SCMComplete, AbortTransfer,
         RecvError, RecvTimeout, AsksForSeqs, AsksForChunks, FinishesWith, Inv, TypeOK,
         ScmNeverHoldsEmptyMiss
<1>6. DoneMeansNothingMissing'
  BY <1>1
     DEF ControlMessage, TransferComplete, CCMComplete, SCMComplete, AbortTransfer,
         RecvError, RecvTimeout, AsksForSeqs, AsksForChunks, FinishesWith, ControlFrame, Inv, TypeOK,
         DoneMeansNothingMissing, Missing, Receiving
<1> QED
  BY <1>3, <1>4, <1>5, <1>6
\* The invariant is inductive.
LEMMA InvStep == Inv /\ [Next]_vars => Inv'
<1> SUFFICES ASSUME Inv, [Next]_vars
             PROVE  Inv'
  OBVIOUS
<1>1. TypeOK'
  BY TypeStep DEF Inv
<1>2. CASE UNCHANGED vars
  BY <1>1, <1>2
     DEF vars, seqVars, ccmVars, pduVars, resVars, statVars, Inv, SessionHasSync,
         StatusEndsSession, SessionsStartClean, RunningHasChunk, SessionHoldsItsHandles,
         BitsBelongToTheirChunk, MarkedChunksWereDelivered, ScmNeverHoldsEmptyMiss,
         DoneMeansNothingMissing, PassedMeansDelivered, Missing
<1>3. CASE MachineStep \/ Listen
  BY <1>1, <1>3, MachineKeeps DEF Inv
<1>4. CASE \E p \in DataPackets(sync) : DataPacket(p)
  <2>1. ReceiveStep
    BY <1>4 DEF ReceiveStep
  <2>2. sync \in Syncs /\ UNCHANGED sync
    BY <2>1, ReceiveFrame DEF Inv
  <2> QED
    BY <1>1, <1>4, <2>1, <2>2, ReceiveKeeps, RunningKeeps, ScmKeeps, CcmKeeps
       DEF DataPacket, Inv
<1>5. CASE (\E m \in ControlMessages : ControlMessage(m)) \/ RecvError \/ RecvTimeout
  <2>1. ReceiveStep \/ RecvTimeout
    BY <1>5 DEF ReceiveStep
  <2>2. UNCHANGED sync
    BY <2>1, ReceiveFrame DEF Inv
  <2> QED
    BY <1>1, <1>5, <2>1, <2>2, ReceiveKeeps, ControlKeeps DEF Inv
<1> QED
  BY <1>2, <1>3, <1>4, <1>5 DEF Next, ReceiveStep

\* Inv holds in every reachable state, whatever the sessions and the faults.
THEOREM Invariance == Spec => []Inv
<1>1. Init => Inv
  BY InitInv
<1>2. Inv /\ [Next]_vars => Inv'
  BY InvStep
<1> QED
  BY <1>1, <1>2, PTL DEF Spec
\* Every variable keeps its type.
THEOREM TypeCorrectness == Spec => []TypeOK
  BY Invariance, PTL DEF Inv

\* A leech reports success only when every packet of the file has reached it.
THEOREM PassedIsDelivered == Spec => []PassedMeansDelivered
  BY Invariance, PTL DEF Inv

\* A chunk is marked complete only when all of its sequences have arrived.
THEOREM MarksAreTrue == Spec => []MarkedChunksWereDelivered
  BY Invariance, PTL DEF Inv

\* The bits of a chunk, current or put aside, are never those of another one.
THEOREM BitsStayWithTheirChunk == Spec => []BitsBelongToTheirChunk
  BY Invariance, PTL DEF Inv

\* The stale result of getMissedSeqBitMap cannot complete a chunk in SCM.
THEOREM StaleResultIsHarmless == Spec => []ScmNeverHoldsEmptyMiss
  BY Invariance, PTL DEF Inv

\* Running, and SCM entered from it, never index ccm_seqVal with chunk number 0.
THEOREM RunningIndexesItsChunk == Spec => []RunningHasChunk
  BY Invariance, PTL DEF Inv

\* The bitmaps, which msuLeechConfigure does not reset, are empty between sessions.
THEOREM NothingIsLeftOver == Spec => []SessionsStartClean
  BY Invariance, PTL DEF Inv

-----------------------------------------------------------------------------
(* What a step may never do. *)

\* No step of a session takes back the mark of a complete chunk.
THEOREM MarksStay == Spec => MarksAreKept
<1>1. Inv /\ [Next]_vars => [(eMsuState \in Receiving) => (recvdChnk \subseteq recvdChnk')]_vars
  <2> SUFFICES ASSUME Inv, Next, eMsuState \in Receiving
               PROVE  recvdChnk \subseteq recvdChnk'
    OBVIOUS
  <2>1. CASE MachineStep \/ Listen
    BY <2>1 DEF MachineStep, Listen, Initialize, Configure, StartSession, StartFails, Abort,
                Done, LoopBack, ListenSync, ListenReplaysSync, Receiving
  <2>2. ASSUME NEW p, DataPacket(p)
        PROVE  recvdChnk \subseteq recvdChnk'
    BY <2>2
       DEF DataPacket, SetRecvdChnkBit, seqVars,
           RunningPacket, RunningStale, RunningSeq, RunningChunkReceived, RunningChunkMissed,
           ScmPacket, ScmDuplicate, ScmSeq, ScmChunkReceived, ScmJump,
           CcmPacket, CcmIgnored, CcmDuplicate, CcmSeq, CcmChunkReceived, CcmChunkMissed
  <2>3. ASSUME NEW m, ControlMessage(m) \/ RecvError \/ RecvTimeout
        PROVE  recvdChnk \subseteq recvdChnk'
    BY <2>3
       DEF ControlMessage, TransferComplete, CCMComplete, SCMComplete, AbortTransfer,
           RecvError, RecvTimeout, ControlFrame
  <2> QED
    BY <2>1, <2>2, <2>3 DEF Next, ReceiveStep
<1> QED
  BY <1>1, Invariance, PTL DEF Spec, MarksAreKept

\* Once in CCM, or in an SCM entered from there, the leech stays so until its
\* session stops receiving: it never falls back to Running, which would ignore
\* the chunks it has asked for.
THEOREM CcmIsFinal == Spec => NoReturnToRunning
<1>1. Inv /\ [Next]_vars => [InCcm => (InCcm' \/ eMsuState' \notin Receiving)]_vars
  <2> SUFFICES ASSUME Inv, Next, InCcm
               PROVE  InCcm' \/ eMsuState' \notin Receiving
    OBVIOUS
  <2>1. eMsuPrevState = "CCM" /\ eMsuState \in {"SCM", "CCM"}
    BY DEF Inv, RunningHasChunk, InCcm
  <2>2. CASE MachineStep \/ Listen
    BY <2>1, <2>2 DEF MachineStep, Listen, Initialize, Configure, StartSession, StartFails,
                Abort, Done, LoopBack, ListenSync, ListenReplaysSync
  <2>3. ASSUME NEW p, DataPacket(p)
        PROVE  eMsuPrevState' = "CCM" /\ eMsuState' \in {"SCM", "CCM", "Done"}
    <3>1. CASE RunningPacket(p)
      BY <2>1, <3>1 DEF RunningPacket
    <3>2. CASE ScmPacket(p)
      BY <2>1, <3>2 DEF ScmPacket, ScmDuplicate, ScmSeq, ScmChunkReceived, ScmJump
    <3>3. CASE CcmPacket(p)
      BY <2>1, <3>3 DEF CcmPacket, CcmIgnored, CcmDuplicate, CcmSeq, CcmChunkReceived,
                        CcmChunkMissed
    <3> QED
      BY <2>3, <3>1, <3>2, <3>3 DEF DataPacket
  <2>4. ASSUME NEW m, ControlMessage(m) \/ RecvError \/ RecvTimeout
        PROVE  eMsuState' \in {"Abort", "Done"}
                 \/ (eMsuPrevState' = "CCM" /\ eMsuState' \in {"SCM", "CCM"})
    BY <2>1, <2>4
       DEF ControlMessage, TransferComplete, CCMComplete, SCMComplete, AbortTransfer,
           RecvError, RecvTimeout, AsksForSeqs, AsksForChunks, FinishesWith
  <2>5. eMsuState' \in {"SCM", "CCM"} /\ eMsuPrevState' = "CCM" => InCcm'
    BY DEF InCcm
  <2> QED
    BY <2>2, <2>3, <2>4, <2>5 DEF Next, ReceiveStep, Receiving
<1> QED
  BY <1>1, Invariance, PTL DEF Spec, NoReturnToRunning

\* SCM is entered only by sending a request that asks for something.
THEOREM ScmFollowsItsRequest == Spec => ScmIsAskedFor
<1>1. Inv /\ [Next]_vars => [(eMsuState # "SCM" /\ eMsuState' = "SCM")
                               => (sent'.type = "scm" /\ sent'.seqs # {})]_vars
  <2> SUFFICES ASSUME Inv, Next, eMsuState # "SCM", eMsuState' = "SCM"
               PROVE  sent'.type = "scm" /\ sent'.seqs # {}
    OBVIOUS
  <2>1. \A c, m : ScmMsg(c, m).type = "scm" /\ ScmMsg(c, m).seqs = m
    BY DEF ScmMsg
  <2>2. CASE MachineStep \/ Listen
    BY <2>2 DEF MachineStep, Listen, Initialize, Configure, StartSession, StartFails, Abort,
                Done, LoopBack, ListenSync, ListenReplaysSync
  <2>3. ASSUME NEW p, RunningPacket(p)
        PROVE  sent'.type = "scm" /\ sent'.seqs # {}
    BY <2>1, <2>3
       DEF RunningPacket, RunningStale, RunningSeq, RunningChunkReceived, RunningChunkMissed,
           RunningFileEnd
  <2>4. ASSUME NEW p, CcmPacket(p)
        PROVE  sent'.type = "scm" /\ sent'.seqs # {}
    BY <2>1, <2>4
       DEF CcmPacket, CcmIgnored, CcmDuplicate, CcmSeq, CcmChunkReceived, CcmChunkMissed, Send
  <2>5. ASSUME NEW m, ControlMessage(m) \/ RecvError \/ RecvTimeout
        PROVE  sent'.type = "scm" /\ sent'.seqs # {}
    BY <2>1, <2>5
       DEF ControlMessage, TransferComplete, CCMComplete, SCMComplete, AbortTransfer,
           RecvError, RecvTimeout, AsksForSeqs, AsksForChunks, FinishesWith, Send, Inv, TypeOK
  <2> QED
    BY <2>2, <2>3, <2>4, <2>5 DEF Next, ReceiveStep, DataPacket, ScmPacket
<1> QED
  BY <1>1, Invariance, PTL DEF Spec, ScmIsAskedFor
-----------------------------------------------------------------------------
(* The leech implements UpgradeSession. *)

LEMMA PhaseFacts ==
  /\ eMsuState \in Receiving => Phase = "receiving"
  /\ eMsuState = "Done" => Phase = "concluded"
  /\ eMsuState = "Abort" => Phase = "failed"
  /\ eMsuState = "LoopBack" => Phase = "closing"
  /\ eMsuState \notin InSession => Phase = "idle"
  BY DEF Phase, InSession, Receiving

LEMMA ReportFacts ==
  /\ sent.type # "status" => Reported = "none"
  /\ NoMsg.type # "status"
  /\ \A r : StatusMsg(r).type = "status" /\ StatusMsg(r).result = r
  BY DEF Reported, NoMsg, StatusMsg

LEMMA InitImplements == Init => Session!Init
<1> SUFFICES ASSUME Init
             PROVE  Session!Init
  OBVIOUS
<1>1. Phase = "idle"
  BY PhaseFacts DEF Init, InSession, Receiving
<1>2. Reported = "none"
  BY ReportFacts DEF Init
<1> QED
  BY <1>1, <1>2 DEF Init, Session!Init

\* A packet is a part of the file.
LEMMA DataImplements ==
  ASSUME Inv, Inv', NEW p \in DataPackets(sync), DataPacket(p)
  PROVE  Session!Receive
<1>1. /\ eMsuState \in Receiving
      /\ eMsuState' \in Receiving \cup {"Done"}
      /\ sync' = sync
      /\ sent'.type # "status"
      /\ Arrives(p)
  BY DataFrame DEF Inv, resVars
<1>2. <<p.chunk, p.seq>> \in AllPackets(sync)
  <2>1. PICK q \in AllPackets(sync), f \in BOOLEAN :
          p = [type |-> "data", chunk |-> q[1], seq |-> q[2],
               chunkEnd |-> q[2] = NumSeqs(sync, q[1]),
               fileEnd |-> f /\ q = <<sync.chunkCount, NumSeqs(sync, sync.chunkCount)>>]
    BY DEF DataPackets
  <2>2. q = <<q[1], q[2]>>
    BY DEF AllPackets
  <2> QED
    BY <2>1, <2>2
<1>3. delivered' = delivered \cup {<<p.chunk, p.seq>>}
  BY <1>1 DEF Arrives
<1>4. Phase = "receiving" /\ Reported' = "none"
  BY <1>1, PhaseFacts DEF Reported
<1>5. CASE eMsuState' \in Receiving
  <2>1. Phase' = "receiving"
    BY <1>5 DEF Phase, Receiving, InSession
  <2> QED
    BY <1>1, <1>2, <1>3, <1>4, <2>1 DEF Session!Receive
<1>6. CASE eMsuState' = "Done"
  <2>1. Phase' = "concluded"
    BY <1>6 DEF Phase, Receiving, InSession
  <2>2. AllPackets(sync) \subseteq delivered'
    BY <1>1, <1>6
       DEF Inv, DoneMeansNothingMissing, MarkedChunksWereDelivered, Missing,
           GetMissedChnkNums, IsChnkRecvd, AllPackets
  <2> QED
    BY <1>1, <1>2, <1>3, <1>4, <2>1, <2>2 DEF Session!Receive
<1> QED
  BY <1>1, <1>5, <1>6

\* A control message or a timeout concludes the session, gives it up, or
\* changes nothing of it.
LEMMA ControlImplements ==
  ASSUME Inv, Inv',
         (\E m \in ControlMessages : ControlMessage(m)) \/ RecvError \/ RecvTimeout
  PROVE  Session!Receive \/ Session!GiveUp
<1>1. /\ eMsuState \in Receiving
      /\ eMsuState' \in Receiving \cup {"Done", "Abort"}
      /\ UNCHANGED <<delivered, sync>>
      /\ sent'.type # "status"
  BY ControlFrameFacts DEF Inv
<1>2. Phase = "receiving" /\ Reported' = "none"
  BY <1>1, PhaseFacts DEF Reported
<1>3. CASE eMsuState' \in Receiving
  <2>1. Phase' = "receiving"
    BY <1>3 DEF Phase, Receiving, InSession
  <2> QED
    BY <1>1, <1>2, <2>1 DEF Session!Receive
<1>4. CASE eMsuState' = "Done"
  <2>1. Phase' = "concluded"
    BY <1>4 DEF Phase, Receiving, InSession
  <2>2. AllPackets(sync) \subseteq delivered'
    BY <1>1, <1>4
       DEF Inv, DoneMeansNothingMissing, MarkedChunksWereDelivered, Missing,
           GetMissedChnkNums, IsChnkRecvd, AllPackets
  <2> QED
    BY <1>1, <1>2, <2>1, <2>2 DEF Session!Receive
<1>5. CASE eMsuState' = "Abort"
  <2>1. Phase' = "failed"
    BY <1>5 DEF Phase, Receiving, InSession
  <2> QED
    BY <1>1, <1>2, <2>1 DEF Session!GiveUp
<1> QED
  BY <1>1, <1>3, <1>4, <1>5

\* The steps outside the receiving states.
LEMMA MachineImplements ==
  ASSUME Inv, Inv', MachineStep \/ Listen
  PROVE  [Session!Next]_(Session!vars)
<1> DEFINE Idle == eMsuState \notin InSession
<1>1. Idle => Phase = "idle" /\ Reported = "none"
  BY PhaseFacts, ReportFacts DEF Inv, StatusEndsSession, InSession
<1>2. Idle' => Phase' = "idle" /\ Reported' = "none"
  BY DEF Phase, Reported, Inv, StatusEndsSession, InSession, Receiving
<1>3. ASSUME Idle, Idle', UNCHANGED <<sync, delivered>>
      PROVE  UNCHANGED Session!vars
  BY <1>1, <1>2, <1>3 DEF Session!vars
<1>4. CASE Initialize
  BY <1>3, <1>4 DEF Initialize, ComplainModeInit, Inv, SessionHasSync, InSession, Receiving
<1>5. CASE Configure
  BY <1>3, <1>5 DEF Configure, pduVars, InSession, Receiving
<1>6. CASE StartFails
  BY <1>3, <1>6 DEF StartFails, pduVars, InSession, Receiving
<1>7. CASE ListenReplaysSync
  BY <1>3, <1>7 DEF ListenReplaysSync, pduVars, resVars, InSession, Receiving
<1>8. ASSUME NEW y \in Syncs, ListenSync(y)
      PROVE  Session!Announce
  BY <1>1, <1>2, <1>8 DEF ListenSync, pduVars, Session!Announce, InSession, Receiving
<1>9. CASE StartSession
  <2>1. Phase' = "receiving" /\ Reported' = "none" /\ Phase = "idle"
    BY <1>1, <1>9, ReportFacts DEF StartSession, Phase, Reported, Receiving, InSession
  <2> QED
    BY <1>9, <2>1 DEF StartSession, Session!Next, Session!Begin, Inv, SessionHasSync
<1>10. CASE Abort
  <2>1. Phase = "failed" /\ Phase' = "closing" /\ Reported' = "none"
    BY <1>10, PhaseFacts, ReportFacts DEF Abort, Phase, Reported, Receiving, InSession
  <2> QED
    BY <1>10, <2>1 DEF Abort, pduVars, resVars, Session!Next, Session!Fail
<1>11. CASE Done
  <2>1. Phase = "concluded" /\ Phase' = "closing"
    BY <1>11, PhaseFacts DEF Done, Phase, Receiving, InSession
  <2>2. deviceUpgadeStatus' = "Passed"
    BY <1>11 DEF Done, Inv, DoneMeansNothingMissing, Missing
  <2>3. Reported' \in {"Passed", "none"}
    BY <1>11, <2>2, ReportFacts DEF Done, Reported
  <2> QED
    BY <1>11, <2>1, <2>3 DEF Done, pduVars, Session!Next, Session!Report
<1>12. CASE LoopBack
  <2>1. Phase = "closing" /\ Phase' = "idle" /\ Reported' = "none"
    BY <1>12, PhaseFacts, ReportFacts DEF LoopBack, ComplainModeInit, Phase, Reported, Receiving, InSession
  <2> QED
    BY <1>12, <2>1 DEF LoopBack, ComplainModeInit, pduVars, Session!Next, Session!Close
<1> QED
  BY <1>4, <1>5, <1>6, <1>7, <1>8, <1>9, <1>10, <1>11, <1>12
     DEF MachineStep, Listen, Session!Next

\* A step of the leech is a step of UpgradeSession, or leaves it alone.
LEMMA StepImplements ==
  ASSUME Inv, Inv', [Next]_vars
  PROVE  [Session!Next]_(Session!vars)
<1>1. CASE UNCHANGED vars
  BY <1>1
     DEF vars, pduVars, resVars, statVars, Session!vars, Phase, Reported
<1>2. CASE MachineStep \/ Listen
  BY <1>2, MachineImplements
<1>3. CASE \E p \in DataPackets(sync) : DataPacket(p)
  BY <1>3, DataImplements DEF Session!Next
<1>4. CASE (\E m \in ControlMessages : ControlMessage(m)) \/ RecvError \/ RecvTimeout
  BY <1>4, ControlImplements DEF Session!Next
<1> QED
  BY <1>1, <1>2, <1>3, <1>4 DEF Next, ReceiveStep

\* Every behaviour of the leech is a behaviour of UpgradeSession.
THEOREM Implementation == Spec => ImplementsSession
<1>1. Init => Session!Init
  BY InitImplements
<1>2. Inv /\ Inv' /\ [Next]_vars => [Session!Next]_(Session!vars)
  BY StepImplements
<1> QED
  BY <1>1, <1>2, Invariance, PTL DEF Spec, ImplementsSession, Session!Spec
=============================================================================
