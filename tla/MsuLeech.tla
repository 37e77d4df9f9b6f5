------------------------------ MODULE MsuLeech ------------------------------
(***************************************************************************)
(* The MSU client ("leech") of the device build: the state machine of      *)
(* MsuLeech.c with the packet handlers it calls in the Running, SCM and    *)
(* CCM states, the dispatcher msuSocketGetDataPackets, the messages it     *)
(* sends, and the sockets and the file it opens and closes.                *)
(*                                                                         *)
(* The server and the network are an environment: on the update socket any *)
(* message of the current session may arrive at any time, any number of    *)
(* times, or never.  That is loss, duplication and reordering at once.     *)
(* The bytes of a packet, the RAM buffer they are collected in and their   *)
(* place in the file do not influence this control state; module           *)
(* MsuLeechRam adds them to the same actions.                              *)
(*                                                                         *)
(* A definition marked "mutant" is a plausible bug of the one that follows *)
(* it; no specification uses it.                                           *)
(***************************************************************************)
EXTENDS MsuComplainMode, Integers

CONSTANTS
  Syncs,        \* the sessions a server may announce
  Faults,       \* which calls may fail: "open", "socket", "send", "recv", "write"
  CounterRange  \* 256 in the code: ccmRetryCount is a UINT8

(***************************************************************************)
(* What the leech takes from a sync message: chunkCount, seqNumberLimit    *)
(* and tailSeqs, the number of sequences that                              *)
(* fileSize % (seqNumberLimit * seqSize) rounds up to.  It is what         *)
(* msuLeechConfigure stores in noOfSeqInLastChunk: 0 when the file fills   *)
(* its last chunk exactly.  chunkCount stays within the words of           *)
(* ccm_seqVal (MSU_MAX_CCM_CHUNK_NUMBER, 256): the code does not check it. *)
(***************************************************************************)
SyncType == [chunkCount : Chunks, seqNumberLimit : Seqs, tailSeqs : 0 .. MaxSeq]

NoSync == [chunkCount |-> 0, seqNumberLimit |-> 0, tailSeqs |-> 0]

ASSUME SyncsAssumption ==
  /\ Syncs \subseteq SyncType
  /\ \A y \in Syncs : y.tailSeqs <= y.seqNumberLimit
ASSUME CounterAssumption == CounterRange \in Nat \ {0}
ASSUME FaultsAssumption  == Faults \subseteq {"open", "socket", "send", "recv", "write"}

\* How the server slices the file: the sequences chunk c of session y has.
NumSeqs(y, c) ==
  IF c = y.chunkCount /\ y.tailSeqs # 0 THEN y.tailSeqs ELSE y.seqNumberLimit

AllPackets(y) == UNION {{c} \X (1 .. NumSeqs(y, c)) : c \in 1 .. y.chunkCount}

VARIABLES
  eMsuState,           \* the state machine
  eMsuPrevState,       \* where SCM returns to: Running or CCM
  localChunkNumber,    \* the chunk being received
  recvdSeqBitMap,      \* its sequences received so far
  tempMissed,          \* the static result of getMissedSeqBitMap
  recvdChnk,           \* recvdChnkArr: the complete chunks
  ccm_seqVal,          \* bitmaps of the chunks that were left incomplete
  firstTime,           \* the next CCM packet opens a chunk
  ccmSent,             \* TRANSFER_COMPLETE was answered with a CCM message
  ccmRetryCount,       \* CCM messages sent in this session
  mcastChunk,          \* msuMcastPdu.chunkNumber: chunk of the last data packet
  sync,                \* msuBroadcastPdu
  msuDefaultSocket,    \* "invalid", "open", or "closed": closed but still stored
  msuUpdateSocket,
  pMsuFileDes,         \* "none" (-1 or 0), "open", or "closed": closed but stored
  deviceUpgadeStatus,
  MsuGlobalError,
  sent,                \* the message the last step handed to the socket
  delivered            \* history: the data packets of this session so far

seqVars  == <<localChunkNumber, recvdSeqBitMap, tempMissed, recvdChnk, firstTime>>
ccmVars  == <<ccm_seqVal, ccmSent, ccmRetryCount>>
pduVars  == <<mcastChunk, delivered>>
resVars  == <<msuDefaultSocket, msuUpdateSocket, pMsuFileDes, sync>>
statVars == <<deviceUpgadeStatus, MsuGlobalError>>
vars == <<eMsuState, eMsuPrevState, seqVars, ccmVars, pduVars, resVars, statVars, sent>>

Receiving == {"Running", "SCM", "CCM"}
InSession == Receiving \cup {"Done", "Abort", "LoopBack"}
States    == InSession \cup {"Initialize", "Configure", "Listen", "Start"}

\* The codes of MsuErrNo.h the session reports.
NoError          == 0
FileOpenFailed   == 1
SocketOpenFailed == 2
SocketRxFailed   == 3
SocketTxFailed   == 4
ScmFailed        == 5
CcmFailed        == 6
TimedOut         == 7
FileWriteFailed  == 9
ExceedCcmRetry   == 11
StatusAbort      == 128

\* MsuGlobalError | MSU_UPDATE_STATUS_ABORT
OrAbort(e) == IF e < StatusAbort THEN e + StatusAbort ELSE e

\* Whether a call succeeds: it always does unless the environment may fail it.
Outcomes(call) == IF call \in Faults THEN BOOLEAN ELSE {TRUE}

-----------------------------------------------------------------------------
(* The messages. *)

DataPackets(y) ==
  {[type |-> "data", chunk |-> p[1], seq |-> p[2],
    chunkEnd |-> p[2] = NumSeqs(y, p[1]),
    fileEnd |-> f /\ p = <<y.chunkCount, NumSeqs(y, y.chunkCount)>>] :
      p \in AllPackets(y), f \in BOOLEAN}

ControlMessages ==
  [type : {"transferComplete", "abort"}]
    \cup [type : {"scmComplete", "ccmComplete"}, retry : BOOLEAN]

NoMsg == [type |-> "none"]

ScmMsgFromZero(c, missed) ==   \* mutant
  [type |-> "scm", chunk |-> c - 1, seqs |-> missed]

ScmMsg(c, missed) == [type |-> "scm", chunk |-> c, seqs |-> missed]

CcmMsg(missed) == [type |-> "ccm", chunks |-> missed]

StatusMsg(result) ==
  [type |-> "status", result |-> result, error |-> MsuGlobalError,
   ccmRetry |-> ccmRetryCount]

SentType ==
  {NoMsg}
    \cup [type : {"scm"}, chunk : 0 .. MaxChunk, seqs : SUBSET Seqs]
    \cup [type : {"ccm"}, chunks : SUBSET Chunks]
    \cup [type : {"status"}, result : {"Passed", "Failed"}, error : 0 .. 255,
          ccmRetry : 0 .. (CounterRange - 1)]

\* msuSendScmMsg and msuSendCcmMsg: m goes out, or the call fails and leaves
\* an error code; err is the code the handler has set before.
Send(m, ok, err) ==
  /\ sent' = IF ok THEN m ELSE NoMsg
  /\ MsuGlobalError' = IF ok THEN err ELSE SocketTxFailed

SendsNothing(err) == sent' = NoMsg /\ MsuGlobalError' = err

\* The code left by the msuFileWrite of a complete chunk.
AfterWrite(ok) == IF ok THEN MsuGlobalError ELSE FileWriteFailed

-----------------------------------------------------------------------------
(* The statics of the modules before the first step. *)

NoSeqVals == [c \in CcmSlots |-> {}]

Init ==
  /\ eMsuState = "Initialize"
  /\ eMsuPrevState = "Running"
  /\ localChunkNumber = 0
  /\ recvdSeqBitMap = {}
  /\ tempMissed = {}
  /\ recvdChnk = {}
  /\ ccm_seqVal = NoSeqVals
  /\ firstTime = TRUE
  /\ ccmSent = FALSE
  /\ ccmRetryCount = 0
  /\ mcastChunk = 0
  /\ sync = NoSync
  /\ msuDefaultSocket = "invalid"
  /\ msuUpdateSocket = "invalid"
  /\ pMsuFileDes = "none"
  /\ deviceUpgadeStatus = "Failed"
  /\ MsuGlobalError = NoError
  /\ sent = NoMsg
  /\ delivered = {}

-----------------------------------------------------------------------------
(* msuLeechStateMachine outside the receiving states. *)

ComplainModeInitSeqs == recvdSeqBitMap' = {} /\ UNCHANGED recvdChnk   \* mutant

ComplainModeInit == recvdSeqBitMap' = {} /\ recvdChnk' = {}

Initialize ==
  /\ eMsuState = "Initialize"
  /\ eMsuState' = "Configure"
  /\ localChunkNumber' = 1
  /\ sync' = NoSync
  /\ mcastChunk' = 0
  /\ ComplainModeInit
  /\ msuDefaultSocket' = "invalid"
  /\ msuUpdateSocket' = "invalid"
  /\ sent' = NoMsg
  /\ UNCHANGED <<eMsuPrevState, tempMissed, firstTime, ccmVars, pMsuFileDes,
                 statVars, delivered>>

\* msuDefaultSocketCreate; on failure the state machine tries again.
Configure ==
  /\ eMsuState = "Configure"
  /\ \E ok \in Outcomes("socket") :
       /\ msuDefaultSocket' = IF ok THEN "open" ELSE "invalid"
       /\ eMsuState' = IF ok THEN "Listen" ELSE "Configure"
  /\ sent' = NoMsg
  /\ UNCHANGED <<eMsuPrevState, seqVars, ccmVars, pduVars, msuUpdateSocket,
                 pMsuFileDes, sync, statVars>>

(***************************************************************************)
(* A valid sync message on the default socket: the leech keeps its fields  *)
(* and closes the socket, whose descriptor stays in msuDefaultSocket.      *)
(***************************************************************************)
ListenSync(y) ==
  /\ eMsuState = "Listen"
  /\ msuDefaultSocket = "open"
  /\ sync' = y
  /\ msuDefaultSocket' = "closed"
  /\ eMsuState' = "Start"
  /\ sent' = NoMsg
  /\ UNCHANGED <<eMsuPrevState, seqVars, ccmVars, pduVars, msuUpdateSocket,
                 pMsuFileDes, statVars>>

ListenReplaysNothing ==   \* mutant
  /\ eMsuState = "Listen"
  /\ msuDefaultSocket = "closed"
  /\ sent' = NoMsg
  /\ UNCHANGED <<eMsuState, eMsuPrevState, seqVars, ccmVars, pduVars, resVars, statVars>>

(***************************************************************************)
(* Back in Listen after a failed msuLeechConfigure the default socket is   *)
(* closed.  msuSocketRecvFrom then returns 0 bytes, which is not           *)
(* MSU_SOCKET_ERROR, and gMsgBuffer still holds the sync message: it is    *)
(* processed a second time and the descriptor closed a second time.        *)
(***************************************************************************)
ListenReplaysSync ==
  /\ eMsuState = "Listen"
  /\ msuDefaultSocket = "closed"
  /\ eMsuState' = "Start"
  /\ sent' = NoMsg
  /\ UNCHANGED <<eMsuPrevState, seqVars, ccmVars, pduVars, resVars, statVars>>

\* msuLeechConfigure succeeds.
StartSession ==
  /\ eMsuState = "Start"
  /\ pMsuFileDes' = "open"
  /\ msuUpdateSocket' = "open"
  /\ localChunkNumber' = 1
  /\ ccm_seqVal' = NoSeqVals
  /\ ccmRetryCount' = 0
  /\ ccmSent' = FALSE
  /\ MsuGlobalError' = NoError
  /\ eMsuPrevState' = "Running"
  /\ eMsuState' = "Running"
  /\ sent' = NoMsg
  /\ delivered' = {}
  /\ UNCHANGED <<recvdSeqBitMap, tempMissed, recvdChnk, firstTime, mcastChunk,
                 msuDefaultSocket, sync, deviceUpgadeStatus>>

\* The early returns of msuLeechConfigure: no file, or a file but no socket.
StartFails ==
  /\ eMsuState = "Start"
  /\ \/ /\ "open" \in Faults
        /\ pMsuFileDes' = "none"
        /\ MsuGlobalError' = FileOpenFailed
        /\ UNCHANGED <<msuUpdateSocket, localChunkNumber>>
     \/ /\ "socket" \in Faults
        /\ pMsuFileDes' = "open"
        /\ localChunkNumber' = 1
        /\ msuUpdateSocket' = "invalid"
        /\ MsuGlobalError' = SocketOpenFailed
  /\ eMsuState' = "Listen"
  /\ sent' = NoMsg
  /\ UNCHANGED <<eMsuPrevState, recvdSeqBitMap, tempMissed, recvdChnk, firstTime,
                 ccmVars, pduVars, msuDefaultSocket, sync, deviceUpgadeStatus>>

AbortKeepsStatus ==   \* mutant
  /\ eMsuState = "Abort"
  /\ eMsuState' = "LoopBack"
  /\ MsuGlobalError' = OrAbort(MsuGlobalError)
  /\ sent' = NoMsg
  /\ UNCHANGED <<eMsuPrevState, seqVars, ccmVars, pduVars, resVars, deviceUpgadeStatus>>

Abort ==
  /\ eMsuState = "Abort"
  /\ eMsuState' = "LoopBack"
  /\ deviceUpgadeStatus' = "Failed"
  /\ MsuGlobalError' = OrAbort(MsuGlobalError)
  /\ sent' = NoMsg
  /\ UNCHANGED <<eMsuPrevState, seqVars, ccmVars, pduVars, resVars>>

\* The file is closed (its handle stays in pMsuFileDes) and the status sent.
Done ==
  /\ eMsuState = "Done"
  /\ pMsuFileDes' = "closed"
  /\ deviceUpgadeStatus' =
       IF GetMissedChnkNums(recvdChnk, sync.chunkCount) = {} THEN "Passed" ELSE "Failed"
  /\ \E ok \in Outcomes("send") :
       sent' = IF ok THEN StatusMsg(deviceUpgadeStatus') ELSE NoMsg
  /\ eMsuState' = "LoopBack"
  /\ UNCHANGED <<eMsuPrevState, seqVars, ccmVars, pduVars, msuDefaultSocket,
                 msuUpdateSocket, sync, MsuGlobalError>>

\* msuReleaseResources with the complainModeInit it calls; the static
\* tempMissed is out of reach of complainModeInit.
LoopBack ==
  /\ eMsuState = "LoopBack"
  /\ msuDefaultSocket' = "invalid"
  /\ msuUpdateSocket' = "invalid"
  /\ pMsuFileDes' = IF pMsuFileDes = "none" THEN "none" ELSE "closed"
  /\ ComplainModeInit
  /\ localChunkNumber' = 0
  /\ firstTime' = TRUE
  /\ eMsuState' = "Configure"
  /\ sent' = NoMsg
  /\ UNCHANGED <<eMsuPrevState, tempMissed, ccmVars, pduVars, sync, statVars>>

-----------------------------------------------------------------------------
(***************************************************************************)
(* The receiving states.  A data packet that passes msuPduParseMcastRequest*)
(* overwrites msuMcastPdu before the handler of the state looks at it.     *)
(***************************************************************************)
Arrives(p) ==
  /\ mcastChunk' = p.chunk
  /\ delivered' = delivered \cup {<<p.chunk, p.seq>>}

\* ccm_seqVal[localChunkNumber - 1] = getSeqBitMap()
SavedSeqVals ==
  [c \in CcmSlots |-> IF c = localChunkNumber THEN recvdSeqBitMap ELSE ccm_seqVal[c]]

(***************************************************************************)
(* With localChunkNumber = 0 that assignment writes the word in front of   *)
(* ccm_seqVal.  The statics declared before the array are firstTime,       *)
(* ccmSent, ccmRetryCount and scmRetryCount, one byte each: which of them  *)
(* the word covers and how it is ordered is the compiler's choice.         *)
(***************************************************************************)
MayWriteBeforeArray(saves) ==
  IF saves /\ localChunkNumber = 0
  THEN ccmSent' \in BOOLEAN /\ ccmRetryCount' \in 0 .. (CounterRange - 1)
  ELSE UNCHANGED <<ccmSent, ccmRetryCount>>

\* What firstTime may be after the assignment, value if it is left alone.
FirstTimeAfter(saves, value) ==
  IF saves /\ localChunkNumber = 0 THEN BOOLEAN ELSE {value}

NextRetryUnbounded(n) == n + 1   \* mutant

NextRetry(n) == (n + 1) % CounterRange

Missing(recvd) == GetMissedChnkNums(recvd, sync.chunkCount)

-----------------------------------------------------------------------------
(* msuHandleMcastPacket: the Running state. *)

\* A packet of an earlier chunk is ignored.
RunningStale(p) ==
  /\ p.chunk < localChunkNumber
  /\ Arrives(p)
  /\ SendsNothing(MsuGlobalError)
  /\ UNCHANGED <<eMsuState, eMsuPrevState, seqVars, ccmVars>>

\* A packet of the current chunk, or of a later one: then the bits of the
\* current chunk are put aside.
RunningBits(p) ==
  SetRecvdSeqBit(IF p.chunk = localChunkNumber THEN recvdSeqBitMap ELSE {}, p.seq)

RunningSaved(p) == IF p.chunk = localChunkNumber THEN ccm_seqVal ELSE SavedSeqVals

RunningTakes(p) ==
  /\ p.chunk >= localChunkNumber
  /\ Arrives(p)
  /\ ccm_seqVal' = RunningSaved(p)
  /\ UNCHANGED firstTime

RunningSeq(p) ==
  /\ ~p.chunkEnd
  /\ RunningTakes(p)
  /\ localChunkNumber' = p.chunk
  /\ recvdSeqBitMap' = RunningBits(p)
  /\ SendsNothing(MsuGlobalError)
  /\ UNCHANGED <<eMsuState, eMsuPrevState, tempMissed, recvdChnk, ccmSent, ccmRetryCount>>

\* The check for the end of the file, made on the last packet itself.
RunningFileEnd(p, recvd, err) ==
  IF ~p.fileEnd
  THEN /\ SendsNothing(err)
       /\ UNCHANGED <<eMsuState, eMsuPrevState, ccmRetryCount>>
  ELSE IF Missing(recvd) = {}
  THEN /\ eMsuState' = "Done"
       /\ SendsNothing(err)
       /\ UNCHANGED <<eMsuPrevState, ccmRetryCount>>
  ELSE \E ok \in Outcomes("send") :
       /\ Send(CcmMsg(Missing(recvd)), ok, err)
       /\ eMsuState' = IF ok THEN "CCM" ELSE eMsuState
       /\ eMsuPrevState' = IF ok THEN "CCM" ELSE eMsuPrevState
       /\ ccmRetryCount' = IF ok THEN NextRetry(ccmRetryCount) ELSE ccmRetryCount

\* The in-band CCM message resets localChunkNumber; ccmSent stays as it is.
AfterFileEnd(next) == IF eMsuState' = "CCM" THEN 0 ELSE next

\* The last packet of a chunk with nothing missing before it.
RunningChunkReceived(p) ==
  /\ p.chunkEnd
  /\ RunningTakes(p)
  /\ tempMissed' = GetMissedSeqBitMap(RunningBits(p), p.seq, tempMissed)
  /\ tempMissed' = {}
  /\ recvdChnk' = SetRecvdChnkBit(recvdChnk, p.chunk)
  /\ recvdSeqBitMap' = {}
  /\ \E written \in Outcomes("write") :
       RunningFileEnd(p, recvdChnk', AfterWrite(written))
  /\ localChunkNumber' = AfterFileEnd(p.chunk + 1)
  /\ UNCHANGED ccmSent

\* The last packet of a chunk with sequences missing: ask for them.
RunningChunkMissed(p) ==
  /\ p.chunkEnd
  /\ RunningTakes(p)
  /\ recvdSeqBitMap' = RunningBits(p)
  /\ tempMissed' = GetMissedSeqBitMap(RunningBits(p), p.seq, tempMissed)
  /\ tempMissed' # {}
  /\ UNCHANGED <<recvdChnk, ccmSent>>
  /\ \/ /\ sent' = ScmMsg(p.chunk, tempMissed')
        /\ eMsuState' = "SCM"
        /\ eMsuPrevState' = "Running"
        /\ localChunkNumber' = p.chunk
        /\ UNCHANGED <<ccmRetryCount, MsuGlobalError>>
     \/ /\ "send" \in Faults
        /\ RunningFileEnd(p, recvdChnk, SocketTxFailed)
        /\ localChunkNumber' = AfterFileEnd(p.chunk)

RunningPacket(p) ==
  /\ eMsuState = "Running"
  /\ \/ RunningStale(p)
     \/ RunningSeq(p)
     \/ RunningChunkReceived(p)
     \/ RunningChunkMissed(p)
  /\ UNCHANGED <<resVars, deviceUpgadeStatus>>

-----------------------------------------------------------------------------
(* msuHandleScmMcastPacket: the SCM state. *)

ScmDuplicate(p) ==
  /\ p.chunk = localChunkNumber
  /\ IsSeqRecvd(recvdSeqBitMap, p.seq)
  /\ SendsNothing(MsuGlobalError)
  /\ UNCHANGED <<eMsuState, seqVars, ccmVars>>

\* How many sequences the handler expects of the current chunk.
ScmNoOfSeq ==
  IF localChunkNumber = sync.chunkCount THEN sync.tailSeqs ELSE sync.seqNumberLimit

ScmTakes(p) ==
  /\ p.chunk = localChunkNumber
  /\ ~IsSeqRecvd(recvdSeqBitMap, p.seq)
  /\ tempMissed' = GetMissedSeqBitMap(SetRecvdSeqBit(recvdSeqBitMap, p.seq),
                                      ScmNoOfSeq, tempMissed)
  /\ UNCHANGED <<firstTime, ccmVars>>

ScmSeqUnchecked(p) ==   \* mutant
  /\ ScmTakes(p)
  /\ recvdSeqBitMap' = SetRecvdSeqBit(recvdSeqBitMap, p.seq)
  /\ SendsNothing(MsuGlobalError)
  /\ UNCHANGED <<eMsuState, localChunkNumber, recvdChnk>>

ScmSeq(p) ==
  /\ ScmTakes(p)
  /\ tempMissed' # {}
  /\ recvdSeqBitMap' = SetRecvdSeqBit(recvdSeqBitMap, p.seq)
  /\ SendsNothing(MsuGlobalError)
  /\ UNCHANGED <<eMsuState, localChunkNumber, recvdChnk>>

ScmChunkReceived(p) ==
  /\ ScmTakes(p)
  /\ tempMissed' = {}
  /\ recvdChnk' = SetRecvdChnkBit(recvdChnk, localChunkNumber)
  /\ \E written \in Outcomes("write") : SendsNothing(AfterWrite(written))
  /\ recvdSeqBitMap' = {}
  /\ localChunkNumber' = localChunkNumber + 1
  /\ eMsuState' = IF Missing(recvdChnk') = {} THEN "Done" ELSE eMsuPrevState

\* A packet of another chunk becomes the current chunk; the sequence is put
\* into the RAM buffer, but its bit is not set and the state stays SCM.
ScmJump(p) ==
  /\ p.chunk # localChunkNumber
  /\ ccm_seqVal' = SavedSeqVals
  /\ MayWriteBeforeArray(TRUE)
  /\ recvdSeqBitMap' = {}
  /\ firstTime' \in FirstTimeAfter(TRUE, firstTime)
  /\ localChunkNumber' = p.chunk
  /\ SendsNothing(MsuGlobalError)
  /\ UNCHANGED <<eMsuState, tempMissed, recvdChnk>>

ScmPacket(p) ==
  /\ eMsuState = "SCM"
  /\ Arrives(p)
  /\ \/ ScmDuplicate(p)
     \/ ScmSeq(p)
     \/ ScmChunkReceived(p)
     \/ ScmJump(p)
  /\ UNCHANGED <<eMsuPrevState, resVars, deviceUpgadeStatus>>

-----------------------------------------------------------------------------
(* msuHandleCcmMcastPacket: the CCM state. *)

CcmIgnored(p) ==
  /\ IsChnkRecvd(recvdChnk, p.chunk)
  /\ SendsNothing(MsuGlobalError)
  /\ UNCHANGED <<eMsuState, eMsuPrevState, seqVars, ccmVars>>

(***************************************************************************)
(* A chunk is opened by the first packet after CCM began or after a chunk  *)
(* was completed (firstTime), and by a packet of another chunk, which puts *)
(* the bits of the current one aside.  Its own bits are taken from         *)
(* ccm_seqVal.                                                             *)
(***************************************************************************)
CcmJumps(p) == ~firstTime /\ localChunkNumber # p.chunk

CcmBitsKept(p) == recvdSeqBitMap   \* mutant

CcmBits(p) ==
  IF firstTime \/ localChunkNumber # p.chunk THEN ccm_seqVal[p.chunk] ELSE recvdSeqBitMap

CcmSaved(p) == IF CcmJumps(p) THEN SavedSeqVals ELSE ccm_seqVal

\* Reset before the bits are put aside.
CcmFirstTime(p) == FirstTimeAfter(CcmJumps(p), FALSE)

CcmOpens(p) ==
  /\ ~IsChnkRecvd(recvdChnk, p.chunk)
  /\ localChunkNumber' = p.chunk
  /\ MayWriteBeforeArray(CcmJumps(p))

\* A sequence whose bit is set already: return, even at the end of the chunk.
CcmDuplicate(p) ==
  /\ CcmOpens(p)
  /\ IsSeqRecvd(CcmBits(p), p.seq)
  /\ firstTime' \in CcmFirstTime(p)
  /\ recvdSeqBitMap' = CcmBits(p)
  /\ ccm_seqVal' = CcmSaved(p)
  /\ SendsNothing(MsuGlobalError)
  /\ UNCHANGED <<eMsuState, eMsuPrevState, tempMissed, recvdChnk>>

CcmTakes(p) ==
  /\ CcmOpens(p)
  /\ ~IsSeqRecvd(CcmBits(p), p.seq)
  /\ recvdSeqBitMap' = SetRecvdSeqBit(CcmBits(p), p.seq)

CcmSeq(p) ==
  /\ ~p.chunkEnd
  /\ CcmTakes(p)
  /\ firstTime' \in CcmFirstTime(p)
  /\ ccm_seqVal' = CcmSaved(p)
  /\ SendsNothing(MsuGlobalError)
  /\ UNCHANGED <<eMsuState, eMsuPrevState, tempMissed, recvdChnk>>

CcmChunkReceived(p) ==
  /\ p.chunkEnd
  /\ CcmTakes(p)
  /\ tempMissed' = GetMissedSeqBitMap(recvdSeqBitMap', p.seq, tempMissed)
  /\ tempMissed' = {}
  /\ recvdChnk' = SetRecvdChnkBit(recvdChnk, p.chunk)
  /\ ccm_seqVal' = CcmSaved(p)
  /\ \E written \in Outcomes("write") : SendsNothing(AfterWrite(written))
  /\ eMsuState' = IF Missing(recvdChnk') = {} THEN "Done" ELSE eMsuState
  /\ firstTime' \in IF Missing(recvdChnk') = {} THEN CcmFirstTime(p) ELSE {TRUE}
  /\ UNCHANGED eMsuPrevState

CcmChunkMissed(p) ==
  /\ p.chunkEnd
  /\ CcmTakes(p)
  /\ tempMissed' = GetMissedSeqBitMap(recvdSeqBitMap', p.seq, tempMissed)
  /\ tempMissed' # {}
  /\ firstTime' \in CcmFirstTime(p)
  /\ ccm_seqVal' = [CcmSaved(p) EXCEPT ![p.chunk] = recvdSeqBitMap']
  /\ \E ok \in Outcomes("send") :
       /\ Send(ScmMsg(p.chunk, tempMissed'), ok, MsuGlobalError)
       /\ eMsuState' = IF ok THEN "SCM" ELSE eMsuState
       /\ eMsuPrevState' = IF ok THEN "CCM" ELSE eMsuPrevState
  /\ UNCHANGED recvdChnk

CcmPacket(p) ==
  /\ eMsuState = "CCM"
  /\ Arrives(p)
  /\ \/ CcmIgnored(p)
     \/ CcmDuplicate(p)
     \/ CcmSeq(p)
     \/ CcmChunkReceived(p)
     \/ CcmChunkMissed(p)
  /\ UNCHANGED <<resVars, deviceUpgadeStatus>>

-----------------------------------------------------------------------------
(***************************************************************************)
(* The other messages of msuSocketGetDataPackets.  Each is accepted in     *)
(* every receiving state.                                                  *)
(***************************************************************************)
ControlFrame ==
  /\ eMsuState \in Receiving
  /\ UNCHANGED <<recvdSeqBitMap, recvdChnk, firstTime, ccm_seqVal, pduVars,
                 resVars, deviceUpgadeStatus>>

AsksForChunksResets(prev, sentFlag) ==   \* mutant
  \E ok \in Outcomes("send") :
    /\ Send(CcmMsg(Missing(recvdChnk)), ok, MsuGlobalError)
    /\ localChunkNumber' = 0
    /\ ccmRetryCount' = IF ok THEN NextRetry(ccmRetryCount) ELSE ccmRetryCount
    /\ eMsuState' = IF ok THEN "CCM" ELSE eMsuState
    /\ eMsuPrevState' = IF ok THEN "CCM" ELSE prev
    /\ ccmSent' = IF ok THEN sentFlag ELSE ccmSent

AsksForChunksKeepsPrev(prev, sentFlag) ==   \* mutant
  /\ Send(CcmMsg(Missing(recvdChnk)), TRUE, MsuGlobalError)
  /\ localChunkNumber' = 0
  /\ ccmRetryCount' = NextRetry(ccmRetryCount)
  /\ eMsuState' = "CCM"
  /\ eMsuPrevState' = prev
  /\ ccmSent' = sentFlag

\* msuSendCcmMsg, and the parameters reset for the retransmission if it went
\* out; prev and sentFlag are the values eMsuPrevState and ccmSent then get.
AsksForChunks(prev, sentFlag) ==
  \E ok \in Outcomes("send") :
    /\ Send(CcmMsg(Missing(recvdChnk)), ok, MsuGlobalError)
    /\ localChunkNumber' = IF ok THEN 0 ELSE localChunkNumber
    /\ ccmRetryCount' = IF ok THEN NextRetry(ccmRetryCount) ELSE ccmRetryCount
    /\ eMsuState' = IF ok THEN "CCM" ELSE eMsuState
    /\ eMsuPrevState' = IF ok THEN "CCM" ELSE prev
    /\ ccmSent' = IF ok THEN sentFlag ELSE ccmSent

FinishesWith(state, err) ==
  /\ eMsuState' = state
  /\ SendsNothing(err)
  /\ UNCHANGED <<localChunkNumber, ccmRetryCount, ccmSent>>

TransferComplete ==
  /\ ControlFrame
  /\ \/ /\ ccmSent
        /\ FinishesWith(eMsuState, MsuGlobalError)
        /\ UNCHANGED eMsuPrevState
     \/ /\ ~ccmSent
        /\ Missing(recvdChnk) # {}
        /\ AsksForChunks(eMsuPrevState, TRUE)
     \/ /\ ~ccmSent
        /\ Missing(recvdChnk) = {}
        /\ FinishesWith("Done", MsuGlobalError)
        /\ UNCHANGED eMsuPrevState
  /\ UNCHANGED tempMissed

CCMComplete(retry) ==
  /\ ControlFrame
  /\ \/ /\ ~retry
        /\ FinishesWith("Abort", IF Missing(recvdChnk) # {} THEN ExceedCcmRetry
                                 ELSE MsuGlobalError)
        /\ eMsuPrevState' = "CCM"
     \/ /\ retry
        /\ Missing(recvdChnk) # {}
        /\ AsksForChunks("CCM", ccmSent)
     \/ /\ retry
        /\ Missing(recvdChnk) = {}
        /\ FinishesWith("Done", MsuGlobalError)
        /\ eMsuPrevState' = "CCM"
  /\ UNCHANGED tempMissed

AsksForSeqsAnyway ==   \* mutant
  \E ok \in Outcomes("send") :
    /\ Send(ScmMsg(mcastChunk, tempMissed'), ok, MsuGlobalError)
    /\ eMsuState' = "SCM"

\* msuSendScmMsg for the chunk of the last data packet.
AsksForSeqs ==
  \E ok \in Outcomes("send") :
    /\ Send(ScmMsg(mcastChunk, tempMissed'), ok, MsuGlobalError)
    /\ eMsuState' = IF ok THEN "SCM" ELSE eMsuState

(***************************************************************************)
(* The missing sequences are looked up for seqNumberLimit sequences, in    *)
(* the last chunk too, and the request names the chunk of the last data    *)
(* packet, whichever chunk the bits belong to.                             *)
(***************************************************************************)
SCMComplete(retry) ==
  /\ ControlFrame
  /\ tempMissed' = IF retry THEN GetMissedSeqBitMap(recvdSeqBitMap, sync.seqNumberLimit, tempMissed)
                   ELSE tempMissed
  /\ \/ /\ ~retry \/ tempMissed' = {}
        /\ eMsuState' = eMsuPrevState
        /\ SendsNothing(MsuGlobalError)
     \/ /\ retry
        /\ tempMissed' # {}
        /\ AsksForSeqs
  /\ UNCHANGED <<localChunkNumber, eMsuPrevState, ccmRetryCount, ccmSent>>

AbortTransfer ==
  /\ ControlFrame
  /\ FinishesWith("Abort", MsuGlobalError)
  /\ UNCHANGED <<tempMissed, eMsuPrevState>>

RecvTimeoutWaitsInCcm ==   \* mutant
  /\ ControlFrame
  /\ FinishesWith(IF eMsuState = "CCM" THEN "CCM" ELSE "Abort", TimedOut)
  /\ UNCHANGED <<tempMissed, eMsuPrevState>>

\* No message for updateTimeout seconds.
RecvTimeout ==
  /\ ControlFrame
  /\ FinishesWith("Abort", CASE eMsuState = "Running" -> TimedOut
                             [] eMsuState = "SCM"     -> ScmFailed
                             [] eMsuState = "CCM"     -> CcmFailed)
  /\ UNCHANGED <<tempMissed, eMsuPrevState>>

\* trRecvFrom fails: only the error code changes.
RecvError ==
  /\ ControlFrame
  /\ "recv" \in Faults
  /\ FinishesWith(eMsuState, SocketRxFailed)
  /\ UNCHANGED <<tempMissed, eMsuPrevState>>

DataPacket(p) == RunningPacket(p) \/ ScmPacket(p) \/ CcmPacket(p)

ControlMessage(m) ==
  \/ m.type = "transferComplete" /\ TransferComplete
  \/ m.type = "ccmComplete" /\ CCMComplete(m.retry)
  \/ m.type = "scmComplete" /\ SCMComplete(m.retry)
  \/ m.type = "abort" /\ AbortTransfer

-----------------------------------------------------------------------------
Listen == ListenReplaysSync \/ \E y \in Syncs : ListenSync(y)

\* The steps that do not wait for a message of the server.
MachineStep ==
  \/ Initialize \/ Configure \/ StartSession \/ StartFails
  \/ Abort \/ Done \/ LoopBack

ReceiveStep ==
  \/ \E p \in DataPackets(sync) : DataPacket(p)
  \/ \E m \in ControlMessages : ControlMessage(m)
  \/ RecvError

Next == MachineStep \/ Listen \/ ReceiveStep \/ RecvTimeout

Spec == Init /\ [][Next]_vars

-----------------------------------------------------------------------------
(* Properties. *)

\* The type of every variable.
TypeOK ==
  /\ eMsuState \in States
  /\ eMsuPrevState \in {"Running", "CCM"}
  /\ localChunkNumber \in 0 .. (MaxChunk + 1)
  /\ recvdSeqBitMap \in SUBSET Seqs
  /\ tempMissed \in SUBSET Seqs
  /\ recvdChnk \in SUBSET Chunks
  /\ ccm_seqVal \in [CcmSlots -> SUBSET Seqs]
  /\ firstTime \in BOOLEAN
  /\ ccmSent \in BOOLEAN
  /\ ccmRetryCount \in 0 .. (CounterRange - 1)
  /\ mcastChunk \in 0 .. MaxChunk
  /\ sync \in Syncs \cup {NoSync}
  /\ msuDefaultSocket \in {"invalid", "open", "closed"}
  /\ msuUpdateSocket \in {"invalid", "open"}
  /\ pMsuFileDes \in {"none", "open", "closed"}
  /\ deviceUpgadeStatus \in {"Passed", "Failed"}
  /\ MsuGlobalError \in 0 .. 255
  /\ sent \in SentType
  /\ delivered \in SUBSET (Chunks \X Seqs)

\* Whatever arrives in whatever order, a status message that reports success
\* is only sent by a leech that every packet of the file has reached in this
\* session (the bookkeeping of three handlers and ccm_seqVal together).
PassedMeansDelivered ==
  sent.type = "status" /\ sent.result = "Passed" => AllPackets(sync) \subseteq delivered

\* A chunk is marked complete only when each of its sequences has arrived in
\* this session, also when its bits went through ccm_seqVal and back, and
\* also when getMissedSeqBitMap answers with a stale result.
MarkedChunksWereDelivered ==
  \A c \in recvdChnk : {c} \X (1 .. NumSeqs(sync, c)) \subseteq delivered

\* The bits of the current chunk and the bitmaps put aside in ccm_seqVal
\* never claim a sequence of a chunk that has not arrived: no handler lets
\* the bits of one chunk pass for those of another.
BitsBelongToTheirChunk ==
  eMsuState \in InSession =>
    /\ localChunkNumber # 0 => {localChunkNumber} \X recvdSeqBitMap \subseteq delivered
    /\ \A c \in CcmSlots : {c} \X ccm_seqVal[c] \subseteq delivered

\* In SCM the result kept by getMissedSeqBitMap is never empty: the stale
\* answer it gives for the last chunk of a file that fills its last chunk
\* (no sequence to look for) cannot complete that chunk by mistake.
ScmNeverHoldsEmptyMiss == eMsuState = "SCM" => tempMissed # {}

\* Outside a session no bookkeeping of an earlier one is left, although
\* msuLeechConfigure does not reset the bitmaps itself.
SessionsStartClean ==
  eMsuState \notin InSession => recvdChnk = {} /\ recvdSeqBitMap = {} /\ firstTime

\* Done is entered only by a handler that found no chunk missing.
DoneMeansNothingMissing == eMsuState = "Done" => Missing(recvdChnk) = {}

\* The Running handler indexes ccm_seqVal with localChunkNumber - 1, so
\* localChunkNumber may be 0 only once CCM has begun, however SCM was left.
RunningHasChunk ==
  /\ eMsuState = "Running" \/ (eMsuState = "SCM" /\ eMsuPrevState = "Running")
       => localChunkNumber >= 1
  /\ eMsuState = "CCM" => eMsuPrevState = "CCM"

\* Within a session a mark once set stays: no control message or jump between
\* chunks takes back a completed chunk.
MarksAreKept == [][(eMsuState \in Receiving) => (recvdChnk \subseteq recvdChnk')]_vars

InCcm == eMsuState = "CCM" \/ (eMsuState = "SCM" /\ eMsuPrevState = "CCM")

\* Once the leech has entered CCM, it is in CCM or in an SCM that goes back there
\* until its session stops receiving: by no way through SCM, no failed send and
\* no completion message does it return to Running, where packets of lower
\* chunks would be ignored.
NoReturnToRunning == [][InCcm => (InCcm' \/ eMsuState' \notin Receiving)]_vars

\* The receiving handlers only ever read, send and write through handles that
\* are open: whatever the failed starts, second closes and stale descriptors
\* before, a session holds its own update socket and its own file.
SessionHoldsItsHandles ==
  eMsuState \in Receiving \cup {"Abort", "Done"} =>
    msuUpdateSocket = "open" /\ pMsuFileDes = "open"

\* The leech never works from a sync message it has not had, although a closed
\* default socket makes Listen process the receive buffer again.
SessionHasSync ==
  /\ eMsuState \in InSession \cup {"Start"} => sync \in Syncs
  /\ eMsuState = "Listen" /\ msuDefaultSocket # "open" => sync \in Syncs
  /\ eMsuState = "Initialize" => sync = NoSync

\* A result is reported only by a session that is over and not yet released.
StatusEndsSession == sent.type = "status" => eMsuState = "LoopBack"

\* The inductive invariant of the proofs.
Inv ==
  /\ TypeOK
  /\ SessionHasSync
  /\ StatusEndsSession
  /\ SessionsStartClean
  /\ RunningHasChunk
  /\ SessionHoldsItsHandles
  /\ BitsBelongToTheirChunk
  /\ MarkedChunksWereDelivered
  /\ ScmNeverHoldsEmptyMiss
  /\ DoneMeansNothingMissing
  /\ PassedMeansDelivered

\* SCM is entered only in the step that put a request on the wire, and that
\* request asks for something: no failed send, stale result or retry flag can
\* leave the leech waiting for sequences it never asked for.
ScmIsAskedFor ==
  [][(eMsuState # "SCM" /\ eMsuState' = "SCM") =>
       (sent'.type = "scm" /\ sent'.seqs # {})]_vars

-----------------------------------------------------------------------------
(* The session the leech implements. *)

Phase ==
  CASE eMsuState \in Receiving   -> "receiving"
    [] eMsuState = "Done"        -> "concluded"
    [] eMsuState = "Abort"       -> "failed"
    [] eMsuState = "LoopBack"    -> "closing"
    [] eMsuState \notin InSession -> "idle"

Reported == IF sent.type = "status" THEN sent.result ELSE "none"

Session == INSTANCE UpgradeSession WITH
  Files <- Syncs, NoFile <- NoSync, Parts <- AllPackets,
  phase <- Phase, file <- sync, got <- delivered, report <- Reported

\* The leech implements UpgradeSession: whatever the order of packets, control
\* messages, timeouts and failed calls, a session is concluded only with every
\* packet of the file, reports nothing but success and at most once, and is
\* released before the next one.
ImplementsSession == Session!Spec

-----------------------------------------------------------------------------
(***************************************************************************)
(* What comments of MsuLeech.c say of the handlers.  Runs show that the    *)
(* code does otherwise.                                                    *)
(***************************************************************************)

CurrentChunkIsFull ==
  /\ localChunkNumber \in 1 .. sync.chunkCount
  /\ localChunkNumber \notin recvdChnk
  /\ recvdSeqBitMap = 1 .. NumSeqs(sync, localChunkNumber)

\* msuPduHandleSCMCompleteRequest: "it checks for missed sequence of current
\* chunk if any then it sends SCM request message to server".
ScmNamesItsChunk ==
  sent.type = "scm" /\ localChunkNumber # 0 => sent.chunk = localChunkNumber

\* msuHandleCcmMcastPacket: "After receiving each chunk it checks for missed
\* sequences in the chunk", so a chunk with nothing missing gets its mark.
CcmMarksFullChunks == eMsuState = "CCM" => ~CurrentChunkIsFull
=============================================================================
