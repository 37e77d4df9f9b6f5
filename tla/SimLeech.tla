------------------------------ MODULE SimLeech ------------------------------
(***************************************************************************)
(* The MSU client of the Linux simulator: an earlier version of the leech  *)
(* that writes every sequence to the file as it arrives and validates the  *)
(* checksum of the file when it is done.  Its state machine is the one of  *)
(* MsuLeech; what differs is modelled in full here:                        *)
(*   - the result of every write, which Running and the recovery states    *)
(*     read differently, and the content of the file;                      *)
(*   - gMsgBuffer, which a receive that times out or fails leaves as it    *)
(*     is and which is then processed again;                               *)
(*   - the descriptors of the process: the default socket is closed and    *)
(*     its number stays in msuDefaultSocket while the file is given it.    *)
(* As in MsuLeech any message of the session may arrive at any time, any   *)
(* number of times, or never.                                              *)
(***************************************************************************)
EXTENDS MsuComplainMode, Integers, FiniteSetsExt

CONSTANTS
  Syncs,        \* the sessions a server may announce
  Faults,       \* which calls may fail: "open", "socket", "send", "write"
  CounterRange  \* 256 in the code: ccmRetryCount is a UINT8

SyncType == [chunkCount : Chunks, seqNumberLimit : Seqs, tailSeqs : 0 .. MaxSeq]

NoSync == [chunkCount |-> 0, seqNumberLimit |-> 0, tailSeqs |-> 0]

ASSUME SimSyncsAssumption ==
  /\ Syncs \subseteq SyncType
  /\ \A y \in Syncs : y.tailSeqs <= y.seqNumberLimit
ASSUME SimCounterAssumption == CounterRange \in Nat \ {0}
ASSUME SimFaultsAssumption  == Faults \subseteq {"open", "socket", "send", "write"}

\* noOfSeqInLastChunk is tailSeqs: 0 when the file fills its last chunk.
NumSeqs(y, c) ==
  IF c = y.chunkCount /\ y.tailSeqs # 0 THEN y.tailSeqs ELSE y.seqNumberLimit

AllPackets(y) == UNION {{c} \X (1 .. NumSeqs(y, c)) : c \in 1 .. y.chunkCount}

VARIABLES
  eMsuState, eMsuPrevState, localChunkNumber,
  recvdSeqBitMap, tempMissed, recvdChnk,      \* of complainMode.c
  ccm_seqVal, firstTime, ccmSent, ccmRetryCount,
  mcastChunk,          \* msuMcastPdu.chunkNumber
  sync,                \* msuBroadcastPdu
  gMsgBuffer,          \* the last message put into the buffer, if it is one to
                       \* process again: a sync or a control message
  descriptors,         \* the descriptor table of the process: what each one is
  msuDefaultSocket, msuUpdateSocket,          \* descriptor numbers, or -1
  pMsuFileDes,         \* the descriptor under the FILE, or -1
  content,             \* what the file holds of each packet
  deviceUpgadeStatus, MsuGlobalError,
  sent                 \* the message the last step handed to the socket

seqVars  == <<localChunkNumber, recvdSeqBitMap, tempMissed, recvdChnk, firstTime>>
ccmVars  == <<ccm_seqVal, ccmSent, ccmRetryCount>>
handles  == <<descriptors, msuDefaultSocket, msuUpdateSocket, pMsuFileDes>>
statVars == <<deviceUpgadeStatus, MsuGlobalError>>
simVars  == <<eMsuState, eMsuPrevState, seqVars, ccmVars, mcastChunk, sync,
              gMsgBuffer, handles, content, statVars, sent>>

Receiving == {"Running", "SCM", "CCM"}
SimStates == Receiving \cup
  {"Initialize", "Configure", "Listen", "Start", "Abort", "Done", "LoopBack"}

\* The codes of msuErrNo.h the simulator sets; TimedOut, ScmFailed and
\* CcmFailed of MsuLeech are never set: no timeout is ever recognised.
NoError          == 0
FileOpenFailed   == 1
SocketOpenFailed == 2
SocketTxFailed   == 4
FileWriteFailed  == 9
FileCrcFailed    == 10
ExceedCcmRetry   == 11
StatusAbort      == 128
SyncRejects      == {12, 22}   \* of 12 .. 24: of the first and the last field

OrAbort(e) == IF e < StatusAbort THEN e + StatusAbort ELSE e

Outcomes(call) == IF call \in Faults THEN BOOLEAN ELSE {TRUE}

-----------------------------------------------------------------------------
(* Messages. *)

NoMsg   == [type |-> "none"]
SyncMsg == [type |-> "sync"]

DataPackets(y) ==
  {[type |-> "data", chunk |-> p[1], seq |-> p[2],
    chunkEnd |-> p[2] = NumSeqs(y, p[1]),
    fileEnd |-> f /\ p = <<y.chunkCount, NumSeqs(y, y.chunkCount)>>] :
      p \in AllPackets(y), f \in BOOLEAN}

ControlMessages ==
  [type : {"transferComplete", "abort"}]
    \cup [type : {"scmComplete", "ccmComplete"}, retry : BOOLEAN]

ScmMsg(c, missed) == [type |-> "scm", chunk |-> c, seqs |-> missed]

CcmMsg(missed) == [type |-> "ccm", chunks |-> missed]

StatusMsg(result, error) == [type |-> "status", result |-> result, error |-> error]

(***************************************************************************)
(* A request is put together in gMsgBuffer before it is sent, over the     *)
(* message received there, so that nothing is left to process again.       *)
(* msuSendScmMsg leaves the address it sends to uninitialized: the call    *)
(* may fail whatever the network does, and the server need not get it.     *)
(***************************************************************************)
RequestInOwnBuffer(received, m, ok, err) ==   \* mutant
  /\ gMsgBuffer' = received
  /\ sent' = IF ok THEN m ELSE NoMsg
  /\ MsuGlobalError' = IF ok THEN err ELSE SocketTxFailed

Request(received, m, ok, err) ==
  /\ gMsgBuffer' = NoMsg
  /\ sent' = IF ok THEN m ELSE NoMsg
  /\ MsuGlobalError' = IF ok THEN err ELSE SocketTxFailed

ScmSendOutcomes == BOOLEAN

\* A message that is processed without a request stays in the buffer.
Answered(received, err) ==
  /\ gMsgBuffer' = received
  /\ sent' = NoMsg
  /\ MsuGlobalError' = err

-----------------------------------------------------------------------------
(* The descriptors and the file. *)

Numbers == 3 .. 5   \* enough for what is open at once; 0, 1 and 2 are taken

\* socket and fopen take the lowest free number.
LowestFree(table) == Min({n \in DOMAIN table : table[n] = "free"})

Closed(table, n) == IF n \in DOMAIN table THEN [table EXCEPT ![n] = "free"] ELSE table

Blank == [p \in Chunks \X Seqs |-> "nothing"]

\* msuFileWrite returns the bytes fwrite took: all of them, some, or none.
Writes == IF "write" \in Faults THEN {"all", "some", "none"} ELSE {"all"}

\* msuFileSeek has put the file where the packet belongs.
Stores(p, w) ==
  content' = [content EXCEPT ![<<p.chunk, p.seq>>] =
                CASE w = "all" -> "all"
                  [] w # "all" /\ @ = "nothing" -> "part"
                  [] OTHER -> @]

\* Running tests the result for > 0, SCM and CCM compare it with TR_SUCCESS,
\* which is 0: there every write that wrote something counts as failed.
RunningCounts(w)  == w # "none"
RecoveryCounts(w) == w = "none"

-----------------------------------------------------------------------------
(* The bookkeeping of complainMode.c on the current chunk. *)

SeqRecvd(s) == IsSeqRecvd(recvdSeqBitMap, s)

MissedSeqs(bits, n) == GetMissedSeqBitMap(bits, n, tempMissed)

MissingBeforeTheLast(recvd) ==   \* mutant
  GetMissedChnkNums(recvd, sync.chunkCount - 1)

Missing(recvd) == GetMissedChnkNums(recvd, sync.chunkCount)

NoSeqVals == [c \in CcmSlots |-> {}]

\* ccm_seqVal[localChunkNumber - 1] = getSeqBitMap(); word 0 of the model does
\* not exist, it is the memory in front of the array.
SavedInNextWord ==   \* mutant
  [c \in CcmSlots |-> IF c = localChunkNumber + 1 THEN recvdSeqBitMap ELSE ccm_seqVal[c]]

SavedSeqVals ==
  [c \in CcmSlots |-> IF c = localChunkNumber THEN recvdSeqBitMap ELSE ccm_seqVal[c]]

\* That memory holds firstTime, ccmSent, ccmRetryCount and scmRetryCount, one byte
\* each, in an order the compiler chooses.
MayWriteBeforeArray(saves) ==
  IF saves /\ localChunkNumber = 0
  THEN ccmSent' \in BOOLEAN /\ ccmRetryCount' \in 0 .. (CounterRange - 1)
  ELSE UNCHANGED <<ccmSent, ccmRetryCount>>

FirstTimeAfter(saves, value) ==
  IF saves /\ localChunkNumber = 0 THEN BOOLEAN ELSE {value}

NextRetryUnbounded(n) == n + 1   \* mutant

NextRetry(n) == (n + 1) % CounterRange

-----------------------------------------------------------------------------
(* msuLeechStateMachine outside the receiving states. *)

SimInit ==
  /\ eMsuState = "Initialize" /\ eMsuPrevState = "Running"
  /\ localChunkNumber = 0
  /\ recvdSeqBitMap = {} /\ tempMissed = {} /\ recvdChnk = {}
  /\ ccm_seqVal = NoSeqVals
  /\ firstTime = TRUE /\ ccmSent = FALSE /\ ccmRetryCount = 0
  /\ mcastChunk = 0 /\ sync = NoSync /\ gMsgBuffer = NoMsg
  /\ descriptors = [n \in Numbers |-> "free"]
  /\ msuDefaultSocket = -1 /\ msuUpdateSocket = -1 /\ pMsuFileDes = -1
  /\ content = Blank
  /\ deviceUpgadeStatus = "Failed" /\ MsuGlobalError = NoError
  /\ sent = NoMsg

ComplainModeInit == recvdSeqBitMap' = {} /\ recvdChnk' = {}

SimInitialize ==
  /\ eMsuState = "Initialize"
  /\ eMsuState' = "Configure"
  /\ localChunkNumber' = 1
  /\ ComplainModeInit
  /\ sent' = NoMsg
  /\ UNCHANGED <<eMsuPrevState, tempMissed, firstTime, ccmVars, mcastChunk, sync,
                 gMsgBuffer, handles, content, statVars>>

SimConfigureIgnoresFailure ==   \* mutant
  /\ eMsuState = "Configure"
  /\ \E ok \in Outcomes("socket") :
       /\ msuDefaultSocket' = LowestFree(descriptors)
       /\ descriptors' = IF ok THEN [descriptors EXCEPT ![msuDefaultSocket'] = "default"]
                         ELSE descriptors
  /\ eMsuState' = "Listen"
  /\ sent' = NoMsg
  /\ UNCHANGED <<eMsuPrevState, seqVars, ccmVars, mcastChunk, sync, gMsgBuffer,
                 msuUpdateSocket, pMsuFileDes, content, statVars>>

\* On failure the state machine tries again.
SimConfigure ==
  /\ eMsuState = "Configure"
  /\ \/ /\ msuDefaultSocket' = LowestFree(descriptors)
        /\ descriptors' = [descriptors EXCEPT ![msuDefaultSocket'] = "default"]
        /\ eMsuState' = "Listen"
     \/ /\ "socket" \in Faults
        /\ msuDefaultSocket' = -1
        /\ UNCHANGED <<descriptors, eMsuState>>
  /\ sent' = NoMsg
  /\ UNCHANGED <<eMsuPrevState, seqVars, ccmVars, mcastChunk, sync, gMsgBuffer,
                 msuUpdateSocket, pMsuFileDes, content, statVars>>

(***************************************************************************)
(* A sync message on the default socket.  The other messages it takes      *)
(* (discovery, authentication, groups, status requests) leave the state of *)
(* this module alone.  A rejected sync message has cleared msuBroadcastPdu.*)
(***************************************************************************)
Hears == eMsuState = "Listen" /\ descriptors[msuDefaultSocket] = "default"

SimListenSync(y) ==
  /\ Hears
  /\ sync' = y
  /\ gMsgBuffer' = SyncMsg
  /\ descriptors' = Closed(descriptors, msuDefaultSocket)
  /\ eMsuState' = "Start"
  /\ sent' = NoMsg
  /\ UNCHANGED <<eMsuPrevState, seqVars, ccmVars, mcastChunk, msuDefaultSocket,
                 msuUpdateSocket, pMsuFileDes, content, statVars>>

SimRejectsSync ==
  /\ Hears
  /\ sync' = NoSync
  /\ MsuGlobalError' \in SyncRejects
  /\ gMsgBuffer' = SyncMsg
  /\ sent' = NoMsg
  /\ UNCHANGED <<eMsuState, eMsuPrevState, seqVars, ccmVars, mcastChunk, handles,
                 content, deviceUpgadeStatus>>

\* msuSocketRecvFrom fails: msuDefaultSocket is not a socket any more.  The
\* state machine calls it again.
SimListensInVain ==
  /\ eMsuState = "Listen"
  /\ descriptors[msuDefaultSocket] # "default"
  /\ sent' = NoMsg
  /\ UNCHANGED <<eMsuState, eMsuPrevState, seqVars, ccmVars, mcastChunk, sync,
                 gMsgBuffer, handles, content, statVars>>

StartReleasesFirst ==   \* mutant
  /\ pMsuFileDes' = LowestFree(descriptors)
  /\ LET table == Closed([descriptors EXCEPT ![pMsuFileDes'] = "file"], msuDefaultSocket)
     IN  /\ msuUpdateSocket' = LowestFree(table)
         /\ descriptors' = [table EXCEPT ![msuUpdateSocket'] = "update"]

\* The file is opened before the socket.
StartOpens ==
  /\ pMsuFileDes' = LowestFree(descriptors)
  /\ LET table == [descriptors EXCEPT ![pMsuFileDes'] = "file"]
     IN  /\ msuUpdateSocket' = LowestFree(table)
         /\ descriptors' = [table EXCEPT ![msuUpdateSocket'] = "update"]

SimStartSession ==
  /\ eMsuState = "Start"
  /\ StartOpens
  /\ content' = Blank
  /\ localChunkNumber' = 1
  /\ ccm_seqVal' = NoSeqVals /\ ccmRetryCount' = 0 /\ ccmSent' = FALSE
  /\ MsuGlobalError' = NoError
  /\ eMsuPrevState' = "Running"
  /\ eMsuState' = "Running"
  /\ sent' = NoMsg
  /\ UNCHANGED <<recvdSeqBitMap, tempMissed, recvdChnk, firstTime, mcastChunk, sync,
                 gMsgBuffer, msuDefaultSocket, deviceUpgadeStatus>>

\* No file, or a file and no socket: back to Listen with the socket closed.
SimStartFails ==
  /\ eMsuState = "Start"
  /\ \/ /\ "open" \in Faults
        /\ pMsuFileDes' = -1
        /\ MsuGlobalError' = FileOpenFailed
        /\ UNCHANGED <<descriptors, msuUpdateSocket, localChunkNumber, content>>
     \/ /\ "socket" \in Faults
        /\ pMsuFileDes' = LowestFree(descriptors)
        /\ descriptors' = [descriptors EXCEPT ![pMsuFileDes'] = "file"]
        /\ content' = Blank
        /\ localChunkNumber' = 1
        /\ msuUpdateSocket' = -1
        /\ MsuGlobalError' = SocketOpenFailed
  /\ eMsuState' = "Listen"
  /\ sent' = NoMsg
  /\ UNCHANGED <<eMsuPrevState, recvdSeqBitMap, tempMissed, recvdChnk, firstTime,
                 ccmVars, mcastChunk, sync, gMsgBuffer, msuDefaultSocket,
                 deviceUpgadeStatus>>

SimAbort ==
  /\ eMsuState = "Abort"
  /\ eMsuState' = "LoopBack"
  /\ deviceUpgadeStatus' = "Failed"
  /\ MsuGlobalError' = OrAbort(MsuGlobalError)
  /\ sent' = NoMsg
  /\ UNCHANGED <<eMsuPrevState, seqVars, ccmVars, mcastChunk, sync, gMsgBuffer,
                 handles, content>>

(***************************************************************************)
(* msuPlatformComputeCheckSum reads the file again and adds up a value per *)
(* byte (crcFast starts anew at each).  The sum is right when the file     *)
(* holds every packet.  When it does not, the sum depends on the bytes:    *)
(* the value of a zero byte is 0, so that zeros missing at the end of the  *)
(* file leave it right, and others may be made up for.                     *)
(***************************************************************************)
ChecksumVerdicts ==
  IF \A p \in AllPackets(sync) : content[p] = "all" THEN {TRUE} ELSE BOOLEAN

SimDone ==
  /\ eMsuState = "Done"
  /\ descriptors' = Closed(descriptors, pMsuFileDes)
  /\ pMsuFileDes' = -1
  /\ \E readable \in Outcomes("open"), matches \in ChecksumVerdicts :
       LET complete == Missing(recvdChnk) = {}
           passed   == complete /\ readable /\ matches
       IN  /\ deviceUpgadeStatus' = IF passed THEN "Passed" ELSE "Failed"
           /\ MsuGlobalError' = IF complete /\ ~passed THEN FileCrcFailed ELSE MsuGlobalError
  /\ \E ok \in Outcomes("send") :
       sent' = IF ok THEN StatusMsg(deviceUpgadeStatus', MsuGlobalError') ELSE NoMsg
  /\ eMsuState' = "LoopBack"
  /\ UNCHANGED <<eMsuPrevState, seqVars, ccmVars, mcastChunk, sync, gMsgBuffer,
                 msuDefaultSocket, msuUpdateSocket, content>>

(***************************************************************************)
(* msuReleaseResources closes the update socket, then the number left in   *)
(* msuDefaultSocket, which since the start of the session may be the       *)
(* descriptor of the file, then the FILE.  pMsuFileDes keeps its value.    *)
(***************************************************************************)
ReleaseKeepsUpdate ==   \* mutant
  descriptors' = Closed(Closed(descriptors, msuDefaultSocket), pMsuFileDes)

ReleaseCloses ==
  descriptors' = Closed(Closed(Closed(descriptors, msuUpdateSocket),
                               msuDefaultSocket), pMsuFileDes)

SimLoopBack ==
  /\ eMsuState = "LoopBack"
  /\ ReleaseCloses
  /\ msuUpdateSocket' = -1
  /\ msuDefaultSocket' = -1
  /\ ComplainModeInit
  /\ localChunkNumber' = 0
  /\ firstTime' = TRUE
  /\ eMsuState' = "Configure"
  /\ sent' = NoMsg
  /\ UNCHANGED <<eMsuPrevState, tempMissed, ccmVars, mcastChunk, sync, gMsgBuffer,
                 pMsuFileDes, content, statVars>>

-----------------------------------------------------------------------------
(* msuHandleMcastPacket: the Running state. *)

\* Nothing is left of a data packet to process again: its size is not that of
\* the failed receive.
NoReplay == NoMsg

RunningBits(p) == IF p.chunk = localChunkNumber THEN recvdSeqBitMap ELSE {}

RunningSaved(p) == IF p.chunk = localChunkNumber THEN ccm_seqVal ELSE SavedSeqVals

RunningStale(p) ==
  /\ p.chunk < localChunkNumber
  /\ Answered(NoReplay, MsuGlobalError)
  /\ UNCHANGED <<eMsuState, eMsuPrevState, seqVars, ccmVars, content>>

\* The write takes nothing: the bit is not set.
RunningWriteFails(p, w) ==
  /\ ~RunningCounts(w)
  /\ localChunkNumber' = p.chunk
  /\ recvdSeqBitMap' = RunningBits(p)
  /\ Answered(NoReplay, FileWriteFailed)
  /\ UNCHANGED <<eMsuState, eMsuPrevState, tempMissed, recvdChnk, ccmSent, ccmRetryCount>>

RunningSeq(p, w) ==
  /\ RunningCounts(w)
  /\ ~p.chunkEnd
  /\ localChunkNumber' = p.chunk
  /\ recvdSeqBitMap' = SetRecvdSeqBit(RunningBits(p), p.seq)
  /\ Answered(NoReplay, MsuGlobalError)
  /\ UNCHANGED <<eMsuState, eMsuPrevState, tempMissed, recvdChnk, ccmSent, ccmRetryCount>>

\* The check for the end of the file; next is localChunkNumber without a CCM
\* message, err the error code so far.
RunningFileEnd(p, next, err) ==
  IF ~p.fileEnd \/ Missing(recvdChnk') = {}
  THEN /\ eMsuState' = IF p.fileEnd THEN "Done" ELSE eMsuState
       /\ localChunkNumber' = next
       /\ Answered(NoReplay, err)
       /\ UNCHANGED <<eMsuPrevState, ccmRetryCount>>
  ELSE \E ok \in Outcomes("send") :
       /\ Request(NoReplay, CcmMsg(Missing(recvdChnk')), ok, err)
       /\ eMsuState' = IF ok THEN "CCM" ELSE eMsuState
       /\ eMsuPrevState' = IF ok THEN "CCM" ELSE eMsuPrevState
       /\ localChunkNumber' = IF ok THEN 0 ELSE next
       /\ ccmRetryCount' = IF ok THEN NextRetry(ccmRetryCount) ELSE ccmRetryCount

RunningChunkEnd(p, w) ==
  /\ RunningCounts(w)
  /\ p.chunkEnd
  /\ LET bits == SetRecvdSeqBit(RunningBits(p), p.seq)
     IN  /\ tempMissed' = MissedSeqs(bits, p.seq)
         /\ \/ /\ tempMissed' = {}
               /\ recvdChnk' = SetRecvdChnkBit(recvdChnk, p.chunk)
               /\ recvdSeqBitMap' = {}
               /\ RunningFileEnd(p, p.chunk + 1, MsuGlobalError)
            \/ /\ tempMissed' # {}
               /\ recvdSeqBitMap' = bits
               /\ UNCHANGED recvdChnk
               /\ \/ /\ Request(NoReplay, ScmMsg(p.chunk, tempMissed'), TRUE, MsuGlobalError)
                     /\ eMsuState' = "SCM"
                     /\ eMsuPrevState' = "Running"
                     /\ localChunkNumber' = p.chunk
                     /\ UNCHANGED ccmRetryCount
                  \/ RunningFileEnd(p, p.chunk, SocketTxFailed)
  /\ UNCHANGED ccmSent

SimRunningPacket(p) ==
  /\ eMsuState = "Running"
  /\ \/ RunningStale(p)
     \/ /\ p.chunk >= localChunkNumber
        /\ ccm_seqVal' = RunningSaved(p)
        /\ UNCHANGED firstTime
        /\ \E w \in Writes :
             /\ Stores(p, w)
             /\ RunningWriteFails(p, w) \/ RunningSeq(p, w) \/ RunningChunkEnd(p, w)

-----------------------------------------------------------------------------
(* msuHandleScmMcastPacket: the SCM state. *)

ScmDuplicate(p) ==
  /\ p.chunk = localChunkNumber
  /\ SeqRecvd(p.seq)
  /\ Answered(NoReplay, MsuGlobalError)
  /\ UNCHANGED <<eMsuState, seqVars, ccmVars, content>>

\* The packet is in the file, and its write counts as failed.
ScmWriteFails(p, w) ==
  /\ ~RecoveryCounts(w)
  /\ Answered(NoReplay, FileWriteFailed)
  /\ UNCHANGED <<eMsuState, tempMissed>>

ScmNoOfSeq ==
  IF localChunkNumber = sync.chunkCount THEN sync.tailSeqs ELSE sync.seqNumberLimit

ScmOwnChunk(p, w) ==
  /\ p.chunk = localChunkNumber
  /\ ~SeqRecvd(p.seq)
  /\ UNCHANGED <<firstTime, ccmVars>>
  /\ \/ /\ ScmWriteFails(p, w)
        /\ UNCHANGED <<localChunkNumber, recvdSeqBitMap, recvdChnk>>
     \/ /\ RecoveryCounts(w)
        /\ Answered(NoReplay, MsuGlobalError)
        /\ LET bits == SetRecvdSeqBit(recvdSeqBitMap, p.seq)
           IN  /\ tempMissed' = MissedSeqs(bits, ScmNoOfSeq)
               /\ \/ /\ tempMissed' # {}
                     /\ recvdSeqBitMap' = bits
                     /\ UNCHANGED <<eMsuState, localChunkNumber, recvdChnk>>
                  \/ /\ tempMissed' = {}
                     /\ recvdChnk' = SetRecvdChnkBit(recvdChnk, localChunkNumber)
                     /\ recvdSeqBitMap' = {}
                     /\ localChunkNumber' = localChunkNumber + 1
                     /\ eMsuState' = IF Missing(recvdChnk') = {} THEN "Done" ELSE eMsuPrevState

\* A packet of another chunk makes that chunk the current one.
ScmOtherChunk(p, w) ==
  /\ p.chunk # localChunkNumber
  /\ ccm_seqVal' = SavedSeqVals
  /\ MayWriteBeforeArray(TRUE)
  /\ firstTime' \in FirstTimeAfter(TRUE, firstTime)
  /\ localChunkNumber' = p.chunk
  /\ UNCHANGED recvdChnk
  /\ \/ /\ ScmWriteFails(p, w)
        /\ recvdSeqBitMap' = {}
     \/ /\ RecoveryCounts(w)
        /\ Answered(NoReplay, MsuGlobalError)
        /\ recvdSeqBitMap' = {p.seq}
        /\ eMsuState' = eMsuPrevState
        /\ UNCHANGED tempMissed

SimScmPacket(p) ==
  /\ eMsuState = "SCM"
  /\ \/ ScmDuplicate(p)
     \/ \E w \in Writes : Stores(p, w) /\ (ScmOwnChunk(p, w) \/ ScmOtherChunk(p, w))
  /\ UNCHANGED eMsuPrevState

-----------------------------------------------------------------------------
(* msuHandleCcmMcastPacket: the CCM state. *)

CcmIgnored(p) ==
  /\ IsChnkRecvd(recvdChnk, p.chunk)
  /\ Answered(NoReplay, MsuGlobalError)
  /\ UNCHANGED <<eMsuState, eMsuPrevState, seqVars, ccmVars, content>>

CcmJumps(p) == ~firstTime /\ localChunkNumber # p.chunk

CcmFirstTime(p) == FirstTimeAfter(CcmJumps(p), FALSE)

CcmSaved(p) == IF CcmJumps(p) THEN SavedSeqVals ELSE ccm_seqVal

CcmBitsKept(p) == recvdSeqBitMap   \* mutant

CcmBits(p) ==
  IF firstTime \/ localChunkNumber # p.chunk THEN ccm_seqVal[p.chunk] ELSE recvdSeqBitMap

\* The sequence has been received, or its write does not count.
CcmNotTaken(p) ==
  /\ \/ /\ IsSeqRecvd(CcmBits(p), p.seq)
        /\ Answered(NoReplay, MsuGlobalError)
        /\ UNCHANGED content
     \/ /\ ~IsSeqRecvd(CcmBits(p), p.seq)
        /\ \E w \in Writes : Stores(p, w) /\ ~RecoveryCounts(w)
        /\ Answered(NoReplay, FileWriteFailed)
  /\ firstTime' \in CcmFirstTime(p)
  /\ recvdSeqBitMap' = CcmBits(p)
  /\ ccm_seqVal' = CcmSaved(p)
  /\ UNCHANGED <<eMsuState, eMsuPrevState, tempMissed, recvdChnk>>

CcmSeq(p) ==
  /\ ~p.chunkEnd
  /\ firstTime' \in CcmFirstTime(p)
  /\ ccm_seqVal' = CcmSaved(p)
  /\ Answered(NoReplay, MsuGlobalError)
  /\ UNCHANGED <<eMsuState, eMsuPrevState, tempMissed, recvdChnk>>

CcmChunkReceived(p) ==
  /\ tempMissed' = {}
  /\ recvdChnk' = SetRecvdChnkBit(recvdChnk, p.chunk)
  /\ firstTime' \in IF Missing(recvdChnk') = {} THEN CcmFirstTime(p) ELSE {TRUE}
  /\ eMsuState' = IF Missing(recvdChnk') = {} THEN "Done" ELSE eMsuState
  /\ ccm_seqVal' = CcmSaved(p)
  /\ Answered(NoReplay, MsuGlobalError)
  /\ UNCHANGED eMsuPrevState

CcmChunkMissed(p) ==
  /\ tempMissed' # {}
  /\ firstTime' \in CcmFirstTime(p)
  /\ ccm_seqVal' = [CcmSaved(p) EXCEPT ![p.chunk] = recvdSeqBitMap']
  /\ \E ok \in ScmSendOutcomes :
       /\ Request(NoReplay, ScmMsg(p.chunk, tempMissed'), ok, MsuGlobalError)
       /\ eMsuState' = IF ok THEN "SCM" ELSE eMsuState
       /\ eMsuPrevState' = IF ok THEN "CCM" ELSE eMsuPrevState
  /\ UNCHANGED recvdChnk

CcmTaken(p) ==
  /\ ~IsSeqRecvd(CcmBits(p), p.seq)
  /\ \E w \in Writes : Stores(p, w) /\ RecoveryCounts(w)
  /\ recvdSeqBitMap' = SetRecvdSeqBit(CcmBits(p), p.seq)
  /\ \/ CcmSeq(p)
     \/ /\ p.chunkEnd
        /\ tempMissed' = MissedSeqs(recvdSeqBitMap', p.seq)
        /\ CcmChunkReceived(p) \/ CcmChunkMissed(p)

SimCcmPacket(p) ==
  /\ eMsuState = "CCM"
  /\ \/ CcmIgnored(p)
     \/ /\ ~IsChnkRecvd(recvdChnk, p.chunk)
        /\ localChunkNumber' = p.chunk
        /\ MayWriteBeforeArray(CcmJumps(p))
        /\ CcmNotTaken(p) \/ CcmTaken(p)

\* A data packet of the session, which overwrites msuMcastPdu and the buffer.
SimDataPacket(p) ==
  /\ mcastChunk' = p.chunk
  /\ SimRunningPacket(p) \/ SimScmPacket(p) \/ SimCcmPacket(p)
  /\ UNCHANGED <<sync, handles, deviceUpgadeStatus>>

-----------------------------------------------------------------------------
(***************************************************************************)
(* The control messages: m is the message in the buffer, just received or  *)
(* left there.                                                             *)
(***************************************************************************)
FinishesWith(m, state, err) ==
  /\ Answered(m, err)
  /\ eMsuState' = state
  /\ UNCHANGED <<localChunkNumber, ccmSent, ccmRetryCount>>

AsksForChunks(m, prev, sentFlag) ==
  \E ok \in Outcomes("send") :
    /\ Request(m, CcmMsg(Missing(recvdChnk)), ok, MsuGlobalError)
    /\ localChunkNumber' = IF ok THEN 0 ELSE localChunkNumber
    /\ ccmRetryCount' = IF ok THEN NextRetry(ccmRetryCount) ELSE ccmRetryCount
    /\ eMsuState' = IF ok THEN "CCM" ELSE eMsuState
    /\ eMsuPrevState' = IF ok THEN "CCM" ELSE prev
    /\ ccmSent' = IF ok THEN sentFlag ELSE ccmSent

SimTransferComplete(m) ==
  /\ m.type = "transferComplete"
  /\ \/ /\ ccmSent
        /\ FinishesWith(m, eMsuState, MsuGlobalError)
        /\ UNCHANGED eMsuPrevState
     \/ /\ ~ccmSent
        /\ Missing(recvdChnk) # {}
        /\ AsksForChunks(m, eMsuPrevState, TRUE)
     \/ /\ ~ccmSent
        /\ Missing(recvdChnk) = {}
        /\ FinishesWith(m, "Done", MsuGlobalError)
        /\ UNCHANGED eMsuPrevState
  /\ UNCHANGED tempMissed

SimCCMComplete(m) ==
  /\ m.type = "ccmComplete"
  /\ \/ /\ ~m.retry
        /\ FinishesWith(m, "Abort", IF Missing(recvdChnk) # {} THEN ExceedCcmRetry
                                    ELSE MsuGlobalError)
        /\ eMsuPrevState' = "CCM"
     \/ /\ m.retry
        /\ Missing(recvdChnk) # {}
        /\ AsksForChunks(m, "CCM", ccmSent)
     \/ /\ m.retry
        /\ Missing(recvdChnk) = {}
        /\ FinishesWith(m, "Done", MsuGlobalError)
        /\ eMsuPrevState' = "CCM"
  /\ UNCHANGED tempMissed

SimSCMComplete(m) ==
  /\ m.type = "scmComplete"
  /\ \/ /\ ~m.retry
        /\ eMsuState' = eMsuPrevState
        /\ Answered(m, MsuGlobalError)
        /\ UNCHANGED tempMissed
     \/ /\ m.retry
        /\ tempMissed' = MissedSeqs(recvdSeqBitMap, sync.seqNumberLimit)
        /\ IF tempMissed' = {}
           THEN eMsuState' = eMsuPrevState /\ Answered(m, MsuGlobalError)
           ELSE \E ok \in ScmSendOutcomes :
                  /\ Request(m, ScmMsg(mcastChunk, tempMissed'), ok, MsuGlobalError)
                  /\ eMsuState' = IF ok THEN "SCM" ELSE eMsuState
  /\ UNCHANGED <<localChunkNumber, eMsuPrevState, ccmSent, ccmRetryCount>>

SimAbortTransfer(m) ==
  /\ m.type = "abort"
  /\ FinishesWith(m, "Abort", MsuGlobalError)
  /\ UNCHANGED <<tempMissed, eMsuPrevState>>

Processes(m) ==
  \/ SimTransferComplete(m) \/ SimCCMComplete(m)
  \/ SimSCMComplete(m) \/ SimAbortTransfer(m)

ControlFrame ==
  /\ eMsuState \in Receiving
  /\ UNCHANGED <<recvdSeqBitMap, recvdChnk, firstTime, ccm_seqVal, sync, handles,
                 content, deviceUpgadeStatus>>

SimControlMessage(m) == ControlFrame /\ UNCHANGED mcastChunk /\ Processes(m)

(***************************************************************************)
(* Nothing arrives for updateTimeout seconds, or recvfrom fails: the       *)
(* receive returns -1, which is neither of the two codes the dispatcher    *)
(* knows, and the message in the buffer is processed again.  A sync        *)
(* message of the subcode MSU_SUBCODE_UPGRADE is then copied to            *)
(* msuMcastPdu, whose chunk number it leaves no chunk of the session.      *)
(***************************************************************************)
Silence ==
  /\ ControlFrame
  /\ \/ /\ Processes(gMsgBuffer)
        /\ UNCHANGED mcastChunk
     \/ /\ gMsgBuffer \in {NoMsg, SyncMsg}
        /\ FinishesWith(gMsgBuffer, eMsuState, MsuGlobalError)
        /\ \/ UNCHANGED mcastChunk
           \/ gMsgBuffer = SyncMsg /\ mcastChunk' = 0
        /\ UNCHANGED <<tempMissed, eMsuPrevState>>

-----------------------------------------------------------------------------
SimMachineStep ==
  \/ SimInitialize \/ SimConfigure \/ SimStartSession \/ SimStartFails
  \/ SimAbort \/ SimDone \/ SimLoopBack

SimListen == SimRejectsSync \/ SimListensInVain \/ \E y \in Syncs : SimListenSync(y)

SimReceiveStep ==
  \/ \E p \in DataPackets(sync) : SimDataPacket(p)
  \/ \E m \in ControlMessages : SimControlMessage(m)
  \/ Silence

SimNext == SimMachineStep \/ SimListen \/ SimReceiveStep

SimSpec == SimInit /\ [][SimNext]_simVars

-----------------------------------------------------------------------------
(* Properties. *)

\* The type of every variable.
SimTypeOK ==
  /\ eMsuState \in SimStates
  /\ eMsuPrevState \in {"Running", "CCM"}
  /\ localChunkNumber \in 0 .. (MaxChunk + 1)
  /\ recvdSeqBitMap \subseteq Seqs /\ tempMissed \subseteq Seqs /\ recvdChnk \subseteq Chunks
  /\ ccm_seqVal \in [CcmSlots -> SUBSET Seqs]
  /\ firstTime \in BOOLEAN /\ ccmSent \in BOOLEAN
  /\ ccmRetryCount \in 0 .. (CounterRange - 1)
  /\ mcastChunk \in 0 .. MaxChunk
  /\ sync \in Syncs \cup {NoSync}
  /\ gMsgBuffer \in ControlMessages \cup {NoMsg, SyncMsg}
  /\ descriptors \in [Numbers -> {"free", "default", "update", "file"}]
  /\ {msuDefaultSocket, msuUpdateSocket, pMsuFileDes} \subseteq Numbers \cup {-1}
  /\ content \in [Chunks \X Seqs -> {"nothing", "part", "all"}]
  /\ deviceUpgadeStatus \in {"Passed", "Failed"}
  /\ MsuGlobalError \in 0 .. 255

\* A simulator that reports success has handed every packet to the file in this
\* session, whatever was lost, repeated or put aside, and whichever of their
\* writes the handlers count.  The marks say so, not the checksum.
PassedMeansHanded ==
  sent.type = "status" /\ sent.result = "Passed"
    => \A p \in AllPackets(sync) : content[p] # "nothing"

\* No bit of the current chunk, of a bitmap put aside or of a chunk mark stands
\* for a packet that was never handed to the file in this session, through
\* jumps between chunks and through three handlers that write each packet.
BitsWereWritten ==
  eMsuState \in Receiving \cup {"Done"} =>
    /\ \A s \in recvdSeqBitMap :
         localChunkNumber \in Chunks => content[<<localChunkNumber, s>>] # "nothing"
    /\ \A c \in Chunks : \A s \in ccm_seqVal[c] : content[<<c, s>>] # "nothing"
    /\ \A c \in recvdChnk : \A s \in 1 .. NumSeqs(sync, c) : content[<<c, s>>] # "nothing"

\* While a session runs its file and its update socket are open under the
\* numbers the leech has for them, although the number of the file is also
\* still in msuDefaultSocket; and nothing else is open.
HandlesAreLive ==
  eMsuState \in Receiving \cup {"Abort", "Done"} =>
    /\ pMsuFileDes \in Numbers /\ descriptors[pMsuFileDes] = "file"
    /\ msuUpdateSocket \in Numbers /\ descriptors[msuUpdateSocket] = "update"
    /\ \A n \in Numbers \ {pMsuFileDes, msuUpdateSocket} : descriptors[n] = "free"

\* However sessions end, the next Listen has a socket to hear on; only after a
\* start that failed is there none, and then the error code says so.
DeafOnlyAfterFailedStart ==
  eMsuState = "Listen" /\ ~Hears => MsuGlobalError \in {FileOpenFailed, SocketOpenFailed}

\* Descriptors are not lost from session to session.
NoDescriptorLeft == eMsuState = "Configure" => \A n \in Numbers : descriptors[n] = "free"

\* A receive that times out or fails processes an old message again and yet
\* changes nothing but mcastChunk: no message that would act a second time is
\* ever left in the buffer.  So neither does a silent server end a session.
SilenceChangesNothing ==
  [][Silence => /\ sent' = NoMsg
                /\ UNCHANGED <<eMsuState, eMsuPrevState, seqVars, ccmVars, content,
                               MsuGlobalError>>]_simVars

-----------------------------------------------------------------------------
(* The session the simulator implements. *)

Phase ==
  CASE eMsuState \in Receiving -> "receiving"
    [] eMsuState = "Done"      -> "concluded"
    [] eMsuState = "Abort"     -> "failed"
    [] eMsuState = "LoopBack"  -> "closing"
    [] OTHER                   -> "idle"

\* The packets of a session handed to the file.
HandedToFile ==
  IF Phase = "idle" THEN {} ELSE {p \in DOMAIN content : content[p] # "nothing"}

Reported == IF sent.type = "status" /\ sent.result = "Passed" THEN "Passed" ELSE "none"

Session == INSTANCE UpgradeSession WITH
  Files <- Syncs, NoFile <- NoSync, Parts <- AllPackets, phase <- Phase, file <- sync,
  got <- HandedToFile, report <- Reported

\* The simulator implements UpgradeSession, with what it has handed to the file in
\* place of what has arrived: whatever its handlers make of their writes, and
\* whatever is processed a second time, a session is concluded only when every
\* packet has been handed to the file, success is reported at most once, and no
\* packet is lost from the file before the session is released.
ImplementsSession == Session!Spec

-----------------------------------------------------------------------------
(* What the invariants above rest on. *)

\* Between sessions the bookkeeping is empty and a session has its sync message.
SimSessionsStartClean ==
  /\ eMsuState \in {"Initialize", "Configure", "Listen", "Start"}
       => recvdSeqBitMap = {} /\ recvdChnk = {}
  /\ eMsuState \in {"Start", "Done"} \cup Receiving => sync \in Syncs

\* In SCM the result kept by getMissedSeqBitMap is not empty, so that its stale
\* answer cannot complete a chunk.
SimScmHoldsMiss == eMsuState = "SCM" => tempMissed # {}

\* What is open besides the handles of a session: nothing while none is needed,
\* the default socket alone while the leech hears.
DescriptorsFitTheState ==
  /\ eMsuState \in {"Initialize", "Configure", "Start"} =>
       \A n \in Numbers : descriptors[n] = "free"
  /\ eMsuState \in {"Listen", "Start"} => msuDefaultSocket \in Numbers
  /\ Hears => \A n \in Numbers \ {msuDefaultSocket} : descriptors[n] = "free"
  /\ eMsuState = "LoopBack" =>
       \A n \in Numbers \ {pMsuFileDes, msuUpdateSocket} : descriptors[n] = "free"

\* What a receive that fails may process again: the sync message, or a
\* completion message that has nothing left to do.
ReplayIsHarmless ==
  /\ eMsuState = "Start" => gMsgBuffer = SyncMsg
  /\ eMsuState \in Receiving =>
       /\ gMsgBuffer.type \notin {"ccmComplete", "abort"}
       /\ gMsgBuffer.type = "transferComplete" => ccmSent
       /\ gMsgBuffer.type = "scmComplete" =>
            /\ eMsuState = eMsuPrevState
            /\ gMsgBuffer.retry =>
                 tempMissed = {} /\ MissedSeqs(recvdSeqBitMap, sync.seqNumberLimit) = {}

\* The inductive invariant of the proofs.
SimInv ==
  /\ SimTypeOK
  /\ SimSessionsStartClean
  /\ SimScmHoldsMiss
  /\ DescriptorsFitTheState
  /\ HandlesAreLive
  /\ DeafOnlyAfterFailedStart
  /\ ReplayIsHarmless
  /\ BitsWereWritten

-----------------------------------------------------------------------------
\* msuHandleScmMcastPacket: "This function receives missed sequence packets and
\* write into a file. If all missed sequences are received [...] changes the
\* state to Running or CCM".  A run shows that the code does otherwise.
ScmEndsWithItsChunk ==
  eMsuState = "SCM" /\ localChunkNumber \in 1 .. sync.chunkCount =>
    \E s \in 1 .. NumSeqs(sync, localChunkNumber) : content[<<localChunkNumber, s>>] # "all"
=============================================================================
