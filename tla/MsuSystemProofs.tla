-------------------------- MODULE MsuSystemProofs --------------------------
(***************************************************************************)
(* The leech of MsuSystem is the leech of MsuLeech: the rounds of a server *)
(* and the losses of a network choose among the steps MsuLeech allows, so  *)
(* that what MsuLeechProofs shows for any environment holds with this one. *)
(* What only holds in these rounds rests on SystemInv: a leech the server  *)
(* has heard is at the chunk the server repairs, or through with it.       *)
(***************************************************************************)
EXTENDS MsuSystem, MsuLeechProofs, WellFoundedInduction

\* What the server does is a step of the leech or none.
LEMMA ServerIsEnvironment == ServerStep => [Next]_vars
<1> SUFFICES ASSUME ServerStep
             PROVE  [Next]_vars
  OBVIOUS
<1>1. CASE SendsSeq
  <2>1. PICK p \in DataPackets(sync) : Multicast("data", DataPacket(p))
    BY <1>1 DEF SendsSeq
  <2>2. DataPacket(p) => Next
    BY DEF Next, ReceiveStep
  <2> QED
    BY <2>1, <2>2 DEF Multicast
<1>2. CASE SendsScmComplete
  <2> DEFINE m == [type |-> "scmComplete", retry |-> scmLeft > 0]
  <2>1. m \in ControlMessages
    BY DEF ControlMessages
  <2>2. SCMComplete(scmLeft > 0) => ControlMessage(m)
    BY DEF ControlMessage
  <2>3. ControlMessage(m) => Next
    BY <2>1 DEF Next, ReceiveStep
  <2> QED
    BY <1>2, <2>2, <2>3 DEF SendsScmComplete, Multicast
<1>3. CASE SendsComplete
  <2> DEFINE m == [type |-> "transferComplete"]
             n == [type |-> "ccmComplete", retry |-> ccmLeft > 0]
  <2>1. m \in ControlMessages /\ n \in ControlMessages
    BY DEF ControlMessages
  <2>2. /\ TransferComplete => ControlMessage(m)
        /\ CCMComplete(ccmLeft > 0) => ControlMessage(n)
    BY DEF ControlMessage
  <2>3. ControlMessage(m) \/ ControlMessage(n) => Next
    BY <2>1 DEF Next, ReceiveStep
  <2> QED
    BY <1>3, <2>2, <2>3 DEF SendsComplete, Multicast
<1>4. CASE \/ OpensScmWindow \/ Repairs \/ GoesOn
           \/ ResendsChunks \/ FallsSilent
  BY <1>4 DEF OpensScmWindow, Repairs, GoesOn, ResendsChunks, FallsSilent
<1> QED
  BY <1>1, <1>2, <1>3, <1>4 DEF ServerStep

\* Every step of the system is a step of the leech or leaves it alone.
LEMMA SystemStep == [SystemNext]_systemVars => [Next]_vars
<1> SUFFICES ASSUME [SystemNext]_systemVars
             PROVE  [Next]_vars
  OBVIOUS
<1>1. CASE UNCHANGED systemVars
  BY <1>1 DEF systemVars
<1>2. CASE \E y \in Syncs : Announce(y)
  BY <1>2 DEF Announce, Next, Listen
<1>3. CASE ServerStep
  BY <1>3, ServerIsEnvironment
<1>4. CASE LeechStep
  BY <1>4 DEF LeechStep, Next, Listen
<1>5. CASE LeechTimeout
  BY <1>5 DEF LeechTimeout, Next
<1> QED
  BY <1>1, <1>2, <1>3, <1>4, <1>5 DEF SystemNext

\* The system implements the leech that takes anything from anyone.
THEOREM SystemIsLeech == SystemSpec => Spec
<1>1. SystemInit => Init
  BY DEF SystemInit
<1> QED
  BY <1>1, SystemStep, PTL DEF SystemSpec, Spec

\* With the rounds of a server and lost messages too, Passed means delivered.
THEOREM SystemPassedIsDelivered == SystemSpec => []PassedMeansDelivered
  BY SystemIsLeech, PassedIsDelivered, PTL

\* The system implements the upgrade session.
THEOREM SystemImplementsSession == SystemSpec => ImplementsSession
  BY SystemIsLeech, Implementation, PTL

\* Every reachable state of the system satisfies the invariant of the leech.
LEMMA SystemLeechInv == SystemSpec => []Inv
  BY SystemIsLeech, Invariance, PTL

-----------------------------------------------------------------------------
(* Types. *)

\* The first of a set of numbers is the least of them.
LEMMA FirstIsFirst ==
  ASSUME NEW S \in SUBSET Nat, S # {}
  PROVE  First(S) \in S /\ \A y \in S : First(S) <= y
<1>1. \E x \in S : \A y \in S : ~ (y < x)
  <2> DEFINE R == OpToRel(<, Nat)
  <2>1. IsWellFoundedOn(R, Nat)
    BY NatLessThanWellFounded
  <2>2. \A x, y \in Nat : x < y => <<x, y>> \in R
    BY DEF OpToRel
  <2> HIDE DEF R
  <2> QED
    BY <2>1, <2>2, WFMin
<1>2. \E x \in S : \A y \in S : x <= y
  BY <1>1
<1> QED
  BY <1>2 DEF First

LEMMA FirstChunk ==
  ASSUME NEW S \in SUBSET Chunks, S # {}
  PROVE  First(S) \in S /\ First(S) \in 0 .. MaxChunk
<1>1. S \in SUBSET Nat /\ \A c \in Chunks : c \in 0 .. MaxChunk
  BY MaxChunkAssumption DEF Chunks
<1> QED
  BY <1>1, FirstIsFirst

\* A chunk has no more sequences than fit.
LEMMA NumSeqsType ==
  ASSUME NEW y \in Syncs \cup {NoSync}, NEW c
  PROVE  1 .. NumSeqs(y, c) \subseteq Seqs
<1>1. NumSeqs(y, c) \in 0 .. MaxSeq
  <2>1. CASE y \in Syncs
    BY <2>1, SyncFacts, MaxSeqAssumption DEF NumSeqs, Seqs
  <2>2. CASE y = NoSync
    BY <2>2, MaxSeqAssumption DEF NumSeqs, NoSync
  <2> QED
    BY <2>1, <2>2
<1> QED
  BY <1>1, MaxSeqAssumption DEF Seqs

LEMMA CountedType ==
  ASSUME NEW k \in Kinds, lost \in [Kinds -> 0 .. MaxLoss]
  PROVE  Counted(k) \in [Kinds -> 0 .. MaxLoss]
<1>1. Cap(k) \in 0 .. MaxLoss
  BY SystemAssumption DEF Cap
<1>2. (IF lost[k] < Cap(k) THEN lost[k] + 1 ELSE lost[k]) \in 0 .. MaxLoss
  BY <1>1, SystemAssumption
<1> QED
  BY <1>2 DEF Counted

\* What the server may hear.
LEMMA HeardType ==
  ASSUME NEW m \in SentType
  PROVE  /\ m.type = "scm" => m.seqs \in SUBSET Seqs
         /\ m.type = "ccm" => m.chunks \in SUBSET Chunks
  BY DEF SentType, NoMsg

LEMMA MulticastType ==
  ASSUME NEW k \in Kinds, NEW recv \in BOOLEAN, SystemTypeOK, TypeOK', Multicast(k, recv)
  PROVE  /\ heardSeqs' \in SUBSET Seqs
         /\ heardChunks' \in SUBSET Chunks
         /\ lost' \in [Kinds -> 0 .. MaxLoss]
<1>1. /\ heardSeqs \in SUBSET Seqs /\ heardChunks \in SUBSET Chunks
      /\ lost \in [Kinds -> 0 .. MaxLoss]
  BY DEF SystemTypeOK
<1>2. Counted("control") \in [Kinds -> 0 .. MaxLoss] /\ Counted(k) \in [Kinds -> 0 .. MaxLoss]
  BY <1>1, CountedType DEF Kinds
<1>3. /\ sent'.type = "scm" => sent'.seqs \in SUBSET Seqs
      /\ sent'.type = "ccm" => sent'.chunks \in SUBSET Chunks
  BY HeardType DEF TypeOK
<1>4. CASE Answer
  BY <1>1, <1>2, <1>3, <1>4 DEF Answer, heardVars
<1>5. CASE UNCHANGED heardVars /\ lost' \in {Counted(k), lost}
  BY <1>1, <1>2, <1>5 DEF heardVars
<1> QED
  BY <1>4, <1>5 DEF Multicast

LEMMA SystemTypeStep ==
  ASSUME SystemTypeOK, TypeOK', [SystemNext]_systemVars
  PROVE  SystemTypeOK'
<1>1. /\ round \in Rounds /\ todo \in SUBSET Chunks /\ chunk \in 0 .. MaxChunk
      /\ seqs \in SUBSET Seqs /\ heardSeqs \in SUBSET Seqs /\ heardChunks \in SUBSET Chunks
      /\ scmLeft \in 0 .. (ScmRetries + 1) /\ ccmLeft \in 0 .. (CcmRetries + 1)
      /\ lost \in [Kinds -> 0 .. MaxLoss] /\ sync \in Syncs \cup {NoSync}
  BY DEF SystemTypeOK, TypeOK
<1>2. /\ "data" \in Kinds /\ "control" \in Kinds
      /\ ScmRetries + 1 \in 0 .. (ScmRetries + 1) /\ CcmRetries + 1 \in 0 .. (CcmRetries + 1)
      /\ scmLeft > 0 => scmLeft - 1 \in 0 .. (ScmRetries + 1)
      /\ ccmLeft > 0 => ccmLeft - 1 \in 0 .. (CcmRetries + 1)
  BY <1>1, SystemAssumption DEF Kinds
<1>3. CASE UNCHANGED <<serverVars, lost>>
  BY <1>1, <1>3 DEF SystemTypeOK, serverVars
<1>4. ASSUME NEW y \in Syncs, Announce(y)
      PROVE  SystemTypeOK'
  <2>1. 1 .. NumSeqs(y, 1) \subseteq Seqs /\ 2 .. y.chunkCount \subseteq Chunks
    <3>1. y.chunkCount \in Chunks
      BY SyncFacts
    <3> QED
      BY <3>1, NumSeqsType, MaxChunkAssumption DEF Chunks
  <2>2. 1 \in 0 .. MaxChunk /\ [k \in Kinds |-> 0] \in [Kinds -> 0 .. MaxLoss]
    BY MaxChunkAssumption, SystemAssumption
  <2> QED
    BY <1>2, <1>4, <2>1, <2>2 DEF Announce, SystemTypeOK, Rounds
<1>5. ASSUME NEW S \in SUBSET Chunks, S # {}, GoesTo(S)
      PROVE  /\ round' \in Rounds /\ chunk' \in 0 .. MaxChunk /\ seqs' \in SUBSET Seqs
             /\ todo' \in SUBSET Chunks /\ heardSeqs' \in SUBSET Seqs
             /\ scmLeft' \in 0 .. (ScmRetries + 1)
  BY <1>1, <1>2, <1>5, FirstChunk, NumSeqsType DEF GoesTo, Rounds
<1>6. CASE SendsSeq
  <2>1. PICK p \in DataPackets(sync) : Multicast("data", DataPacket(p))
    BY <1>6 DEF SendsSeq
  <2>2. DataPacket(p) \in BOOLEAN
    BY DEF DataPacket
  <2>3. /\ heardSeqs' \in SUBSET Seqs /\ heardChunks' \in SUBSET Chunks
        /\ lost' \in [Kinds -> 0 .. MaxLoss]
    BY <1>2, <2>1, <2>2, MulticastType
  <2> QED
    BY <1>1, <1>6, <2>3 DEF SendsSeq, SystemTypeOK
<1>7. CASE SendsScmComplete
  <2>1. SCMComplete(scmLeft > 0) \in BOOLEAN
    BY DEF SCMComplete
  <2>2. /\ heardSeqs' \in SUBSET Seqs /\ heardChunks' \in SUBSET Chunks
        /\ lost' \in [Kinds -> 0 .. MaxLoss]
    BY <1>2, <1>7, <2>1, MulticastType DEF SendsScmComplete
  <2> QED
    BY <1>1, <1>7, <2>2 DEF SendsScmComplete, SystemTypeOK, Rounds
<1>8. CASE SendsComplete
  <2> DEFINE recv == IF ccmLeft > CcmRetries THEN TransferComplete ELSE CCMComplete(ccmLeft > 0)
  <2>1. recv \in BOOLEAN
    BY DEF TransferComplete, CCMComplete
  <2>2. /\ heardSeqs' \in SUBSET Seqs /\ heardChunks' \in SUBSET Chunks
        /\ lost' \in [Kinds -> 0 .. MaxLoss]
    <3>1. Multicast("control", recv)
      BY <1>8 DEF SendsComplete
    <3> HIDE DEF recv
    <3> QED
      BY <1>2, <2>1, <3>1, MulticastType
  <2> QED
    BY <1>1, <1>8, <2>2 DEF SendsComplete, SystemTypeOK, Rounds
<1>9. CASE OpensScmWindow \/ Repairs \/ FallsSilent
  BY <1>1, <1>2, <1>9
     DEF OpensScmWindow, Repairs, FallsSilent, SystemTypeOK, Rounds, heardVars
<1>10. CASE GoesOn
  <2>1. CASE todo # {} /\ GoesTo(todo)
    BY <1>1, <1>5, <1>10, <2>1 DEF GoesOn, SystemTypeOK
  <2>2. CASE round' = "fileSent" /\ UNCHANGED <<todo, chunk, seqs, heardSeqs, scmLeft>>
    BY <1>1, <1>10, <2>2 DEF GoesOn, SystemTypeOK, Rounds
  <2> QED
    BY <1>10, <2>1, <2>2 DEF GoesOn
<1>11. CASE ResendsChunks
  BY <1>1, <1>2, <1>5, <1>11 DEF ResendsChunks, SystemTypeOK
<1> QED
  BY <1>3, <1>4, <1>6, <1>7, <1>8, <1>9, <1>10, <1>11
     DEF SystemNext, ServerStep, LeechStep, LeechTimeout, systemVars

-----------------------------------------------------------------------------
(* The requests. *)

\* A data packet that makes the leech ask for sequences is of the chunk it asks
\* for; a leech that waits for its request does not ask again.
LEMMA DataRequest ==
  ASSUME NEW p, DataPacket(p), sent'.type = "scm"
  PROVE  /\ sent'.chunk = p.chunk /\ localChunkNumber' = p.chunk /\ mcastChunk' = p.chunk
         /\ eMsuState' = "SCM" /\ eMsuState # "SCM"
<1>1. /\ NoMsg.type # "scm"
      /\ \A m : CcmMsg(m).type # "scm"
      /\ \A c, m : ScmMsg(c, m).chunk = c
  BY DEF NoMsg, CcmMsg, ScmMsg
<1>2. CASE RunningPacket(p)
  <2>1. ASSUME NEW recvd, NEW err, RunningFileEnd(p, recvd, err)
        PROVE  FALSE
    BY <1>1, <2>1 DEF RunningFileEnd, Send, SendsNothing
  <2>2. RunningChunkMissed(p)
    BY <1>1, <1>2, <2>1
       DEF RunningPacket, RunningStale, RunningSeq, RunningChunkReceived, SendsNothing
  <2>3. /\ sent' = ScmMsg(p.chunk, tempMissed') /\ eMsuState' = "SCM"
        /\ localChunkNumber' = p.chunk
    BY <2>1, <2>2 DEF RunningChunkMissed
  <2> QED
    BY <1>1, <1>2, <2>2, <2>3 DEF RunningPacket, RunningChunkMissed, RunningTakes, Arrives
<1>3. CASE ScmPacket(p)
  BY <1>1, <1>3 DEF ScmPacket, ScmDuplicate, ScmSeq, ScmChunkReceived, ScmJump, SendsNothing
<1>4. CASE CcmPacket(p)
  <2>1. CcmChunkMissed(p)
    BY <1>1, <1>4
       DEF CcmPacket, CcmIgnored, CcmDuplicate, CcmSeq, CcmChunkReceived, SendsNothing
  <2>2. PICK ok \in BOOLEAN : /\ Send(ScmMsg(p.chunk, tempMissed'), ok, MsuGlobalError)
                              /\ eMsuState' = IF ok THEN "SCM" ELSE eMsuState
    BY <2>1 DEF CcmChunkMissed, Outcomes
  <2>3. sent' = ScmMsg(p.chunk, tempMissed') /\ eMsuState' = "SCM"
    BY <1>1, <2>2 DEF Send
  <2> QED
    BY <1>1, <1>4, <2>1, <2>3 DEF CcmPacket, CcmChunkMissed, CcmTakes, CcmOpens, Arrives
<1> QED
  BY <1>2, <1>3, <1>4 DEF DataPacket

\* A packet of the chunk the leech asked for leaves it there, and it does not
\* ask again.
LEMMA RepairKeeps ==
  ASSUME NEW p, Inv, sync \in Syncs, p \in DataPackets(sync), p.chunk = chunk,
         UNCHANGED chunk, DataPacket(p), AtItsRequest, eMsuState' \in Receiving
  PROVE  AtItsRequest' /\ sent'.type # "scm"
<1>1. /\ chunk \in Chunks /\ chunk < chunk + 1 /\ ~ (chunk < chunk)
      /\ TypeOK /\ RunningHasChunk /\ NoMsg.type # "scm"
  BY PacketFacts, MaxChunkAssumption DEF Chunks, Inv, NoMsg
<1>2. CASE eMsuState = "SCM" /\ localChunkNumber = chunk /\ mcastChunk = chunk
  <2>1. ScmPacket(p) /\ Arrives(p) /\ ~ScmJump(p)
    BY <1>2 DEF DataPacket, RunningPacket, CcmPacket, ScmPacket, ScmJump
  <2>2. CASE ScmDuplicate(p) \/ ScmSeq(p)
    BY <1>1, <1>2, <2>1, <2>2 DEF ScmDuplicate, ScmSeq, SendsNothing, seqVars, Arrives, AtItsRequest
  <2>3. CASE ScmChunkReceived(p)
    <3>1. /\ recvdSeqBitMap' = {} /\ tempMissed' = {} /\ localChunkNumber' = chunk + 1
          /\ eMsuState' = eMsuPrevState /\ eMsuPrevState' = eMsuPrevState
          /\ recvdChnk' = recvdChnk \cup {chunk}
          /\ sent'.type # "scm"
      BY <1>1, <1>2, <2>1, <2>3
         DEF ScmChunkReceived, SetRecvdChnkBit, SendsNothing, Receiving, ScmPacket
    <3>2. eMsuPrevState \in {"Running", "CCM"}
      BY <1>1 DEF TypeOK
    <3> QED
      BY <1>1, <3>1, <3>2 DEF AtItsRequest, IsChnkRecvd
  <2> QED
    BY <2>1, <2>2, <2>3 DEF ScmPacket
<1>3. CASE /\ recvdSeqBitMap = {} /\ tempMissed = {}
           /\ eMsuState = "Running" /\ eMsuPrevState = "Running" /\ chunk < localChunkNumber
  <2>1. RunningStale(p)
    <3>1. ~ (p.chunk >= localChunkNumber)
      <4>1. localChunkNumber \in Nat /\ chunk \in Nat
        BY <1>1, MaxChunkAssumption DEF TypeOK, Chunks
      <4> QED
        BY <1>3, <4>1
    <3> QED
      BY <1>3, <3>1
         DEF DataPacket, RunningPacket, ScmPacket, CcmPacket, RunningSeq, RunningChunkReceived,
             RunningChunkMissed, RunningTakes
  <2> QED
    BY <1>1, <1>3, <2>1 DEF RunningStale, SendsNothing, seqVars, AtItsRequest
<1>4. CASE /\ recvdSeqBitMap = {} /\ tempMissed = {}
           /\ eMsuState = "CCM" /\ eMsuPrevState = "CCM" /\ IsChnkRecvd(recvdChnk, chunk)
  <2>1. CcmIgnored(p)
    BY <1>4
       DEF DataPacket, RunningPacket, ScmPacket, CcmPacket, CcmDuplicate, CcmSeq,
           CcmChunkReceived, CcmChunkMissed, CcmTakes, CcmOpens
  <2> QED
    BY <1>1, <1>4, <2>1 DEF CcmIgnored, SendsNothing, seqVars, AtItsRequest
<1> QED
  BY <1>2, <1>3, <1>4 DEF AtItsRequest

\* An SCMComplete is answered with a request only by a leech that is still at
\* the chunk it asked for, and for that chunk.
LEMMA CompleteRequest ==
  ASSUME NEW retry, AtItsRequest, SCMComplete(retry), sent'.type = "scm"
  PROVE  /\ sent'.chunk = chunk /\ localChunkNumber' = chunk
         /\ mcastChunk' = chunk /\ eMsuState' = "SCM"
<1>1. /\ NoMsg.type # "scm"
      /\ \A c, m : ScmMsg(c, m).chunk = c
  BY DEF NoMsg, ScmMsg
<1>2. /\ retry /\ tempMissed' # {} /\ AsksForSeqs
      /\ tempMissed' = GetMissedSeqBitMap(recvdSeqBitMap, sync.seqNumberLimit, tempMissed)
      /\ UNCHANGED <<localChunkNumber, mcastChunk>>
  BY <1>1 DEF SCMComplete, ControlFrame, SendsNothing, pduVars
<1>3. eMsuState = "SCM" /\ localChunkNumber = chunk /\ mcastChunk = chunk
  BY <1>2 DEF AtItsRequest, GetMissedSeqBitMap
<1>4. sent' = ScmMsg(mcastChunk, tempMissed') /\ eMsuState' = "SCM"
  BY <1>1, <1>2 DEF AsksForSeqs, Send
<1> QED
  BY <1>1, <1>2, <1>3, <1>4
LEMMA SystemInitInv == SystemInit => SystemInv
<1> SUFFICES ASSUME SystemInit
             PROVE  SystemInv
  OBVIOUS
<1>1. TypeOK
  BY InitType DEF SystemInit
<1>2. SystemTypeOK
  <2>1. [k \in Kinds |-> 0] \in [Kinds -> 0 .. MaxLoss]
    BY SystemAssumption
  <2>2. 0 \in 0 .. MaxChunk /\ 0 \in 0 .. (ScmRetries + 1) /\ 0 \in 0 .. (CcmRetries + 1)
    BY MaxChunkAssumption, SystemAssumption
  <2> QED
    BY <1>1, <2>1, <2>2 DEF SystemInit, SystemTypeOK, Rounds
<1>3. ~Repairing /\ round # "repair"
  BY DEF SystemInit, Repairing
<1> QED
  BY <1>2, <1>3 DEF SystemInv, LeechStaysWithItsRequest, RequestsAreOfThisSession

\* While the server sends the sequences of a chunk the leech stays at it.
LEMMA SendsSeqKeeps ==
  ASSUME Inv, SystemInv, SendsSeq
  PROVE  LeechStaysWithItsRequest' /\ RequestsAreOfThisSession'
<1>1. /\ round \in {"chunk", "repair"} /\ round' = round /\ chunk' = chunk
      /\ LeechStaysWithItsRequest /\ RequestsAreOfThisSession
  BY DEF SendsSeq, SystemInv
<1>2. PICK p \in DataPackets(sync) : p.chunk = chunk /\ Multicast("data", DataPacket(p))
  BY DEF SendsSeq
<1>3. CASE UNCHANGED <<vars, heardVars>>
  BY <1>1, <1>3
     DEF LeechStaysWithItsRequest, RequestsAreOfThisSession, Repairing, AtItsRequest, heardVars,
         vars, seqVars, pduVars, resVars
<1>4. CASE DataPacket(p) /\ Answer
  <2>1. /\ eMsuState \in Receiving /\ eMsuState' \in Receiving \cup {"Done"}
        /\ sync \in Syncs
    BY <1>4, DataFrame DEF Inv, SessionHasSync, InSession
  <2>2. eMsuState' # "Start" /\ eMsuState' # "Listen"
    BY <2>1 DEF Receiving
  <2>3. heardSeqs' # heardSeqs => sent'.type = "scm"
    BY <1>4 DEF Answer, heardVars
  <2>4. CASE Repairing
    <3>1. AtItsRequest
      BY <1>1, <2>1, <2>4 DEF LeechStaysWithItsRequest
    <3>2. eMsuState' \in Receiving => AtItsRequest' /\ sent'.type # "scm"
      BY <1>1, <1>2, <1>4, <2>1, <3>1, RepairKeeps
    <3>3. sent'.type # "scm"
      BY <1>4, <3>2, DataRequest DEF Receiving
    <3> QED
      BY <1>1, <2>2, <2>3, <3>2, <3>3
         DEF LeechStaysWithItsRequest, RequestsAreOfThisSession
  <2>5. CASE ~Repairing
    <3>1. round # "repair" /\ heardSeqs = {}
      BY <1>1, <2>5 DEF Repairing
    <3>2. CASE heardSeqs' = heardSeqs
      BY <1>1, <2>2, <3>1, <3>2
         DEF LeechStaysWithItsRequest, RequestsAreOfThisSession, Repairing
    <3>3. CASE sent'.type = "scm"
      BY <1>1, <1>2, <1>4, <2>2, <3>1, <3>3, DataRequest
         DEF LeechStaysWithItsRequest, RequestsAreOfThisSession, AtItsRequest
    <3> QED
      BY <2>3, <3>2, <3>3
  <2> QED
    BY <2>4, <2>5
<1> QED
  BY <1>2, <1>3, <1>4 DEF Multicast

\* So it does when the server has repaired it.
LEMMA SendsScmCompleteKeeps ==
  ASSUME Inv, SystemInv, SendsScmComplete
  PROVE  LeechStaysWithItsRequest' /\ RequestsAreOfThisSession'
<1>1. /\ round = "repair" /\ round' = "scmWindow" /\ chunk' = chunk /\ heardSeqs = {}
      /\ LeechStaysWithItsRequest /\ Repairing
      /\ Multicast("control", SCMComplete(scmLeft > 0))
  BY DEF SendsScmComplete, SystemInv, RequestsAreOfThisSession, Repairing
<1>2. CASE UNCHANGED <<vars, heardVars>>
  BY <1>1, <1>2 DEF LeechStaysWithItsRequest, RequestsAreOfThisSession, Repairing, heardVars
<1>3. CASE SCMComplete(scmLeft > 0) /\ Answer
  <2>1. AtItsRequest
    BY <1>1, <1>3 DEF LeechStaysWithItsRequest, SCMComplete, ControlFrame
  <2>2. heardSeqs' # {} => sent'.type = "scm"
    BY <1>1, <1>3 DEF Answer, heardVars
  <2>3. CASE heardSeqs' = {}
    BY <1>1, <2>3 DEF LeechStaysWithItsRequest, RequestsAreOfThisSession, Repairing
  <2>4. CASE sent'.type = "scm"
    <3>1. localChunkNumber' = chunk /\ mcastChunk' = chunk /\ eMsuState' = "SCM"
      BY <1>3, <2>1, <2>4, CompleteRequest
    <3> QED
      BY <1>1, <3>1 DEF LeechStaysWithItsRequest, RequestsAreOfThisSession, AtItsRequest
  <2> QED
    BY <2>2, <2>3, <2>4
<1> QED
  BY <1>1, <1>2, <1>3 DEF Multicast

\* A leech comes into a session only when the server has heard nothing of it.
LEMMA LeechStepKeeps ==
  ASSUME Inv, SystemInv, LeechStep
  PROVE  LeechStaysWithItsRequest' /\ RequestsAreOfThisSession'
<1>1. /\ RequestsAreOfThisSession /\ UNCHANGED <<round, heardSeqs>>
      /\ Repairing' = Repairing
  BY DEF SystemInv, LeechStep, serverVars, Repairing
<1>2. CASE StartSession \/ StartFails
  BY <1>1, <1>2
     DEF StartSession, StartFails, RequestsAreOfThisSession, LeechStaysWithItsRequest
<1>3. CASE ListenReplaysSync
  BY <1>1, <1>3
     DEF ListenReplaysSync, RequestsAreOfThisSession, LeechStaysWithItsRequest, Receiving
<1>4. CASE Configure
  BY <1>1, <1>4
     DEF Configure, RequestsAreOfThisSession, LeechStaysWithItsRequest, Receiving
<1>5. CASE Initialize \/ Abort \/ Done \/ LoopBack
  BY <1>1, <1>5
     DEF Initialize, Abort, Done, LoopBack, RequestsAreOfThisSession, LeechStaysWithItsRequest,
         Receiving
<1> QED
  BY <1>2, <1>3, <1>4, <1>5 DEF LeechStep, MachineStep

LEMMA SystemInvStep ==
  Inv /\ Inv' /\ SystemInv /\ [SystemNext]_systemVars => SystemInv'
<1> SUFFICES ASSUME Inv, Inv', SystemInv, [SystemNext]_systemVars
             PROVE  LeechStaysWithItsRequest' /\ RequestsAreOfThisSession'
  BY SystemTypeStep DEF SystemInv, Inv
<1>1. ASSUME ~Repairing', round' # "repair"
      PROVE  LeechStaysWithItsRequest' /\ RequestsAreOfThisSession'
  BY <1>1 DEF LeechStaysWithItsRequest, RequestsAreOfThisSession
<1>2. LeechStaysWithItsRequest /\ RequestsAreOfThisSession
  BY DEF SystemInv
<1>3. CASE UNCHANGED systemVars
  BY <1>2, <1>3
     DEF LeechStaysWithItsRequest, RequestsAreOfThisSession, Repairing, AtItsRequest, systemVars,
         serverVars, vars, seqVars, pduVars, resVars
<1>4. CASE \E y \in Syncs : Announce(y)
  BY <1>1, <1>4 DEF Announce, Repairing
<1>5. CASE OpensScmWindow \/ Repairs
  BY <1>2, <1>5
     DEF OpensScmWindow, Repairs, LeechStaysWithItsRequest, RequestsAreOfThisSession, Repairing,
         AtItsRequest, heardVars, vars, seqVars, pduVars, resVars
<1>6. CASE GoesOn \/ SendsComplete \/ ResendsChunks \/ FallsSilent
  BY <1>1, <1>6 DEF GoesOn, SendsComplete, ResendsChunks, FallsSilent, GoesTo, Repairing
<1>7. CASE SendsSeq
  BY <1>7, SendsSeqKeeps
<1>8. CASE SendsScmComplete
  BY <1>8, SendsScmCompleteKeeps
<1>9. CASE LeechStep
  BY <1>9, LeechStepKeeps
<1>10. CASE LeechTimeout
  BY <1>1, <1>10 DEF LeechTimeout, serverVars, Repairing
<1> QED
  BY <1>3, <1>4, <1>5, <1>6, <1>7, <1>8, <1>9, <1>10 DEF SystemNext, ServerStep

\* What the server has heard and what the leech is at agree in every reachable
\* state, for every number of retries and of chunks.
THEOREM SystemInvariance == SystemSpec => []SystemInv
  BY SystemInitInv, SystemInvStep, SystemLeechInv, PTL DEF SystemSpec

\* The variables of the server and of the leech keep their types.
THEOREM SystemTypes == SystemSpec => []SystemTypeOK
  BY SystemInvariance, PTL DEF SystemInv

\* Over a network that loses messages and keeps their order the leech asks only
\* for sequences of the chunk the server is at, and is at that chunk itself.
THEOREM RequestsMeet == SystemSpec => RequestsMeetTheServer
<1>1. ASSUME Inv, SystemInv, [SystemNext]_systemVars, sent'.type = "scm", sent' # sent
      PROVE  sent'.chunk = chunk /\ localChunkNumber' = chunk
  <2>1. NoMsg.type # "scm" /\ (\A m : CcmMsg(m).type # "scm") /\ \A r : StatusMsg(r).type # "scm"
    BY DEF NoMsg, CcmMsg, StatusMsg
  <2>2. ~UNCHANGED vars /\ ~UNCHANGED systemVars
    BY <1>1 DEF vars, systemVars
  <2>3. ~LeechStep /\ ~LeechTimeout /\ ~(\E y \in Syncs : Announce(y))
    BY <1>1, <2>1
       DEF LeechStep, MachineStep, Initialize, Configure, StartSession, StartFails, Abort, Done,
           LoopBack, ListenReplaysSync, LeechTimeout, RecvTimeout, FinishesWith, SendsNothing,
           Announce, ListenSync
  <2>4. CASE SendsSeq
    BY <1>1, <2>2, <2>4, DataRequest DEF SendsSeq, Multicast
  <2>5. CASE SendsScmComplete
    <3>1. SCMComplete(scmLeft > 0) /\ round = "repair"
      BY <2>2, <2>5 DEF SendsScmComplete, Multicast
    <3>2. AtItsRequest
      BY <1>1, <3>1
         DEF SystemInv, LeechStaysWithItsRequest, Repairing, SCMComplete, ControlFrame
    <3> QED
      BY <1>1, <3>1, <3>2, CompleteRequest
  <2>6. ~SendsComplete
    <3>1. ASSUME SendsComplete
          PROVE  TransferComplete \/ CCMComplete(ccmLeft > 0)
      BY <2>2, <3>1 DEF SendsComplete, Multicast
    <3>2. ASSUME NEW prev, NEW flag, AsksForChunks(prev, flag)
          PROVE  sent'.type # "scm"
      BY <2>1, <3>2 DEF AsksForChunks, Send
    <3>3. ASSUME NEW state, NEW err, FinishesWith(state, err)
          PROVE  sent'.type # "scm"
      BY <2>1, <3>3 DEF FinishesWith, SendsNothing
    <3>4. ~TransferComplete
      BY <1>1, <3>2, <3>3 DEF TransferComplete
    <3>5. ~CCMComplete(ccmLeft > 0)
      BY <1>1, <3>2, <3>3 DEF CCMComplete
    <3> QED
      BY <3>1, <3>4, <3>5
  <2>7. ~OpensScmWindow /\ ~Repairs /\ ~GoesOn /\ ~ResendsChunks /\ ~FallsSilent
    BY <2>2 DEF OpensScmWindow, Repairs, GoesOn, ResendsChunks, FallsSilent
  <2> QED
    BY <1>1, <2>2, <2>3, <2>4, <2>5, <2>6, <2>7 DEF SystemNext, ServerStep
<1>2. Inv /\ SystemInv /\ [SystemNext]_systemVars
      => [sent'.type = "scm" /\ sent' # sent =>
            sent'.chunk = chunk /\ localChunkNumber' = chunk]_systemVars
  BY <1>1
<1> QED
  BY <1>2, SystemInvariance, SystemLeechInv, PTL DEF SystemSpec, RequestsMeetTheServer
=============================================================================
