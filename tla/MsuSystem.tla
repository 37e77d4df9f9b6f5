----------------------------- MODULE MsuSystem -----------------------------
(***************************************************************************)
(* The leech with a server.  MsuLeech lets any message arrive at any time; *)
(* here the messages come in the rounds the handlers of MsuLeech.c and the *)
(* parameters of MsuPdu.h (MSU_DEVPARAM_SCMRETRY, MSU_DEVPARAM_CCMRETRY)   *)
(* are written for.  The server sends each chunk, waits for SCM requests,  *)
(* repeats what was asked for, says so with SCMComplete, and so on to the  *)
(* TRANSFER_COMPLETE and the CCM rounds after it.  The network keeps the   *)
(* order but may lose every message in either direction.                   *)
(*                                                                         *)
(* The server is shipped without sources: its actions are external.  Its   *)
(* waits are far below the timeout of the client (updateTimeout), so that  *)
(* the leech times out only when the server has nothing more to say.       *)
(***************************************************************************)
EXTENDS MsuLeech

CONSTANTS
  ScmRetries,   \* how often a chunk may be repaired again
  CcmRetries,   \* how often missing chunks may be sent again
  MaxLoss       \* lost data packets are counted up to this bound

ASSUME SystemAssumption ==
  ScmRetries \in Nat /\ CcmRetries \in Nat /\ MaxLoss \in Nat \ {0}

VARIABLES
  round,         \* what the server does
  todo,          \* the chunks it has to send after this one
  chunk,         \* the chunk it is at
  seqs,          \* the sequences of the chunk it has to send yet
  heardSeqs,     \* the SCM request it has heard
  heardChunks,   \* the CCM request it has heard
  scmLeft,       \* repairs of this chunk left
  ccmLeft,       \* CCM rounds left
  lost           \* history: messages of the announced session lost, by kind

serverVars == <<round, todo, chunk, seqs, heardSeqs, heardChunks, scmLeft, ccmLeft>>
heardVars  == <<heardSeqs, heardChunks>>

Rounds == {"silent", "chunk", "repair", "scmWindow", "fileSent", "ccmWindow"}

\* Data packets, and all other messages of either side.
Kinds == {"data", "control"}

First(S) == CHOOSE x \in S : \A y \in S : x <= y

SystemInit ==
  /\ Init
  /\ round = "silent"
  /\ todo = {}
  /\ chunk = 0
  /\ seqs = {}
  /\ heardSeqs = {}
  /\ heardChunks = {}
  /\ scmLeft = 0
  /\ ccmLeft = 0
  /\ lost = [k \in Kinds |-> 0]

-----------------------------------------------------------------------------
(* The network. *)

\* Of control messages it is enough to know that one was lost.
Cap(kind) == IF kind = "data" THEN MaxLoss ELSE 1

Counted(kind) == [lost EXCEPT ![kind] = IF @ < Cap(kind) THEN @ + 1 ELSE @]

(***************************************************************************)
(* What the leech has just sent reaches the server or is lost.  A request  *)
(* for sequences may be lost whatever the network does: msuSendScmMsg      *)
(* leaves the address of the server unset.                                 *)
(***************************************************************************)
Answer ==
  \/ /\ heardSeqs' = IF sent'.type = "scm" THEN sent'.seqs ELSE heardSeqs
     /\ heardChunks' = IF sent'.type = "ccm" THEN sent'.chunks ELSE heardChunks
     /\ UNCHANGED lost
  \/ /\ sent'.type \in {"scm", "ccm"}
     /\ lost' = Counted("control")
     /\ UNCHANGED heardVars

\* The leech receives a message by the step recv, or the message is lost: on
\* the way, or because the leech is not in the session.
Multicast(kind, recv) ==
  \/ recv /\ Answer
  \/ /\ lost' = IF eMsuState \in Receiving \cup {"Listen", "Start"}
                THEN Counted(kind) ELSE lost
     /\ UNCHANGED <<vars, heardVars>>

-----------------------------------------------------------------------------
(* The server. *)

Announce(y) ==
  /\ round = "silent"
  /\ ListenSync(y)
  /\ round' = "chunk"
  /\ chunk' = 1
  /\ seqs' = 1 .. NumSeqs(y, 1)
  /\ todo' = 2 .. y.chunkCount
  /\ heardSeqs' = {}
  /\ heardChunks' = {}
  /\ scmLeft' = ScmRetries + 1
  /\ ccmLeft' = CcmRetries + 1
  /\ lost' = [k \in Kinds |-> 0]

SendsSeq ==
  /\ round \in {"chunk", "repair"}
  /\ seqs # {}
  /\ \E p \in DataPackets(sync) :
       /\ p.chunk = chunk
       /\ p.seq = First(seqs)
       /\ Multicast("data", DataPacket(p))
  /\ seqs' = seqs \ {First(seqs)}
  /\ UNCHANGED <<round, todo, chunk, scmLeft, ccmLeft>>

OpensScmWindow ==
  /\ round = "chunk"
  /\ seqs = {}
  /\ round' = "scmWindow"
  /\ UNCHANGED <<vars, todo, chunk, seqs, heardVars, scmLeft, ccmLeft, lost>>

\* The missing sequences are out: the leech is told, and whether it may ask again.
SendsScmComplete ==
  /\ round = "repair"
  /\ seqs = {}
  /\ Multicast("control", SCMComplete(scmLeft > 0))
  /\ round' = "scmWindow"
  /\ UNCHANGED <<todo, chunk, seqs, scmLeft, ccmLeft>>

Repairs ==
  /\ round = "scmWindow"
  /\ heardSeqs # {} /\ scmLeft > 0
  /\ round' = "repair"
  /\ seqs' = heardSeqs \cap (1 .. NumSeqs(sync, chunk))
  /\ heardSeqs' = {}
  /\ scmLeft' = scmLeft - 1
  /\ UNCHANGED <<vars, todo, chunk, heardChunks, ccmLeft, lost>>

\* The server goes on with the first chunk of S.
GoesTo(S) ==
  /\ round' = "chunk"
  /\ chunk' = First(S)
  /\ seqs' = 1 .. NumSeqs(sync, First(S))
  /\ todo' = S \ {First(S)}
  /\ heardSeqs' = {}
  /\ scmLeft' = ScmRetries + 1

GoesOn ==
  /\ round = "scmWindow"
  /\ heardSeqs = {} \/ scmLeft = 0
  /\ \/ /\ todo # {}
        /\ GoesTo(todo)
     \/ /\ todo = {}
        /\ round' = "fileSent"
        /\ UNCHANGED <<todo, chunk, seqs, heardSeqs, scmLeft>>
  /\ UNCHANGED <<vars, heardChunks, ccmLeft, lost>>

\* After the file the TRANSFER_COMPLETE, after each CCM round a CCMComplete.
SendsComplete ==
  /\ round = "fileSent"
  /\ Multicast("control", IF ccmLeft > CcmRetries THEN TransferComplete
                          ELSE CCMComplete(ccmLeft > 0))
  /\ round' = "ccmWindow"
  /\ UNCHANGED <<todo, chunk, seqs, scmLeft, ccmLeft>>

ResendsChunks ==
  /\ round = "ccmWindow"
  /\ heardChunks # {} /\ ccmLeft > 0
  /\ GoesTo(heardChunks)
  /\ heardChunks' = {}
  /\ ccmLeft' = ccmLeft - 1
  /\ UNCHANGED <<vars, lost>>

FallsSilent ==
  /\ round = "ccmWindow"
  /\ heardChunks = {} \/ ccmLeft = 0
  /\ round' = "silent"
  /\ UNCHANGED <<vars, todo, chunk, seqs, heardVars, scmLeft, ccmLeft, lost>>

ServerStep ==
  \/ SendsSeq \/ OpensScmWindow \/ SendsScmComplete \/ Repairs \/ GoesOn
  \/ SendsComplete \/ ResendsChunks \/ FallsSilent

-----------------------------------------------------------------------------
(* The leech. *)

LeechStep ==
  /\ MachineStep \/ ListenReplaysSync
  /\ UNCHANGED <<serverVars, lost>>

LeechTimeout ==
  /\ round = "silent"
  /\ RecvTimeout
  /\ UNCHANGED <<serverVars, lost>>

SystemNext ==
  \/ \E y \in Syncs : Announce(y)
  \/ ServerStep
  \/ LeechStep
  \/ LeechTimeout

systemVars == <<vars, serverVars, lost>>

(***************************************************************************)
(* The task of the leech is scheduled again and again, its timer expires,  *)
(* and the server goes through with its rounds.  An open that is tried     *)
(* again and again succeeds some time.                                     *)
(***************************************************************************)
Fairness ==
  /\ WF_systemVars(LeechStep)
  /\ WF_systemVars(LeechTimeout)
  /\ WF_systemVars(ServerStep)
  /\ SF_systemVars(StartSession /\ UNCHANGED <<serverVars, lost>>)

SystemSpec == SystemInit /\ [][SystemNext]_systemVars /\ Fairness

-----------------------------------------------------------------------------
(* Properties. *)

\* The types of the leech's variables, and of those of this module.
SystemTypeOK ==
  /\ TypeOK
  /\ round \in Rounds
  /\ todo \in SUBSET Chunks
  /\ chunk \in 0 .. MaxChunk
  /\ seqs \in SUBSET Seqs
  /\ heardSeqs \in SUBSET Seqs
  /\ heardChunks \in SUBSET Chunks
  /\ scmLeft \in 0 .. (ScmRetries + 1)
  /\ ccmLeft \in 0 .. (CcmRetries + 1)
  /\ lost \in [Kinds -> 0 .. MaxLoss]

\* The server has heard the leech ask for sequences of this chunk, or sends what
\* it has asked for.
Repairing == round = "repair" \/ (round \in {"chunk", "scmWindow"} /\ heardSeqs # {})

\* The leech is at the chunk it asked for, or has completed it and has nothing of
\* it left to ask for.
AtItsRequest ==
  \/ eMsuState = "SCM" /\ localChunkNumber = chunk /\ mcastChunk = chunk
  \/ /\ recvdSeqBitMap = {} /\ tempMissed = {}
     /\ eMsuState \in {"Running", "CCM"} /\ eMsuState = eMsuPrevState
     /\ eMsuState = "Running" => chunk < localChunkNumber
     /\ eMsuState = "CCM" => IsChnkRecvd(recvdChnk, chunk)

\* A leech that was heard stays with the chunk it asked for until the server is
\* through with it.
LeechStaysWithItsRequest == Repairing /\ eMsuState \in Receiving => AtItsRequest

\* The server hears a request only from a session of its own announcement, and
\* none while it repairs.
RequestsAreOfThisSession ==
  /\ eMsuState = "Start" \/ (eMsuState = "Listen" /\ msuDefaultSocket # "open")
       => ~Repairing
  /\ round = "repair" => heardSeqs = {}

\* The inductive invariant of the proofs, beside the Inv of the leech.
SystemInv == SystemTypeOK /\ LeechStaysWithItsRequest /\ RequestsAreOfThisSession

\* Over a network that keeps the order, msuPduHandleSCMCompleteRequest and the
\* handlers name the chunk the server is at, and the bits they send are bits of
\* that chunk: the request of scm_names_chunk needs a late packet.
RequestsMeetTheServer ==
  [][sent'.type = "scm" /\ sent' # sent =>
       sent'.chunk = chunk /\ localChunkNumber' = chunk]_systemVars

\* Whatever is lost, in whatever state the server leaves it, a leech in a
\* session comes back to a default socket on which it hears the next one.
SessionsEnd ==
  (eMsuState \in Receiving) ~> (eMsuState = "Listen" /\ msuDefaultSocket = "open")

\* How many lost data packets the rounds make good.  A file that fills its
\* last chunk is not complete after SCM (ScmNoOfSeq is 0 there), and CCM does
\* not complete a chunk whose last sequence it has: two losses there are too many.
Repairable == IF sync.tailSeqs = 0 THEN 1 ELSE 2

\* A session in which no other message is lost reports Passed whichever data
\* packets are lost, the repeated ones included, up to that number: SCM and CCM
\* together find every gap, and the server is asked for it in time.
FewLossesAreRepaired ==
  (eMsuState = "Running") ~>
    \/ lost["data"] > Repairable \/ lost["control"] > 0
    \/ sent.type = "status" /\ sent.result = "Passed"

\* A leech that listens on the socket it has closed, after a failed start, gets
\* an open one again: the sync message in its buffer starts it once more.
DeafnessEnds ==
  (eMsuState = "Listen" /\ msuDefaultSocket = "closed")
    ~> (eMsuState = "Listen" /\ msuDefaultSocket = "open")
=============================================================================
