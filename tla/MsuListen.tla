------------------------------ MODULE MsuListen ------------------------------
(***************************************************************************)
(* The leech on its default socket: between sessions msuSocketGetPacket    *)
(* answers discovery, authentication and group messages, reports the       *)
(* status of an update to a server that asks for it, and takes or rejects  *)
(* sync messages.  The module adds these to MsuLeech, with the transaction *)
(* id of msuBroadcastPdu and the group of the device, which the steps of a *)
(* session leave alone.                                                    *)
(***************************************************************************)
EXTENDS MsuLeech

CONSTANTS
  Transactions,   \* the ids a server may give to an update; never 0
  Groups          \* the group ids a server may assign; 0 is no group

ASSUME ListenAssumption == Transactions \subseteq Nat \ {0} /\ Groups \subseteq Nat \ {0}

VARIABLES
  transactionID,   \* msuBroadcastPdu.msuSyncHeaderformat.transactionID
  gGroupID,
  reply,           \* the message the last step sent on the default socket
  accepted,        \* history: the transaction of the last sync message taken
  outcome          \* history: how the last session of each transaction ended

listenVars == <<transactionID, gGroupID, reply, accepted, outcome>>

NoReply == [type |-> "none"]

\* msuSocketProcessSyncMessage checks the fields in the order it copies them:
\* the codes of the fields before the transaction id, and of the checksum after.
EarlyRejects == {12, 21}   \* of 12 .. 21, 23 and 24: the first and the last
CrcZero      == 22

ListenInit ==
  /\ Init
  /\ transactionID = 0
  /\ gGroupID = 0
  /\ reply = NoReply
  /\ accepted = 0
  /\ outcome = [t \in Transactions |-> "none"]

-----------------------------------------------------------------------------
(* A message on the default socket. *)

Hears == eMsuState = "Listen" /\ msuDefaultSocket = "open"

\* The leech answers m, or the send fails, which nobody is told.
Answers(m) ==
  \E ok \in Outcomes("send") : reply' = IF ok THEN m ELSE NoReply

\* The answer to a discovery request depends on the group and on nothing else
\* here; an authentication request is always answered.
HearsDiscovery ==
  /\ Hears
  /\ Answers([type |-> "discovery", group |-> gGroupID])
  /\ UNCHANGED <<vars, transactionID, gGroupID, accepted, outcome>>

HearsAuthentication ==
  /\ Hears
  /\ \E valid \in BOOLEAN : Answers([type |-> "authentication", valid |-> valid])
  /\ UNCHANGED <<vars, transactionID, gGroupID, accepted, outcome>>

\* SET_GROUP with a group of Groups, RESET_GROUP with 0.  A message of another
\* size changes nothing and is acknowledged all the same.  The acknowledgement
\* carries the group the leech is in then.
HearsGroup(g) ==
  /\ Hears
  /\ \/ gGroupID' = g
     \/ UNCHANGED gGroupID
  /\ Answers([type |-> "groupAck", group |-> gGroupID'])
  /\ UNCHANGED <<vars, transactionID, accepted, outcome>>

\* A status request is answered if it names the transaction in msuBroadcastPdu.
HearsStatusRequest(t) ==
  /\ Hears
  /\ IF t = transactionID
     THEN Answers([type |-> "status", transaction |-> t, result |-> deviceUpgadeStatus,
                   error |-> MsuGlobalError, ccmRetry |-> ccmRetryCount])
     ELSE reply' = NoReply
  /\ UNCHANGED <<vars, transactionID, gGroupID, accepted, outcome>>

(***************************************************************************)
(* A rejected sync message.  msuBroadcastPdu was cleared before and keeps  *)
(* the fields up to the one at fault; nothing reads them before the next   *)
(* sync message but the status request, which reads the transaction id.    *)
(***************************************************************************)
HearsBadSyncInSession(t) ==   \* mutant
  /\ Hears \/ eMsuState = "Running"
  /\ transactionID' = 0
  /\ MsuGlobalError' \in EarlyRejects
  /\ sync' = NoSync
  /\ sent' = NoMsg
  /\ reply' = NoReply
  /\ UNCHANGED <<eMsuState, eMsuPrevState, seqVars, ccmVars, pduVars, msuDefaultSocket,
                 msuUpdateSocket, pMsuFileDes, deviceUpgadeStatus, gGroupID,
                 accepted, outcome>>

HearsBadSync(t) ==
  /\ Hears
  /\ \/ /\ transactionID' = 0
        /\ MsuGlobalError' \in EarlyRejects
     \/ /\ transactionID' = t
        /\ MsuGlobalError' = CrcZero
  /\ sync' = NoSync
  /\ sent' = NoMsg
  /\ reply' = NoReply
  /\ UNCHANGED <<eMsuState, eMsuPrevState, seqVars, ccmVars, pduVars, msuDefaultSocket,
                 msuUpdateSocket, pMsuFileDes, deviceUpgadeStatus, gGroupID,
                 accepted, outcome>>

HearsSyncWithoutId(y, t) ==   \* mutant
  /\ ListenSync(y)
  /\ accepted' = t
  /\ outcome' = [outcome EXCEPT ![t] = "none"]
  /\ reply' = NoReply
  /\ UNCHANGED <<transactionID, gGroupID>>

HearsSync(y, t) ==
  /\ ListenSync(y)
  /\ transactionID' = t
  /\ accepted' = t
  /\ outcome' = [outcome EXCEPT ![t] = "none"]
  /\ reply' = NoReply
  /\ UNCHANGED gGroupID

-----------------------------------------------------------------------------
(* The steps of the session. *)

\* msuPduInit
ListenInitialize ==
  /\ Initialize
  /\ transactionID' = 0
  /\ gGroupID' = 0
  /\ reply' = NoReply
  /\ UNCHANGED <<accepted, outcome>>

\* How the session ends is known to the history from what has arrived.
SessionEnds ==
  /\ Abort \/ Done
  /\ outcome' = [outcome EXCEPT ![accepted] =
       IF eMsuState = "Done" /\ AllPackets(sync) \subseteq delivered
       THEN "Passed" ELSE "Failed"]
  /\ reply' = NoReply
  /\ UNCHANGED <<transactionID, gGroupID, accepted>>

SessionStep ==
  /\ \/ Configure \/ StartSession \/ StartFails \/ LoopBack
     \/ ListenReplaysSync \/ ReceiveStep \/ RecvTimeout
  /\ reply' = NoReply
  /\ UNCHANGED <<transactionID, gGroupID, accepted, outcome>>

ListenNext ==
  \/ HearsDiscovery
  \/ HearsAuthentication
  \/ \E g \in Groups \cup {0} : HearsGroup(g)
  \/ \E t \in Transactions \cup {0} : HearsStatusRequest(t)
  \/ \E t \in Transactions : HearsBadSync(t)
  \/ \E y \in Syncs, t \in Transactions : HearsSync(y, t)
  \/ ListenInitialize
  \/ SessionEnds
  \/ SessionStep

ListenSpec == ListenInit /\ [][ListenNext]_<<vars, listenVars>>

-----------------------------------------------------------------------------
(* Properties. *)

\* The type of the variables of this module.
ListenTypeOK ==
  /\ transactionID \in Transactions \cup {0}
  /\ gGroupID \in Groups \cup {0}
  /\ accepted \in Transactions \cup {0}
  /\ outcome \in [Transactions -> {"none", "Passed", "Failed"}]

\* A status response about the last update the leech took part in tells how
\* that update ended, and there is none before it has ended: through failed
\* starts, aborts, rejected sync messages and other sessions of the same id.
StatusIsTheOutcome ==
  reply.type = "status" /\ reply.transaction = accepted /\ accepted # 0
    => reply.result = outcome[accepted]

\* Every session belongs to the transaction of the sync message it was started
\* from, although the id is read again, from msuBroadcastPdu, to report it.
SessionKeepsItsTransaction ==
  eMsuState \in InSession \cup {"Start"} =>
    /\ transactionID = accepted
    /\ accepted # 0
    /\ outcome[accepted] # "none" => eMsuState = "LoopBack"

\* The invariants of the listening leech together with the types.
ListenInv == TypeOK /\ ListenTypeOK /\ SessionKeepsItsTransaction
=============================================================================
