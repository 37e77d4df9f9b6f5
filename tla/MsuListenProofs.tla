-------------------------- MODULE MsuListenProofs --------------------------
(***************************************************************************)
(* Proofs about module MsuListen: the result a status response carries is  *)
(* that of the update it names, for every set of sessions, transactions    *)
(* and faults.                                                             *)
(***************************************************************************)
EXTENDS MsuListen, MsuLeechProofs

\* What ties the status to the history while no session runs: a start, or the
\* wait after a failed one, is for an update with no outcome yet; a leech that
\* hears, or is about to, has the outcome of the last update in its status.
IdleStatus ==
  /\ eMsuState = "Initialize" => accepted = 0
  /\ eMsuState = "Start" => msuDefaultSocket # "open"
  /\ eMsuState = "Listen" /\ msuDefaultSocket # "open" =>
       /\ transactionID = accepted
       /\ accepted # 0
       /\ outcome[accepted] = "none"
  /\ \/ eMsuState \in {"LoopBack", "Configure"}
     \/ eMsuState = "Listen" /\ msuDefaultSocket = "open"
     => (accepted # 0 => deviceUpgadeStatus = outcome[accepted])

\* The inductive invariant.
ListenProofInv ==
  Inv /\ ListenTypeOK /\ SessionKeepsItsTransaction /\ IdleStatus /\ StatusIsTheOutcome

\* Every step but a rejected sync message is one of the leech, or none.
LEMMA ListenStep ==
  ASSUME ListenNext
  PROVE  [Next]_vars \/ \E t \in Transactions : HearsBadSync(t)
  BY DEF ListenNext, HearsDiscovery, HearsAuthentication, HearsGroup, HearsStatusRequest,
         HearsSync, ListenInitialize, SessionEnds, SessionStep, Next, MachineStep, Listen

\* A rejected sync message leaves the invariant of the leech alone.
LEMMA BadSyncKeeps ==
  ASSUME Inv, NEW t \in Transactions, HearsBadSync(t)
  PROVE  Inv'
<1> USE DEF HearsBadSync, Hears, seqVars, ccmVars, pduVars
<1>1. TypeOK'
  BY MessageTypes DEF Inv, TypeOK, EarlyRejects, CrcZero, SentType
<1>2. SessionHasSync' /\ StatusEndsSession' /\ PassedMeansDelivered'
  BY DEF Inv, SessionHasSync, StatusEndsSession, PassedMeansDelivered, InSession,
         Receiving, NoMsg
<1>3. SessionsStartClean' /\ RunningHasChunk' /\ SessionHoldsItsHandles'
  BY DEF Inv, SessionsStartClean, RunningHasChunk, SessionHoldsItsHandles, InSession,
         Receiving
<1>4. BitsBelongToTheirChunk' /\ ScmNeverHoldsEmptyMiss' /\ DoneMeansNothingMissing'
  BY DEF Inv, BitsBelongToTheirChunk, ScmNeverHoldsEmptyMiss, DoneMeansNothingMissing,
         InSession, Receiving
<1>5. MarkedChunksWereDelivered'
  BY DEF Inv, SessionsStartClean, MarkedChunksWereDelivered, InSession, Receiving
<1> QED
  BY <1>1, <1>2, <1>3, <1>4, <1>5 DEF Inv

LEMMA ListenInitInv == ListenInit => ListenProofInv
<1> SUFFICES ASSUME ListenInit
             PROVE  ListenProofInv
  OBVIOUS
<1>1. Inv
  BY InitInv DEF ListenInit
<1>2. eMsuState = "Initialize"
  BY DEF ListenInit, Init
<1> QED
  BY <1>1, <1>2
     DEF ListenInit, ListenProofInv, ListenTypeOK, SessionKeepsItsTransaction, IdleStatus,
         StatusIsTheOutcome, NoReply, InSession, Receiving

\* A message on the default socket that is not a valid sync message.
LEMMA HearingKeeps ==
  ASSUME ListenProofInv,
         \/ HearsDiscovery \/ HearsAuthentication
         \/ \E g \in Groups \cup {0} : HearsGroup(g)
         \/ \E t \in Transactions \cup {0} : HearsStatusRequest(t)
         \/ \E t \in Transactions : HearsBadSync(t)
  PROVE  /\ ListenTypeOK' /\ SessionKeepsItsTransaction'
         /\ IdleStatus' /\ StatusIsTheOutcome'
<1> USE DEF ListenProofInv
<1>1. /\ eMsuState = "Listen" /\ msuDefaultSocket = "open"
      /\ UNCHANGED <<eMsuState, msuDefaultSocket, deviceUpgadeStatus, accepted, outcome>>
  BY DEF HearsDiscovery, HearsAuthentication, HearsGroup, HearsStatusRequest, HearsBadSync,
         Hears, vars, resVars, statVars
<1>2. transactionID' \in Transactions \cup {0} /\ gGroupID' \in Groups \cup {0}
  BY DEF HearsDiscovery, HearsAuthentication, HearsGroup, HearsStatusRequest, HearsBadSync,
         ListenTypeOK
<1>3. ListenTypeOK'
  BY <1>1, <1>2 DEF ListenTypeOK
<1>4. SessionKeepsItsTransaction' /\ IdleStatus'
  BY <1>1 DEF SessionKeepsItsTransaction, IdleStatus, InSession, Receiving
<1>5. StatusIsTheOutcome'
  <2>1. ASSUME NEW t, HearsStatusRequest(t)
        PROVE  reply'.type = "status" =>
                 reply'.result = deviceUpgadeStatus /\ reply'.transaction = t
    BY <2>1 DEF HearsStatusRequest, Answers, NoReply
  <2>2. CASE \E t \in Transactions \cup {0} : HearsStatusRequest(t)
    BY <1>1, <2>1, <2>2 DEF StatusIsTheOutcome, IdleStatus
  <2>3. CASE ~\E t \in Transactions \cup {0} : HearsStatusRequest(t)
    <3>1. reply'.type # "status"
      BY <2>3 DEF HearsDiscovery, HearsAuthentication, HearsGroup, HearsBadSync, Answers,
                  NoReply
    <3> QED
      BY <3>1 DEF StatusIsTheOutcome
  <2> QED
    BY <2>2, <2>3
<1> QED
  BY <1>3, <1>4, <1>5

\* A valid sync message starts a new update without outcome.
LEMMA SyncKeeps ==
  ASSUME ListenProofInv, NEW y \in Syncs, NEW t \in Transactions, HearsSync(y, t)
  PROVE  /\ ListenTypeOK' /\ SessionKeepsItsTransaction'
         /\ IdleStatus' /\ StatusIsTheOutcome'
<1>1. eMsuState' = "Start" /\ msuDefaultSocket' = "closed"
  BY DEF HearsSync, ListenSync
<1>2. /\ transactionID' = t /\ accepted' = t /\ t # 0
      /\ outcome' \in [Transactions -> {"none", "Passed", "Failed"}]
      /\ outcome'[t] = "none"
      /\ reply' = NoReply
  BY ListenAssumption DEF HearsSync, ListenProofInv, ListenTypeOK
<1>3. ListenTypeOK'
  BY <1>2 DEF HearsSync, ListenProofInv, ListenTypeOK
<1> QED
  BY <1>1, <1>2, <1>3
     DEF SessionKeepsItsTransaction, IdleStatus, StatusIsTheOutcome, NoReply, InSession,
         Receiving

\* How a session ended is known to its status and to the history alike.
LEMMA EndKeeps ==
  ASSUME ListenProofInv, SessionEnds
  PROVE  /\ ListenTypeOK' /\ SessionKeepsItsTransaction'
         /\ IdleStatus' /\ StatusIsTheOutcome'
<1>1. /\ accepted \in Transactions /\ accepted # 0 /\ transactionID = accepted
      /\ UNCHANGED <<accepted, transactionID, gGroupID>>
      /\ eMsuState' = "LoopBack"
      /\ reply' = NoReply
  BY DEF SessionEnds, Abort, Done, ListenProofInv, ListenTypeOK, SessionKeepsItsTransaction,
         InSession, Receiving
<1>2. outcome' = [outcome EXCEPT ![accepted] = deviceUpgadeStatus']
  <2>1. CASE Abort
    BY <2>1 DEF SessionEnds, Abort
  <2>2. CASE Done
    <3>1. deviceUpgadeStatus' = "Passed"
      BY <2>2 DEF Done, ListenProofInv, Inv, DoneMeansNothingMissing, Missing
    <3>2. AllPackets(sync) \subseteq delivered
      BY <2>2 DEF Done, ListenProofInv, Inv, DoneMeansNothingMissing,
                  MarkedChunksWereDelivered, Missing, GetMissedChnkNums, IsChnkRecvd,
                  AllPackets
    <3> QED
      BY <2>2, <3>1, <3>2 DEF SessionEnds, Done
  <2> QED
    BY <2>1, <2>2 DEF SessionEnds
<1>3. deviceUpgadeStatus' \in {"Passed", "Failed"}
  BY DEF SessionEnds, Abort, Done
<1> QED
  BY <1>1, <1>2, <1>3
     DEF ListenProofInv, ListenTypeOK, SessionKeepsItsTransaction, IdleStatus,
         StatusIsTheOutcome, NoReply, InSession, Receiving

\* The other steps leave the transaction and the history alone.
LEMMA SessionKeeps ==
  ASSUME ListenProofInv, SessionStep \/ ListenInitialize
  PROVE  /\ ListenTypeOK' /\ SessionKeepsItsTransaction'
         /\ IdleStatus' /\ StatusIsTheOutcome'
<1> USE DEF ListenProofInv
<1>1. StatusIsTheOutcome' /\ ListenTypeOK'
  BY DEF SessionStep, ListenInitialize, NoReply, StatusIsTheOutcome, ListenTypeOK
<1> SUFFICES SessionKeepsItsTransaction' /\ IdleStatus'
  BY <1>1
<1>2. CASE ListenInitialize
  BY <1>2
     DEF ListenInitialize, Initialize, SessionKeepsItsTransaction, IdleStatus, InSession,
         Receiving
<1>3. CASE SessionStep
  <2>1. UNCHANGED <<transactionID, accepted, outcome>>
    BY <1>3 DEF SessionStep
  <2>2. CASE Configure
    BY <2>1, <2>2
       DEF Configure, statVars, SessionKeepsItsTransaction, IdleStatus, InSession, Receiving
  <2>3. CASE StartSession
    BY <2>1, <2>3
       DEF StartSession, SessionKeepsItsTransaction, IdleStatus, InSession, Receiving
  <2>4. CASE StartFails
    BY <2>1, <2>4
       DEF StartFails, SessionKeepsItsTransaction, IdleStatus, InSession, Receiving
  <2>5. CASE LoopBack
    BY <2>1, <2>5
       DEF LoopBack, statVars, SessionKeepsItsTransaction, IdleStatus, InSession, Receiving
  <2>6. CASE ListenReplaysSync
    BY <2>1, <2>6
       DEF ListenReplaysSync, resVars, SessionKeepsItsTransaction, IdleStatus, InSession,
           Receiving
  <2>7. CASE ReceiveStep \/ RecvTimeout
    <3>1. eMsuState \in Receiving /\ eMsuState' \in Receiving \cup {"Done", "Abort"}
      BY <2>7, ReceiveFrame DEF Inv
    <3> QED
      BY <2>1, <3>1 DEF SessionKeepsItsTransaction, IdleStatus, InSession, Receiving
  <2> QED
    BY <1>3, <2>2, <2>3, <2>4, <2>5, <2>6, <2>7 DEF SessionStep
<1> QED
  BY <1>2, <1>3

LEMMA ListenInvStep == ListenProofInv /\ [ListenNext]_<<vars, listenVars>> => ListenProofInv'
<1> SUFFICES ASSUME ListenProofInv, [ListenNext]_<<vars, listenVars>>
             PROVE  ListenProofInv'
  OBVIOUS
<1>1. CASE UNCHANGED <<vars, listenVars>>
  <2>1. Inv'
    BY <1>1, InvStep DEF ListenProofInv
  <2> QED
    BY <1>1, <2>1
       DEF vars, resVars, statVars, listenVars, ListenProofInv, ListenTypeOK,
           SessionKeepsItsTransaction, IdleStatus, StatusIsTheOutcome
<1>2. CASE ListenNext
  <2>1. Inv'
    BY <1>2, ListenStep, InvStep, BadSyncKeeps DEF ListenProofInv
  <2> QED
    BY <1>2, <2>1, HearingKeeps, SyncKeeps, EndKeeps, SessionKeeps
       DEF ListenNext, ListenProofInv
<1> QED
  BY <1>1, <1>2

\* A status response about the last update the leech took part in tells how it
\* ended: no failed start, rejected sync message or other session changes that.
THEOREM StatusTellsTheOutcome == ListenSpec => []StatusIsTheOutcome
<1>1. ListenProofInv => StatusIsTheOutcome
  BY DEF ListenProofInv
<1> QED
  BY <1>1, ListenInitInv, ListenInvStep, PTL DEF ListenSpec

\* The invariants of the listening leech: its types, and that each session is
\* one of the transaction it was started for.
THEOREM ListeningIsSound == ListenSpec => []ListenInv
<1>1. ListenProofInv => ListenInv
  BY DEF ListenProofInv, ListenInv, Inv
<1> QED
  BY <1>1, ListenInitInv, ListenInvStep, PTL DEF ListenSpec

\* With discovery, groups and rejected sync messages between its sessions too,
\* a leech reports success only with every packet of the file.
THEOREM ListeningPassedIsDelivered == ListenSpec => []PassedMeansDelivered
<1>1. ListenProofInv => PassedMeansDelivered
  BY DEF ListenProofInv, Inv
<1> QED
  BY <1>1, ListenInitInv, ListenInvStep, PTL DEF ListenSpec

\* A rejected sync message withdraws an announcement of UpgradeSession.
LEMMA BadSyncImplements ==
  ASSUME Inv, NEW t \in Transactions, HearsBadSync(t)
  PROVE  Session!Withdraw
<1>1. /\ eMsuState = "Listen" /\ eMsuState' = "Listen"
      /\ sync' = NoSync /\ sent' = NoMsg /\ delivered' = delivered
  BY DEF HearsBadSync, Hears, pduVars
<1>2. Phase = "idle" /\ Phase' = "idle"
  BY <1>1 DEF Phase, InSession, Receiving
<1>3. Reported' = "none"
  BY <1>1, ReportFacts DEF Reported
<1> QED
  BY <1>1, <1>2, <1>3 DEF Session!Withdraw

\* The listening leech implements UpgradeSession: what it hears between sessions
\* announces a file, withdraws an announcement, or is no step of a session.
THEOREM ListeningImplementsSession == ListenSpec => ImplementsSession
<1>1. ListenInit => Session!Init
  BY InitImplements DEF ListenInit
<1>2. ListenProofInv /\ ListenProofInv' /\ [ListenNext]_<<vars, listenVars>>
        => [Session!Next]_(Session!vars)
  <2> SUFFICES ASSUME Inv, Inv', [ListenNext]_<<vars, listenVars>>
               PROVE  [Session!Next]_(Session!vars)
    BY DEF ListenProofInv
  <2>1. CASE [Next]_vars
    BY <2>1, StepImplements
  <2>2. CASE \E t \in Transactions : HearsBadSync(t)
    BY <2>2, BadSyncImplements DEF Session!Next
  <2> QED
    BY <2>1, <2>2, ListenStep
<1> QED
  BY <1>1, <1>2, ListenInitInv, ListenInvStep, PTL
     DEF ListenSpec, ImplementsSession, Session!Spec
=============================================================================
