---------------------------- MODULE MsuIdentity ----------------------------
(***************************************************************************)
(* How a client makes itself known: the discovery, group and               *)
(* authentication messages of MsuPdu.c, which msuSocketGetPacket hands out *)
(* while the leech listens.  They come in any order and any number, and    *)
(* none of them touches the state of the leech (MsuListen has the sync and *)
(* the status request).                                                    *)
(*                                                                         *)
(* Three builds: "device" and "modbus" are the core with the two bodies of *)
(* BasicIdentification, "simulator" is the Linux client, which has its own *)
(* copy of MsuPdu.c.  Texts are sequences of bytes; the names of files and *)
(* of fields nobody compares are shortened to one byte.  A message that is *)
(* too short for its PDU has complete = FALSE.                             *)
(***************************************************************************)
EXTENDS Integers, FiniteSets, SequencesExt

CONSTANTS
  Requests,      \* the authentication requests the server may send
  StoredInfos,   \* what a complete msu.bin may hold
  MaxGroup,      \* the largest group number
  ClientIP,      \* the address of the client
  Addresses      \* the bounds of a discovery range

Builds == {"device", "modbus", "simulator"}

ASSUME MaxGroupAssumption == MaxGroup \in Nat

GroupIds == 0 .. MaxGroup
NoGroup  == -1

\* What a text is made of: 7-bit characters, none of them the end of a C string.
Characters == 1 .. 127

MaxIPs   == 10   \* the most servers and the most files msuAuthenticationRequest
MaxFiles == 3    \* looks up

\* A key the server and the device have agreed on; and no entry is counted that
\* is not there, although there may be more than are counted.
ASSUME StoredInfosAssumption ==
  \A i \in StoredInfos :
    /\ i.key \in Seq(Characters) \ {<<>>}
    /\ i.noOfIPs > MaxIPs \/ i.noOfIPs \in 0 .. Len(i.ips)
    /\ i.noOfFileSupported > MaxFiles \/ i.noOfFileSupported \in 0 .. Len(i.files)

VARIABLES
  build,
  littleEndian,           \* the byte order of the simulator's machine
  msuDeviceInfo,
  deviceidentification,   \* length of each field, 0: isFieldPresent = FALSE
  gGroupID,
  reply,                  \* the last message sent
  reported,               \* history: the group the server was told last
  untold                  \* history: the group changed, its ack was not sent

vars == <<build, littleEndian, msuDeviceInfo, deviceidentification, gGroupID,
          reply, reported, untold>>

buildVars == <<build, littleEndian, msuDeviceInfo>>

-----------------------------------------------------------------------------
(* The device information: msuGetDeviceInfo. *)

Admin    == <<97, 100, 109, 105, 110>>
TextKey  == <<116, 101, 120, 116, 49>>   \* MSU_DEFAULT_KEY, "text1"
ServerIP == <<192, 168, 2, 11>>          \* MSU_DEFAULT_SERVER_IP, network order

App2  == <<65>>
Text1 == <<66>>
Text2 == <<67>>

DeviceDefaults ==
  [level |-> 1, noOfIPs |-> 1, ips |-> <<ServerIP>>, noOfFileSupported |-> 3,
   files |-> <<App2, Text1, Text2>>, user |-> Admin, password |-> Admin,
   key |-> TextKey]

\* The simulator's information has no key; what it uses is a static array.
SimDefaults ==
  [level |-> 1, noOfIPs |-> 1, ips |-> <<ServerIP>>, noOfFileSupported |-> 3,
   files |-> <<App2, Text1, Text2>>, user |-> Admin, password |-> Admin]

Key == IF build = "simulator" THEN TextKey ELSE msuDeviceInfo.key

\* The information in msu.bin, if all of it can be read.
DeviceInfo(i) ==
  \/ i \in StoredInfos
  \/ i = IF build = "simulator" THEN SimDefaults ELSE DeviceDefaults

-----------------------------------------------------------------------------
(* The identification of the device: BasicIdentification. *)

\* In the order of their fields in a discovery response.
IdTags == <<"hardwareId", "productId", "productName", "modelName", "vendorId",
            "firmwareVersion", "revision", "deviceLoc", "devMsuParam">>

NoIdentification == [t \in Range(IdTags) |-> 0]

DevMsuParamSize == 9

Hardware == <<49>>   \* "1"

DeviceIdentification ==
  [NoIdentification EXCEPT
     !.hardwareId = 1, !.productId = 12, !.productName = 19, !.vendorId = 9,
     !.firmwareVersion = 2, !.revision = 1, !.deviceLoc = 4]

\* Copied from the answer of the Modbus stack: VENDORNAME_LENGTH - 2 and so on.
ModbusIdentification ==
  [NoIdentification EXCEPT
     !.vendorId = 18, !.productName = 12, !.firmwareVersion = 2, !.revision = 1]

SimIdentification == [NoIdentification EXCEPT !.vendorId = 9]

BasicIdentification ==
  [b \in Builds |-> CASE b = "device"    -> DeviceIdentification
                      [] b = "modbus"    -> ModbusIdentification
                      [] b = "simulator" -> SimIdentification]

-----------------------------------------------------------------------------
(***************************************************************************)
(* The discovery response.  varlengthdata is cleared and the fields of the *)
(* identification id are copied into it one after the other; byte <<t, i>> *)
(* is the i-th byte of field t, and bytes past its text are zero.          *)
(***************************************************************************)
Zero == <<"zero", 0>>

Cleared == [data |-> [i \in 1 .. 127 |-> Zero], size |-> 0]

\* How many bytes of field t are copied.  A field is counted by its own
\* length, but as much of the revision is copied as the firmware version has.
Copied(id, t) == IF t = "revision" THEN id["firmwareVersion"] ELSE id[t]

CopyTo(data, offset, id, t) ==
  [i \in DOMAIN data |->
     CASE i - offset \in 1 .. Copied(id, t) ->
            IF i - offset <= id[t] THEN <<t, i - offset>> ELSE Zero
       [] OTHER -> data[i]]

PutAtLength(id, r, t) ==   \* mutant
  IF id[t] = 0 THEN r
  ELSE [data |-> CopyTo(r.data, r.size % 256, id, t), size |-> r.size + Copied(id, t)]

Put(id, r, t) ==
  IF id[t] = 0 THEN r
  ELSE [data |-> CopyTo(r.data, r.size % 256, id, t), size |-> r.size + id[t]]

\* The simulator copies the product id to the start of varlengthdata.
SimPut(id, r, t) ==
  IF t = "productId" /\ id[t] # 0
  THEN [data |-> CopyTo(r.data, 0, id, t), size |-> r.size + id[t]]
  ELSE Put(id, r, t)

\* The parameters of the transfer follow the fields in every response.
WithDevMsuParam(b) == [BasicIdentification[b] EXCEPT !.devMsuParam = DevMsuParamSize]

\* What varlengthdata holds after the n-th field.
DevicePayload(id) ==
  LET filled[n \in 0 .. Len(IdTags)] ==
        IF n = 0 THEN Cleared ELSE Put(id, filled[n - 1], IdTags[n])
  IN  filled[Len(IdTags)].data

SimPayload(id) ==
  LET filled[n \in 0 .. Len(IdTags)] ==
        IF n = 0 THEN Cleared ELSE SimPut(id, filled[n - 1], IdTags[n])
  IN  filled[Len(IdTags)].data

DiscoveryPayload ==
  [b \in Builds |-> IF b = "simulator" THEN SimPayload(WithDevMsuParam(b))
                                       ELSE DevicePayload(WithDevMsuParam(b))]

DiscoveryResponse ==
  [type    |-> "discovery",
   group   |-> gGroupID,
   lengths |-> WithDevMsuParam(build),
   data    |-> DiscoveryPayload[build]]

-----------------------------------------------------------------------------
(* The authentication request. *)

\* msuDecryption: one byte, and a text with the key repeated along it.
DecryptByte(c, k) == IF c < k THEN ((c + 128) % 256) - k ELSE c - k

KeyByte(i) == Key[((i - 1) % Len(Key)) + 1]

Decrypt(text) == [i \in DOMAIN text |-> DecryptByte(text[i], KeyByte(i))]

\* What the server makes of a text whose bytes are below 128.
Encrypt(text) == [i \in DOMAIN text |-> (text[i] + KeyByte(i)) % 128]

AuthTags == {"filename", "hardwareId", "productId", "modelname", "password",
             "username", "firmwareversion", "softwareversion", "vendorId",
             "productname"}

ASSUME RequestsAssumption ==
  \A req \in Requests : /\ req.present \subseteq AuthTags
                         /\ req.text \in [AuthTags -> Seq(Characters)]
                         /\ req.transaction \in [1 .. 4 -> 0 .. 255]

Encrypted(t) == t \in {"password", "username"}

\* The field of a request as it is sent, <<>> if its tag is not present.
Sent(req, t) ==
  IF t \notin req.present THEN <<>>
  ELSE IF Encrypted(t) THEN Encrypt(req.text[t]) ELSE req.text[t]

\* The server places the fields in the order of their tags in the header.
Payload(req) ==
  LET F(t) == Sent(req, t)
  IN  F("filename") \o F("hardwareId") \o F("productId") \o F("modelname")
        \o F("password") \o F("username") \o F("firmwareversion")
        \o F("softwareversion") \o F("vendorId") \o F("productname")

BeginsUserFirst(req, t) ==   \* mutant
  LET L(u)  == Len(Sent(req, u))
      login == L("filename") + L("hardwareId") + L("productId") + L("modelname")
  IN  CASE t = "filename"   -> 0
        [] t = "hardwareId" -> L("filename")
        [] t = "password"   -> login + L("username")
        [] t = "username"   -> login

\* Where msuAuthenticationRequest takes a field it compares from: pBuf has moved
\* by fieldLength for each tag present before it.
Begin(req, t) ==
  LET L(u)  == Len(Sent(req, u))
      login == L("filename") + L("hardwareId") + L("productId") + L("modelname")
  IN  CASE t = "filename"   -> 0
        [] t = "hardwareId" -> L("filename")
        [] t = "password"   -> login
        [] t = "username"   -> login + L("password")

\* A C string ends before its first zero.
CString(bytes) ==
  LET zeros == {i \in DOMAIN bytes : bytes[i] = 0}
  IN  IF zeros = {} THEN bytes
      ELSE SubSeq(bytes, 1, (CHOOSE i \in zeros : \A j \in zeros : i <= j) - 1)

Parsed(req, t) ==
  LET raw == SubSeq(Payload(req), Begin(req, t) + 1, Begin(req, t) + Len(Sent(req, t)))
  IN  CString(IF Encrypted(t) THEN Decrypt(raw) ELSE raw)

\* The first n entries of a table that has at most limit; no entry is looked at
\* if more are counted.
Counted(n, limit, entries) == IF n <= limit THEN {entries[i] : i \in 1 .. n} ELSE {}

KnownServers == Counted(msuDeviceInfo.noOfIPs, MaxIPs, msuDeviceInfo.ips)

Listed == Counted(msuDeviceInfo.noOfFileSupported, MaxFiles, msuDeviceInfo.files)

\* Skipped as long as no discovery has filled deviceidentification.
HardwareMatches(req) ==
  \/ "hardwareId" \notin req.present
  \/ deviceidentification["hardwareId"] = 0
  \/ IsPrefix(Parsed(req, "hardwareId"), Hardware)

\* The tests in their order, each with the subcode it answers if it fails.
DeviceTests(req) ==
  << <<req.level = msuDeviceInfo.level, 1>>,
     <<\E i \in 1 .. 4 : Decrypt(req.transaction)[i] # 0, 6>>,
     <<req.serverIP = req.from /\ req.serverIP \in KnownServers, 2>>,
     <<Parsed(req, "username") = msuDeviceInfo.user, 3>>,
     <<Parsed(req, "password") = msuDeviceInfo.password, 3>>,
     <<"filename" \in req.present /\ Parsed(req, "filename") \in Listed, 4>>,
     <<HardwareMatches(req), 5>> >>

\* The simulator does not look at the level, and takes a file for a known one
\* if it differs from one of the list.
SimTests(req) ==
  << <<Parsed(req, "username") = msuDeviceInfo.user, 3>>,
     <<Parsed(req, "password") = msuDeviceInfo.password, 3>>,
     <<"filename" \in req.present /\ \E f \in Listed : Parsed(req, "filename") # f, 4>>,
     <<HardwareMatches(req), 5>> >>

\* 0, or the subcode of the first test that fails.
Verdict(tests) ==
  LET i == SelectInSeq(tests, LAMBDA t : ~t[1])
  IN  IF i = 0 THEN 0 ELSE tests[i][2]

AuthResponse(req, sub) ==
  [type |-> "authResponse", err |-> IF sub = 0 THEN 0 ELSE 1, sub |-> sub,
   request |-> req, checked |-> deviceidentification["hardwareId"] # 0]

\* The response is built over the request in gMsgBuffer and sent whatever the
\* parser returns: where nothing was filled in, the request goes back.
Echo(req) == [type |-> "authRequest", request |-> req]

\* The simulator fills in the error and its subcode alone for an address that it
\* does not accept: the request goes back with these two bytes in it.
EchoWithError(req) == [type |-> "authRequest", request |-> req, err |-> 1, sub |-> 2]

DeviceAnswer(req) ==
  IF ~req.complete THEN Echo(req)
  ELSE AuthResponse(req, Verdict(DeviceTests(req)))

\* The simulator reads the address without msuNtoHl, its socket layer with it.
SimServerIP(req) == IF littleEndian THEN Reverse(req.serverIP) ELSE req.serverIP

SimKnows(req) == SimServerIP(req) = req.from /\ req.from \in KnownServers

SimAnswerToAny(req) ==   \* mutant
  IF ~req.complete THEN Echo(req)
  ELSE AuthResponse(req, Verdict(SimTests(req)))

SimAnswer(req) ==
  IF ~req.complete THEN Echo(req)
  ELSE IF ~SimKnows(req) THEN EchoWithError(req)
  ELSE AuthResponse(req, Verdict(SimTests(req)))

-----------------------------------------------------------------------------
(* The group message. *)

GroupMessages ==
  [subcode : {"set", "reset", "ack"}, group : GroupIds, complete : {TRUE}]
    \cup {[subcode |-> "set", group |-> NoGroup, complete |-> FALSE]}

GroupAfterAnySize(m) ==   \* mutant
  CASE m.subcode = "set"   -> m.group
    [] m.subcode = "reset" -> 0
    [] OTHER               -> gGroupID

GroupAfter(m) ==
  CASE m.complete /\ m.subcode = "set"   -> m.group
    [] m.complete /\ m.subcode = "reset" -> 0
    [] OTHER                             -> gGroupID

\* The result of msuHandleDeviceGroupMsg: a message of the wrong size is TRUE.
GroupIsAcknowledged(m) == m.complete => m.subcode \in {"set", "reset"}

GroupAckEchoes(m) == [type |-> "groupAck", group |-> m.group]   \* mutant

GroupAck(m) == [type |-> "groupAck", group |-> gGroupID']

-----------------------------------------------------------------------------
(* The actions: one per message of msuSocketGetPacket. *)

Nothing == [type |-> "none"]

Init ==
  /\ build \in Builds
  /\ littleEndian \in (IF build = "simulator" THEN BOOLEAN ELSE {FALSE})
  /\ \E i \in StoredInfos \cup {DeviceDefaults, SimDefaults} :
       DeviceInfo(i) /\ msuDeviceInfo = i
  /\ deviceidentification = NoIdentification
  /\ gGroupID = 0
  /\ reply = Nothing
  /\ reported = NoGroup
  /\ untold = FALSE

\* A message that names the group goes out, or msuSocketSendTo fails.
TellsGroup(m) ==
  \/ /\ reply' = m
     /\ reported' = m.group
     /\ untold' = FALSE
  \/ /\ untold' = (untold \/ gGroupID' # gGroupID)
     /\ UNCHANGED <<reply, reported>>

InRange(low, high) == (low <= ClientIP /\ ClientIP <= high) \/ ClientIP = low

Discovery(low, high, complete) ==
  /\ complete /\ InRange(low, high)
  /\ deviceidentification' = BasicIdentification[build]
  /\ UNCHANGED <<buildVars, gGroupID>>
  /\ TellsGroup(DiscoveryResponse)

DiscoveryOfOthers(low, high, complete) ==
  /\ ~complete \/ ~InRange(low, high)
  /\ UNCHANGED vars

GroupMessage(m) ==
  /\ gGroupID' = GroupAfter(m)
  /\ IF GroupIsAcknowledged(m) THEN TellsGroup(GroupAck(m))
     ELSE UNCHANGED <<reply, reported, untold>>
  /\ UNCHANGED <<buildVars, deviceidentification>>

Authentication(req) ==
  /\ reply' \in {IF build = "simulator" THEN SimAnswer(req) ELSE DeviceAnswer(req),
                 reply}
  /\ UNCHANGED <<buildVars, deviceidentification, gGroupID, reported, untold>>

Next ==
  \/ \E low, high \in Addresses, complete \in BOOLEAN :
       Discovery(low, high, complete) \/ DiscoveryOfOthers(low, high, complete)
  \/ \E m \in GroupMessages : GroupMessage(m)
  \/ \E req \in Requests : Authentication(req)

Spec == Init /\ [][Next]_vars

-----------------------------------------------------------------------------
(* Properties. *)

\* The types of the variables; no group but one a message has named.
IdentityTypeOK ==
  /\ build \in Builds
  /\ littleEndian \in BOOLEAN
  /\ DeviceInfo(msuDeviceInfo)
  /\ deviceidentification \in [Range(IdTags) -> 0 .. 127]
  /\ gGroupID \in GroupIds
  /\ reply.type \in {"none", "discovery", "groupAck", "authResponse", "authRequest"}
  /\ reported \in GroupIds \cup {NoGroup}
  /\ untold \in BOOLEAN

\* Where the n-th field of a response with these lengths ends.
FieldEnds(lengths) ==
  LET end[n \in 0 .. Len(IdTags)] ==
        IF n = 0 THEN 0 ELSE end[n - 1] + lengths[IdTags[n]]
  IN  end

\* A server that takes the fields of a discovery response by the lengths of
\* their tags, one after the other, gets the bytes of each: no field of
\* msuDiscoveryResponseMsgCreate is written over, short or displaced.
ReadsBack(data, lengths) ==
  LET end == FieldEnds(lengths)
  IN  \A n \in 1 .. Len(IdTags) : \A i \in 1 .. lengths[IdTags[n]] :
        data[end[n - 1] + i] = <<IdTags[n], i>>

DiscoveryReadsBack ==
  reply.type = "discovery" => ReadsBack(reply.data, reply.lengths)

\* The group the server was told last, by an acknowledgement or a discovery
\* response, is the group of the client, unless an acknowledgement failed:
\* also after messages of the wrong size, which msuHandleDeviceGroupMsg accepts.
GroupIsAsReported == reported \in {NoGroup, gGroupID} \/ untold

LoginFits(req) ==
  /\ (IF "username" \in req.present THEN req.text["username"] ELSE <<>>)
       = msuDeviceInfo.user
  /\ (IF "password" \in req.present THEN req.text["password"] ELSE <<>>)
       = msuDeviceInfo.password

FileFits(req) ==
  "filename" \in req.present /\ req.text["filename"] \in Listed

\* What a subcode says of a request as the server composed it.  The hardware id
\* is compared as far as the request has it: an empty one passes.
Misfit(req, sub) ==
  CASE sub = 1 -> req.level # msuDeviceInfo.level
    [] sub = 2 -> req.serverIP # req.from \/ req.from \notin KnownServers
    [] sub = 3 -> ~LoginFits(req)
    [] sub = 4 -> ~FileFits(req)
    [] sub = 5 -> /\ reply.checked
                  /\ "hardwareId" \in req.present
                  /\ req.text["hardwareId"] \notin {<<>>, Hardware}
    [] sub = 6 -> req.transaction = Encrypt(<<0, 0, 0, 0>>)

\* The answer of the core to an authentication request says what is true of the
\* request as the server composed it: whatever fields precede the credentials in
\* the payload, whatever the key, a request is accepted if nothing in it is
\* wrong, and a subcode names something that is.
AnswersFit ==
  reply.type = "authResponse" /\ build # "simulator" =>
    IF reply.err = 0 THEN \A sub \in 1 .. 6 : ~Misfit(reply.request, sub)
                     ELSE Misfit(reply.request, reply.sub)

\* The simulator accepts only requests of a server it has in its list, with the
\* right user and password; it does not promise more (see its SimTests).
SimAcceptsKnown ==
  reply.type = "authResponse" /\ build = "simulator" /\ reply.err = 0 =>
    SimKnows(reply.request) /\ LoginFits(reply.request)
=============================================================================
