# A TLA+ model of the MSU client

MSU (multicast software update) sends a firmware file from a PC to many devices
at once. The server cuts the file into chunks of at most 32 sequences and sends
each sequence as one UDP multicast packet. A device (the code calls it *leech*)
collects the packets, asks for what it missed, writes the file and reports the
result. This directory holds TLA+ modules of the client, model-checking
configurations and proofs.

Two builds of the client are modelled. The *device* build is
`src/MSU/Mis_Doc/msu/MSU Source/` with its `core/` (the protocol) and `Interface/`
(the platform), with `CHUNK_IN_RAM` defined, `CHUNK_DATA_STORE_RAM` and
`CRC_VALIDATION_REQUIRED` not (`Interface/MsuPlatform.hpp`). The *simulator* is the
client of `src/MSU/Project/Simulator/15-Sep_FirstWroking code/MSU Project/Linux
Simulator/`, an older copy with other error handling; its files are called
`sim/` below.

## The system

| Component | State | Operations | Module |
|---|---|---|---|
| Leech state machine, `core/MsuLeech.c` | `eMsuState`, `eMsuPrevState`, `localChunkNumber`, `ccm_seqVal`, `firstTime`, `ccmSent`, `ccmRetryCount`, `deviceUpgadeStatus`, `MsuGlobalError`, the file, the chunk buffer | one branch of `msuLeechStateMachine` per state; three packet handlers; four completion handlers | `MsuLeech`, `MsuLeechRam` |
| Complain mode, `core/MsuComplainMode.c` | `recvdSeqBitMap`, `recvdChnkArr`, the static `tempMissed` | set, test, list missing | `MsuComplainMode`, `ComplainModeBits` |
| Socket layer, `core/MsuSocket.c` | `msuDefaultSocket`, `msuUpdateSocket`, `gMsgBuffer` | `msuSocketGetPacket` (between sessions), `msuSocketGetDataPackets` (within one), the messages sent | `MsuLeech`, `MsuListen`, `MsuIdentity` |
| Protocol data units, `core/MsuPdu.c` | `msuBroadcastPdu` (sync message), `msuMcastPdu` (last packet), `gGroupID`, `msuDeviceInfo`, `deviceidentification` | parsing, checking, building messages | `MsuLeech`, `MsuListen`, `MsuIdentity` |
| Socket and file interface, `Interface/` | descriptors of the device's TCP/IP stack and file system | open, send, receive, write, seek, close | their results (`MsuLeech`); the simulator's in full (`SimLeech`) |
| Simulator, `sim/` | all of the above, in one process with a descriptor table | the same state machine; every packet written as it arrives; checksum at the end | `SimLeech`, `MsuIdentity` |
| CRC32, `core/MsuCRC32.c` | a table | `crcFast` | its verdict only (`ChecksumVerdicts` in `SimLeech`); compiled out of the device |
| Task, `Interface/MsuMain.cpp`, `MsuExternalCalls.c` | device identity | `BasicIdentification`; runs the state machine | `MsuIdentity` |
| Server | shipped as binaries, described by documents | rounds of sending and repairing | environment; `MsuSystem` |
| OneFWTool extension (C#) | a view | | not modelled: starts the server program |
| MidRange Linux port | none: build files without sources | | not modelled |

**How they interact.** One task runs `msuLeechStateMachine`: a loop over a switch
on `eMsuState`. In Listen it blocks on the default socket; a valid sync message
announces an update (chunk count, sequences per chunk, file size, transaction
id). Start opens the file and the multicast socket. Running, SCM and CCM each
wait for one message at a time. The socket layer dispatches control messages to
handlers that change the state of the leech from below; for a data packet it
returns to the handler of the current state. SCM ("sequence complain mode")
repairs the chunk just received, CCM ("chunk complain mode") what is missing when
the file has been sent. There are no threads and no shared memory: the
concurrency is between the leech and a network that loses, repeats and reorders,
and a server that moves on without knowing what the leech has.

**What is hard.** A packet of another chunk makes the handlers put a bitmap aside
and bring it back later, across two recovery modes. Results live in statics that
outlast a call (`tempMissed`), a session (`ChunkSize`, `deviceUpgadeStatus`) or a
message (`msuMcastPdu`, `gMsgBuffer`). Control messages are accepted in each
receiving state. Every send, open and write can fail half-way through a handler.
Messages carry optional fields that shift the ones behind them, and answers are
built in the buffer that holds the request. `PROJECT.json` lists these hazards by
line.

**What makes each part correct.** The leech reports Passed only with everything
received; a mark stands for packets that arrived; a session takes nothing from
the one before. The bookkeeping computes sets. The data path puts each sequence
at its place. The listening leech reports the status of the update it was asked
about, and what it tells a server of itself is true. With a server that does its
rounds, a session ends, and a few losses are repaired.

## The modules

`MsuComplainMode` holds the operators of the bookkeeping on sets; it has no state.
`MsuLeech` extends it and is the core: one action per branch of each handler,
grouped as the code is (`RunningPacket`, `ScmPacket`, `CcmPacket`,
`TransferComplete`, `CCMComplete`, `SCMComplete`, `AbortTransfer`, ...). Variable
names are the source's. Three conventions:

* *The network is the environment.* Any message of the current session may arrive
  at any time, any number of times or never. This covers loss, duplication and
  reordering, and every server, the real one included. `delivered` is a history of
  what has arrived, `sent` is the message the last step handed to the socket.
* *Faults are a parameter.* `Outcomes("send")` is `{TRUE}` or `BOOLEAN` depending on
  the constant `Faults`. A handle that was closed but not forgotten is `"closed"`.
* *Undefined behaviour is a choice.* With `localChunkNumber = 0` the handlers of SCM
  and CCM write `ccm_seqVal[-1]`; the statics declared before the array (`firstTime`,
  `ccmSent`, the retry counters) may then take any value (`MayWriteBeforeArray`,
  `FirstTimeAfter`). `ccm_seqVal[256]`, which a chunk count of 256 reaches, is
  one word more in the array.

Four modules build on the core, each adding variables to its actions:

* `UpgradeSession` is the abstract specification: announce, withdraw (a sync message
  that is rejected clears the one before), begin, receive in any order, conclude with every
  part there, report at most once, close (what arrived may be kept until the next
  begin). `MsuLeech` instantiates it (`Session`) with `Phase`, `sync`, `delivered` and
  `Reported`.
* `MsuLeechRam` adds the data: `info_array`, `ChunkSize`, the position and content
  of the file. Each of its steps is a step of `MsuLeech`; its bound `MaxSize` keeps a
  packet from being taken when the buffer counts that many.
* `MsuListen` adds the default socket: discovery, authentication, groups, status
  requests, rejected sync messages, and the transaction id.
* `MsuSystem` composes the leech with a server. The server sends a chunk
  (`SendsSeq`), waits for a request (`OpensScmWindow`), repeats what was asked for
  and says so (`Repairs`, `SendsScmComplete`), goes on (`GoesOn`), and does the same
  with whole chunks at the end of the file (`SendsComplete`, `ResendsChunks`). It has
  no source here: its actions are external, written from what the client's handlers
  and the parameters `MSU_DEVPARAM_SCMRETRY` and `MSU_DEVPARAM_CCMRETRY` expect. The
  network of this module keeps the order and may lose every message; `lost` counts.
  An SCM request may be lost even without it: `msuSendScmMsg` never sets the address
  it sends to (`core/MsuSocket.c:350`).

Two modules stand beside them:

* `SimLeech` is the simulator, with three things the device model does not need. The
  file holds nothing, a part or all of each packet (`content`), and each handler
  reads the result of a write its own way: Running takes the number of bytes for
  what it is, SCM and CCM compare it with `TR_SUCCESS`, which is 0
  (`RunningCounts`, `RecoveryCounts`). `gMsgBuffer` keeps the last message, and a
  receive that times out processes it again (`Silence`). The descriptors of the
  process are numbers that are given out again: `msuDefaultSocket` keeps its number
  after the socket is closed, the file gets that number, and `msuSocketRelease`
  closes it (`LowestFree`, `ReleaseCloses`). `SimLeech` instantiates `UpgradeSession` with the
  packets handed to the file (`HandedToFile`), of which a write may have stored all or a
  part. The checksum at the end is right for a complete file; for another it may be
  right or wrong (`ChecksumVerdicts`), since it adds up a value per byte and that of a
  zero byte is 0.
* `MsuIdentity` is the rest of `MsuPdu.c` for three builds, chosen by `build`: the
  device with either body of `BasicIdentification`, and the simulator. A discovery
  response is its 127 bytes, each known by the field it comes from; an
  authentication request is a set of fields present, laid out one after the other,
  with credentials encrypted; a group message may have the wrong size. Servers and
  files are looked up among those counted, and not at all if more than ten or three
  are (`Counted`). A request that comes back as its own answer has no codes of its own
  (`Echo`), except those the simulator writes into it (`EchoWithError`).

`ComplainModeBits` is the same bookkeeping as `MsuComplainMode` with words, shifts
and masks, kept in step with the set operators. A word is a row of bits, an operator
of C works on the whole row, and a loop of the source (the mask, the count in an SCM
message, the list in a CCM message) is a recursive function of its rounds.
`MsuLeechProofs`, `MsuListenProofs`, `MsuSystemProofs`, `MsuRamProofs`,
`ComplainModeProofs`, `SimProofs` and `IdentityProofs` hold the theorems, each those of
one module; `LoopLemmas` has what two of them need about loops. The `MC*` modules name the instances for
TLC. A definition with the comment "mutant" is a plausible bug of the definition
after it; no specification uses it.

Data is abstracted as far as the properties allow: a packet is its chunk, its
sequence and its two end flags; a bitmap is the set of its bits; a file is what it
holds at each place; a firmware file's name is one byte. Logging and paths are
left out.

## What is checked

| Run | Instance | Properties |
|---|---|---|
| `leech` | 3 chunks of 2 sequences, short tail, no faults | `TypeOK`, `MarkedChunksWereDelivered`, `BitsBelongToTheirChunk`, `MarksAreKept`, `NoReturnToRunning` |
| `leech_faults` | 2 chunks of 2, both tails, all faults | `Inv`, `RunningHasChunk`, `PassedMeansDelivered`, `ScmNeverHoldsEmptyMiss`, `SessionsStartClean`, `ScmIsAskedFor`, `ImplementsSession` |
| `ram` | 2 chunks of 2, both tails | `RamInv`, `TidyChunksAreInPlace`, `TidyCountMatchesBits`, `TidyFileIsTheOneSent` |
| `bits` | 3 words of 3 bits, 7 chunks supported | `SeqWordsHoldTheSets`, `ChunkWordsHoldTheSets` |
| `listen` | 1 chunk, 2 transactions, failing starts and sends | `ListenInv`, `StatusIsTheOutcome`, `ImplementsSession` |
| `system` | 2 chunks of 2, both tails, failing opens, 1 SCM and 1 CCM retry | `SystemInv`, `RequestsMeetTheServer`, `SessionsEnd`, `FewLossesAreRepaired`, `DeafnessEnds` |
| `sim` | 2 chunks of 2, short tail, all faults | `SimInv`, `PassedMeansHanded`, `BitsWereWritten`, `HandlesAreLive`, `DeafOnlyAfterFailedStart`, `NoDescriptorLeft`, `SilenceChangesNothing`, `ImplementsSession` |
| `identity` | 3 builds, about 50 requests, addresses 4..6, groups 0 and 1 | `IdentityTypeOK`, `DiscoveryReadsBack`, `GroupIsAsReported`, `AnswersFit`, `SimAcceptsKnown` |

`leech` shows that bits and marks stay with their chunk whatever jumps the network
causes; it needs three chunks, so that a jump can skip one and two can be
incomplete. `NoReturnToRunning` is about the session: after CCM has begun the leech is in
CCM or in an SCM that goes back there (`InCcm`) for as long as it receives.
`leech_faults` shows that Passed means delivered and that the leech
implements the session, also when calls fail. The property that says what a mark
means is not as obvious as it looks: in SCM the last chunk is looked up in the
stale static when the file fills that chunk, and `ScmNeverHoldsEmptyMiss` is the
reason why this never marks it by mistake.

`ram` says when the data path works. `tidy` is a history variable that becomes
false when a packet comes in another order than `InOrder`, or when a session begins
with a count left over. In order means:

* in Running, a new packet, the first of the file before all others; packets of lower
  chunks are ignored and may come at will;
* in SCM, a packet of the current chunk; if that SCM goes back to CCM and the packet
  is new, the buffer must hold what the bits say and the file must stand where the
  chunk begins;
* in CCM, any packet of a complete chunk, which is ignored, or one of a chunk that the
  buffer follows: if the buffer holds what the bits of the chunk say, a new packet; if
  not, because these bits were put aside earlier and their packets are lost to the
  buffer, the next sequence after those counted, so that the chunk comes anew from its
  first sequence on; the first chunk opened in CCM finds the buffer empty.

In this order, with losses recovered in SCM and in CCM and chunks skipped, each marked
chunk is at its place in the file, and a file reported as Passed is the one that was
sent (`TidyFileIsTheOneSent`). Outside of it the code gives no such guarantee, even
if no packet is repeated: in `passed_file` below, which is the same statement without
`tidy`, CCM brings only the second half of a chunk whose first half was put aside.

`bits` lets the other modules use sets; the counts and lists that go into the messages
are part of it. `listen` covers the time between sessions:
the result a status response carries is that of the update it names, through
failed starts (after which the leech listens on a closed socket and starts again
from the sync message left in its buffer) and sessions with the same id.

`system` shows what the protocol is for. `SessionsEnd`: whatever is lost, and in
whatever state the server leaves it, the leech comes back to a socket on which it
hears. `FewLossesAreRepaired` measures the repair: a session reports Passed with
any two data packets lost if the last chunk is short, and with any one if the file
fills it (`Repairable`; the repeated packets count too). The difference is in the
code: the last chunk of a full file has `noOfSeqInLastChunk = 0`, with which SCM never finds it
complete (`core/MsuLeech.c:417`), and CCM does not complete a chunk
whose last sequence it already has. The numbers are tight in this instance.
`RequestsMeetTheServer` puts `scm_names_chunk` below into proportion: the wrong
name needs a late packet.

`sim` shows what the simulator's result stands for. Its recovery handlers take a good
write for a failed one and a write of nothing for a good one, so bits may be wrong
about the file. Still a bit or a mark stands for a packet that was handed to the file in
this session (`BitsWereWritten`), and so does Passed for every packet
(`PassedMeansHanded`). That the file has each of them whole is more than the code
ensures: the checksum may be right without them (see below). Nothing handed over is lost before the session is
released, and a session is concluded only when everything has been
(`ImplementsSession`). The closed number in `msuDefaultSocket` is that of the file for
the whole session, and no path closes it before the session ends
(`HandlesAreLive`, `NoDescriptorLeft`). The old message a timeout processes again is
never one that acts (`SilenceChangesNothing`), because requests are built over it;
the same property says that a silent server keeps the simulator in its session for
ever, where the device build times out.

`identity` shows that a discovery response reads back field by field although one
field is copied with the length of another (`core/MsuPdu.c:1159`), that the answer
to an authentication request is true of the request the server composed, whichever
optional fields it has (an empty hardware id matches every device: as much of it is
compared as the request has), and that the server knows the group of a device unless an
acknowledgement was lost. The simulator promises less, and `SimAcceptsKnown` says
how much: it accepts a file if its name *differs* from one in the list
(`sim/MsuPdu.c:932`), and on a little-endian host it compares an address with its
reversal (`:849`).

### Fairness

Only `system` has liveness properties. `SystemSpec` assumes weak fairness of
`LeechStep` (the task is scheduled), of `LeechTimeout` (its timer, set from
`updateTimeout` of the sync message at `core/MsuSocket.c:124`, expires) and of
`ServerStep` (the server goes on with its rounds; the messages it sends may all be
lost). A timeout happens only when the server is silent: the delays between its
rounds are a second or less and the client's timeout is five or ten
(`MSU_DEVPARAM_SCMDELAY`, `MSU_DEVPARAM_CCMDELAY`, `MSU_DEVPARAM_COMMTIMEOUT`,
`core/MsuPdu.h:264`). `Announce` has no
fairness: a server need not start a session. Strong fairness of
`StartSession` says that an open which is tried again and again succeeds some
time; without it `DeafnessEnds` fails, as a leech with a broken file system tries
for ever.

### Where code and comments disagree

Four runs check what a comment of the source says and end in a violation.

| Run | The comment | What happens |
|---|---|---|
| `scm_names_chunk` | SCM asks for the missed sequences of the current chunk (`core/MsuLeech.c:1198`) | it names the chunk of the last packet of any kind |
| `ccm_marks` | after each chunk CCM checks for missed sequences (`:535`) | not if the last sequence was there before: the chunk never completes |
| `passed_file` | Done validates the checksum of the file (`:929`) | compiled out: a wrong file is reported as Passed |
| `sim_scm_ends` | with all missed sequences received SCM leaves (`sim/MsuLeech.c:338`) | the write's byte count is taken for an error: it stays, with the chunk complete on disk |

Other differences are part of the modules and have no run of their own:

* in the device build SCM does not leave either for the last chunk of a file that
  fills it (`:417`), nor on a packet of another chunk (`:477`);
* the release does not clear the chunk buffer and its count (`:286`), as its comment
  says (`MsuLeechRam`);
* a status request that names a transaction whose sync message was rejected for its
  checksum gets the result of the update before (`core/MsuPdu.c:311`); the property
  `StatusIsTheOutcome` is about updates that were started;
* an authentication request that is too short is sent back as its own answer
  (`core/MsuSocket.c:414`), and the hardware id is compared only after a discovery
  (`core/MsuPdu.c:946`); both are in `MsuIdentity`;
* `crcFast` starts anew at each byte and adds up: the checksum depends neither on the
  order of the bytes nor on the number of zeros, and nothing compares the length of the
  file. Its comment says that it confirms a complete file (`sim/MsuLeech.c:991`); a
  short write counts as a good one in Running (`:581`), and if the bytes it lacks are
  zeros at the end of the file, the sum is right and an incomplete file is reported as
  Passed. `ChecksumVerdicts` allows this. Packets in `SimLeech` are always written at
  their own place.

### Bounds

* `MaxChunk`, `MaxSeq`: 2 or 3 chunks of 2 sequences. The handlers compare chunk
  numbers with the current one (lower, equal, higher), so two chunks reach each
  branch; the third makes a skipped chunk and two saved bitmaps possible. Two
  sequences give a chunk with a gap before its end and one that is only its end.
* `Syncs`: files that fill their last chunk (`tailSeqs = 0`) and files that do not.
* `CounterRange` = 2 (1 in `sim` and `ram`) instead of 256: `ccmRetryCount` wraps after two
  messages. It is only counted and reported, never tested.
* `MaxSize`: sequences collected before a write. Without repetition a chunk has at
  most `MaxSeq`; the violation runs allow one more. The wrap of the UINT16
  `ChunkSize` is not reached, and no property of `ram` would show it.
* `position` stays at the end of the announced file once there: nothing behind it is
  compared.
* `WordBits`, `NumWords`, `Supported` stand for 32, 128 and 3968. In the code the
  limit falls between two words and leaves four unused; in the run it falls inside
  the last word, so that both borders are met.
* `Transactions` has two ids and `EarlyRejects` and `SyncRejects` two of the codes: a
  status request compares ids for equality only.
* `ScmRetries`, `CcmRetries` = 1: one repair that can fail and one more. `MaxLoss` = 3
  is one more than any session is claimed to survive.
* Requests in `MCMsuIdentity`: three right ones, each as it is, with one thing changed,
  and with five sets of fields present. Four device informations besides the
  defaults vary key length, credentials, servers and files, and count fewer of these
  than there are, or more than are looked up.
* `InRange` compares three addresses: below, at and above the client's.
* Chunk counts above 256 (the words of `ccm_seqVal`) and lists of more than 128
  missing chunks are outside the model: the code does not check them.

No run disables deadlock checking: each state of the leech has a step.

## What is proved

The theorems are checked by TLAPS for every chunk count, sequence limit, set of
sessions, counter range and set of faults; those about `MsuSystem` and `MsuListen`
for every number of retries and every set of transactions and groups, those about
`MsuLeechRam` for every `MaxSize`, those about `ComplainModeBits` for every width of a
word, every number of words and every limit within them, those about `MsuIdentity` for
every set of requests, every content of `msu.bin` and every key. They rest on the assumptions named in the
modules: bounds are positive naturals, sessions have `SyncType` with a tail no longer
than a chunk, faults are known ones, transactions and groups are positive, the
fields of a request are texts of 7-bit characters without a zero, and keys are such
texts and not empty.

### The leech

The inductive invariant of the leech is `Inv`. The goal, `PassedMeansDelivered`, is
not inductive: Passed is decided in Done from the marks, so it needs
`DoneMeansNothingMissing` and `MarkedChunksWereDelivered`; a mark is set from a
bitmap, which needs `BitsBelongToTheirChunk` for the current bitmap and each saved
one; in SCM the decision may come from the stale static, which needs
`ScmNeverHoldsEmptyMiss`; a bitmap belongs to a session only if the one before was
cleaned up, which needs `SessionsStartClean`, and Running indexes `ccm_seqVal` with a
chunk number that is not 0, which needs `RunningHasChunk`. `SessionHasSync`,
`SessionHoldsItsHandles` and `StatusEndsSession` tie the phases together. The proof
has a lemma per group of actions.

| Module | Theorem | Statement |
|---|---|---|
| `MsuLeechProofs` | `Invariance` | `Spec => []Inv` |
| | `TypeCorrectness` | `Spec => []TypeOK` |
| | `PassedIsDelivered` | `Spec => []PassedMeansDelivered` |
| | `MarksAreTrue` | `Spec => []MarkedChunksWereDelivered` |
| | `BitsStayWithTheirChunk` | `Spec => []BitsBelongToTheirChunk` |
| | `StaleResultIsHarmless` | `Spec => []ScmNeverHoldsEmptyMiss` |
| | `RunningIndexesItsChunk` | `Spec => []RunningHasChunk` |
| | `NothingIsLeftOver` | `Spec => []SessionsStartClean` |
| | `MarksStay` | `Spec => MarksAreKept` |
| | `CcmIsFinal` | `Spec => NoReturnToRunning` |
| | `ScmFollowsItsRequest` | `Spec => ScmIsAskedFor` |
| | `Implementation` | `Spec => ImplementsSession` |

### The bookkeeping

| Module | Theorem | Statement |
|---|---|---|
| `ComplainModeProofs` | `SeqWordsAreSets` | `Spec => []SeqWordsHoldTheSets` |
| | `ChunkWordsAreSets` | `Spec => []ChunkWordsHoldTheSets` |

With these the other modules may use sets at the size the code has (32, 128, 3968),
which no run reaches. The inductive invariant, `WordsInv`, says that the words are
words and that the set of their bits (`SeqsOf`) is the set kept beside them. The
lemmas turn each operator of C into one on sets: `|` is a union, `&` an intersection,
`^` with the mask of ones a complement, a word is zero exactly if its set is empty.
`ChunkPlace` says that two chunks in range never share a bit, which is the division and
the remainder of `ChunkWord` and `ChunkBit`. What the loops compute is proved round by
round: the mask has the first n sequences (`MaskLoop`), the count is that of the lowest n
bits (`LowBits`, `CountIsCardinality`), the list has the missing chunks up to n in
ascending order (`ListRound`).

The library's induction theorems take an operator, which no prover here instantiates.
`LoopLemmas` states induction for a set of numbers (`InductionUpTo`, from the least
element of its complement) and what a loop is: that a recursive function over
`0 .. N` exists and what each round of it gives (`LoopExists`, `LoopRounds`).

### The data

| Module | Theorem | Statement |
|---|---|---|
| `MsuRamProofs` | `RamIsLeech` | `RamSpec => Spec` |
| | `RamInvariance` | `RamSpec => []RamInv` |
| | `CompleteChunksAreInPlace` | `RamSpec => []TidyChunksAreInPlace` |
| | `CountMatchesBits` | `RamSpec => []TidyCountMatchesBits` |
| | `TidyPassedFile` | `RamSpec => []TidyFileIsTheOneSent` |

`RamIsLeech` makes every theorem about the leech one about the leech with its data.
The others speak of sessions whose packets came in the order `InOrder` described above,
and of nothing else.

That a marked chunk is in place is not inductive: it depends on what the write of
the chunk takes from the buffer and on where the file stands. `TidyBufferIsTheChunk`
says both. Until CCM begins (`FromRunning`) the buffer holds the packets of the bits
and the file stands where the current chunk begins. In CCM bits may be ahead of the
buffer, because they were put aside with the chunk: the buffer then holds either all
sequences of the bits or the first ones up to its count (`Collected`), and the order
sees to it that the packet that comes next fits (`Follows`). `TidyCountMatchesBits` is
the same of the count; it must hold in CCM too, as the leech can enter CCM between two
packets of a chunk. A packet that completes the bits of a chunk in CCM completes its
buffer, so that what is written there, after a seek, is the chunk. That the bits
brought back there name sequences of the chunk follows from `DeliveredIsOfTheFile`.
With `Inv` and the types these parts of `RamInv` are inductive. The last theorem needs
no invariant of its own: Done reports Passed only with no chunk
missing (`DoneMeansNothingMissing`), and a marked chunk is in place.

### Between sessions, and with a server

| Module | Theorem | Statement |
|---|---|---|
| `MsuListenProofs` | `StatusTellsTheOutcome` | `ListenSpec => []StatusIsTheOutcome` |
| | `ListeningIsSound` | `ListenSpec => []ListenInv` |
| | `ListeningPassedIsDelivered` | `ListenSpec => []PassedMeansDelivered` |
| | `ListeningImplementsSession` | `ListenSpec => ImplementsSession` |
| `MsuSystemProofs` | `SystemIsLeech` | `SystemSpec => Spec` |
| | `SystemPassedIsDelivered` | `SystemSpec => []PassedMeansDelivered` |
| | `SystemImplementsSession` | `SystemSpec => ImplementsSession` |
| | `SystemInvariance` | `SystemSpec => []SystemInv` |
| | `SystemTypes` | `SystemSpec => []SystemTypeOK` |
| | `RequestsMeet` | `SystemSpec => RequestsMeetTheServer` |

`MsuListenProofs` adds `IdleStatus` to the properties of `MsuListen`: while no session
runs, a leech that hears has the outcome of its last update in
`deviceUpgadeStatus`, and one that waits in Start, or on the closed socket after a
failed start, has an update without outcome. `Inv` gives the rest: what Done decides
from the marks is what the history knows from the packets. A rejected sync message
is not a step of `MsuLeech` (it clears `sync`); `BadSyncKeeps` shows that it keeps
`Inv`, and in `UpgradeSession` it is a withdrawal, which the leech of `MsuLeech` never
makes.

`SystemIsLeech` makes every theorem about the leech one about the system: each step of
the composition is a step of the leech or leaves it alone. `RequestsMeetTheServer`
needs to know where the leech is while the server repairs. `LeechStaysWithItsRequest`
says it: from the moment the server has heard a request (`Repairing`) until it is
through with the repair, the leech is in SCM at the chunk of the server, the last
packet it took being of that chunk, or it has completed the chunk and kept nothing
of it that a later message could ask for (`AtItsRequest`). `RequestsAreOfThisSession`
says that a request never outlives the session it was made in.

### The simulator

| Module | Theorem | Statement |
|---|---|---|
| `SimProofs` | `SimInvariance` | `SimSpec => []SimInv` |
| | `SimBitsWereWritten` | `SimSpec => []BitsWereWritten` |
| | `SimHandlesAreLive` | `SimSpec => []HandlesAreLive` |
| | `SimDeafness` | `SimSpec => []DeafOnlyAfterFailedStart` |
| | `SimNoDescriptorLeft` | `SimSpec => []NoDescriptorLeft` |
| | `SimPassedMeansHanded` | `SimSpec => []PassedMeansHanded` |
| | `SimSilence` | `SimSpec => SilenceChangesNothing` |
| | `SimImplementation` | `SimSpec => ImplementsSession` |

`SimInv` adds four facts to the properties that are parts of it.
`DescriptorsFitTheState` says which descriptors may be open in each state besides
the handles of the session: `HandlesAreLive` alone does not say that the lowest free
number is the one `msuDefaultSocket` still holds. `ReplayIsHarmless` says what may lie
in `gMsgBuffer` when a receive fails: no abort and no `CCMComplete` (a request was built
over it), a `TransferComplete` only if the file has been reported complete before, an
`SCMComplete` only when nothing is left that it could ask for. It is an invariant of the
buffer and the state together, and `SilenceChangesNothing` follows from it step by
step. `SimSessionsStartClean` and `SimScmHoldsMiss` are those of the device build.

`PassedMeansHanded` and the refinement rest on the bits, not on the checksum. A handler
goes to Done only with nothing missing (`DataEndsComplete`, `ControlEndsComplete`), a
mark stands for packets handed to the file (`BitsWereWritten`), so everything has been
handed over when a session is concluded (`EverythingIsHanded`). That a result is
reported once needs a fact beside the invariant: the status is the last message of a
session (`SimStatusEndsSession`). Seen from outside, device and simulator implement the
same abstract session, one with the packets delivered, the other with those handed to
its file.

### Discovery, groups, authentication

| Module | Theorem | Statement |
|---|---|---|
| `IdentityProofs` | `IdentityTypes` | `Spec => []IdentityTypeOK` |
| | `GroupAsReported` | `Spec => []GroupIsAsReported` |
| | `DeviceAnswersFit` | `Spec => []AnswersFit` |
| | `SimAcceptance` | `Spec => []SimAcceptsKnown` |
| | `FittingFieldsReadBack` | `ReadsBack(DevicePayload(id), id)` for every `id` that fits |
| | `DiscoveryIsReadBack` | `Spec => []DiscoveryReadsBack` |

`AnswersFit` compares what the parser took from the payload with what the server
meant. The lemmas follow the data: an encrypted text comes back as it was, for
every key (`TextComesBack`); the slice of the payload at `Begin` is the field, whatever
lies before and behind it (`FieldIsFound`); a text has no zero that would cut it
(`TextIsACString`); so what is compared is what was meant (`ParsedIsMeant`). The answer
is the subcode of the first test that fails (`VerdictFacts`). The transaction id is zero
after the decryption exactly if zero was encrypted (`TransactionIsChecked`).

A discovery response is put together field by field. After n fields its size is the sum
of their lengths and each of them is in place (`FieldsAreInPlace`), which a later field
does not change because the ends increase (`EndsIncrease`). One field breaks the
pattern: the revision is copied with the length of the firmware version, and what is
copied too much is overwritten by the fields behind it or stays zero; if it were copied
too little the rest would be lost. `FittingFieldsReadBack` therefore is about every
identification whose fields fit into 127 bytes and whose revision is no longer than its
firmware version, and its hypotheses are what a new device has to keep to. The three
builds do (`IdentificationsFit`); the simulator copies a product id over the first field,
but has none.

### Only model-checked

The liveness properties of `system` (`SessionsEnd`, `FewLossesAreRepaired`,
`DeafnessEnds`): liveness under fairness is out of the prover's reach. So is how many
losses are repaired, a statement about counts that depends on the instance. Each
invariant, each action property and each refinement that a passing run checks is also a
theorem.

## What is not modelled

* The arithmetic of CRC32, and its use on the device: compiled out.
* The task around the state machine (`MsuMain.cpp`, `sim/msuMain.c`): it holds no
  protocol state.
* The inside of the server and its user interface; packets of other sessions on the
  same multicast address, which the client does not tell apart.
* Chunk counts beyond the arrays of the client, and the `UINT16` loop of
  `getMissedChnkBitMap` at 65535 chunks.
* Reordering in `MsuSystem`: its network loses and keeps the order. `MsuLeech` has
  every order, without the liveness.
* The OneFWTool extension, which keeps no protocol state, and the MidRange port, of
  which the repository has no sources.

## Plan

Done: `MsuComplainMode`, `MsuLeech`, `UpgradeSession`, `MsuLeechProofs`, `MsuLeechRam`,
`ComplainModeBits`, `MsuListen`, `SimLeech`, `MsuSystem`, `MsuIdentity`,
`MsuSystemProofs`, `MsuListenProofs`, `MsuRamProofs`, `SimProofs`, `IdentityProofs`,
`LoopLemmas`, `ComplainModeProofs`, in this order. What is left:
CRC32 as a function on small words, against the polynomial division it stands for.
