# A TLA+ model of the NDIS intermediate driver

The repository holds an NDIS 5.1 intermediate driver for Windows (`src/driver`), grown from
the DDK sample *passthru*. It sits between the protocols of the host and a network adapter: a
*miniport edge* faces the protocols above, a *protocol edge* is bound to the miniport of the
adapter below. Requests, sends, received packets, status indications and power changes pass
through it, received TCP packets are put in order on the way, and one control device lets
user programs set policies.

The modules here model what is hard about that program: handlers that NDIS calls on several
threads, shared fields that only some accesses protect by a lock, waits for counters other
threads decrement, structures with several owners, and a TCP queue fed by an unreliable
network. Beside it stands the analysis of packets by protocol: the reassembly of IP datagrams,
the policy list, a parser of HTTP uploads and a checksum. TLC checks all of it on small
instances; TLAPS proves the safety of all of it for every instance that
the named assumptions and hypotheses admit.

## Inventory

| Component | Source | State | Operations | Hard about it | Correct when |
|---|---|---|---|---|---|
| Control device | `passthru.c` | `MiniportCount`, `ControlDeviceState`, `NdisDeviceHandle`, the device object | `PtRegisterDevice` (from `MPInitialize`), `PtDeregisterDevice` (from `MPHalt`) | `GlobalLock` is released around the calls that create and delete; a first instance may meet the last one of before; a polled wait | one creation or deletion at a time, the handle names an object that exists, no object is left, a waiter proceeds |
| Requests, sends, power | `miniport.c`, `protocol.c`, `passthru.h` | `MPDeviceState`, `PTDeviceState`, `StandingBy`, `UnbindingInProcess`, `QueuedRequest`, `OutstandingRequests`, `OutstandingSends`, the send pool | `MPQueryInformation`, `MPSetInformation`, `MPProcessSetPowerOid`, `MPQueryPNPCapabilities`, `MPSendPackets`, `PtRequestComplete`, `PtSendComplete`, `PtPnPNetEventSetPower`, the first part of `PtUnbindAdapter` | three threads and every packet's; accesses with and without `pAdapt->Lock`; power-down waits for others to finish | a request is answered once, a queued one is taken out again, counters are exact, nothing goes to a sleeping adapter, waits end |
| Adapter life cycle | `protocol.c`, `miniport.c` | the `ADAPT` structure, `RefCount`, `MiniportInitPending`, `MiniportIsHalted`, both handles, `pAdaptList` | `PtBindAdapter`, `PtUnbindAdapter`, `MPInitialize`, `MPHalt`, `PtReferenceAdapt`, `PtDereferenceAdapt` | two threads share the closing of a binding; initialisation may be cancelled, fail or be halted at once | references exact, nothing used after it is freed, bindings closed once, nothing left, unbinding ends |
| Media status | `protocol.c`, `miniport.c` | `LastIndicatedStatus`, `LatestUnIndicateStatus` | `PtStatus`, the end of `MPProcessSetPowerOid` | a status suppressed while an edge sleeps must not be forgotten; no lock | the protocols know the link once both edges are on |
| Receive path | `protocol.c`, `miniport.c`, `Function.c`, `PacketManager.c` | the receive pool, `OriginalPkt`, `MiniportHandle` | `PtReceivePacket`, `PtReceive`, `MPReturnPacket` | a packet returned before the handler has said that it keeps it; lent descriptors; a halt meanwhile | each packet returned as often as was said, no descriptor leaks |
| TCP receive | `tcp.c`, `app.c`, `ipv4.c`, `PacketManager.c` | per connection: `status`, `rcv_nxt`, the queue `ooseq` | `tcp_recevie`, `app_receive`, `PMRemoveNdisPacket` | loss, repetition and reordering; wrapping numbers; failing allocations in the middle | the stream goes up, in order, once |
| Connection lists | `tcp.c`, `app.c` | `g_tcp_pcb`, `g_app_fiction_process`, their locks, `receiveList` | the look-up and insertion in `tcp_recevie` and `app_receive`, the emptying of `receiveList` | lists are walked without the lock that insertions take; tested and emptied in two steps | one entry per connection, none lost, no packet left behind, every walk ends |
| Driver entry and unload | `passthru.c` | handles, pools | `DriverEntry`, `PtUnload` | nothing: runs once | - |
| Control interface | `NdisDevice.c` | `gNdisMonitor`, the open handle | `DevOpen`, `DevCleanup`, `DevClose`, `DevIoControl` | requests of several ports; some control codes do what another should | the policy list is what was asked |
| Policy list | `PolicyList.c` | two tables of ports, each with `num` | `AddForbidTcpPort`, `DeleteForbidTcpPort`, `IsForbidUdpPort`, ... | a port is added in two steps, and looked for without a lock; slots never initialised | a port is forbidden iff it was added and not removed, also while a packet looks |
| IP reassembly, analysis | `ipv4.c`, `Function.c` | `g_reassdatagrams`, the chains of fragments | `IPAnalysis`, `ip_reass`, `TCPAnalysis`, `UDPAnalysis` | fragments out of order, twice, or without memory (not called in this build) | a datagram goes up sorted, whole, once |
| HTTP and MIME | `Http.c` (`MIME.c` is empty) | `g_httpre`, the one parser; `g_boundarybuffer` | `HttpAnalysis` and the loops under it | an upload is cut into segments anywhere, state is kept in between (not called in this build) | only files are written over, and the parser is ready for the next upload |
| Checksums, byte order | `checkup.c`, `nh.c` | none | `chksum_tcp`, `checksum`, the 16-bit swap | unrolled loops, an odd byte at the end, carries | a receiver finds the sum right |
| Pass-through of transfer, reset, cancel | `miniport.c`, `protocol.c` | none of its own | `MPTransferData`, `PtTransferDataComplete`, ... | - | - |

How they interact. NDIS calls `PtBindAdapter`, which asks for a device instance;
`MPInitialize` runs for it and registers the control device. `PtUnbindAdapter` flushes the
queued request (shared state with the request code), cancels or awaits the initialisation and
has the miniport halted, or closes the binding itself. `MPHalt` deregisters the control device
and closes the binding. The receive handlers hand every packet to `PacketAnalysis`, which goes
through `ip_receive` to `tcp_recevie`; its result says who passes the packet up. Several
threads do so at once and meet in the lists of connections. All handlers read the two power
states, which the power code writes. A user program reaches the policy list through the control
device; `UDPAnalysis` looks into it for each packet. `TCPAnalysis` calls the parser for a
segment to a server and the checksum for one that was changed.

PROJECT.json lists the hazards of this code one by one, each at its line, with the properties
that cover it.

## Modules

| Module | Models | Checked by | Proved in |
|---|---|---|---|
| `DeviceLifecycle` | what the control device promises: the abstract specification | as a property of the run `device` | its steps, in `ControlDevice_proofs` |
| `ControlDevice` | `PtRegisterDevice`, `PtDeregisterDevice` | `device` | `ControlDevice_proofs` |
| `RequestService` | what the driver promises for a request: the abstract specification | as a property of the run `adapter` | its steps, in `AdapterIO_proofs` |
| `AdapterIO` | requests, sends and power of one adapter | `adapter`, `power`, `flush` | `AdapterIO_proofs` |
| `AdapterLifecycle` | bind, initialise, halt, unbind; composes `ControlDevice` (`Device == INSTANCE ControlDevice`) | `lifecycle`, `initfails` | `AdapterLifecycle_proofs` |
| `MediaStatus` | media status across power changes | `media` | `MediaStatus_proofs` |
| `TcpReceive` | one TCP connection from the wire to the upper protocol | `stream`, `taken` | `TcpReceive_proofs` |
| `ReceivePath` | who owns a received packet | `receive` | `ReceivePath_proofs` |
| `ConnectionTable` | a table that is asked in one step: the abstract specification | as a property of the run `connections` | its steps, in `ConnectionLists_proofs` |
| `ConnectionLists` | several threads in the lists of connections and in a `receiveList` | `connections` | `ConnectionLists_proofs` |
| `PortSet` | the set of ports a program was promised: the abstract specification | as a property of the run `analysis` | its steps, in `Analysis_proofs` |
| `PortPolicy` | policy list, control interface and the look of a packet | `analysis` | `Analysis_proofs` |
| `IpReass` | `IPAnalysis` and `ip_reass` | `analysis` | `Analysis_proofs` |
| `HttpUpload` | `HttpAnalysis` | `analysis` | `Analysis_proofs` |
| `Checksum` | `chksum_tcp`, `checksum`, the byte order | `analysis` | `Analysis_proofs` |
| `Analysis` | composes the four above | `analysis` | `Analysis_proofs` |

The `MC*` modules give the constants their values; the `.cfg` files name the properties.
`Analysis` puts the four modules of the analysis by protocol side by side: they do not call one
another and share no variable, so each step of it is a step of one of them. Their product would be
too large to enumerate: a behaviour of `MCAnalysis` is one of `Analysis` that exercises one of the
parts, its `subject`, while the others rest. That nothing is lost by this is the theorem
`PartsStayApart`.

**Granularity.** What runs under a spin lock is one step. Every access to shared state without
a lock, every call that leaves the driver and every wait is a step of its own, with a place
(`pc`, `snd`, `bnd`, `mini`, `at`) for where its thread stands. A read whose variable nobody
else can change in between is joined to its neighbour, and a comment says why.

**State and code.** Variables carry the names of the fields. Variables marked *external* stand
for the other side: NDIS (`request`, `open`, `instance`, `owed`), the miniport below (`below`,
`lower`, `link`), the protocols above (`told`, `above`, `got`), the peer (`hs`, `arrived`).

- `ControlDevice`: `pc[a]` is the place of the thread of adapter `a`; `device` is the named
  object. `NdisMRegisterDevice` cannot create a name that exists, and may fail anyway.
- `AdapterIO`: the threads `miniport`, `lower` and `pnp` share the completion code
  (`ClearOutstanding`, `MPQueryPNPCapabilities`, `Answer` with the thread as argument), as they
  share `PtRequestComplete`. A device state is `"D0"` or `"low"`: the code compares with D0 only.
  `Stage` is how far the open request is, as `RequestService` tells it: read off the flags where
  one is set, else off the place of the thread that has the request.
- `AdapterLifecycle`: `bnd` and `mini` are the two threads of an adapter, `memory` the state of
  its structure.
- `MediaStatus`: a disconnected link and a connected one; `"zero"` is the value of a field
  nobody wrote. The waits and the requests of the handlers are in `AdapterIO`.
- `TcpReceive`: a segment is `[from, len]`, in bytes of the stream; a number is counted mod
  `SeqSpace`, and the comparisons are those of the macros `TCP_SEQ_LT` and `TCP_SEQ_LEQ` or, in
  the search of the queue, of the `<` the code has there. `AppReceiveFreed` is undefined
  behaviour: the loop hands on memory it has freed, and either the system stops or the memory
  still reads as it did.
- `ConnectionLists`: `next` is the `Flink` of an entry, node 0 the list head. The walk, the
  allocation, the two writes of an insertion (`Link`, `Publish`) and the lock are steps of their
  own. A `NULL` entry that is used stops the system (`TakeNothing`). `Known`, `Place` and `Has`
  map it to `ConnectionTable`: an entry is in the table from `Publish` on, and a thread that walks,
  allocates or inserts is, to the table, still looking.
- `PortPolicy`: the two writes of an addition, `num` and the slot, are two steps; so is each turn
  of the loop of a look. `setUp` is whether `InitEnvironment` was called: it is not in this build
  (`passthru.c:213`), and both cases are checked. `sawIn` and `sawOut` are history variables: what
  the list held while a packet looked. `high` remembers `num` as of the last complete addition.
- `IpReass`: a fragment is `[datagram, offset]`; a chain is a sequence. `burst` is what the last
  completion passed up.
- `HttpUpload`: an upload is a sequence of tokens; only those the parser tells apart differ. The
  pointers into a segment are positions in the upload, so that a stale one shows. `wrote` holds
  the positions the parser wrote a `'w'` over. `NextState` is the switch of `MiMeParseFile`, and
  `MimeStep` a turn of its loop, which `MimeFile` takes in halves (a recursive function, so that
  there are proofs about it). `MaxFiles` is the size of `File`, 1024 in the code.
- `Checksum`: what the words of a segment are is a constant, `WordAt`; the run takes five rows of
  words that count up in steps (`Fillings`), and `Base` 256 for 65536.
- `ReceivePath`: `lent` is `NDIS_STATUS_RESOURCES`, the descriptor is the driver's for the call
  only. `owed[p]` adds up what the handlers told NDIS and takes off what was returned.

## What NDIS is assumed to do

1. It sends one request at a time to a miniport, asks for a set-power only to change the state,
   and runs set-power requests in the same sequence (`AdapterIO`, `MediaStatus`).
2. It does not run a power event and an unbinding of one binding together.
3. It runs `MPInitialize` inside or after `NdisIMInitializeDeviceInstanceEx`, halts only what it
   initialised, and does not halt an instance on its own account while the binding below it is
   being removed, or the reverse (`AdapterLifecycle`).
4. `NdisIMDeInitializeDeviceInstance` returns when `MPHalt` has (DDK; the code relies on it).
5. Packets of one connection are indicated one after the other (`TcpReceive`, and the properties
   of `ConnectionLists` outside `Shared`). This is an assumption about the lower miniport, not a
   promise of NDIS; `ConnectionLists` has other connections, in `Shared`, whose packets several
   threads hold at once.
6. One program has the control device open and issues one request at a time (`PortPolicy`).

## Runs

| Run | Expect | Shows |
|---|---|---|
| `device` | pass | the control device under every interleaving of three adapters; the routines implement `DeviceLifecycle` |
| `adapter` | pass | one holder per request, exact flags and counters, queued requests are served, requests are answered; the handlers implement `RequestService` |
| `power` | pass | the drain of a power-down ends, its ASSERTs hold, nothing is handed to a sleeping adapter, `StandingBy` is cleared |
| `flush` | violation | a queued request that is flushed fails the ASSERT of `PtRequestComplete` |
| `lifecycle` | pass | references, closing, freeing and unbinding of two adapters, and their use of the control device |
| `initfails` | violation | a failed `MPInitialize` signals an event in a structure that may be freed |
| `media` | pass | the record of what was indicated is right and, where only the miniport edge sleeps, the protocols know the link |
| `stream` | pass | the stream of a connection arrives, in order, once; the queue is sorted, holds nothing that is ready and lets nothing past a hole |
| `taken` | violation | the loop that empties the queue hands on the packet just received, not the one it took |
| `receive` | pass | the results of the handlers agree with the returns, no descriptor of the pool leaks |
| `connections` | pass | walks without a lock find what is theirs; entries are unique and stay; no packet waits in vain; every indication comes back; look-up and insertion implement `ConnectionTable` |
| `analysis` | pass | datagrams go up sorted and whole; the policy list is a set of ports, also for a packet that looks meanwhile; only files are written over; checksums verify |

Every property of a passing run has a mutant in PROJECT.json: a plausible mistake in a
definition of the model with which TLC finds the property violated. The mutants stand in the
modules just before the definition they change.

### Bounds, and why they are enough

- `device`: three adapters are the fewest for one that deletes, one that waits for it and one
  that comes in between. Nothing else is bounded.
- `adapter`, `power`: two packets and a pool of one, so that one send finds the pool empty while
  another uses it. A request is of one of three kinds; only one is open at a time.
  `power` leaves capabilities queries out, see below.
- `lifecycle`: two adapters are the fewest for a halt that meets an initialisation at the control
  device. Each structure lives once, which loses nothing: a new binding has a new structure.
- `media`: four link changes (`MaxChanges`): one status passed up, one kept, and the way back.
- `connections`: two threads, of which each walks while the other inserts, and two connections:
  one of its own for each thread, or one that both share. Five nodes of each list, more than the
  two connections need, so that what is inserted twice is seen.
- `analysis`: three datagrams, of three, two and one fragments, each of which comes twice at most;
  three ports for two slots; segments of every length from 20 to 95 bytes, so that the steps of
  16, 4 and 1 words and the odd byte meet in every number; one, two or three segments of an upload and
  two uploads after each other, boundaries of one and two tokens, files that hold dashes.
- `stream`: five bytes in segments of up to three, so that three segments can be in the queue
  and fall in every order; numbers mod 16, from 0 (they do not wrap round) and from 13 (they do),
  with a window of 6, less than half the numbers as in the code. A scenario says which faults a
  behaviour meets: in sequence with repetitions, reconnections and connections older than the
  driver; reordered; reordered with failing allocations, a lost end of the handshake and
  connections older than the driver; in sequence with these and with segments that straddle
  `rcv_nxt`.
- `receive`: two packets and a pool of one; the packets do not interact but through the pool.

Deadlock is not checked in `lifecycle`, where adapters end their one life; in `stream` and
`taken`, where a connection ends or the system may stop; in `connections`, where a `NULL` entry
stops it; and in `analysis`, where all is sent.

### Fairness

Weak fairness on what a thread does once it is inside the driver: no thread blocks for ever
except in the waits the code has, and these are steps with their own guards. Weak fairness on the
lower miniport to complete what it holds and on the protocols above to return what they have,
which their contracts oblige them to. In `TcpReceive`, strong fairness on the arrival of a new
segment: a peer repeats what is not acknowledged, and a network that never lets it through is no
network. The analysis by protocol is checked for safety only. No fairness on anything that
somebody merely may do: bind, halt, ask, send, change a power state.

## Proofs

For any finite set of adapters, packets, threads, connections and ports, and any size of pools,
lists, streams and sequence numbers, from the assumptions on constants that the modules state:

- `ControlDevice_proofs`. `IInv` is inductive: type correctness, the exact counter, exclusion
  (the state word tells who is inside), `FirstOne` (at most one instance waits or creates, and a
  deletion with registered instances has a waiter) and `Handles` (what handle and object are at
  every place of the thread inside). The exclusion needs the counter, the counter's lower bound
  needs it to be exact, and the handle needs the exclusion: none is inductive alone. All safety
  properties of the run `device` follow (`CountCorrect`, `MutualExclusion`, `AssertsHold`,
  `DeviceAlwaysCorrect`), and so does `RefinesLifecycle`: the initial states and every step of
  `ControlDevice` are those of `DeviceLifecycle`, or a stutter.
- `AdapterIO_proofs`. `Core` is inductive: type, `Alone` (one pair of hands), where each thread
  can be, the meaning of `OutstandingRequests` and the promise to the queue; the send counter is
  shown beside it. Under the assumption that NDIS issues no capabilities query
  (`"capabilities" \notin Oids`, the hypothesis of the theorems concerned), a second invariant
  says that the protocol edge stays low between the power-down and the power-up and that what was
  waited for stays away; the ASSERTs of the drain, `QuietWhenLow` and `StandingByCleared` follow.
  `RefinesRequests` needs no such assumption: every step of the three threads is a step of
  `RequestService` or a stutter, for any kinds of request. `Core` says that one pair of hands has
  the request, so that `Stage` has one value (`StageIs`); a step that leaves these hands alone is
  a stutter (`SameHands`), which disposes of sends and waits; and what the decision under the lock
  is about is a request that may go down (`Decided`, inductive beside `Core`). That a request
  cannot be sent twice, or be answered before the miniport below is done with it, is so because
  `RequestService` has no such step.
- `AdapterLifecycle_proofs`. What is shown of one adapter needs nothing of another, except at the
  control device. `Consistent(a)` says for every pair of places its two threads may stand at what
  the fields of the structure are: which of the two holds a reference, who will close the
  binding, whether the structure is allocated. Beside it `ControlDevice`'s invariant is carried
  along, because every step of an adapter is one of `ControlDevice`, or a stutter (`UsesDevice`). All
  invariants of the run follow: `RefCountAlwaysExact`, `NeverUsedAfterFree`,
  `BindingAlwaysCorrect`; and `DeviceCorrectInLife`.
- `MediaStatus_proofs`. The record and what was told agree only between two handlers; the
  invariant says at each place which of the two is ahead, from when on the suppressed status has
  been written, and that the status reported last is always somewhere: told, or kept for the
  power-up (`NothingForgotten`). `RecordAlwaysCorrect` and `LinkAlwaysKnown` follow.
- `TcpReceive_proofs`. Four invariants, because what `rcv_nxt`, the queue and the upper protocol
  have to do with each other depends on the faults. `InStep` (in sequence, with repetitions and
  reconnections): everything that arrived is above, the queue is empty between two indications.
  `Lagging` (in sequence, with failing allocations, a lost end of the handshake, straddling
  segments): what is before `rcv_nxt` is above, though `rcv_nxt` may lag. `Ordered` (any order):
  the queue ascends, without overlaps, from `rcv_nxt` on, and between two indications begins
  beyond it. `Patient` (reordering only): the upper protocol has nothing from `rcv_nxt` on. They
  rest on lemmas about numbers that wrap round (`NumbersAgree`: numbers compare as bytes do) and
  about insertion into a sequence. Hypotheses: a stream has fewer bytes than half the sequence
  numbers (`NumbersSuffice`, for `RcvNxtAlwaysTracks`, `AlwaysIndicatedOnce`, `NothingEverLost`),
  or fits into the window (`WindowSuffices`, for `QueueAlwaysCorrect`: a segment beyond the
  window goes up at once).
- `ConnectionLists_proofs`. Nobody holds the lock during a walk, so the lists themselves must
  make it right: entries come in at the head and never leave. The invariant says so by a rank
  that falls along every `Flink`, and says of each walk that no entry of its connection ranks above
  where it stands. `AlwaysOnePerConnection`, `AlwaysServed`, `AlwaysTakesWhatItTested` follow.
  `AlwaysReachable` (a walk from the head meets whatever was inserted) needs two more arguments:
  every rank up to the highest is taken by one entry, and a walk that goes down one rank at a time
  cannot miss one. `ListsImplementTable` says where a look-up takes effect: at `TakeFound` for one
  that finds its connection, at `Publish` for one that enters it. That what `TakeFound` takes is
  listed and of the right connection, and that `Publish` enters nothing that is listed already
  (unless the connection is in `Shared`), comes from the invariant on the walks; all other steps of
  a walk stutter.
- `Analysis_proofs`, reassembly. `ReassIInv` says that a chain is sorted by offset and lacks its
  last fragment, and what was counted of each fragment: in chains, passed up, lost. That the
  place `ip_reass` finds keeps the order, and that an insertion leaves one copy more of the
  fragment and as many of every other, are lemmas (`ChainedInOrder`, `ChainedCopies`).
  `DatagramsAlwaysCorrect` and `KeptAlwaysHeld` follow, for any datagrams, copies and faults of
  the network.
- `Analysis_proofs`, checksum. `SumIInv`: `cksum` is the sum of the words passed so far, through
  whichever of the three loops, and `dlen` says how far that is. The sum of n words is at most
  n (`Base` - 1), so that 32 bits hold it (`WordsFit`: a segment has fewer than `Base` words). A
  carry that is added again changes a number by a multiple of `Base` - 1 and never to 0
  (`FoldOnceIs`), after two folds none is left (`ComplementIs`), and swapping the bytes of a word
  multiplies it by `HalfBase` modulo `Base` - 1 (`SwapIs`), hence `ChecksumAlwaysVerifies` for
  both byte orders, any words and any length.
- `Analysis_proofs`, ports. Between the two writes of an addition the slot is free and below `num`
  (`Adding`); a port that stays in the list stays in its slot, so that a look without a lock
  either will reach it or began before it was there (`Ahead`). `SlotsAlwaysCorrect`,
  `LookAlwaysTimely` and the refinement `ListImplementsSet` (the UDP list implements `PortSet`)
  follow.
- `Analysis_proofs`, uploads. The theorems hold for any uploads that three assumptions describe,
  which TLC evaluates on those of the run: they are texts (`UploadsAreTexts`); the request line
  and the header of each are read as what they are, also where the boundary's buffer holds that
  of an earlier upload (`HeadsAreRead`: it speaks of `RequestLine` and `Header` on the heads
  themselves); a part's header leads `MiMeParseFile` into the content at its end and not before,
  no file holds the delimiter, the boundary does not name a file, a form has no more files than
  `File` has room for (the code does not count), and the closing delimiter is the last of it
  (`FormsAreRead`). None of them speaks of `MimeFile`, `BodyTail` or `HttpAnalysis`. `After` is
  the loop of `MiMeParseFile` turn by turn; that the halves into which `MimeFile` cuts it give
  the same is `MimeFileIs`, and that it may be taken in any pieces `AfterGoesOn`. With these the
  loop is followed through the name of a part (`NameRead`), its file, in which every run of
  dashes fails to be the delimiter (`FileGoesOn`, `NoDelimiter`), the delimiter (`PartRead`), all
  parts (`PartsRead`) and the end (`ReadToEnd`), from the beginning of a body or from inside the
  first file (`WholeRead`, `FileBegun`, `ResumedRead`). `BodyTailIs`, `TailInFile` and
  `TailAtEnd` say that `g_boundarybuffer` holds the last bytes of what was sent, so that the
  closing delimiter is found with the last segment and not before. `UploadIInv` says what is so
  between two segments: either nothing is open, or the parser stands in front of the body or
  inside the first file, with the state, the tail and the pieces that its bytes give (`Idle`,
  `Reading`). `OnlyFilesAlwaysWritten` and `AlwaysReadyForNext` follow. Both are about behaviours
  without faults, as the properties are: what happens otherwise, and behind a closing delimiter
  that CR LF follows, is below, under `Http.c:967` and `Http.c:75`.
- `Analysis_proofs`, types under faults. `UploadsTypeCorrect` holds whatever the segments meet: cut
  anywhere, of other connections, after a longer boundary. The loops over the request line
  (`RequestLineIs`), the header (`HeaderIs`) and the body (`MimeFileTypes`) each stay among their
  states, turn by turn (`TurnsExist`, `TurnsStay`), for any text of tokens (the segments of others
  need be no more than texts: `OtherSegmentsAreTexts`). That `FileNumber` stays within `File` is part of
  the type only where no faults occur, as the code does not count; there it follows from
  `UploadIInv`.
- `Analysis_proofs`, the parts together. `PartsStayApart`: a behaviour of `Analysis` is one of each
  part, as a step of another part leaves its variables alone. Hence `AnalysisTypeCorrect`
  (`AnalysisTypeOK` of the run) and `AnalysisCorrect`, which collects what was proved of the parts.
- `ReceivePath_proofs`. The invariant relates the place of a packet, what is above and what is
  owed; `OwedHasHolder`, `PoolIsExact` and `LentNotAbove` follow.

Only model-checked is liveness, which is out of the prover's reach: `RequestAnswered`, `EventEnds`,
`UnbindEnds`, `StreamArrives`, `PacketComesBack`, `IndicationEnds`, and the fairness in
`ImplementsLifecycle` and `UsesControlDevice`. `RequestService`, `ConnectionTable` and `PortSet`
state safety alone: these refinements are proved as they are checked.

The types of all modules are proved. The runs `lifecycle` and `stream` leave `TypeOK` to the proof
(`TypeCorrect` in `AdapterLifecycle_proofs` and in `TcpReceive_proofs`).

Where a proof is by induction (a walk of any length, a sum of any number of words, a carry that is
folded until none is left), the induction is over a set and not over a predicate: a set of numbers
that has 0, and with a number its successor, has all of them (`SetInduction`), which follows from
the library's theorem that < is well-founded (`LeastElement`). It is first used to show that
the recursive function exists, then for what it computes.

## Known disagreements between the code and what it says

Three have a run and an entry under "findings": `flush`, `initfails` and `taken`. The others met
while modelling are excluded from the passing properties by a condition that names them, or left
out of the runs. Widening the constants, dropping the condition or adding the property named
shows each:

| Where | What happens | Shown by |
|---|---|---|
| `miniport.c:831` | a capabilities query answered in a power-down sets both edges to D0 and lets sends in; `StandingBy` may stay set | the properties of `power` with `"capabilities"` among the `Oids` |
| `protocol.c:734`, `miniport.c:1106` | `LastIndicatedStatus` is written on different sides of the indication, without a lock | `RecordIsTold` without its condition, scenario `{"overlap"}` |
| `miniport.c:1102` | a power event of the lower miniport clears `StandingBy` inside `MPProcessSetPowerOid`: a status nobody wrote, 0, is indicated | `ToldWasReported` without its condition |
| `protocol.c:750` | "the latest suppressed media status" (`passthru.h:449`) is kept while the lower miniport sleeps, and nothing indicates it when that wakes | `KnowsLinkAfterSleep` in the run `media` |
| `protocol.c:287` | a bind that fails before the adapter below is open leaves its structure behind | the place `"leaked"` of `AdapterLifecycle` |
| `protocol.c:1254` | `PtReceivePacket` returns `NDIS_STATUS_NOT_ACCEPTED` (65539) where NDIS reads how often the packet will be returned | `HeldIsCounted` in the run `receive` |
| `protocol.c:1333` | `MiniportHandle` is NULL after the analysis: the packet is not indicated, yet its return is promised | `OwedHasHolder` without `MiniportHandle` |
| `tcp.c:275` | a packet that was only lent is queued | `held` and `lent` in the run `receive` |
| `tcp.c:76`, `app.c:77` | threads that share a connection may both insert it, or one takes from the `receiveList` what another has taken and uses `NULL` | `OnePerConnection` and `TakesWhatItTested` without `Shared` |
| `tcp.c:113` | a connection that is opened again finds the queue of the one before, and its segments move `rcv_nxt` | `QueueSorted`, `NothingReadyHeld` without `Unrepeated`, `{"reconnect", "reorder"}` |
| `tcp.c:257` | the search in the queue does not know that numbers wrap round | `QueueSorted` without `NoWrap` |
| `tcp.c:187` | a segment that straddles `rcv_nxt` goes up and `rcv_nxt` stays: what follows is queued for ever | `RcvNxtTracks` without `InSequence`, `{"repeat", "straddle"}` |
| `tcp.c:146` | data in the packet that ends the handshake is not counted; one that overtook others puts `rcv_nxt` ahead | `RcvNxtTracks` without `InSequence`, `{"noAck"}`; `NothingAhead` with `"noAck"` |
| `tcp.c:238` | of what is taken off the queue in a second turn nothing goes up | `NothingLost` without its condition on `"reorder"` |
| `tcp.c:254` | a segment that is queued twice bars the way of those behind it | `NothingReadyHeld` without `Unrepeated`, `{"repeat", "reorder"}` |
| `tcp.c:203` | a segment beyond the window goes up at once | `NothingAhead` with a `Window` below `StreamLength` |
| `passthru.c:213` | `InitEnvironment` is not called: no slot is ever free, and no port can be forbidden | `setUp = FALSE` in `PortPolicy` |
| `NdisDevice.c:389` | `IOCTL_ALLOW_TCP` adds the port it should delete | `Adds` in `PortPolicy` |
| `ipv4.c:172` | the last fragment completes a datagram whatever is missing (the comment at 101 says that it validates) | `DatagramComes` without its condition on `"reorder"` |
| `Http.c:967` | a `break` is missing in the state for the end of a file's name; a form body that begins in the segment of the header is taken for the whole; a closing delimiter that is split, followed by CR LF, or shorter than the one before is not found; with several files over several segments stale pointers are written through | `OnlyFilesAreWritten`, `ReadyForNext` without `uploadFaults = {}`, scenarios `{"anywhere"}`, `{"shrink"}` |
| `Http.c:75` | one parser for all connections: a segment of another one resets or continues what is not its own | the same with `{"others"}` |

## Not modelled, and why

- `DriverEntry` and `PtUnload`: straight-line code that runs once, alone; what it initialises is in
  the `Init` of the modules.
- `MPTransferData` and the other handlers that pass one call on: no state of their own.
- `MIME.c` is empty. `ICMPAnalysis` does nothing. `myChecksum` and `myChecksum2` are not called.
- `PtPnPNetEventReconfigure` changes no state of the driver: it passes an event on, or asks NDIS
  to bind again, which begins the life of another `ADAPT` structure.
- `ReceivedIndicationFlags` with `PtReceiveComplete`: a flag of each processor, set where bytes and
  not a packet are indicated and cleared by the next call on the same processor. No other code
  reads it and no second thread can be in between.
- Several threads in the queue of one connection: `ConnectionLists` models that they find the same
  `TCP_PCB`; what they do to its unlocked queue is not modelled.
- The bytes of packets, descriptors, media and packet-filter headers, per-packet information, the
  names of uploaded files: passed through, no property tells them apart.
- Installation files and the build.

## Plan

Done, in this order: `ControlDevice`; `AdapterIO`; `AdapterLifecycle`; `MediaStatus`;
`TcpReceive`; `ReceivePath`; `ConnectionLists`; `PortPolicy` with `PortSet`; `IpReass`;
`Checksum`; `HttpUpload`; the proofs of all of them; `RequestService` and `ConnectionTable` with the
proofs that they are implemented; `Analysis`.

What remains, in this order:

1. *Composition*: `ReceivePath` with the verdicts of `TcpReceive` instead of any, so that a
   packet is queued in the one and goes up, or is lost, in the other.
2. `TcpReceive` with two threads in one connection: they share `rcv_nxt` and the queue without a
   lock.
3. `IpReass` with two threads in the chains, which the code locks in part.
