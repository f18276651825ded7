# A TLA+ development for SST, the Structured Stream Transport

SST carries many light-weight, reliable, message-framed byte streams between two
hosts over UDP. This directory holds TLA+ modules of its protocol core, TLC
configurations that check them on small instances, and TLAPS proofs of some of
their properties for every value of the constants. Paths below are relative to
the repository's source tree (`lib/`, `reg/`, `shell/`); `PROJECT.json` maps each
definition to the lines it models.

## 1. The system and its parts

Every SST process is one Qt event loop. Handlers run to completion, so there is
no preemption inside a process; what interleaves is the order of packets, timer
expiries and application calls, and a handler that calls *up* (a signal or
virtual method) and is called back *down* before it returns.

| part | source | state | operations | interacts with |
|---|---|---|---|---|
| flow | `lib/flow.*` | transmit records, acknowledgment masks, replay window, delayed-ack state, two timers, link status | `flowTransmit`, `mayTransmit`, `receive`, `acknowledge`, `ackTimeout`, `rtxTimeout`, `start`, `stop` | socket below; `acked`/`missed`/`expire`/`flowReceive`/`readyTransmit` upcalls above |
| congestion control | `lib/flow.cc` | `cwnd`, `ssthresh`, `recovseq`, `markseq`, `cwndlim` | per acknowledgment, per round trip, per loss, per timeout | flow |
| stream, transmit half | `lib/strm/base.*` | `tqueue`, `twait`, `tflt`, attachment, `init` | `writeData`, `transmit`, `acked`, `missed`, `tattach`, window updates | the flow's queue `tstreams` and table `ackwait` (`lib/strm/sflow.*`) |
| stream, receive half | `lib/strm/base.*` | `rsegs`, `rahead`, `rmsgsize`, byte counters, window exponent | `rxInitPacket`, `rxDataPacket`, `rxAttachPacket`, `rxData`, `readData`, `readMessage`, `shutdown`, `setReceiveBuffer` | application |
| stream peer | `lib/strm/peer.*` | primary flow, lookups and key exchanges under way, stall count | `connectFlow`, `foundEndpoint`, `completed`, `flowStarted`, `clearPrimary`, `primaryStatusChanged` | registration clients, key exchange, all streams of a peer |
| datagrams, substreams, service handshake | `lib/strm/*`, `lib/stream.cc` | tables of stream ids and USIDs, queues of substreams and datagrams received, connection state | `connectTo`, `openSubstream`, `acceptSubstream`, `writeDatagram`, `readDatagram`, `gotServiceRequest`, `gotServiceReply`, `StreamServer::accept` | streams, the flow they share |
| key exchange | `lib/key.*`, `lib/dh.*`, `lib/sock.*` | initiator state I1/I2/Done, caches of R2 packets, host keys, channel tables | ChkI1/R1, DhI1/R1/I2/R2, retransmission with a deadline, R0 prompts, cancelling | creates and starts flows |
| registration client | `lib/regcli.*` | state machine, nonce, cookie, requests outstanding, retry and re-registration timers | `registerAt`, `lookup`, `search`, `disconnect`, replies, timeouts | stream peer; server |
| registration server | `reg/main.*` | secret, replies cached by cookie, records by host, keyword index | Insert1, Insert2, Lookup, Search, Delete, expiry | clients |
| remote shell | `shell/*` | receive state of the framing, session and child, buffered output files | `receive`, `sendControl`, `gotControl`, `childDone`, `readyWrite` | one stream; terminal and child process |
| timers, sockets, segments, identities, crypto, serialisation, C interface, stub generator | `lib/timer.*`, `lib/sock.*`, `lib/ident.*`, ... | | | see `components` in `PROJECT.json` |

What is hard in this code: packets lost, repeated, reordered and replayed at the
flow; acknowledgments that cover ranges while their packets are already presumed
lost; counters narrower than what they count; timers armed and disarmed from
several places; retransmission of data whose first copy may still arrive; a
stream that moves to another flow while packets of the old one are under way;
handlers that call up into the streams and are called back in the middle of a
change; exchanges in which one end is done and the other starts over; a server
that forgets everything between two messages; and wake-ups that one component owes
another. `hazards` in `PROJECT.json` lists each with its line and the properties
that watch it.

Properties that make each part correct:

* *flow*: no packet delivered twice; every data packet gets exactly one verdict
  and eventually gets it; acknowledged implies received; acknowledgments owed are
  sent; bookkeeping never leaves its records; a closed window opens again.
* *stream*: bytes and message boundaries arrive in order and exactly once; a
  segment is kept until acknowledged; queued data has somebody who will send it;
  byte counters and windows are exact; end of stream comes after all data.
* *streams of a flow*: a packet reaches the stream it was sent on; a service
  request reaches that service and is answered; substreams and datagrams are handed
  to the application once.
* *peer*: streams use the primary flow only; nobody waits for a flow that is there;
  a stalled primary is not the end.
* *key exchange*: both ends agree on keys and channels; a repeated message makes no
  second flow; an early attempt can be cancelled without trace; every attempt ends.
* *registration*: the server's tables agree with one another; a registered endpoint
  was proved to be the host's; a search is exact or says that it is not; a request
  is answered or reported as failed, unless the client is set to persist.
* *shell*: control messages and data arrive whole and in order, up to the first marker
  byte among the data, where the code's escaping fails (section 5); output is forwarded
  in order, and bounded buffers stay bounded.

## 2. Modules

| module | models | used by |
|---|---|---|
| `FlowCC` | congestion control as operators on a record | `Flow` |
| `Flow` | the two ends of one flow and the network between them | `MCFlow`, `FlowProofs` |
| `FlowProofs` | theorems about each end of `Flow` (types, accounting, replay, verdicts) and about both (acknowledgments) | |
| `StreamTx` | the transmit half of one stream, its packets in the flow, the peer's primary flow | `Stream` |
| `StreamRx` | the receive half: reassembly, framing, window, reading | `Stream` |
| `Stream` | both halves, and dispatch of packets from one to the other | `MCStream`, `StreamProofs` |
| `ReliableStream` | the promise of `lib/stream.h`, abstractly | instantiated by `Stream` |
| `Dialog` | all streams two hosts hold on one flow: ids, services, substreams, datagrams | `MCDialog` |
| `Peer` | `StreamPeer`: the search for a flow, its replacement, the streams that wait | `PeerProofs` |
| `KeyExchange` | both ends of the key exchange, channels, host keys, the network | `MCKey`, `KeyProofs` |
| `Registration` | registration clients and server, the network | `MCReg`, `RegProofs` |
| `Shell` | both ends of a remote shell session and its framing | `MCShell`, `ShellProofs` |
| `StreamProofs` | theorems about the sending half of `Stream`, and what folds over sets compute | `StreamRxProofs` |
| `StreamRxProofs` | theorems about the receiving half of `Stream`, and what folds over sequences compute | `StreamPromiseProofs` |
| `StreamPromiseProofs` | theorems about both halves of `Stream`: framing, and that it implements `ReliableStream` | |
| `PeerProofs`, `KeyProofs`, `RegProofs`, `ShellProofs` | theorems about the module of that name | |
| `MC...` | constants of the instances for TLC | |

The layers meet at the guarantees they check of each other. `Stream` and `Dialog`
assume of the flow what `Flow` shows (one verdict per packet, received at most
once, the window opens again); `Peer` sees of a key exchange that it ends with a
flow or without (`Terminates`), and of a registration client that it answers
(`RequestsEnd`); `StreamTx` sees of the peer a primary flow that comes and goes.

### Flow

State variables carry the names of `Flow`'s members, as functions of the endpoint.
Masks are sets of bit numbers; `pipe` is the set of sequence numbers whose
`TxEvent` has its pipe bit set. A packet is its full sequence number, which only
travels modulo `SeqMod`, its acknowledgment field as written on the wire, the
acknowledgment count, and whether it carries data. `net[e]` only grows: receiving
a packet once, repeatedly or never is delivery, duplication, replay and loss.

`Receive` is `Flow::receive` up to the upcall `flowReceive()`; the `Deliver...`
actions are its remainder with `acknowledge()`, one per case of the sequence
difference. Between the two the stream layer may run `FlowTransmit`, as the code
allows. `RtxTimeout(e, failed)` and `AckTimeout` are the timers; `Stop` is the
upper layer stopping the flow. The truncation of the sequence number to
`acknowledge()`'s 16-bit parameter is `AckMod`. The armor is ideal: a packet
passes authentication exactly if its sequence number was reconstructed rightly.

`FlowCC` has the modes CC_TCP (the default), CC_VEGAS, CC_DELAY, CC_AGGRESSIVE and
CC_FIXED. The last three adaptive ones compare round-trip times, rates and counts
of packets; the outcomes of those comparisons (a `Measurement`) are chosen freely
with every acknowledgment, so what is shown holds whatever is measured.

### Stream

`StreamTx` sits on an abstract flow with just the guarantees the flow runs and
theorems establish: a packet in flight gets one verdict, an acknowledged packet
was received, a packet is received at most once. A packet presumed lost stays in
`ackwait` marked late until it expires; no further verdict comes for it and
`expire()` does nothing, so late packets are not kept. Byte *b* of the model is
the *b*-th byte ever written, so a segment is a position, a size and flags, and
"the right byte" is a matter of position. Positions are naturals; the code's sequence
numbers have 32 bits and wrap, which happens in no run.

The actions are `WriteData` (all ways an application writes, closing included),
`Transmit...` (one case of `transmit()` each), the verdicts `Acked` and `Missed`,
`WindowUpdate`, and `FlowStarted` and `ClearPrimary` of the peer. The congestion
window and the other streams on the flow decide *when* a stream may transmit, so
`Transmit` happens at any time the stream is on the flow's queue. A substream's
parent may be attached or not, so that `TransmitInit` and `TransmitAttach` are
both possible; the root stream always is. `flowStarted()` on a stalled primary is
`ClearPrimary` followed by `FlowStarted`.

`StreamRx` folds `Take` over an arriving segment and the reorder buffer, which is
what the two copies of that code in `rxData()` do, and `ReadSegment` over the
queue for `readData()`. The code asserts that a read buffer holds a whole segment;
reads that would fail the assertion are outside the model. `Stream` dispatches
`Init`, `Data` and `Attach` packets, including those that arrive after the stream
moved on: a late `Init` makes a second stream under the same USID (`phantom`), a
late `Attach` takes over the attachment slot, and data for an unknown channel is
acknowledged and dropped, because `txReset()` is not implemented. The receiver's
own flow object is not stopped in the model; packets that never arrive have the
same effect.

Modelled stream: the initiating end sends, its peer sends only acknowledgments,
so `Reply` packets do not occur, and the stream is in state Connected; both are in
`Dialog`. The transmit window `twin` is not a variable, because `transmit()` only logs that it
is full.

`ReliableStream` has five variables: bytes written, message ends, closed, bytes
read, and how reading ended. `Stream` implements it with `written <- tasn`,
`closed <- endwrite`, `read <- consumed`, `end <- ended`.

### Dialog

`host[s]` is the state of one host: its `BaseStream` objects by number (number 1 is
the root stream), the flow's tables of receive stream ids, the peer's table of USIDs, the
packets in `ackwait`, and the sequence and stream counters. The methods are
operators from that record to the next, so that `RxDataPacket` can end in
`GotServiceRequest`, which writes the reply, which attaches the stream, as the calls
do. `Receive`, `Missed`, `Transmit` and `TransmitAck` are the steps of the flow;
`ConnectTo`, `OpenSubstream`, `WriteMessage`, `WriteDatagram`, `WriteReliable`,
`Accept`, `AcceptSubstream`, `ReadDatagram`, `ReadMessage` and `DeleteStream` are the
application's. Stream ids are stream counters modulo `SidMod`, extended by the
receiver relative to the highest it has seen (`StreamCtr`). An acknowledgment may
establish the id of a stream at the other end (`Acked`), so the order of Reply and
acknowledgment matters.

Here a message fits one segment and the flow stays up: segmentation is in
`StreamRx`, the change of flows in `Stream`. Which stream of its queue the flow
takes first is left open, so `setPriority()` has no effect to model. A packet is
missed only when its acknowledgment cannot come any more (`Overdue`), or as a fault.
A host acknowledges a packet (`RxKnown`) before what the handler transmits from within
leaves; in the code (`base.cc:881`, `1193`) such a packet leaves first, without that
acknowledgment. In the model a packet carries every acknowledgment owed and is taken
in any order, where the code's names one contiguous range; that order, and that range, are
the subject of `Flow` (`AckSound`, `AckNotForgotten`). Only one connection to a service is
made at the top level, so clients of two services do not meet in one run.

### Peer

`peer` is the `StreamPeer` record with its flows and its streams; the handlers are
operators on it, because `flowStarted()` detaches streams that call `connectFlow()`
from within. An attempt is *early* until the responder may have a flow for it;
`flowStarted` cancels the early ones. `due` is the set of streams that have heard
neither `flowConnected()` nor `flowFailed()` since they asked. `retryTimeout()` is
connected to no timer and is no action. Lookups, exchanges and links are the
environment, with every order of their results.

### KeyExchange

An attempt is one `KeyInitiator`: its nonce, hash and checksum key stand for it.
Keys are the tuples they are derived from, a signed or encrypted block its contents.
`Receive` is `KeyResponder::receive` with one action per message and outcome:
`GotDhI2Again` answers from the cache, `GotDhI2Outdated` meets a host key that has
expired. `Retransmit` counts to the hard deadline and gives up; `CancelEarly` is the
peer's. `made` is history: the flows a responder ever created for a nonce.

### Registration

A client is a record, its operations operators on it that also collect the datagrams
sent. A cookie names the server's secret (`epoch`), the source endpoint and the
nonce. The server keeps `chalhash`, `idhash`, `allrecords` and `kwhash` apart, as the
code does, and a record that timed out stays until `deleteLater()` gets to it
(`dying`). `Move` changes a client's endpoint under it and `ServerRestart` forgets
everything. `RegInfo` is the set of keywords it describes; a client on which
nobody calls `setPersistent()` has an uninitialised `persist`, either value.
The `Other` host registers in one step, so that records of two hosts share keywords.

### Shell

Both sides run `ShellStream::receive` step by step (`LoopTop`, `Fill`, `NothingYet`,
then `GotMarker`, `GotData`, `GotLength`, `GotPart`, `GotControl`), because the child
and the kernel go on meanwhile; the other slots of the process do not. A length is
written in base `Radix`, most significant digit first, with the high bit on the last
one, as in the code with 128. `SendData` is `sendData()` with its loop over the markers
in the data: what is before the first one goes out, then the marker, then escapes; since the
loop does not look for the next marker it goes on writing escapes (`EscapedMarker`, of
which `MaxEscapes` are seen) and does not return, so the slot of that process is "escape"
for good and nothing else of it runs. `GotLength` has the receiver's half, with the state
it stays in. `file` is `AsyncFile`: `WriteData` and `ReadyWrite` hand the file part of what
they have. Terminal settings go through `TermPack` and `TermUnpack`, which keep
what the protocol knows.

## 3. What is checked

Twelve runs. "States" are distinct states. Deadlock is not checked in any of them:
a flow or stream with nothing to send is quiet, and exchanges, sessions and calls
come to an end, which is no error; that the system does not stop while there is
something to do is what the liveness properties and `QueuedWillBeSent` state.

| run | instance | states | shows |
|---|---|---|---|
| `flow_safety` | three scenarios, below: mask of 3 bits, loss threshold 2, 10 sequence numbers on the wire | 192 000 | `TypeOK`, `RecordsInRange`, `InFlightAccounting`, `OneVerdict`, `SettledBeforeExpiry`, `AtMostOnce` across wrap-around, `AckSound`, `AckNotForgotten`, `RetransmitArmed` |
| `flow_live` | all adaptive congestion modes, fairness of timers only | 34 000 | `EventualVerdict`, `EventualAck`, `WindowReopens` |
| `stream_transfer` | one flow, one fault, messages of two segments, plain writes, close | 151 000 | `BytesInOrder`, `GapFillable`, `EveryByteHeld`, `QueuedWillBeSent`, `MessageFraming`, `StreamPromise`, `AllDelivered` |
| `stream_failover` | two flows in turn, late packets, resized receive buffer | 165 000 | `RetainedUntilAcked`, `FlightBytes`, `BufferAccounting` |
| `dialog` | two services of which one is registered, one connection, two further calls, one fault | 262 000 | `SameStream`, `ServedAsAsked`, `HandedOnce`, `Answered` |
| `peer` | one registration client, three addresses of which one has no free channel, two flows, two streams | 139 000 | `AttachedToPrimary`, `WaitersServed`, `StallSearches` |
| `key_exchange` | a Diffie-Hellman and a checksum attempt to a host with one free channel, two tries, one fault | 180 000 | `Agreement`, `EarlyLeavesNoState`, `OneFlowPerExchange`, `Terminates` |
| `registration` | one client with two nonces and two calls, one further host, one fault | 135 000 | `TablesAgree`, `EndpointProved`, `SearchExact`, `RequestsEnd` |
| `shell` | five bytes of input with a marker among them, a terminal message that holds one too and needs two length bytes | 784 000 | `FramesIntactToMarker`, `BytesForwarded`, `BacklogBounded` |
| `flow_truncated`, `peer_stranded`, `shell_marker` | | | three disagreements, section 5 |

**Bounds.** *Flow*: the masks are 2 or 3 bits instead of 32 and the wire sequence
space 10 instead of 2^24 in `flow_safety`, so that everything that depends on their
limits (packets falling out of the replay window, records expiring, sequence numbers
reused) happens within a dozen packets. That run is the union of three scenarios
(`Scenarios` in `MCFlow`), which no single set of bounds reaches in reasonable time.
`InBurst`: four packets leave before the first arrives, the case with the most in flight
at once, and the receiver sends two packets of acknowledgment, enough for one to
overtake the other. `InTurn`: eleven packets, each acknowledged before the next, with
every earlier packet of either end replayed at any point, until the numbers of both
directions have wrapped. `BothWays`: two data packets of A and one of B, interleaved
freely with acknowledgments and timeouts, and B may stop. States with a link down are checked but
not explored, as nothing in `Flow` reads `linkstat`. `MaxPacketSeq` is a
bound of the code itself (`tx()` asserts it), only smaller.

*Stream*: up to four bytes in segments of one or two, so that a segment can be partly
old, a message can span segments and two segments can wait behind a gap; `MaxFaults`
bounds how often a packet is lost or wrongly presumed lost, `MaxFlows` how many
primary flows there are. `MinReceiveBuffer` is twice the segment size as in the code.

*Dialog*: one connection and two further calls make up to three streams besides
the root; packets under way are received in any order, and one is lost or rejected; `SidMod` is large enough that no id is used twice, as an id is
never released in the code either.

*Peer*: two streams suffice for one to be attached while the other waits, two flows
for a replacement, three addresses for an attempt that fails, one that succeeds and
one that cannot start. *KeyExchange*: two attempts compete for one channel; three
nonces leave room for a repeated I1; the one fault is a repeated delivery, a prompt,
an expired key or a lost flow (loss itself is unlimited: a message need not be
received). *Registration*: two nonces are one re-registration; `MaxNet` is two
datagrams under way; `MaxResults` 1 so that a search is truncated. *Shell*: a piece
is at most two bytes, so that marker, length and body are cut everywhere; `MaxEscapes` is
two, the least with which an escape follows one that the receiver has decoded.

**Fairness.** `Flow!FairSpec`: the event loop finishes a handler, and an armed timer
fires; nobody has to transmit and the network has to deliver nothing.
`Stream!FairSpec`: the network delivers what it does not lose, the flow reaches a
verdict on every packet (`EventualVerdict`), transmits for a stream on its queue
(`WindowReopens`), and a flow comes up when the peer needs one. `Dialog!FairSpec`: the
same of its flow. `KeyExchange!FairSpec`: the retransmission timer fires; of the
network nothing. `Registration!Spec`: the retry timer fires and the host name lookup
returns; of network and server nothing. `Peer!FairSpec`: the retransmission timer of a
stalled flow keeps firing; `AnsweringSpec`, of `peer_stranded`, has in addition that
lookups are answered and key exchanges end. Nothing is assumed of applications
anywhere: the reader may never read. The shell's properties are safety properties.

Each property of a passing run has a mutant in `PROJECT.json`: a definition marked
"fault" in its module that changes the model as a plausible slip in the code would,
and under which TLC finds the property violated.

## 4. What is proved

Every theorem holds for all constants that satisfy the assumptions named in the
module that declares them; TLC evaluates those assumptions in every run. Each is
the invariance of one inductive invariant (`Init` implies it, every action keeps
it) that implies the property of the run.

**`FlowProofs`**, for every congestion mode in `FlowCC`. Assumed: the masks fit half
the sequence space, the loss threshold and the acknowledgment count fit the mask.

| theorem | property | argument |
|---|---|---|
| `TypeCorrect`, `FlightAccounted` | `TypeOK`, `InFlightAccounting` | inductive invariant `FlightInv`: types, `txfltcnt = Cardinality(pipe)`, and that every packet in the pipe was sent. The types alone are not inductive: that `txfltcnt` stays a natural number needs its meaning. |
| `ReplayProtected` | `AtMostOnce` | `ReplayInv`: everything delivered is *seen*, that is, below the replay window or marked in it. An authentic packet that passes the window was not seen, and recording it keeps all that was. |
| `OneVerdictEach` | `OneVerdict` | `VerdictInv`: data packets sent are the pipe, the acked and the missed, disjointly. |
| `NoRecordExpiresInFlight` | `SettledBeforeExpiry` | `WindowInv`: the oldest record kept follows `txackseq` at the distance of the mask; the loss threshold is below it. |
| `AlwaysArmed` | `RetransmitArmed` | from `FlightInv`: the only step that disarms the timer of a running flow leaves nothing unacknowledged. |

The rest of `FlowProofs` relates the two ends through the packets between them.

| theorem | property | argument |
|---|---|---|
| `AcksNameSent` | | `AckInv`: what an end has received, and every acknowledgment that ever went out, names a packet the other end had sent. |
| `RecordsHeld` | `RecordsInRange`, while `WithinHalfSpace` | `AckInv` and `WindowInv`. `WithinHalfSpace` is that the numbers unacknowledged at an end, with the mask, span at most half the sequence space (2^23 packets in the code, where a window of packets is in flight). Without it the receiver may reconstruct a number of an earlier round, and no bound on records follows. `flow_safety` goes beyond it, with a burst of four in a space of ten, and the property holds there too. |
| `SoundAcks` | `AckSound`, while `Unwrapped` | `SoundInv`: the range an end is about to acknowledge, and the range in each packet that carries it, was acknowledged by its upper layer. |
| `AcksRemembered` | `AckNotForgotten`, while `Unwrapped` | `OwedInv`: what is owed is named in a packet sent or lies in the range the running timer will send. It assumes `AckAckPackets <= AckctMax + 1` (4 and 15 in the code): with more delayed acknowledgments than the count field can name, some would be lost. |

`Unwrapped` says that fewer packets were sent than `acknowledge()`'s 16-bit parameter
and the wire number can tell apart. It is no technicality: `flow_truncated` shows
`AckNotForgotten` violated past it. Across the wrap of the wire number alone,
`flow_safety` checks both on a small instance.

**`PeerProofs`**: `PeerTypeCorrect`, `OnlyPrimary` (`AttachedToPrimary`) and
`NobodyWaits` (`WaitersServed`), from `Good`: types, a primary that is alive, streams
attached to it or to nothing, no one waiting when it is there. `Good` is a predicate
of the peer record, so that it can be shown of the record at every point where one
handler calls another: `flowStarted()` detaches streams, which call `connectFlow()`,
which starts lookups, on a peer that is between two primaries.

**`KeyProofs`**: `KeyTypeCorrect`, `EndsAgree` (`Agreement`), `EarlyIsHarmless`
(`EarlyLeavesNoState`) and `ExchangeMakesOneFlow` (`OneFlowPerExchange`), for any
number of hosts, attempts and channels. The properties speak of flows, and a flow is
made from a message, so the invariant says what messages under way imply:
`Truthful` (an I2 comes from an attempt that is no longer early, an R2 from a
responder that made the flow), `Drawn` and `Binding` (a nonce was drawn, for one attempt
and one host key), `Spent` (whoever can still repeat an exchange that made a flow is
refused: its R2 is cached or its host key is outdated; the cache is emptied only with
the key). `Staged`, `Flows` and `Agreed` are the rest: how far an initiator got, at most one
flow per nonce, and the pairing of the two ends.

**`RegProofs`**: `RegTypeCorrect`, `ServerTables` (`TablesAgree`), `ListedWhereReached`
(`EndpointProved`) and `SearchFindsAll` (`SearchExact`), for any number of clients,
endpoints, keywords and restarts. `Tables` is a predicate of the server record, kept by
each of `DeleteRecord`, insertion, expiry and search; `ClientOK` and `MessageOK` carry
the history of `EndpointProved` through client and network: a cookie that matches is one
the server sent to that endpoint, and an Insert2 shows that it was received there.
`SearchExact` needs `Tables` only, with an argument that narrowing by the other keywords
in any order leaves the same set. Assumed besides what the run has: `NoRec`, the null
pointer, is not a record.

**`ShellProofs`**: `BacklogLimited` (`BacklogBounded`), `FramingIsTransparentToMarker`
(`FramesIntactToMarker`) and `OutputForwarded` (`BytesForwarded`). `BacklogInv` says that `outqd`, on which `receive()` decides whether to go
on, is never below what is queued, and is below the limit while a piece is being written.
The framing theorem is restricted as its name says: of what a side receives after the
first marker among the data it claims nothing, and `MarkersEscaped`, which does, is false.
It makes no assumption on the data. `FramesInv` has a part for each case. `Framed` says
that there are bytes *b* and offsets *o* of frames in them such that *b*
encodes everything ever sent to a side, what it got is a prefix of that, and its read
buffer and the stream are the rest of *b*, entered at a place that its state tells: at the
start of a frame, behind the marker, within the length with the value of the digits read,
within the body with the part read. Both are existentially quantified, so that no
induction over the history is needed: sending extends *b* and *o*, receiving moves
within them. A marker among the data is a frame too, with the escapes after it. `Beyond` takes over
when the receiver decodes the first of these: it got all that was sent, and then whatever
the other escapes give. `Marked` says that a
marker is the last item sent and that its sender is in `sendData()` for good, so that
nothing is sent behind it. The invariant includes `ForwardInv`, for the types of what was
received. Assumed: control messages are not empty and their length has at most two
digits in base `Radix` (up to 16383 bytes with the code's 128; the messages the code sends
have a few dozen). `ForwardInv` is
`BytesForwarded` with the types of the session and of what was received; that a dying
session and a failed file stay so makes it inductive. `DataOf()` is shown to be a run over
the items received (`DataCollected`), of which a packet adds its bytes (`DataAdds`) and a
control message nothing; `WrittenData` is the regrouping that fails if a write overtakes
the queue.

**`StreamProofs`**, about the sending half of `Stream`, for any segment sizes, number of
flows and faults: `SegmentsRetained` (`RetainedUntilAcked`) and `FlightCharged`
(`FlightBytes`) from `TxInv`: types, the two in-flight counters as sums over the packets
in flight, and every number in `twait` in the queue or in a packet in flight. Requeueing,
`txenqueue()` and the sums are folds over sets of packets. The library's induction
theorems are out of reach, so the first lemmas do without them: the sizes of the subsets on
which a claim about a fold fails have a least element (`Least`, `Smallest`), and a
smallest such subset contradicts itself by taking one element off. From that,
`SumsAnyOrder` (a sum does not depend on the order), `EnqueuedRange`, `RequeueRange`
and `LiveQueueRange` (no segment is lost or made up). `QueueServed` is `QueuedWillBeSent`
while `FirstFlow` holds, that is until the first primary flow is lost: the stream is on
the flow's queue, waits for a flow, or waits for the verdict that attaches it. The
hypothesis is the code's: after `clearPrimary()` it does not hold (section 5,
`base.cc:40`), and the run that checks it has one flow.

**`StreamRxProofs`**, about the receiving half, for any order of arrival, overlap,
repetition and size of segments: `ReceivedInOrder` (`BytesInOrder`) and `BufferCharged`
(`BufferAccounting`) from `RxInv`: types, `rbufused` as the sum of the sizes in `rsegs` and
`rahead`, and, until the end of the stream is read, `Ordered`: the segments of `rsegs`
follow each other from `consumed` to `rsn`, those of `rahead` are beyond `rsn` and sorted.
What `BytesInOrder` lacks to be inductive is that all these are segments, sizes included:
they come off the network, so `TxInv` is needed too. The loops of `rxData()` and of `readData()` are folds over
sequences. The first lemmas show each to be a run, a function from 0 to the length whose
every value is made from the one before; a claim about all positions then follows from the
first one at which it would fail. From that: the loop over `rahead` drops, trims or appends
each segment and keeps the order (`TakeOrder`) and the sum (`TakeAll`), insertion keeps
`rahead` sorted (`InsertDoes`), and a read takes whole segments from the front and uncharges
their bytes (`ReadAll`). `GapsCanFill` (`GapFillable`) adds `WindowInv`: the
buffer is never below `MinReceiveBuffer`, which is two segments as in the code. The exponent
in the window byte rounds the room down to a power of two less one, so that at least one
segment is left. A power of two is known to the prover only as the number of subsets of a
set of that size; the first lemmas derive from this that it doubles (`TwoPowerNext`).

**`StreamPromiseProofs`**, about both halves and the network between them:
`ReliableDelivery` is the refinement (`StreamPromise`, every step of `Stream` is a step of
`ReliableStream` or a stutter), `MessagesFramed` is `MessageFraming`. `BytesInOrder` says where
the bytes are; what is new is where messages end, and that depends on what is under way.
`FrameInv` says of every segment in the queue, in a packet, in `rahead` and in `rsegs` that
it is `WellMarked`: it lies within what was written, does not reach across a mark of the
writer, and has a message flag if it reaches one. Trimming keeps that, and `NothingMadeUp`
shows that nothing but `writeData()` makes segments. Of the receiver it says `Framed`: there
is a function *f* with the positions at which the messages of `rmsgsize` end, each is a mark,
and no mark up to `rsn` is missing, except the one of an empty close, which frames
nothing. `TakeAllFrames` and `ReadAllFrames` carry this through the loops of `rxData()` and
`readData()` along the runs of `StreamRxProofs`. Hypothesis: no empty messages
(`0 \notin MessageSizes`; an empty close is allowed). It is the code's: an empty message has
the position of the bytes that follow it, and if it arrives behind them they are framed without
it (section 5, `base.cc:472`).

`NothingLost` is `EveryByteHeld`. `HeldInv` says when the sender may forget: `KnownInv`,
before the receiver knows the stream nothing of it is acknowledged and only packets that
open it are sent; `CoverInv`, the bytes of a packet whose acknowledgment is under way, and
those of a segment no longer in `twait`, are with the receiver. Hypotheses, each the code's:
at most one primary flow so far (`nflows <= 1`; on another one the stream is attached under
its USID, section 5, `base.cc:904`, `1384`), no empty writes or messages (`base.cc:472`), and
`InitReaches`: a stream under the root is not written further, before its first
acknowledgment, than the 16-bit position of an Init packet reaches. Beyond it only an Attach
can go out, which for an unknown stream is acknowledged and its data dropped.

**Only model-checked.** Liveness: `EventualVerdict`, `EventualAck`, `WindowReopens`,
`AllDelivered`, `Answered`, `StallSearches`, `Terminates`, `RequestsEnd` (fairness and
`ENABLED` are beyond this prover). And `Dialog`: its three invariants rest on one
correspondence of stream ids, USIDs, packets and stream objects of both hosts, through a
state of two records of some thirty fields; each handler is a composition of several
operators on it, some of them folds.

## 5. Where the code and its documentation disagree

Three runs state what a comment says and TLC finds it violated; `findings` in
`PROJECT.json` quotes the lines.

* `flow_truncated`: `acknowledge()` takes a 16-bit sequence number; past 2^16
  packets a flow no longer acknowledges what it receives.
* `peer_stranded`: `connectFlow()` "eventually emits a flowConnected() or a
  flowFailed() signal" (`lib/strm/peer.h:71`). An attempt that fails while a lookup is
  outstanding signals nothing, a lookup that finds only known endpoints starts
  nothing, and the reconnect timer is connected to nothing.
* `shell_marker`: "Escape any SOH characters in the stream" (`shell/proto.cc:266`) and
  "Just an escaped control marker" (`shell/proto.cc:349`). After the first marker
  `sendData()` writes escapes without end; the receiver stays in `RecvLength` and takes
  each for another marker. `FramesIntactToMarker` is what does hold.

The models follow the code in these places too, where it does not do what one would
expect; the properties are stated so that they say what does hold.

* `lib/flow.cc:523`: the guard of the straggler loop tests the wrong bits, so an
  acknowledgment for a packet in a gap is mostly ignored and the packet is sent again.
* `lib/flow.cc:298`: the retransmission timer runs on an idle flow as well.
* `lib/strm/base.cc:472`: an empty message and the segment after it share a position,
  and acknowledging the first drops the second. The runs write no empty messages.
* `lib/strm/base.cc:1496`: `atEnd()` stays false when the last read stops at a message
  boundary. `StreamPromise` says only that the end is not seen too early.
* `lib/strm/base.cc:40`: a stream detached with queued but no outstanding segments is
  not attached again by anyone. `QueuedWillBeSent` is checked with one flow.
* `lib/strm/base.cc:904`, `1384`: a late Init makes a second stream under its USID, a
  late Attach takes over the attachment slot.
* `lib/strm/base.cc:362`: a request for an unknown service gets no reply; `Answered`
  speaks of services somebody listens on.
* `lib/strm/base.cc:925`: a substream that its parent does not listen for is refused
  after its packet was acknowledged, so its data is gone without notice.
* `lib/strm/base.cc:646`: a datagram is charged to `tflt` and never refunded. `Dialog`
  has no `tflt`, since the transmit window is not enforced (`base.cc:497`).
* `lib/strm/base.cc:243`: stream ids are never released. A stream deleted while it
  waits for the service reply is never closed.
* `lib/regcli.cc:94`, `150`: `disconnect()` leaves its nonce in the table and a host
  name lookup under way; late answers register an idle client again.
  `lib/regcli.cc:264`: a new `lookup()` restarts the retry timer of the earlier ones,
  so `RequestsEnd` needs the number of calls to be finite, which `MaxCalls` makes it.
* `reg/main.cc:158`: a repeated Insert2 is taken as new, so the latest arrival wins
  and not the latest request. `EndpointProved` says that the endpoint was proved once.
* `lib/key.cc:919`, `275`, `671`: a host key that expires between R1 and R2 leaves the
  responder with a flow nobody uses; a repeated ChkI1 is not answered again; `gotR0()`
  stops at the first initiator that is past I1.
* `shell/asyncfile.cc:135`: `outqd` is never lowered, so forwarding stops for good
  after one buffer of queued output. `BacklogBounded` is the bound, not progress.

## 6. Not modelled, and the plan

Not modelled: CC_CTCP (asserts that it is not used); `txReset()`, `rxResetPacket()`
and `rxDetachPacket()` (not implemented); the order in which priorities make the flow
take streams; UDP sockets and name resolution (I/O); the relay segments (unused by
the stream layer); identities and cryptographic primitives (wrappers over a
library, ideal in the models); serialisation (no state that outlives a call); the C
interface (unfinished); the stub generator (vendored); test programs. An access to
an object the code has already deleted is given no outcome: such steps are left out.

Plan, most important first:

1. *Dialog*: the tables of stream ids and USIDs.
