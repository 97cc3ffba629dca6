# bnet, specified

TLA+ modules, TLC configurations and TLAPS proofs for `bnet`, a Rust library that
gives UDP sockets reliable messages, ordered and unordered, with packet batching,
acknowledgment maps, resending and pacing. Paths below are relative to the
repository (`src/...` is the crate).

## 1. The system

A `Socket` is polled by one thread. It holds a table of `SocketConnection`s keyed
by address, a queue of received messages and a queue of events. Nothing runs
between two polls, nothing runs concurrently inside one process: what makes the
code hard is the network between two sockets, which loses, duplicates, delays and
reorders, and the bookkeeping on each side that has to agree about message ids,
packet ids and windows without ever exchanging that state directly.

```
 application                                                     application
   | send_to                                          recv_from ^
   v                                                            |
 SendManager --packets--> SocketBackend ~~ UDP ~~> ReceiveManager -> channels
   ^   (message ids, packet ids, score)            marks packet ids, messages
   |                                                            |
   +------ ack map, score id and score <~~ UDP ~~ SendManager of the other side
```

| Component | State | Operations | What is hard |
|---|---|---|---|
| `window.rs` `SlidingAckWindow`, `LeadingAckWindow`, `BitSet` | position and bits | `mark`, `get_marked`, `to_packet_score`; `set`, `shr` | sliding over holes, jumps larger than the window, never forgetting an id |
| `socket/receiver.rs`, `socket/channels.rs` | two windows, three buffers | `mark_received_packet_id`, `process_message`, `recv_message` | duplicates, reordering, ordered and unordered messages that share ids, ids beyond the window |
| `socket/sender/mod.rs` | message queue with timers, counters, two windows | `queue_msg`, `poll` (cleanup, collect, pack and send), `mark_sent_packet_received` | clones of queued messages, put-back, retries racing acknowledgments, score and budget |
| `socket/sender/pwindow.rs` | the last 32 packets in flight with their message ids | `push_sent`, `mark_sent`, `in_flight` | eviction of live entries, late acknowledgments |
| `socket/sender/pscore.rs` | score and its 8-bit id | `push_score`, `has_score`, `consume_score` | wrap-around, rounding to zero, starvation |
| `socket/connection.rs` | one sender, one receiver, heartbeat time | `process_packet`, `poll`, `timed_out` | the order in which a packet's id, acknowledgments and messages are handled |
| `socket/mod.rs` | connection table, message and event queues | `send_to`, `poll`, `connect`, `disconnect`, `recv_from`, `get_event` | unknown senders, timeouts racing late packets, reconnection with ids from 0 |
| `packet.rs` | crate under construction | `can_fit`, `put_user_message`, `build`, `build_ack_map`, `is_valid` | capacity |
| `socket/stats.rs`, `utils.rs` | averages, a ring of round trip times with a sorted copy, shared clock, small vector | `update`, `record_rtt`, `median`; `push`, `clear` | the median while the ring fills and turns over; a vector that moves to the heap |
| `socket/backend.rs`, `crc32.rs` | OS socket, buffer | `recv_from`, `send_to`; `sign`, `validate` | a bad checksum ends the receive loop of a poll |
| `socket/virt.rs` | a clock and the packets kept back | `send_to`, `poll` | packets that are due in any order, removed by index |
| `broadcast.rs` | none | `recv` | shares the backend's ambiguous `None` |

What makes each correct is in section 3, what is left out in section 7.
`PROJECT.json` lists the hazards at their lines, with the property that covers
each or the reason why none does.

## 2. Modules

| Module | Models | |
|---|---|---|
| `AckWindow` | `window.rs`: both windows as a position and the set of ids whose bit is set | operators |
| `Packet` | `packet.rs`: kinds, ids, sizes, validity | operators |
| `Subsequences` | `Vec::retain` and the loops that collect some elements of a queue: the part of a sequence at a set of places | operators |
| `ReceiveManager` | `receiver.rs`, `channels.rs`, `process_packet`, the drain loop of `poll_connections` | state and actions |
| `Receiver` | `ReceiveManager` under an environment that hands it any valid packets | Spec, properties |
| `SendManager` | `sender/mod.rs`, `sender/pwindow.rs`, `sent_packet_acknowledgments_received` | state and actions |
| `Sender` | `SendManager` under an application and a peer that reports any packet ids | Spec, properties |
| `Link` | `SendManager` + network + `ReceiveManager`: one direction of a connection | Spec, properties, refinement |
| `Delivery` | what the link promises, with none of the above | abstract specification |
| `Socket` | `socket/mod.rs` with the timers of `connection.rs`: table, events, messages, polls | Spec, properties |
| `Pacing` | `sender/pscore.rs`, `to_packet_score`, the timers, the back-off and the forced packets of `sender/mod.rs`: when a message is sent | Spec, properties |
| `Backend` | `backend.rs`, `virt.rs`, `broadcast.rs`, `receive_messages` | Spec, properties |
| `BitSet`, `BitWindow` | `window.rs` as it is: pages of bits, `shr`, positions, the loops of both windows | operators |
| `PacketQueue` | `pwindow.rs` as it is: the queue of options, its position, its loss count; `StackVec` | operators |
| `RoundTrips` | `RTTMeasurements` of `stats.rs` over `Circular` | operators |
| `Checksum` | `crc32.rs`: the table, the loop, `sign`, `validate`; a word is the set of the places of its ones | operators |
| `Parts` | the data structures of the four rows above, each operated on beside what it should amount to | Spec, properties |
| `OperatorProofs` | lemmas about least elements, recursion, sequences and windows; the theorems about bits and pages | TLAPS |
| `ConnectionProofs` | lemmas about each half of a connection, whoever drives it | TLAPS |
| `SenderProofs` | the theorems about `Sender`, and about the data structures of `Parts` | TLAPS |
| `ReceiverProofs`, `LinkProofs`, `PacingProofs`, `BackendProofs`, `SocketProofs` | the other theorems of section 5 | TLAPS |
| `MCReceiver`, `MCSocket`, `MCParts` | the sets that configurations name | TLC |

**State and code.** Variables carry the name of the field they stand for, or the
comment at their declaration gives it. A message is a record of its kind, id and
(for the sender) size; the payload never matters, so the number of an unreliable
message, which has no id in the code, stands for it. A window is `[pos, marked]`:
`marked` has the ids of the bits that are set, so `SlidingAckWindow::mark` with its
shift-by-one loop becomes "the next base is the lowest id not marked". `ordered`
is a set because `ReliableChannel` keeps a `BTreeMap` keyed by id. `sentPackets`
is a function from packet ids to message ids; the code's queue of options and its
position are its representation.

**Steps.** A loop of the code is one action per iteration (`ProcessMessage`, the
three `Recv...` actions, `MarkSentPacketReceived`, `MarkSentMessage`,
`SendPacket`), with the loop's locals as variables (`incoming`, `acking`,
`marking`, `poll`). While one loop runs no other operation of the connection may
begin (`RcvIdle`, `SndIdle`), as in the single-threaded code. Invariants are
therefore checked in the middle of every loop as well.

`Socket` keeps of a connection what the table's decisions depend on: the time left
before it times out, the message window, the messages taken. A poll is a sequence
of steps as in the code: clocks, packets, then each connection in any order
(`HashMap`), its messages, its timeout, and the removal of those that timed out. The
order in which one connection gives out its messages is any here and exact in
`ReceiveManager`.

**What is chosen freely.** When a poll begins, `BeginPoll` is given the messages
whose resend timer has run out, the packet budget, the effective score, and
whether a packet with an id is due. In the code a clock and RTT estimates decide
them; any outcome of theirs is one of the choices, so what is shown does not
depend on timing. While a poll runs the score may fall after every packet that has an
id, as `consume_score` makes it. Only reliable messages that were attempted have a
running timer: `queue_msg` sets the send time of a new one to zero.

`Pacing` puts a clock back where these choices matter. A round is a poll of the
sender, a poll of the peer, and the arrival of the reply that is due, so all times
are counted in polls. A connection has one `latency`, the rounds a reply is on its way, and its
round trip time `Rtt` is what the program measures of these replies: an acknowledgment
is processed `latency + 1` polls after its packet was sent, and `mark_sent_packet_received` takes off half
a poll (`sender/mod.rs:510-519`), which is why time is counted in halves of a poll. The average
is taken to have settled, with a deviation of zero, of which `safe_packet_rtt` would add a multiple. The budget
of a poll is one packet, which is what 60 packets a second come to for a poll of up to
33 ms. `peer` is the part of the other side that answers: its packet window, its
next score id, what it took. Packet ids are kept small by lowering all of them
together, since only differences count once the window has left its beginning.

`Parts` compares representations with what the other modules take them for. Each
behaviour is about one part and calls its operations in any order:
`BitWindow`'s bits against `AckWindow`'s sets, `PacketQueue` against the packets
that were sent, received and lost, `RoundTrips` against the last records,
`Checksum` against altered datagrams. A word of the checksum is the set of the places of its
ones: `^` is the symmetric difference and `>>` lowers every place, dropping those below zero. That is what these
operators do to machine words, and unlike arithmetic on numbers, it can be proved about.

In `Backend` data is a size, the call of `send_to` it belongs to, and whether it
decodes to a crate. "Corruption" of the virtual socket reverses the bytes before they
are signed, so the checksum of such a datagram is right and only decoding rejects
it (the socket skips it, a `BroadcastListener` gives it out). A real network's
altered datagrams, and those of other programs, are `Strange`. Whether their checksum is wrong is open,
since 32 bits can match by chance: no property of `Backend` depends on it, and what the checksum
does catch is `ChecksumCatches`.

**Network.** `wire` keeps every packet ever given to the socket. A packet in it may
arrive any number of times or never, but not after one that was sent more than
`MaxReorder` places later has arrived. Ack maps, which the other direction's
packets carry, may be lost, repeated and reordered without limit.

**Faulty forms.** Some operators are preceded by faulty forms of themselves
("Faulty form of ..."): plausible bugs of the code. `PROJECT.json` ("mutants") pairs
each property with one that violates it. No specification uses them.

## 3. What the runs show

| Run | Configuration | Bounds | Shows |
|---|---|---|---|
| `receiver` | `MCReceiver.cfg` | windows of 2 packets and 3 messages; packet ids 0, 1, 3, message ids 0..3, two of them ordered; up to 2 messages a packet, 4 packets | the receiver's safety, under any arrival order, and that what may be delivered is delivered in the end |
| `sender` | `MCSender.cfg` | both windows 2; 3 messages of any kind and of size 1 or 2 in crates of 2; 3 packets, polls of up to 2 packets; ack maps of up to 2 ids | the sender's safety, whatever the peer reports |
| `sender_ack_only` | `MCSenderAckOnly.cfg` | polls of up to 3 packets | violated: see section 6 |
| `link_fifo` | `MCLinkFifo.cfg` | both windows 2, 3 messages, 4 packets, loss and duplication but no reordering | the link's promise with a sender that runs ahead of the window |
| `link_window` | `MCLinkWindow.cfg` | message window 3, packet window 2, 3 messages of both reliable kinds, 3 packets, any order | the link's promise under reordering, when the window has room for all messages |
| `link_reorder` | `MCLinkReorder.cfg` | both windows 2, 3 messages, 3 packets, order disturbed by one place | violated: see section 6 |
| `socket` | `MCSocket.cfg` | two peers, one message of each kind, 2 packets, 2 connections made, a timeout of 3 ticks, polls of 0, 1 or 4 ticks of which 2 count | the table, the events and the timeouts; connections to silent peers end |
| `parts` | `MCParts.cfg` | pages of 4 bits, bit sets of 3 and 10; windows of 4 and 3, ids 0..7; packet window 3, 5 packets of up to 3 ids, 2 of them in place; histories of 4 of up to 6 records; checksums of 8 bits over chunks of 4, data of up to 3 chunks | the data structures are what the other modules take them for |
| `backend` | `MCBackend.cfg` | 2 datagrams of size 1 or 4 in an MTU of 5 with 2 for the checksum, polls of 1 tick, a delay of 0 or 1; 3 arrivals, wrong checksums and undecodable data among them | the virtual socket and both readers |
| `pacing` | `MCPacing.cfg` | packet window 3, replies after 1 or 5 rounds (round trips of 1.5 and 5.5 polls) and overtaken by one more, 8 score ids, 1 message, 4 losses | scores and their ids; a message gets through |
| `pacing_slow` | `MCPacingSlow.cfg` | packet window 3, replies after 6 rounds (a round trip of 6.5 polls), nothing lost | violated: see section 6 |
| `backoff` | `MCPacingBackoff.cfg` | `DurationMax` of 20 polls, a round trip of 1.5, 4 losses | violated: see section 6 |

**Receiver** (open environment, so these hold whatever the peer and the network do).
`NothingLost`: the message window covers exactly the ids that are buffered or
delivered. `AtMostOnce`: no reliable message is in two places or delivered twice.
`InOrderNoGap`: an ordered message is delivered only after every ordered message
with a lower id; the channel decides this from a window that unordered messages
move too. `AcksAreExact`: what is acknowledged is exactly what arrived among the
last packet ids. `NeverForgets` (action): the window never moves back or loses
an id. `PollDrains` (action): after a poll only messages above a hole are left.
`DeliveredInTheEnd` (liveness). `IInv`: the inductive invariant of section 5.

**Sender.** `NoneForgotten`: a reliable message stays queued, in order, until the
window covers it. `CoveredWasAcked`: the window covers an id only if a packet
that carried it was reported, and an entry names what its packet carried, also
when entries are evicted and reports come late, twice, or for ids never sent.
`InFlightIsExact`: the packet window has an entry for exactly the recent
unreported packets.
`CandidatesAreQueued`: the `unwrap` in `prepare_and_send` cannot fail.
`UnreliableOnce`: an unreliable message is in one place at any time: queue,
candidates of the running poll, or one packet. `PacketsAreSound`: packets are
valid, fit, and have increasing ids. `NeverResendsAcked` (action).

**Link.** `AckSound`: what the sender believes received, was. `ReliableNotLost`: a
message that was not taken is still queued. `KeepsPromise`: the link implements
`Delivery`, where a message is taken once, delivered at most once (the ordered ones in the
order of `send_to`), and confirmed only after it was taken. The mapping reads the
windows and the delivered messages; a message's kind is found in the queue or in
a packet. `handed` is the sequence of what was delivered, one entry for every delivery, so that a
second delivery of a message is a step that `Delivery` does not have, and no stuttering step.

**Socket.** `EventsTellConnections`: the events an application takes leave it with
exactly the table's addresses, and none repeats what is known; connect, send_to,
disconnect and timeouts may come in any order. `TimeoutsAreExact` (action): a poll
removes a connection exactly when its peer was not heard for the timeout, although
the clock advances before the packets of the same poll are read. `LeavesNothing`
(action): no connection is removed with a message it could have given out.
`SilentPeersLeave` (liveness). Messages of an address without a connection are put
in the queue unfiltered, so a peer's reliable message may be delivered again when it is
resent; `tests/socket.rs:176` says so, and no property claims otherwise.

**Parts.** `ShiftsKeepBits`: the pages of a `BitSet` hold what was set and not
shifted out, over borders of pages. `shr` is wrong for a multiple of the page length
when there is more than one page (`CanShift`); with windows of 32 and 64 there is one
page only, so the code never meets it. `BitsAreTheWindows`: the loops over bits amount
to `AckWindow`'s sets, which every other module uses. `PacketsAreCountedOnce`: a sent
packet is in flight, received or counted as lost, and only one of them, and keeps
its ids when they move to the heap. `MedianIsTheMiddle`: of the last records, however
often the ring turned over. `ChecksumCatches`: a change within one chunk, a datagram that
is shorter than a checksum, and another signature. One that lost some of its end and still holds as
many bytes as a checksum has is caught with high probability only; nothing is claimed of it.

**Backend.** `NoneSkipped`: a datagram that ends the receive loop early takes no other
with it, and the order stays. `OnTime`: between calls the virtual socket keeps nothing that is due,
and released nothing early. `ReadInTheEnd` (liveness): later polls read what an
early end left behind.

**Pacing.** `KeeperIsNewest`: the score id kept is the newest received, over all wraps
of its 8 bits and whatever comes late. `ScoreGrantedOnce`: the score left is what the
newest reply granted less what was spent since. Both exempt a peer that was silent for
more than half of the ids: its new scores then look old until the ids have come
round. `ReliableArrives` (liveness) has no such exemption: the message still gets through, with
any losses the bound allows, as long as the full score comes to at least one packet
(`latency < 2 * PacketWindowLen`). At that boundary only the full score allows a packet, and
only while none is in flight; packets that are forced without messages compete for that one place, and are
sent once in a round trip time as well.

**Why the bounds are enough.** Everything interesting is relative to the window
lengths, which are constants: with 2 or 3 the runs reach windows that slide over
filled holes, ids out of reach, packets that push live entries out, and late
acknowledgments. With windows of 32 and 64 the same cases need dozens of messages.
The receiver's packet ids skip one (0, 1, 3) so that the packet window jumps. Four
packets in `link_fifo` let the sender lose a packet, run ahead, resend and go on.
In `pacing` the 8 score ids wrap in the space of a few losses, so that silence longer
than half of them, late copies and the wrap itself all occur; with 256 ids the same
takes hundreds of polls, and `PacingProofs` covers it. The latencies are chosen at both ends: 1 round
gives the full score, 5 the least that is not zero, 6 (`pacing_slow`) none. In `parts` a bit set
of 10 bits has three pages, the last one partly used; windows slide, jump by less
and by more than their length, and turn over. `checksum` is checked with 8 bits because its
algorithm does not depend on the widths, which are parameters (`ChecksumIsSound` is for all of them).
The theorems of section 5 have no bound. Every run that
passes explores its whole state space and checks deadlock: every action of an
environment waits until no loop runs, so a loop that got stuck would be one.

**Fairness.** `receiver` assumes weak fairness of `Loop`, since a `while` loop of
the program runs to its end, and of `Poll`, since the library does nothing for an
application that does not poll its socket. `socket` assumes that a poll ends, and
strong fairness of polls with a `dt` above zero: the application may poll so fast
that some count no time, but not all. `backend` assumes that the application polls, or
asks its listener, again and again. `pacing` assumes that both peers poll and that what
has arrived is processed; losses are finitely many (`MaxLost`), without which nothing
could be promised. Nowhere else is a packet assumed to arrive. The
receive loop of a poll ends in the models because the packets of a behaviour are
bounded; a socket that is flooded faster than it reads would stay in it.

## 4. Reading order

`AckWindow`, `ReceiveManager`, `Receiver`; then `SendManager`, `Sender`; then
`Delivery` and `Link`; `Socket`; `Pacing`; `Backend`; then `BitSet`, `BitWindow`, `PacketQueue`,
`RoundTrips`, `Checksum` and `Parts`; each proof module after the module it is about.

## 5. What is proved

For all window lengths, id sets and bounds, under the assumptions
`WindowAssumption` (lengths are positive) and `ReceiverAssumption` (ids are
naturals), TLAPS checks in `ReceiverProofs`:

| Theorem | States |
|---|---|
| `TypeCorrect` | `Spec => []TypeOK` |
| `Inductive` | `Spec => []IInv` |
| `ReceiverLosesNothing` | `Spec => []NothingLost` |
| `DeliveredAtMostOnce` | `Spec => []AtMostOnce` |
| `DeliveredInOrder` | `Spec => []InOrderNoGap` |
| `AcknowledgmentsAreExact` | `Spec => []AcksAreExact` |
| `WindowNeverForgets` | `Spec => NeverForgets` |
| `PollsDrain` | `Spec => PollDrains` |

The argument: none of the properties is inductive alone. That an accepted id is
in no buffer and was not delivered needs `NothingLost`, since `process_message` asks
only the window. That the lowest ordered message below the window position is
the *next* one needs three facts: every id below the position is covered
(`Covered`), a covered ordered id is buffered or was delivered as an ordered message
(`NothingLost` with `KindsKept`), and nothing lower is still buffered (it is the lowest).
That it is delivered after the earlier ones needs `OrderedAbove`: what is still
buffered is above all that was delivered. `PollsDrain` follows from the types: the ordered channel
looks at its lowest id only, and the position of the window is a hole below all that is at or above it. `IInv` is the conjunction; the `receiver`
run checks it before the proof does. What the receiver's own actions keep, whoever sends, is in
`ConnectionProofs`, with one lemma per action: the types over any set of messages that may arrive
(`RcvTypeOK`) and the rest for any set of ids that are the ordered ones (`BufInv`). `ReceiverProofs` and `LinkProofs`
both rest on it.

`OperatorProofs` has the facts about the windows: `mark` keeps the shape, adds
exactly the id if it is in reach and nothing otherwise, never moves back
(`SlidingMarkFacts`), and is monotone in the window (`SlidingMarkMonotone`, the lemma
that `AckSound` rests on). They rest on the least element of a non-empty set of
naturals, derived from well-foundedness rather than by an induction scheme with
an operator parameter, which the installed provers cannot instantiate.

Its theorems take these windows down to `window.rs` (no bound on lengths or ids):

| Theorem | States |
|---|---|
| `PagesKeepBits` | a new `BitSet` is empty, `set` changes one bit, and `shr` by a distance of `CanShift` moves every bit by it |
| `SlidingBitsAreTheWindow` | if the bits stand for a window of `AckWindow`, they do after `BitSlidingMark`, and it is `SlidingMark` of that window; pages have more than one bit |
| `LeadingBitsAreTheWindow` | the same of `BitLeadingMark` and `LeadingMark`, when the window is one page or the distance is one of `CanShift` |

They are the induction steps of `BitsAreKept` and `BitsFollowTheWindows` below. A bit is a page and a
place in it; `ShrMovesBits` follows one through `MovePages` and `MoveBits`, where the rest of a page comes
from its neighbour. The loop of `SlidingAckWindow::mark` is a recursive function of the passes:
after `k` of them everything below the position was marked, nothing above it is lost, and the position is
`k` further unless a zero has stopped it (`Slides`); that is where `SlidingMark` puts it. The hypotheses are those the code
needs: `shr` by a multiple of the page length is wrong when there are several pages, and with pages of one bit every distance
is such a multiple. Each window of the program fits one page of 64 bits.

`SenderProofs` (every window length and capacity, any sizes that fit, any application,
any choice of timers, scores and budgets, any reports, also of packets never sent):

| Theorem | States |
|---|---|
| `SenderInductive` | `Spec => []IInv` |
| `SenderTypeCorrect` | `Spec => []TypeOK` |
| `SenderForgetsNothing` | `Spec => []NoneForgotten` |
| `PackedMessagesAreQueued` | `Spec => []CandidatesAreQueued` |
| `UnreliableSentOnce` | `Spec => []UnreliableOnce` |
| `SoundPackets` | `Spec => []PacketsAreSound` |
| `CoveredWasReported` | `Spec => []CoveredWasAcked` |
| `NoResendOfAcked` | `Spec => NeverResendsAcked` |
| `FlightIsExact` | `Spec => []InFlightIsExact` |
| `VecIsTheSequence` | a `StackVec` gives what was pushed, in place or on the heap |
| `PacketQueueIsTheFunction` | `push_sent` and `mark_sent` on the queue of `PacketQueue` are `PushSent` and `MarkSent` on the function that the queue stands for |

`ConnectionProofs` has what the sender's actions keep whoever takes them: `SndInv`, the types
and three parts. `QueueInv`: `NoneForgotten` and `CandidatesAreQueued`, and while a poll runs no
report is handled, its candidates have increasing ids and none of them is covered. `UnreliableInv`: every
payload number below the counter is in exactly one place, and no other is anywhere.
`PacketsInv`: packets are sound, their ids are below the counters and their messages in the order of their ids, and
an entry of the packet window is one of the last packets and names what it carried. None of the
properties is inductive alone: `NoneForgotten` needs the candidates, since their originals are
what an iteration changes; that nothing covered is sent needs that no report is handled between collecting
and sending; that the unreliable candidates put back exist nowhere else needs the count of all
places. What `Vec::retain` and the collecting loop make of the queue is `Subsequence`, by
the places that stay; `PlaceFacts` shows that numbering the places is a monotone bijection, and everything about queues
rests on it. `Size` is a recursive function, and what the proofs need of it (`SizeFacts`: it is that of
the shorter sequence and the last message) goes by the least length where two sums would differ, since
induction over data is not available.

`InFlightIsExact` speaks of the moments between two reports. While the loop over an
ack map runs, ids that are still to be looked up count as reported already but may
have an entry, or none, if they were reported before; `FlightInv` bounds the
entries from both sides (`Recent \ acked` and `Recent \ (acked \ acking)`), and needs that
no poll runs meanwhile and that every id of the map that was sent is in `acked`.

`PacketQueueIsTheFunction` is why `sentPackets` may be a function: for any queue that the two operations
can make (`PacketQueues` relates its position, its length and the next id), the entry of an id that was given out
is `None` exactly if the function has none, either operation makes the queue of the changed function, and
the count of lost packets grows exactly if the oldest entry, which leaves, is still there.

The second half of `SenderProofs` is about the data structures of `Parts`, among them this queue. No bound of the run is
used; the assumptions are those at the constants (`PartsAssumption`, `ChecksumAssumption`, `RoundTripAssumption`):

| Theorem | States |
|---|---|
| `BitsAreKept` | `PartsSpec => []ShiftsKeepBits` |
| `BitsFollowTheWindows` | `PartsSpec => []BitsAreTheWindows` |
| `PacketsCountedOnce` | `PartsSpec => []PacketsAreCountedOnce` |
| `MedianIsMiddle` | `PartsSpec => []MedianIsTheMiddle` |
| `ChecksumIsSound` | `PartsSpec => []ChecksumCatches` |

A behaviour of `Parts` is about one part, so each has an invariant of its own.

- `BitsInv` and `WindowsInv` add the shape of what they speak of; the steps are the theorems of `OperatorProofs`. That
  a packet window fits one page (`PartsAssumption`) is true of the code's, 32 in 64, and without it a jump by a
  multiple of a page would go wrong.
- `SentQueueInv` says of the function the queue stands for what the property says of entries: its domain is the packets
  sent less those received and lost, and its values are what was packed. `QueueOperations` (the lemma behind
  `PacketQueueIsTheFunction`, for any queue) gives the steps, and its last part the way back to entries.
  That as many entries as packets are counted in flight is a bijection from ids to places.
- `TripsInv`: the history is the end of what was recorded and the other copy is that, sorted.
  `Sorted` chooses an ascending arrangement; that there is one (`AscendingOrder`) goes by the least number of
  values that cannot be arranged, one being put in its place among those below it (`InsertOrder`). At rank `r` of
  a sorted sequence at most `r - 1` values are less and at least `r` are not greater (`SortedRanks`), in whatever order
  equal values come.
- `ChecksumInv` says only that what is signed is chunks; the rest is algebra. A bit of the division can be undone,
  since the generator's highest bit is one and nothing else ends up there: it tells whether the generator was taken off
  (`DivideBitTellsApart`). So a step of the loop tells remainders apart, and chunks (`CrcStepTellsApart`), and data of the same
  length that differ in one chunk have different remainders from there to the end (`CrcTellsApart`). Of the table it needs that what
  lies above the lowest chunk moves down beside the division (`DivideBitsIsLinear`): the table's entry and the shifted
  rest are the division of the whole word. 0xEDB88320 has bit 31, as `ChecksumAssumption` asks. What is not claimed: that changes of
  several chunks are caught, which no checksum can.

`LinkProofs` (both peers and the network between them, no bound):

| Theorem | States |
|---|---|
| `LinkInductive` | `Spec => []LinkInv` |
| `SoundWithinWindow` | `Spec /\ []WithinWindow => []AckSound` |
| `NotLostWithinWindow` | `Spec /\ []WithinWindow => []ReliableNotLost` |
| `SoundInOneWindow` | `MaxMessages <= MessageWindowLen` implies `Spec => []AckSound` |
| `SoundInOrder` | `MaxReorder = 0` implies `Spec => []AckSound` |
| `NotLostInOrder` | `MaxReorder = 0` implies `Spec => []ReliableNotLost` |
| `HeldInductive` | `Spec => []HeldInv` |
| `ExactlyOnce` | `Spec => [](NothingLost /\ AtMostOnce)` |
| `PromiseWhileSound` | `Spec /\ []AckSound => KeepsPromise` |
| `PromiseWithinWindow` | `Spec /\ []WithinWindow => KeepsPromise` |
| `PromiseInOneWindow` | `MaxMessages <= MessageWindowLen` implies `Spec => KeepsPromise` |
| `PromiseInOrder` | `MaxReorder = 0` implies `Spec => KeepsPromise` |

These are the two sides of finding 1: `AckSound` fails over a network that reorders, for a sender
that runs ahead of the window, and each of the two conditions alone restores it. `WithinWindow` is the check
nobody makes: `messageCounter <= sentMessages.pos + MessageWindowLen`. With it, every
id that is in a packet is in reach of the receiver's window or below it, since the receiver's position is not
below the sender's (`AckSound` itself), so that a packet that arrived has all its messages covered
once it is processed.

Without reordering the sender may run ahead of the window, and the receiver may drop what is acknowledged. Then the
argument is a simulation: the sender marks the packets of an ack map in the order in which they
were sent (`InOrder`), the receiver took them in that order, and `mark` is monotone in the window
(`SlidingMarkMonotone`), so the sender can mark nothing the receiver could
not. `FifoInv` says it of every moment: there is a window `after[p]`, the receiver's when it had gone through
the packet `p`, for each one it knows but the last. It grows with `p`, marking the packet's ids again would change
nothing of it (each is covered or out of reach), and the sender's window is within it as long as
the entry of `p` is not looked up. No history variable is needed: the windows are quantified.
Both invariants were model-checked on the `link_fifo` and `link_window` configurations before they were proved.

What the receiver does with what it got does not depend on `AckSound`. `HeldInv` says that what it has is over the messages
that were sent, and that there is an assignment of kinds to ids, one for each id given out, that all
messages of the sender and of the network agree with; for the ordered ids of that assignment `BufInv` holds, which
`ConnectionProofs` has for whatever ids are the ordered ones. So also over a network that reorders, and for a sender that
runs ahead, nothing is delivered twice or out of order; what finding 1 breaks is only that
everything is delivered.

`PromiseWhileSound` is the refinement. The abstract `submitted` is that assignment, which `Submitted` finds
among the messages in the queue and the packets; that there is one for each id (`FindsMessages`) needs
`AckSound` once more: a message that is no longer queued was covered, hence taken, hence sent. Then each step is one of `Delivery` or
none: `Send` of a reliable message submits, `MarkSentMessage` confirms (what it confirms
was taken, by `AckSound` after the step), `ProcessMessage` takes, and the ordered and unordered channels hand out (one entry of `handed` for each delivery,
`HandedGrows`, not one that is there already, by `AtMostOnce`, and in order by `NoGap` after
the step); the others change nothing the promise speaks of.

`PacingProofs`, for `ScoreIds = 256` and replies that are overtaken by at most 128 others
(`MaxSkew <= 128`), with any windows, latencies and losses:

| Theorem | States |
|---|---|
| `PacingInductive` | `Spec => []IInv` |
| `KeeperFollowsNewest` | `Spec => []KeeperIsNewest` |
| `ScoreIsGrantedOnce` | `Spec => []ScoreGrantedOnce` |

The invariant adds that the replies on their way carry consecutive ids modulo 256
(`RepliesAreInOrder`). Then the *age* of a reply gives its id, and `push_score`'s test of two ids decides
which age is less (`NewerByAge`), as long as the ages differ by at most 127 one way and
128 the other. The first is what `silent` excludes. The second follows from the hypothesis: the newest reply
received is at least `latency` rounds old, like every one that comes, or no reply is kept
that is older (`NewestIsDue`). The code does not check it: a reply that is overtaken by more than 128
others does count as new. The width is fixed because the provers have no theory of a
variable modulus.

`BackendProofs` (any sizes, delays and numbers of datagrams):

| Theorem | States |
|---|---|
| `InboxInductive` | `Spec => []InboxInv` |
| `ReadInductive` | `Spec => []ReadInv` |
| `GoodOnesAreTaken` | `Spec => []NoneSkipped` |
| `DelayInductive` | `Spec => []DelayInv` |
| `DelaysAreKept` | `Spec => []OnTime` |

`InboxInv` gives what waits and what arrived their type; the set of genuine datagrams only grows (`SendingAdds`). `NoneSkipped`
needs that what waits is the end of what arrived (part of it already), and `ReadInv` adds that only a
socket runs the receive loop, for the listener leaves it to the next call to go on; taking the next datagram adds the last place
of the good ones, or none (`SubsequenceLast`). For `OnTime` the delayed packets that are due are removed
by their indices, from the last, so that the lower ones stay right: `AfterSteps` says that when `k` places were
looked at, those below are as they were and what is left above is not due.

`SocketProofs` (any peers, messages, timeout, cap and frame times, under `SocketAssumption`; no bound of the
run is used):

| Theorem | States |
|---|---|
| `SocketInductive` | `Spec => []SocketInv` |
| `SocketTypeCorrect` | `Spec => []TypeOK` |
| `EventsAreTheTable` | `Spec => []EventsTellConnections` |
| `SilenceEndsConnections` | `Spec => TimeoutsAreExact` |
| `ConnectionsLeaveNothing` | `Spec => LeavesNothing` |

`SocketInv` has the types and four parts. `VisitInv`: a poll visits one connection at a time, and each once. `SilenceInv`: a heartbeat
timer is the timeout less the silence of its peer, in every state; `TimeoutsAreExact` follows, since the
timer is read after the packets of the poll have set it anew. `DrainedInv`: outside the receiving loop,
and once a poll has visited it, a connection holds nothing it could give out, so that `disconnect` and
the timeout lose nothing. `EventsInv`: the events in the queue tell the table. While a poll runs it has told the
end of connections that it removes when all are visited, so what they tell is `Connected \ Ended`; that is the
strengthening `EventsTellConnections` lacks. What an application knows after a number of events (`After`) is decided
by the last one that names the peer; the lemmas
`AfterAppend` and `AfterTail` say what one event more at the end and one less at the front make of it.

**Model-checked only:** the liveness properties (`DeliveredInTheEnd`, `SilentPeersLeave`, `ReadInTheEnd`,
`ReliableArrives`), which are out of the prover's reach. Every invariant and action property of a passing run is a
theorem; those of the link hold under the conditions above, as in its runs.

## 6. Where the code disagrees with its documents

1. **A reordered packet loses reliable messages** (`link_reorder`,
   `ReliableNotLost`). `process_packet` marks the packet id before its messages are
   filtered (`socket/connection.rs:83`); `process_message` drops a message out of
   the window's reach (`socket/receiver.rs:52`). Its packet is acknowledged all the same. If
   the packet before it arrives next, both are acknowledged together, the lower
   one first: the sender's window slides, then has room for the dropped message,
   marks it (`socket/sender/mod.rs:523`) and forgets it. The receiver never gets it,
   and its ordered channel waits for ever. With a window of 64 it takes more than
   64 unacknowledged messages, for instance two packets of 50 that change places.
   `PROTOCOL.md:14-15` guarantees delivery; `sender/mod.rs:188` says the window tells
   whether a message can be sent, but nothing asks it. `link_fifo` and `link_window`
   show the two conditions under which the promise is kept: no reordering, or no
   more messages than the window has room for.
2. **The ack-only limit does not hold** (`sender_ack_only`,
   `OneAckOnlyPacketPerFrame`). `only_reliable_left` (`sender/mod.rs:339`) is true when
   some candidate is not reliable. Without score and with reliable candidates
   only, the rest of the budget is sent as empty packets, against the comments at
   `sender/mod.rs:318` and `:341`.

3. **Fast polls starve reliable messages** (`pacing_slow`, `EveryMessageArrives`).
   `effective_score` (`sender/pscore.rs:47`) is the score times the length of a poll over half
   the round trip time, cut down to a whole number. At the full score of 32 it is
   zero when the round trip is longer than 64 polls: polls every millisecond and a peer 65 ms
   away. `has_score` is then always false and no reliable message is ever sent,
   against `PROTOCOL.md:14-15`; nothing says how often to poll at most. `ReliableArrives` is
   the promise that does hold.
4. **The back-off panics** (`backoff`, `BackoffIsMaxedOut`). `sender/mod.rs:386` multiplies the
   round trip time by 2^attempts and bounds the product afterwards with
   `MAX_RESEND_TIMEOUT`; `Duration::mul_f64` panics when the product is no `Duration`. With 50 ms
   that is the 69th attempt, after about nine minutes of a message that is never
   acknowledged while other packets of the peer keep the connection alive. The comment at
   `mod.rs:383` says the timeout is maxed out.

Without a run: the doc of `BroadcastListener::recv` (`broadcast.rs:44`) says that `None`
means there are no messages, which it also is after a bad checksum, with datagrams
waiting behind it (`Backend`, `RecvIsNone`). The virtual socket's corruption is signed, so that a
test with it exercises decoding rather than the checksum.

## 7. What is left

**Not modelled, and why.**

- *Reconnection.* A peer that restarts begins with id 0 while the other side's windows stand elsewhere.
  The code has no incarnations that would tell the two apart, and the repository's README
  lists better reconnection among what is to be done: there is no promise to check. The
  hazard is listed without a property.
- *Floating point.* The exponential averages of round trip times and losses (`stats.rs`,
  `pwindow.rs`) and the packet budget of `sender/mod.rs`. They choose among behaviours the models have
  anyway: any budget in `SendManager`, a settled round trip time in `Pacing`.
- *Serialization* (`bitcode`) is external. A crate may use the whole MTU, of which the backend
  needs 4 bytes for the checksum; whether it ever gets that large depends on the lengths
  `bitcode` gives. `Backend` has the refusal as one more loss.
- *The OS socket* is the network of `Backend`. *Connection statistics* and their ring are written and
  only reported. *32-bit counters* end with a panic after 2^32 packets; the models'
  are unbounded.
- `Pacing` has a budget of one packet, one size of message and a settled round trip time; how
  the score and several packets of one poll interact is in `SendManager`, with the
  score chosen.

**Next.** A link whose network is fair, so that every message is delivered in
the end if packets keep getting through (`ReliableArrives` shows it for one direction
of a simpler connection). If reconnection is given a promise, a model with two peers that restart.
