-------------------------------- MODULE Parts --------------------------------
(***************************************************************************)
(* The data structures below a connection, each against what the other     *)
(* modules take it for: the bit set, the two windows made of it, the queue *)
(* of sent packets, the record of round trip times and the checksum.       *)
(*                                                                         *)
(* A behaviour is about one part: it calls the part's operations in any    *)
(* order, and keeps beside the part what it should amount to.              *)
(***************************************************************************)
EXTENDS BitWindow, PacketQueue, RoundTrips, Checksum

CONSTANTS
    BitLens,        \* lengths of bit sets
    MaxId,          \* bound: the largest id that is marked
    MaxSent,        \* bound: packets that are sent
    MaxPacked,      \* bound: messages in one packet
    Times,          \* smoothed round trip times
    Deltas,         \* the times between two polls
    MaxRecords,     \* bound: round trip times recorded
    MaxData,        \* bound: chunks of data in a datagram
    Signature       \* the protocol's signature

\* The windows' lengths fit the pages as 32 and 64 bits do: a window of packets
\* is one page, and a window of messages is shifted by one bit at a time.
ASSUME PartsAssumption ==
    /\ BitLens \subseteq Nat \ {0}
    /\ PageBits > 1 /\ PacketWindowLen <= PageBits
    /\ Times \subseteq Nat /\ Deltas \subseteq Nat
    /\ Signature \in Seq(Chunks)

VARIABLES
    part,           \* the part this behaviour is about
    state           \* that part, and what it should amount to

partsVars == <<part, state>>

PartsInit ==
    \/ /\ part = "bits"
       /\ state \in {[bits |-> NewBits(len), ones |-> {}] : len \in BitLens}
    \/ /\ part = "windows"
       /\ state = [sliding |-> NewBitSliding, messages |-> NewSlidingWindow,
                   leading |-> NewBitLeading, packets |-> NewLeadingWindow]
    \/ /\ part = "queue"
       /\ state = [window |-> NewPacketWindow(PacketWindowLen),
                   packing |-> NewVec, packed |-> <<>>,
                   sent |-> <<>>, received |-> {}, lost |-> {}]
    \/ /\ part = "trips"
       /\ state \in {[trips |-> NewRoundTrips(t), recorded |-> <<>>] : t \in Times}
    \/ /\ part = "checksum"
       /\ state = <<>>

-----------------------------------------------------------------------------
(* The operations of the parts *)

BitOperation ==
    /\ part = "bits"
    /\ \/ \E ind \in 0 .. (state.bits.len - 1), to \in BOOLEAN :
            state' = [bits |-> SetBit(state.bits, ind, to),
                      ones |-> IF to THEN state.ones \cup {ind}
                                     ELSE state.ones \ {ind}]
       \/ \E by \in 1 .. (state.bits.len + 1) :
            /\ CanShift(state.bits, by)
            /\ state' = [bits |-> Shr(state.bits, by),
                         ones |-> {i + by : i \in state.ones}
                                      \cap 0 .. (state.bits.len - 1)]

Marking ==
    /\ part = "windows"
    /\ \E id \in 0 .. MaxId :
         \/ state' = [state EXCEPT !.sliding = BitSlidingMark(@, id),
                                   !.messages = SlidingMark(@, id)]
         \/ state' = [state EXCEPT !.leading = BitLeadingMark(@, id),
                                   !.packets = LeadingMark(@, id)]

\* prepare_and_send packs the ids of the messages, then pushes the packet.
PackMessage ==
    /\ part = "queue"
    /\ Len(state.packed) < MaxPacked
    /\ LET item == Len(state.sent) + Len(state.packed) + 1
       IN  state' = [state EXCEPT !.packing = VecPush(@, item),
                                  !.packed = Append(@, item)]

PushPacket ==
    /\ part = "queue"
    /\ state.window.next < MaxSent
    /\ LET window == PushSentEntry(state.window, state.packing)
       IN  state' = [window |-> window,
                     packing |-> NewVec, packed |-> <<>>,
                     sent |-> Append(state.sent, state.packed),
                     received |-> state.received,
                     lost |-> state.lost \cup
                         IF window.lost > state.window.lost
                         THEN {state.window.next - PacketWindowLen} ELSE {}]

\* mark_sent_packet_received ignores ids that were never sent.
PacketReceived ==
    /\ part = "queue"
    /\ \E id \in 0 .. (state.window.next - 1) :
         state' = [state EXCEPT
             !.window = MarkSentEntry(@, id),
             !.received = @ \cup
                 IF Entry(state.window, id) # None THEN {id} ELSE {}]

NewPoll ==
    /\ part = "queue"
    /\ state' = [state EXCEPT !.window = ResetImmediateStats(@)]

PushRoundTrip ==
    /\ part = "trips"
    /\ \E t \in Times : state' = [state EXCEPT !.trips.rtt = t]

UpdateRoundTrips ==
    /\ part = "trips"
    /\ Len(state.recorded) < MaxRecords
    /\ \E delta \in Deltas :
         state' = [trips |-> Update(state.trips, delta),
                   recorded |-> IF state.trips.next <= delta
                                THEN Append(state.recorded, state.trips.rtt)
                                ELSE state.recorded]

PutChunk ==
    /\ part = "checksum"
    /\ \E chunk \in Chunks :
         state' = IF Len(state) < MaxData THEN Append(state, chunk) ELSE <<>>

PartsNext ==
    /\ \/ BitOperation
       \/ Marking
       \/ PackMessage \/ PushPacket \/ PacketReceived \/ NewPoll
       \/ PushRoundTrip \/ UpdateRoundTrips
       \/ PutChunk
    /\ UNCHANGED part

PartsSpec == PartsInit /\ [][PartsNext]_partsVars

-----------------------------------------------------------------------------
(* Properties *)

\* The pages hold exactly the bits that were set and not shifted out, across
\* the borders of pages and for every distance but those CanShift excludes.
ShiftsKeepBits == part = "bits" => Ones(state.bits) = state.ones

\* The bits of both windows stand for the ids the models AckWindow keeps: the
\* loop that slides by one bit at a time, the shift that follows a packet far
\* ahead, and the bits that fall beyond the length, which are never read.
BitsAreTheWindows ==
    part = "windows" =>
        /\ SlidingSet(state.sliding) = state.messages
        /\ LeadingSet(state.leading) = state.packets

\* Each packet that was sent is in flight, or was received, or counted as
\* lost, and only one of them; and the entry of one in flight has the ids that
\* were packed into it, also when they did not fit in place.
PacketsAreCountedOnce ==
    part = "queue" =>
        LET ids == 0 .. (state.window.next - 1)
            flying == {id \in ids : Entry(state.window, id) # None}
        IN  /\ flying = ids \ (state.received \cup state.lost)
            /\ state.received \cap state.lost = {}
            /\ InFlight(state.window) = Cardinality(flying)
            /\ \A id \in flying :
                 AsSlice(Entry(state.window, id)) = state.sent[id + 1]

\* The median is the middle of the last HistoryLen round trip times recorded,
\* or the average of the two in the middle, however often the history turned
\* over; before the first record it is the current one.
MedianIsTheMiddle ==
    part = "trips" =>
        LET n    == Len(state.recorded)
            last == SubSeq(state.recorded, Max({1, n - HistoryLen + 1}), n)
            Below(t) == Cardinality({i \in DOMAIN last : last[i] < t})
            UpTo(t)  == Cardinality({i \in DOMAIN last : last[i] <= t})
            Ranked(t, rank) == Below(t) < rank /\ rank <= UpTo(t)
        IN  IF n = 0 THEN Median2(state.trips) = 2 * state.trips.rtt
            ELSE \E a, b \in Times :
                    /\ Ranked(a, (Len(last) + 1) \div 2)
                    /\ Ranked(b, Len(last) \div 2 + 1)
                    /\ Median2(state.trips) = a + b

Altered(s, i, chunk) == [s EXCEPT ![i] = chunk]

\* A signed datagram passes its own check, and no other does that differs from
\* it in one chunk (a burst of up to ChunkBits wrong bits), that is shorter
\* than a checksum, or that was signed by a protocol whose signature differs in one chunk.
ChecksumCatches ==
    part = "checksum" =>
        LET datagram == Sign(state, Signature)
        IN  /\ Validates(datagram, Signature) /\ Body(datagram) = state
            /\ \A i \in DOMAIN datagram : \A c \in Chunks \ {datagram[i]} :
                 ~ Validates(Altered(datagram, i, c), Signature)
            /\ \A i \in DOMAIN Signature : \A c \in Chunks \ {Signature[i]} :
                 ~ Validates(datagram, Altered(Signature, i, c))
            /\ ~ Validates(SubSeq(datagram, 1, SigLen - 1), Signature)
=============================================================================
