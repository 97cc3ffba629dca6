----------------------------- MODULE SendManager -----------------------------
(***************************************************************************)
(* The sending half of a connection: SendManager                           *)
(* (src/socket/sender/mod.rs) with its PacketWindow                        *)
(* (src/socket/sender/pwindow.rs), and the loop of SocketConnection that   *)
(* hands it the acknowledgments of a packet (src/socket/connection.rs).    *)
(*                                                                         *)
(* Time is abstracted to what it decides: which resend timers have run     *)
(* out, whether a packet with an id is due, and the packet budget of a     *)
(* poll are chosen freely when the poll begins.  Of the pacing, the        *)
(* effective score is kept: chosen when the poll begins, it can only fall  *)
(* while the poll sends.  A message has a size; a crate has a capacity.    *)
(* Loops are one action per iteration, and nothing else happens to the     *)
(* connection while one runs.                                              *)
(***************************************************************************)
EXTENDS AckWindow, Packet, SequencesExt

CONSTANTS
    Capacity,       \* the bytes for messages in a crate (MTU less the header)
    Sizes,          \* the sizes messages can have; send_to asserts they fit
    MaxBudget       \* bound: packets one poll may send

ASSUME SenderAssumption ==
    /\ Capacity \in Nat \ {0}
    /\ Sizes \subseteq 1 .. Capacity
    /\ MaxBudget \in Nat \ {0}

VARIABLES
    queue,          \* message_queue
    attempted,      \* ids of queued messages with attempts > 0: timer running
    messageCounter, \* message_counter
    payloads,       \* numbers the unreliable messages, to tell them apart
    packetCounter,  \* packet_counter
    sentMessages,   \* sent_message_window
    sentPackets,    \* sent_packet_window: unacknowledged packet -> message ids
    poll,           \* the locals of prepare_and_send while it runs
    acking,         \* the packet ids an ack map still has to report
    marking,        \* the message ids mark_sent_packet_received has to mark
    wire            \* every packet given to socket.send_to, in order

sndVars == <<queue, attempted, messageCounter, payloads, packetCounter,
             sentMessages, sentPackets, poll, acking, marking, wire>>

NoPoll == [running |-> FALSE]

SndInit ==
    /\ queue = <<>>
    /\ attempted = {}
    /\ messageCounter = 0
    /\ payloads = 0
    /\ packetCounter = 0
    /\ sentMessages = NewSlidingWindow
    /\ sentPackets = <<>>
    /\ poll = NoPoll
    /\ acking = {}
    /\ marking = <<>>
    /\ wire = <<>>

SndIdle == poll = NoPoll /\ acking = {} /\ marking = <<>>

-----------------------------------------------------------------------------
(* queue_msg *)

QueueMsg(kind, size) ==
    /\ SndIdle
    /\ queue' = Append(queue,
           [kind |-> kind, size |-> size,
            id |-> IF kind = "Unreliable" THEN payloads ELSE messageCounter])
    /\ IF kind = "Unreliable"
       THEN payloads' = payloads + 1 /\ UNCHANGED messageCounter
       ELSE messageCounter' = messageCounter + 1 /\ UNCHANGED payloads
    /\ UNCHANGED <<attempted, packetCounter, sentMessages, sentPackets, poll,
                   acking, marking, wire>>

-----------------------------------------------------------------------------
(* sent_packet_acknowledgments_received *)

\* The ids of an ack map are reported one by one, from the lowest.
ReceiveAcks(pids) ==
    /\ SndIdle
    /\ acking' = pids
    /\ UNCHANGED <<queue, attempted, messageCounter, payloads, packetCounter,
                   sentMessages, sentPackets, poll, marking, wire>>

\* PacketWindow::mark_sent takes the entry out.
MarkSent(pid) == Restrict(sentPackets, DOMAIN sentPackets \ {pid})

\* mark_sent_packet_received: an id that was never sent, has left the packet
\* window or was reported before is ignored; else its entry is taken out.
MarkSentPacketReceived ==
    /\ marking = <<>>
    /\ acking # {}
    /\ LET pid == Min(acking) IN
         /\ acking' = acking \ {pid}
         /\ IF pid \in DOMAIN sentPackets
            THEN /\ marking' = sentPackets[pid]
                 /\ sentPackets' = MarkSent(pid)
            ELSE UNCHANGED <<marking, sentPackets>>
    /\ UNCHANGED <<queue, attempted, messageCounter, payloads, packetCounter,
                   sentMessages, poll, wire>>

\* Its loop over the messages of that entry.
MarkSentMessage ==
    /\ marking # <<>>
    /\ sentMessages' = SlidingMark(sentMessages, Head(marking))
    /\ marking' = Tail(marking)
    /\ UNCHANGED <<queue, attempted, messageCounter, payloads, packetCounter,
                   sentPackets, poll, acking, wire>>

-----------------------------------------------------------------------------
(* poll: cleanup_received_messages, then prepare_and_send *)

\* Faulty forms of Received: every id below one that was received counts,
\* and ids in the window do not count at all.
ReceivedBelow(m) ==
    IsReliable(m) /\ \E n \in Covered(sentMessages) : m.id <= n

ReceivedOld(m) == IsReliable(m) /\ m.id < sentMessages.pos

\* cleanup_received_messages removes these from the queue.
Received(m) == IsReliable(m) /\ m.id \in Covered(sentMessages)

\* is_ready: an unreliable message always is; a reliable one when its
\* send_time has come, that is if it was never sent (the time is zero) or its
\* timer has run out, the ids in expired.
IsReady(m, expired) == IsReliable(m) => m.id \notin attempted \ expired

\* Faulty form of StaysQueued: collecting a candidate always removes it.
StaysQueuedNever(m, expired) == ~ IsReady(m, expired)

\* collect_candidates takes unreliable messages out of the queue and copies
\* the reliable ones.
StaysQueued(m, expired) == ~ IsReady(m, expired) \/ IsReliable(m)

BeginPoll(expired, budget, score, due) ==
    /\ SndIdle
    /\ LET kept == {i \in DOMAIN queue : ~ Received(queue[i])}
           candidates == {i \in kept : IsReady(queue[i], expired)}
       IN /\ queue' = Subsequence(queue,
                          {i \in kept : StaysQueued(queue[i], expired)})
          /\ attempted' = attempted \cap Ids(Subsequence(queue, kept))
          /\ poll' = [running |-> TRUE,
                      candidates |-> Subsequence(queue, candidates),
                      budget |-> budget,  \* available_packets
                      first |-> TRUE,     \* available_ack_only_packet
                      score |-> score,    \* effective_score
                      due |-> due,        \* last_reliable_packet has passed
                      bare |-> 0]         \* history: ack-only packets sent
    /\ UNCHANGED <<messageCounter, payloads, packetCounter, sentMessages,
                   sentPackets, acking, marking, wire>>

\* has_score: in_flight counts the packets with an id and no acknowledgment.
HasScore == Cardinality(DOMAIN sentPackets) < poll.score

\* The code's only_reliable_left: it is true when some candidate is NOT
\* reliable.
OnlyReliableLeft ==
    \E i \in DOMAIN poll.candidates : ~ IsReliable(poll.candidates[i])

MustStop ==
    \/ poll.budget = 0
    \/ /\ poll.candidates = <<>> \/ (~ HasScore /\ OnlyReliableLeft)
       /\ ~ poll.first

\* The candidates the inner loop packs: one by one from the front, each that
\* is appropriate and still fits goes into the crate.
Load(is) == Size(Subsequence(poll.candidates, is))

\* Faulty form of Packs: the crate is not asked whether the message fits.
PacksUnbounded(is) ==
    \A i \in DOMAIN poll.candidates :
        i \in is <=> (IsReliable(poll.candidates[i]) => HasScore)

Packs(is) ==
    \A i \in DOMAIN poll.candidates :
        i \in is <=> /\ IsReliable(poll.candidates[i]) => HasScore
                     /\ Load(is \cap 1 .. (i - 1)) + poll.candidates[i].size
                            <= Capacity

\* Faulty forms of PushSent: no entry ever leaves, and the entry of the
\* oldest packet is reused without being emptied.
PushSentKeepsAll(pid, ids) == (pid :> ids) @@ sentPackets

PushSentReuses(pid, ids) ==
    LET old == pid - PacketWindowLen
    IN  [p \in (DOMAIN sentPackets \ {old}) \cup {pid} |->
            IF p # pid THEN sentPackets[p]
            ELSE IF old \in DOMAIN sentPackets THEN sentPackets[old] \o ids
            ELSE ids]

\* PacketWindow::push_sent: the entry of the oldest packet makes room.
PushSent(pid, ids) ==
    [p \in {q \in DOMAIN sentPackets : q > pid - PacketWindowLen} \cup {pid}
        |-> IF p = pid THEN ids ELSE sentPackets[p]]

\* One iteration of the outer loop.  A packet has an id if it carries a
\* reliable message, or if none with an id was sent for a while.
SendPacket ==
    /\ poll.running
    /\ ~ MustStop
    /\ \E is \in SUBSET DOMAIN poll.candidates, score \in 0 .. poll.score :
         /\ Packs(is)
         /\ LET packed == Subsequence(poll.candidates, is)
                rest == Subsequence(poll.candidates,
                                    DOMAIN poll.candidates \ is)
                ids == Subsequence(packed, Reliables(packed))
                hasPid == ids # <<>> \/ poll.due
                pid == IF hasPid THEN packetCounter ELSE NoPid
            IN /\ wire' = Append(wire, [pid |-> pid, messages |-> packed])
               /\ attempted' = attempted \cup Ids(packed)
               /\ packetCounter' = IF hasPid THEN packetCounter + 1
                                             ELSE packetCounter
               /\ sentPackets' = IF hasPid
                    THEN PushSent(pid, [i \in DOMAIN ids |-> ids[i].id])
                    ELSE sentPackets
               /\ score # poll.score => hasPid      \* consume_score
               /\ poll' = [poll EXCEPT
                    !.candidates = rest,
                    !.budget = @ - 1,
                    !.first = FALSE,
                    !.score = score,
                    !.due = @ /\ ~ hasPid,
                    !.bare = IF packed = <<>> /\ ~ hasPid THEN @ + 1 ELSE @]
    /\ UNCHANGED <<queue, messageCounter, payloads, sentMessages, acking,
                   marking>>

\* Faulty form of PutBack: what was not sent is dropped.
PutBackNothing(candidates) == <<>>

PutBack(candidates) == Subsequence(candidates, Unreliables(candidates))

\* The loop has ended: unreliable messages that were not sent go back to the
\* front of the queue.
EndPoll ==
    /\ poll.running
    /\ MustStop
    /\ queue' = PutBack(poll.candidates) \o queue
    /\ poll' = NoPoll
    /\ UNCHANGED <<attempted, messageCounter, payloads, packetCounter,
                   sentMessages, sentPackets, acking, marking, wire>>

SndLoop == MarkSentPacketReceived \/ MarkSentMessage \/ SendPacket \/ EndPoll

-----------------------------------------------------------------------------
(* Properties *)

Message == [kind : Kinds, id : Nat, size : Sizes]

PollType ==
    [running : {TRUE}, candidates : Seq(Message), budget : 0 .. MaxBudget,
     first : BOOLEAN, score : 0 .. PacketWindowLen, due : BOOLEAN, bare : Nat]

PacketType == [pid : Nat \cup {NoPid}, messages : Seq(Message)]

SndTypeOK ==
    /\ queue \in Seq(Message)
    /\ attempted \in SUBSET Nat
    /\ messageCounter \in Nat
    /\ payloads \in Nat
    /\ packetCounter \in Nat
    /\ sentMessages \in SlidingWindows
    /\ DOMAIN sentPackets \subseteq Nat
    /\ \A p \in DOMAIN sentPackets : sentPackets[p] \in Seq(Nat)
    /\ poll.running => poll \in PollType
    /\ ~ poll.running => poll = NoPoll
    /\ acking \in SUBSET Nat
    /\ marking \in Seq(Nat)
    /\ wire \in Seq(PacketType)

\* The reliable messages are in the order they were given in.
InIdOrder(ms) ==
    \A i, j \in Reliables(ms) : i < j => ms[i].id < ms[j].id

\* A reliable message stays queued until the message window covers it, and
\* the queue holds them in the order they were given in: none is dropped by
\* cleanup_received_messages, collect_candidates or the put-back of a poll.
NoneForgotten ==
    /\ 0 .. (messageCounter - 1) \subseteq Ids(queue) \cup Covered(sentMessages)
    /\ Ids(queue) \subseteq 0 .. (messageCounter - 1)
    /\ InIdOrder(queue)

\* prepare_and_send looks a packed message up in the queue and unwraps the
\* result: a reliable candidate has to be in the queue still.
CandidatesAreQueued == poll.running => Ids(poll.candidates) \subseteq Ids(queue)

\* Where messages are: the queue, the candidates of the running poll, and the
\* packets, each under a number.
InQueue == -1
InCandidates == 0

ListsOf(queued, collected, packets) ==
    [l \in {InQueue, InCandidates} \cup DOMAIN packets |->
        IF l = InQueue THEN queued
        ELSE IF l = InCandidates THEN collected
        ELSE packets[l].messages]

Lists ==
    ListsOf(queue, IF poll.running THEN poll.candidates ELSE <<>>, wire)

\* Where the unreliable message n is: the lists and the places in them.
Places(lists, n) ==
    UNION {{<<l, i>> : i \in {j \in Unreliables(lists[l]) : lists[l][j].id = n}}
              : l \in DOMAIN lists}

\* An unreliable message is in one place: it is taken out of the queue and put
\* back, and neither lost nor sent twice on the way.
UnreliableOnce ==
    \A n \in 0 .. (payloads - 1) :
        \E p \in Places(Lists, n) : Places(Lists, n) = {p}

\* The entries of the packet window are those of the packets that were sent
\* under their ids, also after old ones made room.
EntriesAreSent ==
    \A p \in DOMAIN sentPackets : \E k \in DOMAIN wire :
        wire[k].pid = p /\ ToSet(sentPackets[p]) = Ids(wire[k].messages)

\* The receiver would drop a packet that is not valid, and the socket one
\* that is too large; packet ids are given out once and in order.
PacketsAreSound ==
    /\ \A k \in DOMAIN wire :
         /\ IsValid(wire[k])
         /\ Size(wire[k].messages) <= Capacity
    /\ \A k, l \in DOMAIN wire :
         k < l /\ wire[k].pid # NoPid /\ wire[l].pid # NoPid
         => wire[k].pid < wire[l].pid
=============================================================================
