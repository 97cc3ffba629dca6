-------------------------------- MODULE Pacing --------------------------------
(***************************************************************************)
(* When a reliable message is sent: the packet score a peer grants         *)
(* (PacketScoreKeeper of src/socket/sender/pscore.rs, to_packet_score of   *)
(* src/window.rs), the packets with an id that are forced once in a while, *)
(* and the resend timers with their back-off (src/socket/sender/mod.rs).   *)
(* Module SendManager leaves all of these open.                            *)
(*                                                                         *)
(* A round is a poll of the sender, one of the peer, and the arrival of    *)
(* what the peer sent latency rounds ago, unless that is late or lost.     *)
(* Replies may also be copied and overtaken.  The peer polls as often as   *)
(* the sender.  Time is counted in halves of a poll, for the round trip    *)
(* time: it is what the sender measures of these very replies, an average  *)
(* that is taken to have settled, with a deviation of zero.  The packet    *)
(* budget is one, as the default of 60 packets per second makes it for a   *)
(* poll of up to 33 ms, and all messages fit in one packet.                *)
(***************************************************************************)
EXTENDS AckWindow, Sequences, Functions

CONSTANTS
    Latencies,      \* the rounds a reply may take to arrive
    MaxSkew,        \* by how many rounds a reply may be overtaken
    ScoreIds,       \* PacketScoreId::MAX + 1, 256
    MinForced,      \* MIN_FORCED_RELIABLE_PACKET_TIMEOUT
    MaxResend,      \* MAX_RESEND_TIMEOUT
    DurationMax,    \* Duration::MAX
    MaxMessages,    \* bound: reliable messages queued
    MaxLost         \* bound: packets and replies lost

ASSUME PacingAssumption ==
    /\ Latencies \subseteq Nat /\ MaxSkew \in Nat
    /\ ScoreIds \in Nat /\ ScoreIds > 1
    /\ MinForced \in Nat /\ MaxResend \in Nat /\ DurationMax \in Nat
    /\ MaxMessages \in Nat /\ MaxLost \in Nat

VARIABLES
    phase,          \* the next step of the round: "send", "peer" or "arrive"
    latency,        \* the rounds a reply takes on this connection
    queue,          \* message_queue: id -> attempts, time left until send_time
    queued,         \* messages queued so far
    forcedIn,       \* time left until last_reliable_packet
    keeper,         \* packet_score: the score and its id
    counter,        \* packet_counter
    flying,         \* sent_packet_window: unacknowledged packet -> message ids
    peer,           \* the peer's packet window, next score id, taken messages
    replies,        \* what the peer sent last, the newest first
    lost,           \* packets and replies lost
    granted,        \* history: the score of the newest reply received, how
                    \* many rounds old it is, what was spent of it
    silent,         \* history: more than half of the score ids went unheard
    panicked        \* the program has stopped

vars == <<phase, latency, queue, queued, forcedIn, keeper, counter, flying, peer,
          replies, lost, granted, silent, panicked>>

MaxOf(a, b) == IF a > b THEN a ELSE b
MinOf(a, b) == IF a < b THEN a ELSE b

-----------------------------------------------------------------------------
(* Time *)

Poll == 2   \* the time between two polls

\* mark_sent_packet_received: a packet that is acknowledged latency + 1 polls
\* after it was sent is taken to have been under way for half a poll less.
Rtt == Poll * (latency + 1) - Poll \div 2

\* What a poll leaves of the time until something is due.
Sooner(left) == MaxOf(0, left - Poll)

-----------------------------------------------------------------------------

Init ==
    /\ phase = "send"
    /\ latency \in Latencies
    /\ queue = <<>> /\ queued = 0
    /\ forcedIn = Rtt
    /\ keeper = [id |-> 0, score |-> PacketWindowLen]
    /\ counter = 0
    /\ flying = <<>>
    /\ peer = [window |-> NewLeadingWindow, scoreId |-> 0, taken |-> {}]
    /\ replies = <<>>
    /\ lost = 0
    /\ granted = [score |-> PacketWindowLen, age |-> -1, spent |-> 0]
    /\ silent = FALSE
    /\ panicked = FALSE

-----------------------------------------------------------------------------
(* PacketScoreKeeper *)

Half == (ScoreIds - 1) \div 2

\* Faulty forms of Newer: the ids are compared as they are, or one that is
\* known counts again.
NewerUnwrapped(id) == id > keeper.id
NewerOrSame(id) == (id - keeper.id) % ScoreIds <= Half

\* push_score takes an id that is another and not behind, modulo its width.
Newer(id) == id # keeper.id /\ (id - keeper.id) % ScoreIds <= Half

\* effective_score, for half the round trip time, in whole packets.
EffectiveScore(score) == MinOf(PacketWindowLen, (2 * score * Poll) \div Rtt)

HasScore ==
    /\ EffectiveScore(keeper.score) > 0
    /\ Cardinality(DOMAIN flying) < EffectiveScore(keeper.score)

\* to_packet_score: every packet that did not arrive costs one, but the loop
\* stops when its index is above the base, so that near the beginning only
\* the lowest places count.
PacketScore(w) ==
    LET base == LeadingBase(w)
    IN  PacketWindowLen - Cardinality(
            {i \in 0 .. (PacketWindowLen - 1) : i <= base /\ base + i \notin w.marked})

-----------------------------------------------------------------------------
(* The sender *)

\* queue_msg of a reliable message.
QueueMessage ==
    /\ phase = "send"
    /\ queued < MaxMessages
    /\ queued' = queued + 1
    /\ queue' = [m \in DOMAIN queue \cup {queued} |->
            IF m = queued THEN [attempts |-> 0, left |-> 0] ELSE queue[m]]
    /\ UNCHANGED <<phase, latency, forcedIn, keeper, counter, flying, peer, replies,
                   lost, granted, silent, panicked>>

\* safe_packet_rtt, for a deviation of zero, and the back-off: the resend time
\* before it is bounded.
RawTimeout(attempts) == Rtt * 2 ^ attempts

\* collect_candidates takes the reliable messages whose time has come.
ReadyMessages == {m \in DOMAIN queue : Sooner(queue[m].left) = 0}

\* Faulty form of Forced: no packet has an id unless it carries a message.
ForcedNever == FALSE

Forced == Sooner(forcedIn) = 0

\* SendManager::poll, one packet: it carries the messages that are ready if
\* there is score, and has an id if it carries any, or if none had one for a
\* while.  mul_f64 panics before the timeout is bounded.
SenderPoll ==
    /\ phase = "send"
    /\ phase' = "peer"
    /\ LET ids == IF HasScore THEN ReadyMessages ELSE {}
           hasPid == ids # {} \/ Forced
           window == [p \in {q \in DOMAIN flying : q > counter - PacketWindowLen}
                          \cup {counter} |->
                          IF p = counter THEN ids ELSE flying[p]]
       IN  /\ panicked' = \E m \in ids : RawTimeout(queue[m].attempts) > DurationMax
           /\ queue' = [m \in DOMAIN queue |->
                IF m \in ids
                THEN [attempts |-> queue[m].attempts + 1,
                      left |-> MinOf(MaxResend, RawTimeout(queue[m].attempts))]
                ELSE [queue[m] EXCEPT !.left = Sooner(@)]]
           /\ IF hasPid
              THEN /\ counter' = counter + 1
                   /\ flying' = window
                   /\ keeper' = [keeper EXCEPT !.score = MaxOf(0, @ - 1)]
                   /\ granted' = [granted EXCEPT !.spent = @ + 1]
                   /\ forcedIn' = MaxOf(Rtt, MinForced)
                   /\ \/ /\ peer' = [peer EXCEPT !.window = LeadingMark(@, counter),
                                                 !.taken = @ \cup ids]
                         /\ UNCHANGED lost
                      \/ lost < MaxLost /\ lost' = lost + 1 /\ UNCHANGED peer
              ELSE /\ forcedIn' = Sooner(forcedIn)
                   /\ UNCHANGED <<counter, flying, keeper, granted, peer, lost>>
    /\ UNCHANGED <<latency, queued, replies, silent>>

-----------------------------------------------------------------------------
(* The peer *)

Shifted(ids, by) == {i - by : i \in {j \in ids : j >= by}}

\* Packet ids matter by their differences once the window has left its
\* beginning; they are kept small.
ShiftBy(w) == IF w.pos >= 4 * PacketWindowLen THEN PacketWindowLen ELSE 0

\* Its packets carry its ack map and a score with the next id, which wraps.
PeerPoll ==
    /\ phase = "peer" /\ ~ panicked
    /\ phase' = "arrive"
    /\ LET by == ShiftBy(peer.window)
           window == [pos |-> peer.window.pos - by,
                      marked |-> Shifted(peer.window.marked, by)]
           all == <<[id |-> peer.scoreId, score |-> PacketScore(window),
                     acks |-> window.marked]>>
                  \o [k \in DOMAIN replies |->
                        [replies[k] EXCEPT !.acks = Shifted(@, by)]]
       IN  /\ peer' = [peer EXCEPT !.window = window,
                                   !.scoreId = (@ + 1) % ScoreIds]
           /\ replies' = SubSeq(all, 1, MinOf(Len(all), latency + MaxSkew + 1))
           /\ counter' = counter - by
           /\ flying' = [p \in Shifted(DOMAIN flying, by) |-> flying[p + by]]
    /\ granted' = [granted EXCEPT !.age = @ + 1]
    /\ UNCHANGED <<latency, queue, queued, forcedIn, keeper, lost, silent, panicked>>

-----------------------------------------------------------------------------
(* Replies *)

\* process_packet of a reply that is so many rounds old: first its score, then
\* its acknowledgments; the messages of the packets they name are received.
Process(reply, age) ==
    /\ keeper' = IF Newer(reply.id)
                 THEN [id |-> reply.id, score |-> reply.score] ELSE keeper
    /\ flying' = Restrict(flying, DOMAIN flying \ reply.acks)
    /\ queue' = Restrict(queue, DOMAIN queue \
                    UNION {flying[p] : p \in DOMAIN flying \cap reply.acks})
    /\ granted' = IF age < granted.age
                  THEN [score |-> reply.score, age |-> age, spent |-> 0]
                  ELSE granted
    /\ silent' = (silent \/ granted.age - age > Half)

ReplyArrives ==
    /\ phase = "arrive"
    /\ phase' = "send"
    /\ IF Len(replies) > latency
       THEN Process(replies[latency + 1], latency)
       ELSE UNCHANGED <<keeper, flying, queue, granted, silent>>
    /\ UNCHANGED <<latency, queued, forcedIn, counter, peer, replies, lost, panicked>>

ReplyLost ==
    /\ phase = "arrive"
    /\ lost < MaxLost
    /\ lost' = lost + 1
    /\ phase' = "send"
    /\ UNCHANGED <<latency, queue, queued, forcedIn, keeper, counter, flying, peer,
                   replies, granted, silent, panicked>>

\* A copy, or a reply that was taken for lost, comes late.
LateReplyArrives ==
    /\ phase = "arrive"
    /\ \E k \in (latency + 2) .. Len(replies) : Process(replies[k], k - 1)
    /\ UNCHANGED <<phase, latency, queued, forcedIn, counter, peer, replies, lost,
                   panicked>>

-----------------------------------------------------------------------------

Next == \/ QueueMessage \/ SenderPoll \/ PeerPoll
        \/ ReplyArrives \/ ReplyLost \/ LateReplyArrives

Spec == Init /\ [][Next]_vars

\* Both peers keep polling, and what a poll finds in the socket is processed.
FairSpec ==
    /\ Spec
    /\ WF_vars(SenderPoll) /\ WF_vars(PeerPoll)
    /\ WF_vars(ReplyArrives \/ ReplyLost)

-----------------------------------------------------------------------------
(* Properties *)

\* The keeper's id is the one of the newest reply received, in the order the
\* peer sent them, however often the ids have wrapped and whatever came late,
\* unless the peer was not heard for more than half of the ids.
KeeperIsNewest ==
    ~ silent => keeper.id = (peer.scoreId - 1 - granted.age) % ScoreIds

\* The score that is left is what the newest reply granted less what was spent
\* since: no copy and no late reply grants it again.
ScoreGrantedOnce ==
    ~ silent => keeper.score = MaxOf(0, granted.score - granted.spent)

\* "Reliable (a packet is guaranteed to get received)": a message that is
\* queued arrives, whatever is lost at first, also when the peer was silent
\* for so long that its new scores look old, unless the round trip takes so
\* many polls that the full score comes to less than one packet.
ReliableArrives ==
    \A m \in 0 .. (MaxMessages - 1) :
        m \in DOMAIN queue /\ latency < 2 * PacketWindowLen ~> m \in peer.taken

\* "Reliable unordered (a packet is guaranteed to get received ...)" and
\* "Reliable ordered (a packet is guaranteed to get received ...)", with no
\* condition on how often the application polls.
EveryMessageArrives ==
    \A m \in 0 .. (MaxMessages - 1) : m \in DOMAIN queue ~> m \in peer.taken

\* "The timeout increments with every attempt, maxed out at
\* MAX_RESEND_TIMEOUT": no attempt stops the program.
BackoffIsMaxedOut == ~ panicked
=============================================================================
