------------------------------ MODULE LinkProofs ------------------------------
(***************************************************************************)
(* Proofs about one direction of a connection.                             *)
(*                                                                         *)
(* When the sender's belief that a message was received is true, which is  *)
(* proved apart for two cases:                                             *)
(*                                                                         *)
(*  - the application never has more messages unacknowledged than fit in a *)
(*    message window, whatever the network does;                           *)
(*  - the network keeps the order of the packets, whatever the application *)
(*    does.  Packets and ack maps may still be lost and duplicated, and    *)
(*    ack maps reordered.                                                  *)
(*                                                                         *)
(* What the receiver has is what the sender was given, in any case; and    *)
(* where the belief is true, the link implements Delivery.                 *)
(***************************************************************************)
EXTENDS Link, ConnectionProofs

-----------------------------------------------------------------------------
(* What is common to both *)

\* The packet ids the receiver has marked, as far as its window or an ack map
\* still holds them.
KnownToReceiver(p) ==
    p \in recvPackets.marked \/ \E pids \in acks : p \in pids

\* The ids of the reliable messages that travel under a packet id.
IdsUnder(packets, p) ==
    UNION {Ids(packets[k].messages) : k \in {l \in DOMAIN packets : packets[l].pid = p}}

LinkInv ==
    /\ SndInv
    /\ recvMessages \in SlidingWindows
    /\ recvPackets \in LeadingWindows
    /\ recvPackets.pos = PacketWindowLen \/ recvPackets.pos <= packetCounter
    /\ incoming \in Seq(Message)
    /\ InIdOrder(incoming)
    /\ Ids(incoming) \subseteq 0 .. (messageCounter - 1)
    /\ SndIdle \/ RcvIdle
    /\ acks \subseteq SUBSET Nat
    /\ \A p \in acking : KnownToReceiver(p)
    /\ high \in Nat
    /\ \A p \in Nat : KnownToReceiver(p) =>
         \E k \in DOMAIN wire : k <= high /\ wire[k].pid = p

\* The steps that change nothing but the sending half, and it only by sending
\* or outside of a report; or that empty the channels of the receiver.
Aside ==
    /\ UNCHANGED <<sentMessages, acking, marking, recvMessages, recvPackets,
                   incoming, high>>
    /\ acks' \in {acks, acks \cup {recvPackets.marked}}
    /\ \/ UNCHANGED <<wire, sentPackets, packetCounter>>
       \/ SendPacket
    /\ messageCounter' \in {messageCounter, messageCounter + 1}

\* The steps by what they mean for acknowledgments.
LEMMA StepCases ==
    ASSUME LinkInv, [Next]_vars
    PROVE  \/ Aside /\ (SndIdle \/ RcvIdle)'
           \/ AcksArrive
           \/ MarkSentPacketReceived /\ UNCHANGED <<rcvVars, high, acks>>
           \/ MarkSentMessage /\ UNCHANGED <<rcvVars, high, acks>>
           \/ PacketArrives
           \/ ProcessMessage /\ UNCHANGED <<sndVars, high, acks>>
<1>1. CASE Send
  <2>1. PICK kind \in SentKinds, size \in Sizes : QueueMsg(kind, size)
    BY <1>1 DEF Send
  <2>2. Aside
    BY <1>1, <2>1 DEF Send, QueueMsg, Aside, rcvVars
  <2>3. RcvIdle'
    BY <1>1 DEF Send, Quiet, RcvIdle, rcvVars
  <2> QED
    BY <2>2, <2>3
<1>2. CASE SenderPoll
  <2>1. PICK expired \in SUBSET attempted, budget \in 1 .. MaxBudget,
             score \in Scores, due \in BOOLEAN :
          BeginPoll(expired, budget, score, due)
    BY <1>2 DEF SenderPoll
  <2>2. Aside
    BY <1>2, <2>1 DEF SenderPoll, BeginPoll, Aside, rcvVars
  <2>3. RcvIdle'
    BY <1>2 DEF SenderPoll, Quiet, RcvIdle, rcvVars
  <2> QED
    BY <2>2, <2>3
<1>3. CASE SendPacket /\ UNCHANGED <<rcvVars, high, acks>>
  <2>1. Aside
    BY <1>3 DEF SendPacket, Aside, rcvVars
  <2>2. ~ SndIdle
    BY <1>3 DEF SendPacket, SndIdle, NoPoll
  <2>3. RcvIdle'
    BY <1>3, <2>2 DEF LinkInv, RcvIdle, rcvVars
  <2> QED
    BY <2>1, <2>3
<1>4. CASE EndPoll /\ UNCHANGED <<rcvVars, high, acks>>
  <2>1. Aside
    BY <1>4 DEF EndPoll, Aside, rcvVars
  <2>2. ~ SndIdle
    BY <1>4 DEF EndPoll, SndIdle, NoPoll
  <2>3. RcvIdle'
    BY <1>4, <2>2 DEF LinkInv, RcvIdle, rcvVars
  <2> QED
    BY <2>1, <2>3
<1>5. CASE ReceiverPoll
  <2>1. Aside
    BY <1>5 DEF ReceiverPoll, BeginDrain, Aside, sndVars
  <2>2. SndIdle'
    BY <1>5 DEF ReceiverPoll, Quiet, SndIdle, sndVars
  <2> QED
    BY <2>1, <2>2
<1>6. CASE (RecvUnreliable \/ RecvUnordered \/ RecvOrdered \/ EndDrain)
           /\ UNCHANGED <<sndVars, high, acks>>
  <2>1. Aside
    BY <1>6 DEF RecvUnreliable, RecvUnordered, RecvOrdered, EndDrain, Deliver,
       Aside, sndVars
  <2>2. ~ RcvIdle
    BY <1>6 DEF RecvUnreliable, RecvUnordered, RecvOrdered, EndDrain, RcvIdle
  <2>3. SndIdle'
    BY <1>6, <2>2 DEF LinkInv, SndIdle, sndVars
  <2> QED
    BY <2>1, <2>3
<1>7. CASE UNCHANGED vars
  <2>1. Aside
    BY <1>7 DEF Aside, vars, sndVars, rcvVars
  <2>2. (SndIdle \/ RcvIdle)'
    BY <1>7 DEF LinkInv, SndIdle, RcvIdle, vars, sndVars, rcvVars
  <2> QED
    BY <2>1, <2>2
<1> QED
  BY <1>1, <1>2, <1>3, <1>4, <1>5, <1>6, <1>7
     DEF Next, SenderLoop, SndLoop, ReceiverLoop, RcvLoop

\* The sending half keeps what was proved of it.
LEMMA SndStep == ASSUME LinkInv, [Next]_vars PROVE SndInv'
<1>1. CASE Send
  <2>1. PICK kind \in SentKinds, size \in Sizes : QueueMsg(kind, size)
    BY <1>1 DEF Send
  <2> QED
    BY <2>1, QueueMsgSnd, LinkAssumption DEF LinkInv
<1>2. CASE SenderPoll
  <2>1. PICK expired \in SUBSET attempted, budget \in 1 .. MaxBudget,
             score \in Scores, due \in BOOLEAN :
          BeginPoll(expired, budget, score, due)
    BY <1>2 DEF SenderPoll
  <2> QED
    BY <2>1, BeginPollSnd, LinkAssumption DEF LinkInv
<1>3. CASE AcksArrive
  <2>1. PICK pids \in acks : ReceiveAcks(pids)
    BY <1>3 DEF AcksArrive
  <2> QED
    BY <2>1, ReceiveAcksSnd DEF LinkInv
<1>4. CASE SenderLoop
  BY <1>4, SndLoopSnd DEF LinkInv, SenderLoop
<1>5. CASE PacketArrives \/ ReceiverPoll \/ ReceiverLoop \/ UNCHANGED vars
  <2>1. UNCHANGED sndVars
    BY <1>5 DEF PacketArrives, ReceiverPoll, ReceiverLoop, vars
  <2> QED
    BY <2>1, StutterSnd DEF LinkInv
<1> QED
  BY <1>1, <1>2, <1>3, <1>4, <1>5 DEF Next

\* Packets are only added, and those the receiver knows stay what they are.
LEMMA AsideKeepsPackets ==
    ASSUME LinkInv, Aside
    PROVE  /\ \A k \in DOMAIN wire : k \in DOMAIN wire' /\ wire'[k] = wire[k]
           /\ \A p : KnownToReceiver(p)' <=> KnownToReceiver(p)
           /\ \A p \in Nat : KnownToReceiver(p) => IdsUnder(wire', p) = IdsUnder(wire, p)
           /\ \A p \in Nat : KnownToReceiver(p) /\ p \in DOMAIN sentPackets'
                               => p \in DOMAIN sentPackets
           /\ packetCounter' >= packetCounter
<1>0. packetCounter \in Nat
  BY DEF LinkInv, SndInv, SndTypeOK
<1>1. \A p : KnownToReceiver(p)' <=> KnownToReceiver(p)
  <2>1. recvPackets' = recvPackets
    BY DEF Aside
  <2>2. CASE acks' = acks
    BY <2>1, <2>2 DEF KnownToReceiver
  <2>3. CASE acks' = acks \cup {recvPackets.marked}
    BY <2>1, <2>3 DEF KnownToReceiver
  <2> QED
    BY <2>2, <2>3 DEF Aside
<1>2. CASE UNCHANGED <<wire, sentPackets, packetCounter>>
  BY <1>0, <1>1, <1>2
<1>3. CASE SendPacket
  <2>1. PICK is \in SUBSET DOMAIN poll.candidates, pid \in Nat \cup {NoPid} :
             LET packed == Subsequence(poll.candidates, is) IN
             /\ packed \in Seq(Message)
             /\ wire' = Append(wire, [pid |-> pid, messages |-> packed])
             /\ \/ /\ pid = NoPid /\ Ids(packed) = {}
                   /\ UNCHANGED <<packetCounter, sentPackets>>
                \/ /\ pid = packetCounter /\ packetCounter' = packetCounter + 1
                   /\ \E entry \in Seq(Nat) :
                        /\ ToSet(entry) = Ids(packed)
                        /\ sentPackets' = PushSent(pid, entry)
    BY <1>3, SendPacketEffect DEF LinkInv, SndInv
  <2> DEFINE packet == [pid |-> pid, messages |-> Subsequence(poll.candidates, is)]
             new == Len(wire) + 1
  <2>2. packet \in PacketType /\ packet.pid = pid /\ wire' = Append(wire, packet)
    BY <2>1 DEF PacketType
  <2> HIDE DEF packet
  <2>3. /\ DOMAIN wire' = DOMAIN wire \cup {new}
        /\ \A k \in DOMAIN wire : k < new /\ wire'[k] = wire[k]
        /\ wire'[new] = packet
    BY <2>2, AppendPlaces DEF LinkInv, SndInv, SndTypeOK
  <2> HIDE DEF new
  <2>4. ASSUME NEW p \in Nat, KnownToReceiver(p) PROVE p # pid
    <3>1. PICK k \in DOMAIN wire : wire[k].pid = p
      BY <2>4 DEF LinkInv
    <3>2. p < packetCounter
      BY <3>1 DEF LinkInv, SndInv, PacketsInv
    <3>3. packetCounter \in Nat
      BY DEF LinkInv, SndInv, SndTypeOK
    <3> QED
      BY <2>1, <3>2, <3>3 DEF NoPid
  <2>5. ASSUME NEW p \in Nat, KnownToReceiver(p)
        PROVE  IdsUnder(wire', p) = IdsUnder(wire, p)
    <3>1. {l \in DOMAIN wire' : wire'[l].pid = p} = {l \in DOMAIN wire : wire[l].pid = p}
      BY <2>2, <2>3, <2>4, <2>5
    <3> QED
      BY <2>3, <3>1 DEF IdsUnder
  <2>6. ASSUME NEW p \in Nat, KnownToReceiver(p), p \in DOMAIN sentPackets'
        PROVE  p \in DOMAIN sentPackets
    <3>1. p # pid
      BY <2>4, <2>6
    <3>2. CASE UNCHANGED sentPackets
      BY <2>6, <3>2
    <3>3. CASE \E entry \in Seq(Nat) : sentPackets' = PushSent(pid, entry)
      BY <2>6, <3>1, <3>3 DEF PushSent
    <3> QED
      BY <2>1, <3>2, <3>3
  <2>7. packetCounter' >= packetCounter
    BY <1>0, <2>1
  <2> QED
    BY <1>1, <2>3, <2>5, <2>6, <2>7
<1> QED
  BY <1>2, <1>3 DEF Aside

\* A packet that arrives was sent, and is not older than those that did before
\* if the network keeps the order.
LEMMA ArrivalEffect ==
    ASSUME LinkInv, PacketArrives
    PROVE  \E i \in DOMAIN wire :
             /\ i + MaxReorder >= high
             /\ high' \in Nat /\ high' >= high /\ high' >= i
             /\ wire[i] \in PacketType
             /\ recvPackets' = IF wire[i].pid = NoPid THEN recvPackets
                                 ELSE LeadingMark(recvPackets, wire[i].pid)
             /\ recvPackets' \in LeadingWindows
             /\ recvPackets'.pos = recvPackets.pos \/ recvPackets'.pos <= packetCounter
             /\ incoming' = wire[i].messages
             /\ wire[i].pid = NoPid => Ids(incoming') = {}
             /\ \A p : KnownToReceiver(p)' =>
                         KnownToReceiver(p) \/ (p = wire[i].pid /\ p \in Nat)
             /\ incoming = <<>> /\ SndIdle /\ SndIdle'
             /\ UNCHANGED sndVars /\ UNCHANGED <<recvMessages, acks>>
<1>1. PICK i \in DOMAIN wire :
         /\ i + MaxReorder >= high
         /\ high' = IF i > high THEN i ELSE high
         /\ IsValid(wire[i])
         /\ ProcessPacket(wire[i].pid, wire[i].messages)
  BY DEF PacketArrives
<1> DEFINE pid == wire[i].pid
<1>2. /\ recvPackets' = IF pid = NoPid THEN recvPackets ELSE LeadingMark(recvPackets, pid)
      /\ incoming' = wire[i].messages
      /\ recvMessages' = recvMessages
  BY <1>1 DEF ProcessPacket
<1>3. incoming = <<>> /\ SndIdle /\ UNCHANGED sndVars /\ acks' = acks
  BY DEF PacketArrives, Quiet, RcvIdle
<1>4. SndIdle'
  BY <1>3 DEF SndIdle, sndVars
<1>5. wire \in Seq(PacketType)
  BY DEF LinkInv, SndInv, SndTypeOK
<1>6. wire[i] \in PacketType /\ i \in Nat
  BY <1>5
<1>7. high' \in Nat /\ high' >= high /\ high' >= i
  BY <1>1, <1>6 DEF LinkInv
<1>8. pid \in Nat \cup {NoPid}
  BY <1>6 DEF PacketType
<1>9. pid = NoPid => Ids(incoming') = {}
  BY <1>1, <1>2 DEF IsValid
<1>10. /\ recvPackets' \in LeadingWindows
       /\ recvPackets'.pos = recvPackets.pos \/ recvPackets'.pos <= packetCounter
       /\ \A p \in recvPackets'.marked :
             p \in recvPackets.marked \/ (p = pid /\ p \in Nat)
  <2>1. CASE pid = NoPid
    BY <1>2, <2>1 DEF LinkInv
  <2>2. CASE pid # NoPid
    <3>1. pid \in Nat /\ pid < packetCounter /\ packetCounter \in Nat
      <4>1. pid < packetCounter /\ packetCounter \in Nat
        BY DEF LinkInv, SndInv, PacketsInv, SndTypeOK
      <4> QED
        BY <1>8, <2>2, <4>1
    <3> HIDE DEF pid
    <3> DEFINE v == LeadingMark(recvPackets, pid)
    <3>2. /\ v \in LeadingWindows
          /\ v.pos = recvPackets.pos \/ v.pos = pid + 1
          /\ v.marked = {q \in recvPackets.marked \cup {pid} : q >= LeadingBase(v)}
      BY <3>1, LeadingMarkFacts DEF LinkInv
    <3>3. recvPackets' = v
      BY <1>2, <2>2
    <3> HIDE DEF v
    <3> QED
      BY <3>1, <3>2, <3>3
  <2> QED
    BY <2>1, <2>2
<1>11. \A p : KnownToReceiver(p)' => KnownToReceiver(p) \/ (p = pid /\ p \in Nat)
  BY <1>3, <1>10 DEF KnownToReceiver
<1> QED
  BY <1>1, <1>2, <1>3, <1>4, <1>6, <1>7, <1>9, <1>10, <1>11

\* What process_message does to the message window.
LEMMA ProcessEffect ==
    ASSUME LinkInv, ProcessMessage
    PROVE  /\ Head(incoming) \in Message
           /\ incoming' = Tail(incoming) /\ incoming' \in Seq(Message)
           /\ InIdOrder(incoming')
           /\ Ids(incoming) = Ids(incoming') \cup
                (IF IsReliable(Head(incoming)) THEN {Head(incoming).id} ELSE {})
           /\ IsReliable(Head(incoming)) =>
                \A n \in Ids(incoming') : Head(incoming).id < n
           /\ recvMessages' = IF IsReliable(Head(incoming))
                                THEN SlidingMark(recvMessages, Head(incoming).id)
                                ELSE recvMessages
           /\ recvPackets' = recvPackets
           /\ SndIdle
<1> DEFINE m == Head(incoming)
<1>1. /\ incoming # <<>> /\ incoming' = Tail(incoming) /\ recvPackets' = recvPackets
      /\ recvMessages' = IF Accepts(m) /\ IsReliable(m)
                           THEN SlidingMark(recvMessages, m.id) ELSE recvMessages
  BY DEF ProcessMessage
<1>2. incoming \in Seq(Message) /\ InIdOrder(incoming)
  BY DEF LinkInv
<1>3. /\ m \in Message /\ Tail(incoming) \in Seq(Message)
      /\ 1 \in DOMAIN incoming /\ m = incoming[1]
      /\ \A i \in DOMAIN Tail(incoming) :
           i \in Nat /\ i + 1 \in DOMAIN incoming /\ Tail(incoming)[i] = incoming[i + 1]
           /\ 1 < i + 1
      /\ \A i \in DOMAIN incoming : i # 1 =>
           i - 1 \in DOMAIN Tail(incoming) /\ Tail(incoming)[i - 1] = incoming[i]
  BY <1>1, <1>2
<1> DEFINE t == Tail(incoming)
<1> HIDE DEF m, t
<1>4. InIdOrder(t)
  <2> SUFFICES ASSUME NEW i \in Reliables(t), NEW j \in Reliables(t), i < j
               PROVE  t[i].id < t[j].id
    BY DEF InIdOrder
  <2>1. i \in DOMAIN t /\ j \in DOMAIN t /\ IsReliable(t[i]) /\ IsReliable(t[j])
    BY DEF Reliables
  <2>2. /\ i + 1 \in Reliables(incoming) /\ j + 1 \in Reliables(incoming)
        /\ i + 1 < j + 1
        /\ t[i] = incoming[i + 1] /\ t[j] = incoming[j + 1]
    BY <1>3, <2>1 DEF Reliables, t
  <2> QED
    BY <1>2, <2>2 DEF InIdOrder
<1>5. Ids(incoming) = Ids(t) \cup (IF IsReliable(m) THEN {m.id} ELSE {})
  <2>1. ASSUME NEW n \in Ids(incoming)
        PROVE  n \in Ids(t) \/ (IsReliable(m) /\ n = m.id)
    <3>1. PICK i \in Reliables(incoming) : n = incoming[i].id
      BY DEF Ids
    <3>2. CASE i = 1
      BY <1>3, <3>1, <3>2 DEF Reliables
    <3>3. CASE i # 1
      <4>1. i - 1 \in Reliables(t) /\ t[i - 1].id = n
        BY <1>3, <3>1, <3>3 DEF Reliables, t
      <4> QED
        BY <4>1 DEF Ids
    <3> QED
      BY <3>2, <3>3
  <2>2. ASSUME NEW n \in Ids(t) PROVE n \in Ids(incoming)
    <3>1. PICK i \in Reliables(t) : n = t[i].id
      BY DEF Ids
    <3>2. i + 1 \in Reliables(incoming) /\ incoming[i + 1].id = n
      BY <1>3, <3>1 DEF Reliables, t
    <3> QED
      BY <3>2 DEF Ids
  <2>3. IsReliable(m) => m.id \in Ids(incoming)
    BY <1>3 DEF Ids, Reliables
  <2> QED
    BY <2>1, <2>2, <2>3
<1>6. ASSUME IsReliable(m), NEW n \in Ids(t) PROVE m.id < n
  <2>1. PICK i \in Reliables(t) : n = t[i].id
    BY DEF Ids
  <2>2. /\ i + 1 \in Reliables(incoming) /\ incoming[i + 1].id = n
        /\ 1 \in Reliables(incoming) /\ 1 < i + 1 /\ incoming[1] = m
    BY <1>3, <1>6, <2>1 DEF Reliables, t
  <2> QED
    BY <1>2, <2>2 DEF InIdOrder
<1>7. recvMessages' = IF IsReliable(m) THEN SlidingMark(recvMessages, m.id)
                                       ELSE recvMessages
  <2>1. CASE Accepts(m)
    BY <1>1, <2>1 DEF m
  <2>2. CASE ~ Accepts(m)
    <3>1. IsReliable(m) /\ recvMessages' = recvMessages
          /\ (m.id \notin Reach(recvMessages) \/ m.id \in recvMessages.marked)
      BY <1>1, <2>2 DEF Accepts, m
    <3>2. m.id \notin Reach(recvMessages) => SlidingMark(recvMessages, m.id) = recvMessages
      BY DEF SlidingMark
    <3>3. m.id \in recvMessages.marked => SlidingMark(recvMessages, m.id) = recvMessages
      BY SlidingMarkAgain DEF LinkInv
    <3> QED
      BY <3>1, <3>2, <3>3
  <2> QED
    BY <2>1, <2>2
<1>8. SndIdle
  BY <1>1 DEF LinkInv, RcvIdle
<1> QED
  BY <1>1, <1>3, <1>4, <1>5, <1>6, <1>7, <1>8 DEF m, t

\* Nothing is under way at first.
LEMMA InitLink == ASSUME Init PROVE LinkInv
<1>1. SndInit /\ RcvInit /\ high = 0 /\ acks = {}
  BY DEF Init
<1>2. SndInv
  BY <1>1, InitSnd
<1>3. recvMessages \in SlidingWindows /\ SndIdle /\ acking = {}
  BY <1>1, NewSlidingWindowFacts DEF RcvInit, SndInit, SndIdle
<1>4. recvPackets \in LeadingWindows /\ recvPackets.pos = PacketWindowLen
      /\ \A p : ~ KnownToReceiver(p)
  <2>1. recvPackets = [pos |-> PacketWindowLen, marked |-> {}]
    BY <1>1 DEF RcvInit, NewLeadingWindow
  <2>2. PacketWindowLen \in Nat
    BY WindowAssumption
  <2>3. recvPackets \in LeadingWindows
    BY <2>1, <2>2, LeadingWindowOf
  <2> QED
    BY <1>1, <2>1, <2>3 DEF KnownToReceiver
<1>5. incoming = <<>> /\ Reliables(incoming) = {}
  BY <1>1 DEF RcvInit, Reliables
<1> QED
  BY <1>1, <1>2, <1>3, <1>4, <1>5 DEF LinkInv, InIdOrder, Ids

\* Every step keeps the common invariant.
LEMMA LinkStep == ASSUME LinkInv, [Next]_vars PROVE LinkInv'
<1>1. SndInv'
  BY SndStep
<1>2. CASE Aside /\ (SndIdle \/ RcvIdle)'
  <2>1. /\ UNCHANGED <<recvMessages, recvPackets, incoming, acking, high>>
        /\ acks' \in {acks, acks \cup {recvPackets.marked}}
    BY <1>2 DEF Aside
  <2>2. /\ \A k \in DOMAIN wire : k \in DOMAIN wire' /\ wire'[k] = wire[k]
        /\ \A p : KnownToReceiver(p)' <=> KnownToReceiver(p)
    BY <1>2, AsideKeepsPackets
  <2>3. acks' \subseteq SUBSET Nat
    BY <2>1 DEF LinkInv, LeadingWindows
  <2>4. Ids(incoming') \subseteq 0 .. (messageCounter' - 1)
    <3>1. messageCounter \in Nat
      BY DEF LinkInv, SndInv, SndTypeOK
    <3>2. ASSUME NEW n \in Ids(incoming') PROVE n \in 0 .. (messageCounter' - 1)
      <4>1. n \in 0 .. (messageCounter - 1)
        BY <2>1 DEF LinkInv
      <4>2. messageCounter' = messageCounter \/ messageCounter' = messageCounter + 1
        BY <1>2 DEF Aside
      <4>3. n \in Nat /\ n < messageCounter
        BY <3>1, <4>1
      <4> QED
        BY <3>1, <4>2, <4>3
    <3> QED
      BY <3>2
  <2>5. \A p \in acking' : KnownToReceiver(p)'
    BY <2>1, <2>2 DEF LinkInv
  <2>6. \A p \in Nat : KnownToReceiver(p)' =>
           \E k \in DOMAIN wire' : k <= high' /\ wire'[k].pid = p
    <3> SUFFICES ASSUME NEW p \in Nat, KnownToReceiver(p)'
                 PROVE  \E k \in DOMAIN wire' : k <= high' /\ wire'[k].pid = p
      OBVIOUS
    <3>1. PICK k \in DOMAIN wire : k <= high /\ wire[k].pid = p
      BY <2>2 DEF LinkInv
    <3> QED
      BY <2>1, <2>2, <3>1
  <2>7. InIdOrder(incoming')
    BY <2>1 DEF LinkInv
  <2>8. recvPackets'.pos = PacketWindowLen \/ recvPackets'.pos <= packetCounter'
    <3>1. packetCounter' >= packetCounter
      BY <1>2, AsideKeepsPackets
    <3>2. packetCounter \in Nat /\ packetCounter' \in Nat /\ recvPackets.pos \in Nat
      BY <1>1 DEF LinkInv, SndInv, SndTypeOK, LeadingWindows
    <3> QED
      BY <2>1, <3>1, <3>2 DEF LinkInv
  <2> QED
    BY <1>1, <1>2, <2>1, <2>3, <2>4, <2>5, <2>6, <2>7, <2>8 DEF LinkInv
<1>3. CASE AcksArrive
  <2>1. PICK pids \in acks : ReceiveAcks(pids)
    BY <1>3 DEF AcksArrive
  <2>2. /\ acking' = pids
        /\ UNCHANGED <<recvMessages, recvPackets, incoming, high, acks, wire, messageCounter, packetCounter>>
        /\ RcvIdle'
    BY <1>3, <2>1 DEF AcksArrive, ReceiveAcks, Quiet, RcvIdle, rcvVars
  <2>3. \A p : KnownToReceiver(p)' <=> KnownToReceiver(p)
    BY <2>2 DEF KnownToReceiver
  <2>4. \A p \in acking' : KnownToReceiver(p)
    BY <2>2 DEF KnownToReceiver
  <2> QED
    BY <1>1, <2>2, <2>3, <2>4 DEF LinkInv
<1>4. CASE (MarkSentPacketReceived \/ MarkSentMessage) /\ UNCHANGED <<rcvVars, high, acks>>
  <2>1. /\ acking' \subseteq acking
        /\ UNCHANGED <<recvMessages, recvPackets, incoming, high, acks, wire, messageCounter, packetCounter>>
    BY <1>4 DEF MarkSentPacketReceived, MarkSentMessage, rcvVars
  <2>2. \A p : KnownToReceiver(p)' <=> KnownToReceiver(p)
    BY <2>1 DEF KnownToReceiver
  <2>3. ~ SndIdle
    BY <1>4 DEF MarkSentPacketReceived, MarkSentMessage, SndIdle
  <2>4. RcvIdle'
    BY <1>4, <2>3 DEF LinkInv, RcvIdle, rcvVars
  <2> QED
    BY <1>1, <2>1, <2>2, <2>4 DEF LinkInv
<1>5. CASE PacketArrives
  <2>1. PICK i \in DOMAIN wire :
             /\ high' \in Nat /\ high' >= high /\ high' >= i
             /\ wire[i] \in PacketType
             /\ recvPackets' \in LeadingWindows
             /\ recvPackets'.pos = recvPackets.pos \/ recvPackets'.pos <= packetCounter
             /\ incoming' = wire[i].messages
             /\ \A p : KnownToReceiver(p)' =>
                         KnownToReceiver(p) \/ (p = wire[i].pid /\ p \in Nat)
             /\ SndIdle /\ SndIdle'
             /\ UNCHANGED sndVars /\ UNCHANGED <<recvMessages, acks>>
    BY <1>5, ArrivalEffect
  <2>2. wire' = wire /\ acking' = {} /\ UNCHANGED <<messageCounter, packetCounter>>
    BY <2>1 DEF sndVars, SndIdle
  <2>3. /\ incoming' \in Seq(Message) /\ InIdOrder(incoming')
        /\ Ids(incoming') \subseteq 0 .. (messageCounter - 1)
    BY <2>1 DEF PacketType, LinkInv, SndInv, PacketsInv
  <2>4. \A p \in Nat : KnownToReceiver(p)' =>
           \E k \in DOMAIN wire : k <= high' /\ wire[k].pid = p
    <3> SUFFICES ASSUME NEW p \in Nat, KnownToReceiver(p)'
                 PROVE  \E k \in DOMAIN wire : k <= high' /\ wire[k].pid = p
      OBVIOUS
    <3>1. CASE p = wire[i].pid
      BY <2>1, <3>1
    <3>2. CASE KnownToReceiver(p)
      <4>1. PICK k \in DOMAIN wire : k <= high /\ wire[k].pid = p
        BY <3>2 DEF LinkInv
      <4>2. k \in Nat /\ high \in Nat
        BY DEF LinkInv, SndInv, SndTypeOK
      <4> QED
        BY <2>1, <4>1, <4>2
    <3> QED
      BY <2>1, <3>1, <3>2
  <2> QED
    BY <1>1, <2>1, <2>2, <2>3, <2>4 DEF LinkInv
<1>6. CASE ProcessMessage /\ UNCHANGED <<sndVars, high, acks>>
  <2>1. /\ Head(incoming) \in Message
        /\ incoming' \in Seq(Message) /\ InIdOrder(incoming')
        /\ Ids(incoming') \subseteq Ids(incoming)
        /\ recvMessages' = IF IsReliable(Head(incoming))
                             THEN SlidingMark(recvMessages, Head(incoming).id)
                             ELSE recvMessages
        /\ recvPackets' = recvPackets
        /\ SndIdle
    BY <1>6, ProcessEffect
  <2>2. recvMessages' \in SlidingWindows
    BY <2>1, SlidingMarkFacts DEF LinkInv
  <2>3. SndIdle'
    BY <1>6, <2>1 DEF SndIdle, sndVars
  <2>4. \A p : KnownToReceiver(p)' <=> KnownToReceiver(p)
    BY <1>6, <2>1 DEF KnownToReceiver
  <2>5. UNCHANGED <<wire, acking, messageCounter, packetCounter, high, acks>>
    BY <1>6 DEF sndVars
  <2> QED
    BY <1>1, <2>1, <2>2, <2>3, <2>4, <2>5 DEF LinkInv
<1> QED
  BY <1>2, <1>3, <1>4, <1>5, <1>6, StepCases

THEOREM LinkInductive == Spec => []LinkInv
<1>1. Init => LinkInv
  BY InitLink
<1>2. LinkInv /\ [Next]_vars => LinkInv'
  BY LinkStep
<1> QED
  BY <1>1, <1>2, PTL DEF Spec

-----------------------------------------------------------------------------
(* The application keeps within the message window *)

\* No message is queued that the sender could not mark at once.
WithinWindow == messageCounter <= sentMessages.pos + MessageWindowLen

\* Then the receiver takes every message of every packet it marks.
WithinInv ==
    /\ AckSound
    /\ ToSet(marking) \subseteq Covered(recvMessages)
    /\ \A p \in Nat : KnownToReceiver(p) =>
         IdsUnder(wire, p) \subseteq Covered(recvMessages) \cup Ids(incoming)

\* What the sender marks under an id is among what travelled under it.
LEMMA EntryIsUnder ==
    ASSUME LinkInv, NEW p \in DOMAIN sentPackets
    PROVE  ToSet(sentPackets[p]) \subseteq IdsUnder(wire, p)
<1>1. PICK k \in DOMAIN wire :
         wire[k].pid = p /\ ToSet(sentPackets[p]) = Ids(wire[k].messages)
  BY DEF LinkInv, SndInv, PacketsInv, EntriesAreSent
<1> QED
  BY <1>1 DEF IdsUnder

\* No two packets have the same id, so this is what one packet carries.
LEMMA UnderIsOnePacket ==
    ASSUME LinkInv, NEW k \in DOMAIN wire, wire[k].pid # NoPid
    PROVE  IdsUnder(wire, wire[k].pid) = Ids(wire[k].messages)
<1>1. ASSUME NEW l \in DOMAIN wire, wire[l].pid = wire[k].pid PROVE l = k
  <2>1. k \in Nat /\ l \in Nat /\ wire[k].pid \in Int
    <3>1. wire \in Seq(PacketType)
      BY DEF LinkInv, SndInv, SndTypeOK
    <3>2. wire[k] \in PacketType /\ k \in Nat /\ l \in Nat
      BY <3>1
    <3> QED
      BY <3>2 DEF PacketType, NoPid
  <2>2. /\ k < l => wire[k].pid < wire[l].pid
        /\ l < k => wire[l].pid < wire[k].pid
    BY <1>1 DEF LinkInv, SndInv, PacketsInv, PacketsAreSound
  <2> QED
    BY <1>1, <2>1, <2>2
<1>2. {l \in DOMAIN wire : wire[l].pid = wire[k].pid} = {k}
  BY <1>1
<1> QED
  BY <1>2 DEF IdsUnder

\* One of the ids of a report is looked up: what its entry holds.
LEMMA LookUpEffect ==
    ASSUME LinkInv, MarkSentPacketReceived
    PROVE  \E p \in acking :
             /\ \A q \in acking : p <= q
             /\ KnownToReceiver(p) /\ p \in Nat
             /\ acking' = acking \ {p}
             /\ DOMAIN sentPackets' = DOMAIN sentPackets \ {p}
             /\ \/ marking' = <<>>
                \/ /\ p \in DOMAIN sentPackets
                   /\ ToSet(marking') \subseteq IdsUnder(wire, p)
             /\ UNCHANGED <<sentMessages, wire, packetCounter, messageCounter>>
<1> DEFINE p == Min(acking)
<1>1. /\ acking # {} /\ acking' = acking \ {p} /\ marking = <<>>
      /\ IF p \in DOMAIN sentPackets
         THEN marking' = sentPackets[p] /\ sentPackets' = MarkSent(p)
         ELSE UNCHANGED <<marking, sentPackets>>
      /\ UNCHANGED <<sentMessages, wire, packetCounter, messageCounter>>
  BY DEF MarkSentPacketReceived
<1>2. acking \subseteq Nat
  BY DEF LinkInv, SndInv, SndTypeOK
<1>3. p \in acking /\ \A q \in acking : p <= q
  BY <1>1, <1>2, MinIsLeast
<1> HIDE DEF p
<1>4. DOMAIN sentPackets' = DOMAIN sentPackets \ {p}
  BY <1>1 DEF MarkSent, Restrict
<1>5. \/ marking' = <<>>
      \/ p \in DOMAIN sentPackets /\ ToSet(marking') \subseteq IdsUnder(wire, p)
  BY <1>1, EntryIsUnder
<1>6. KnownToReceiver(p) /\ p \in Nat
  BY <1>2, <1>3 DEF LinkInv
<1> QED
  BY <1>1, <1>3, <1>4, <1>5, <1>6

\* And one of the ids of that entry is marked.
LEMMA MarkEffect ==
    ASSUME LinkInv, MarkSentMessage
    PROVE  /\ Head(marking) \in ToSet(marking) /\ Head(marking) \in Nat
           /\ sentMessages' = SlidingMark(sentMessages, Head(marking))
           /\ ToSet(marking') \subseteq ToSet(marking)
           /\ marking # <<>>
           /\ UNCHANGED <<wire, sentPackets, packetCounter, messageCounter, acking>>
<1>1. /\ marking # <<>> /\ marking' = Tail(marking)
      /\ sentMessages' = SlidingMark(sentMessages, Head(marking))
      /\ UNCHANGED <<wire, sentPackets, packetCounter, messageCounter, acking>>
  BY DEF MarkSentMessage
<1>2. marking \in Seq(Nat)
  BY DEF LinkInv, SndInv, SndTypeOK
<1>3. 1 \in DOMAIN marking /\ Head(marking) = marking[1] /\ Head(marking) \in Nat
  BY <1>1, <1>2
<1>4. \A i \in DOMAIN Tail(marking) :
         i + 1 \in DOMAIN marking /\ Tail(marking)[i] = marking[i + 1]
  BY <1>1, <1>2
<1> QED
  BY <1>1, <1>3, <1>4 DEF ToSet

\* An id that was queued is in the receiver's reach if it is not covered.
LEMMA MarkTakes ==
    ASSUME LinkInv, AckSound, WithinWindow, NEW n \in 0 .. (messageCounter - 1)
    PROVE  Covered(SlidingMark(recvMessages, n)) = Covered(recvMessages) \cup {n}
<1>1. sentMessages \in SlidingWindows /\ recvMessages \in SlidingWindows
      /\ messageCounter \in Nat /\ MessageWindowLen \in Nat
  BY WindowAssumption DEF LinkInv, SndInv, SndTypeOK
<1>2. sentMessages.pos \in Nat /\ recvMessages.pos \in Nat
  BY <1>1, CoveredFacts
<1>3. sentMessages.pos <= recvMessages.pos
  <2>1. \A j \in Nat : j < sentMessages.pos => j \in Covered(recvMessages)
    BY <1>1, CoveredFacts DEF AckSound
  <2>2. recvMessages.pos \notin Covered(recvMessages)
    BY <1>1, CoveredFacts
  <2> QED
    BY <1>2, <2>1, <2>2
<1>4. n \in Nat /\ n < recvMessages.pos + MessageWindowLen
  BY <1>1, <1>2, <1>3 DEF WithinWindow
<1>5. CASE n \in Reach(recvMessages)
  BY <1>1, <1>5, SlidingMarkInReach
<1>6. CASE n \notin Reach(recvMessages)
  <2>1. n < recvMessages.pos
    BY <1>1, <1>2, <1>4, <1>6 DEF Reach
  <2>2. n \in Covered(recvMessages)
    BY <1>1, <1>4, <2>1, CoveredFacts
  <2> QED
    BY <1>6, <2>2 DEF SlidingMark
<1> QED
  BY <1>5, <1>6

LEMMA WithinStep ==
    ASSUME LinkInv, WithinInv, WithinWindow, [Next]_vars
    PROVE  WithinInv'
<1>1. /\ Covered(sentMessages) \subseteq Covered(recvMessages)
      /\ recvMessages \in SlidingWindows /\ sentMessages \in SlidingWindows
  BY DEF WithinInv, AckSound, LinkInv, SndInv, SndTypeOK
<1>2. CASE Aside
  <2>1. UNCHANGED <<sentMessages, marking, recvMessages, incoming>>
    BY <1>2 DEF Aside
  <2>2. /\ \A p : KnownToReceiver(p)' <=> KnownToReceiver(p)
        /\ \A p \in Nat : KnownToReceiver(p) => IdsUnder(wire', p) = IdsUnder(wire, p)
    BY <1>2, AsideKeepsPackets
  <2> QED
    BY <2>1, <2>2 DEF WithinInv, AckSound
<1>3. CASE AcksArrive
  <2>1. PICK pids \in acks : ReceiveAcks(pids)
    BY <1>3 DEF AcksArrive
  <2>2. UNCHANGED <<sentMessages, marking, recvMessages, recvPackets, incoming, wire, acks>>
    BY <1>3, <2>1 DEF AcksArrive, ReceiveAcks, rcvVars
  <2>3. \A p : KnownToReceiver(p)' <=> KnownToReceiver(p)
    BY <2>2 DEF KnownToReceiver
  <2> QED
    BY <2>2, <2>3 DEF WithinInv, AckSound
<1>4. CASE MarkSentPacketReceived /\ UNCHANGED <<rcvVars, high, acks>>
  <2>1. UNCHANGED <<recvMessages, recvPackets, incoming, acks>>
    BY <1>4 DEF rcvVars
  <2>2. PICK p \in acking :
             /\ KnownToReceiver(p) /\ p \in Nat
             /\ marking' = <<>> \/ ToSet(marking') \subseteq IdsUnder(wire, p)
             /\ UNCHANGED <<sentMessages, wire>>
    BY <1>4, LookUpEffect
  <2>3. \A q : KnownToReceiver(q)' <=> KnownToReceiver(q)
    BY <2>1 DEF KnownToReceiver
  <2>4. incoming = <<>> /\ Ids(incoming) = {}
    <3>1. ~ SndIdle
      BY <1>4 DEF MarkSentPacketReceived, SndIdle
    <3>2. incoming = <<>>
      BY <3>1 DEF LinkInv, RcvIdle
    <3> QED
      BY <3>2 DEF Ids, Reliables
  <2>5. ToSet(marking') \subseteq Covered(recvMessages)
    <3>1. CASE marking' = <<>>
      BY <3>1 DEF ToSet
    <3>2. CASE ToSet(marking') \subseteq IdsUnder(wire, p)
      BY <2>2, <2>4, <3>2 DEF WithinInv
    <3> QED
      BY <2>2, <3>1, <3>2
  <2> QED
    BY <2>1, <2>2, <2>3, <2>5 DEF WithinInv, AckSound
<1>5. CASE MarkSentMessage /\ UNCHANGED <<rcvVars, high, acks>>
  <2>1. UNCHANGED <<recvMessages, recvPackets, incoming, acks>>
    BY <1>5 DEF rcvVars
  <2>2. /\ Head(marking) \in ToSet(marking)
        /\ sentMessages' = SlidingMark(sentMessages, Head(marking))
        /\ ToSet(marking') \subseteq ToSet(marking)
        /\ UNCHANGED wire
    BY <1>5, MarkEffect
  <2>3. \A q : KnownToReceiver(q)' <=> KnownToReceiver(q)
    BY <2>1 DEF KnownToReceiver
  <2>4. Covered(sentMessages') \subseteq Covered(sentMessages) \cup {Head(marking)}
    <3>1. CASE Head(marking) \in Reach(sentMessages)
      BY <1>1, <2>2, <3>1, SlidingMarkInReach
    <3>2. CASE Head(marking) \notin Reach(sentMessages)
      BY <2>2, <3>2 DEF SlidingMark
    <3> QED
      BY <3>1, <3>2
  <2>5. AckSound'
    BY <1>1, <2>1, <2>2, <2>4 DEF WithinInv, AckSound
  <2> QED
    BY <2>1, <2>2, <2>3, <2>5 DEF WithinInv
<1>6. CASE PacketArrives
  <2>1. PICK i \in DOMAIN wire :
             /\ incoming' = wire[i].messages
             /\ \A p : KnownToReceiver(p)' =>
                         KnownToReceiver(p) \/ (p = wire[i].pid /\ p \in Nat)
             /\ incoming = <<>>
             /\ UNCHANGED sndVars /\ UNCHANGED <<recvMessages, acks>>
    BY <1>6, ArrivalEffect
  <2>2. UNCHANGED <<sentMessages, marking, wire>>
    BY <2>1 DEF sndVars
  <2>3. ASSUME NEW p \in Nat, KnownToReceiver(p)'
        PROVE  IdsUnder(wire, p) \subseteq Covered(recvMessages) \cup Ids(incoming')
    <3>1. CASE p = wire[i].pid
      <4>1. wire[i].pid # NoPid
        BY <3>1 DEF NoPid
      <4> QED
        BY <2>1, <3>1, <4>1, UnderIsOnePacket
    <3>2. CASE KnownToReceiver(p)
      <4>1. Ids(incoming) = {}
        BY <2>1 DEF Ids, Reliables
      <4> QED
        BY <3>2, <4>1 DEF WithinInv
    <3> QED
      BY <2>1, <2>3, <3>1, <3>2
  <2> QED
    BY <2>1, <2>2, <2>3 DEF WithinInv, AckSound
<1>7. CASE ProcessMessage /\ UNCHANGED <<sndVars, high, acks>>
  <2> DEFINE m == Head(incoming)
  <2>1. /\ m \in Message
        /\ Ids(incoming) = Ids(incoming') \cup (IF IsReliable(m) THEN {m.id} ELSE {})
        /\ recvMessages' = IF IsReliable(m) THEN SlidingMark(recvMessages, m.id)
                                            ELSE recvMessages
        /\ recvPackets' = recvPackets
    BY <1>7, ProcessEffect
  <2> HIDE DEF m
  <2>2. UNCHANGED <<wire, sentMessages, marking, acks>>
    BY <1>7 DEF sndVars
  <2>3. \A q : KnownToReceiver(q)' <=> KnownToReceiver(q)
    BY <2>1, <2>2 DEF KnownToReceiver
  <2>4. Covered(recvMessages') \cup Ids(incoming') = Covered(recvMessages) \cup Ids(incoming)
    <3>1. CASE IsReliable(m)
      <4>1. m.id \in 0 .. (messageCounter - 1)
        BY <2>1, <3>1 DEF LinkInv
      <4>2. Covered(recvMessages') = Covered(recvMessages) \cup {m.id}
        BY <2>1, <3>1, <4>1, MarkTakes DEF WithinInv
      <4> QED
        BY <2>1, <3>1, <4>2
    <3>2. CASE ~ IsReliable(m)
      BY <2>1, <3>2
    <3> QED
      BY <3>1, <3>2
  <2>5. Covered(recvMessages) \subseteq Covered(recvMessages')
    BY <1>1, <2>1, SlidingMarkFacts
  <2>6. \A p \in Nat : KnownToReceiver(p)' =>
           IdsUnder(wire', p) \subseteq Covered(recvMessages') \cup Ids(incoming')
    BY <2>2, <2>3, <2>4 DEF WithinInv
  <2>7. AckSound' /\ ToSet(marking') \subseteq Covered(recvMessages')
    BY <2>2, <2>5 DEF WithinInv, AckSound
  <2> QED
    BY <2>6, <2>7 DEF WithinInv
<1> QED
  BY <1>2, <1>3, <1>4, <1>5, <1>6, <1>7, StepCases

\* Nothing is covered, marked or known at first.
LEMMA InitWithin == ASSUME Init PROVE WithinInv
<1>1. SndInit /\ RcvInit /\ acks = {}
  BY DEF Init
<1>2. Covered(sentMessages) = {} /\ ToSet(marking) = {}
  BY <1>1, NewSlidingWindowFacts DEF SndInit, ToSet
<1>3. \A p : ~ KnownToReceiver(p)
  BY <1>1 DEF RcvInit, NewLeadingWindow, KnownToReceiver
<1> QED
  BY <1>2, <1>3 DEF WithinInv, AckSound

\* Whatever the network does: as long as no more messages are queued than fit
\* in the message window, the sender is right about what was received.
THEOREM SoundWithinWindow == Spec /\ []WithinWindow => []AckSound
<1>1. Init => WithinInv
  BY InitWithin
<1>2. LinkInv /\ WithinInv /\ WithinWindow /\ [Next]_vars => WithinInv'
  BY WithinStep
<1>3. WithinInv => AckSound
  BY DEF WithinInv
<1> QED
  BY <1>1, <1>2, <1>3, LinkInductive, PTL DEF Spec

\* A message that was queued is queued still, or the receiver has it.
LEMMA NotLost == ASSUME LinkInv, AckSound PROVE ReliableNotLost
BY DEF LinkInv, SndInv, QueueInv, NoneForgotten, AckSound, ReliableNotLost

THEOREM NotLostWithinWindow == Spec /\ []WithinWindow => []ReliableNotLost
<1>1. LinkInv /\ AckSound => ReliableNotLost
  BY NotLost
<1> QED
  BY <1>1, LinkInductive, SoundWithinWindow, PTL

\* In particular as long as no more are queued in all than fit in it.
LEMMA CountStep ==
    ASSUME LinkInv, [Next]_vars, messageCounter + payloads <= MaxMessages
    PROVE  messageCounter' + payloads' <= MaxMessages
<1>1. messageCounter \in Nat /\ payloads \in Nat /\ MaxMessages \in Nat
  BY LinkAssumption DEF LinkInv, SndInv, SndTypeOK
<1>2. CASE Send
  BY <1>1, <1>2 DEF Send, QueueMsg
<1>3. CASE SenderPoll \/ AcksArrive
  BY <1>3 DEF SenderPoll, BeginPoll, AcksArrive, ReceiveAcks
<1>4. CASE SenderLoop
  BY <1>4 DEF SenderLoop, SndLoop, MarkSentPacketReceived, MarkSentMessage,
     SendPacket, EndPoll
<1>5. CASE PacketArrives \/ ReceiverPoll \/ ReceiverLoop \/ UNCHANGED vars
  BY <1>5 DEF PacketArrives, ReceiverPoll, ReceiverLoop, vars, sndVars
<1> QED
  BY <1>2, <1>3, <1>4, <1>5 DEF Next

THEOREM SoundInOneWindow ==
    ASSUME MaxMessages <= MessageWindowLen PROVE Spec => []AckSound
<1>1. Init => messageCounter + payloads <= MaxMessages
  BY LinkAssumption DEF Init, SndInit
<1>2. LinkInv /\ messageCounter + payloads <= MaxMessages /\ [Next]_vars
        => (messageCounter + payloads <= MaxMessages)'
  BY CountStep
<1>3. LinkInv /\ messageCounter + payloads <= MaxMessages => WithinWindow
  <2> SUFFICES ASSUME LinkInv, messageCounter + payloads <= MaxMessages
               PROVE  WithinWindow
    OBVIOUS
  <2>1. sentMessages \in SlidingWindows /\ messageCounter \in Nat /\ payloads \in Nat
    BY DEF LinkInv, SndInv, SndTypeOK
  <2>2. sentMessages.pos \in Nat
    BY <2>1, CoveredFacts
  <2> QED
    BY <2>1, <2>2, LinkAssumption, WindowAssumption DEF WithinWindow
<1> QED
  BY <1>1, <1>2, <1>3, LinkInductive, SoundWithinWindow, PTL DEF Spec

-----------------------------------------------------------------------------
(* The network keeps the order of the packets *)

\* Entries of packets the receiver knows are looked up in their order: an ack
\* map that holds an id holds the lower ones too, or their entries are gone.
InOrder ==
    /\ \A pids \in acks : \A p \in pids, q \in DOMAIN sentPackets :
         KnownToReceiver(q) /\ q < p => q \in pids
    /\ \A q \in DOMAIN sentPackets : KnownToReceiver(q) => q \in recvPackets.marked
    /\ \A p \in acking, q \in DOMAIN sentPackets :
         KnownToReceiver(q) /\ q < p => q \in acking

\* A packet that arrives has an id that is not below any the receiver knows.
LEMMA ArrivesInOrder ==
    ASSUME LinkInv, MaxReorder = 0, NEW i \in DOMAIN wire, i + MaxReorder >= high,
           wire[i].pid # NoPid, NEW p \in Nat, KnownToReceiver(p)
    PROVE  p <= wire[i].pid
<1>1. PICK k \in DOMAIN wire : k <= high /\ wire[k].pid = p
  BY DEF LinkInv
<1>2. wire \in Seq(PacketType)
  BY DEF LinkInv, SndInv, SndTypeOK
<1>3. wire[i] \in PacketType /\ k \in Nat /\ i \in Nat /\ high \in Nat
  BY <1>2 DEF LinkInv
<1>4. wire[i].pid \in Int
  BY <1>3 DEF PacketType, NoPid
<1>5. k <= i
  BY <1>1, <1>3
<1>6. CASE k = i
  BY <1>1, <1>6, <1>4
<1>7. CASE k < i
  <2>1. wire[k].pid # NoPid
    BY <1>1 DEF NoPid
  <2>2. wire[k].pid < wire[i].pid
    BY <1>7, <2>1 DEF LinkInv, SndInv, PacketsInv, PacketsAreSound
  <2> QED
    BY <1>1, <1>4, <2>2
<1> QED
  BY <1>3, <1>5, <1>6, <1>7

LEMMA InOrderStep ==
    ASSUME LinkInv, InOrder, MaxReorder = 0, [Next]_vars
    PROVE  InOrder'
<1>0. DOMAIN sentPackets \subseteq Nat /\ DOMAIN sentPackets' \subseteq Nat
      /\ acks \subseteq SUBSET Nat /\ packetCounter \in Nat
  <2>1. SndInv'
    BY SndStep
  <2> QED
    BY <2>1 DEF LinkInv, SndInv, SndTypeOK
<1>1. CASE Aside
  <2>1. UNCHANGED <<acking, recvPackets>> /\ acks' \in {acks, acks \cup {recvPackets.marked}}
    BY <1>1 DEF Aside
  <2>2. /\ \A p : KnownToReceiver(p)' <=> KnownToReceiver(p)
        /\ \A p \in Nat : KnownToReceiver(p) /\ p \in DOMAIN sentPackets'
                            => p \in DOMAIN sentPackets
    BY <1>1, AsideKeepsPackets
  <2>3. ASSUME NEW q \in DOMAIN sentPackets', KnownToReceiver(q)'
        PROVE  q \in DOMAIN sentPackets /\ KnownToReceiver(q) /\ q \in recvPackets.marked
    BY <1>0, <2>2, <2>3 DEF InOrder
  <2>4. ASSUME NEW pids \in acks', NEW p \in pids, NEW q \in DOMAIN sentPackets',
               KnownToReceiver(q)', q < p
        PROVE  q \in pids
    <3>1. CASE pids \in acks
      BY <2>3, <2>4, <3>1 DEF InOrder
    <3>2. CASE pids = recvPackets.marked
      BY <2>3, <2>4, <3>2
    <3> QED
      BY <2>1, <3>1, <3>2
  <2> QED
    BY <2>1, <2>3, <2>4 DEF InOrder
<1>2. CASE AcksArrive
  <2>1. PICK pids \in acks : ReceiveAcks(pids)
    BY <1>2 DEF AcksArrive
  <2>2. acking' = pids /\ UNCHANGED <<recvPackets, sentPackets, acks>>
    BY <1>2, <2>1 DEF AcksArrive, ReceiveAcks, rcvVars
  <2>3. \A p : KnownToReceiver(p)' <=> KnownToReceiver(p)
    BY <2>2 DEF KnownToReceiver
  <2> QED
    BY <2>2, <2>3 DEF InOrder
<1>3. CASE MarkSentPacketReceived /\ UNCHANGED <<rcvVars, high, acks>>
  <2>1. PICK p \in acking : /\ acking' = acking \ {p}
                            /\ DOMAIN sentPackets' = DOMAIN sentPackets \ {p}
    BY <1>3, LookUpEffect
  <2>2. UNCHANGED <<recvPackets, acks>>
    BY <1>3 DEF rcvVars
  <2>3. \A q : KnownToReceiver(q)' <=> KnownToReceiver(q)
    BY <2>2 DEF KnownToReceiver
  <2> QED
    BY <2>1, <2>2, <2>3 DEF InOrder
<1>4. CASE MarkSentMessage /\ UNCHANGED <<rcvVars, high, acks>>
  <2>1. UNCHANGED <<recvPackets, acks, sentPackets, acking>>
    BY <1>4 DEF rcvVars, MarkSentMessage
  <2>2. \A q : KnownToReceiver(q)' <=> KnownToReceiver(q)
    BY <2>1 DEF KnownToReceiver
  <2> QED
    BY <2>1, <2>2 DEF InOrder
<1>5. CASE PacketArrives
  <2>1. PICK i \in DOMAIN wire :
             /\ i + MaxReorder >= high
             /\ wire[i] \in PacketType
             /\ recvPackets' = IF wire[i].pid = NoPid THEN recvPackets
                                 ELSE LeadingMark(recvPackets, wire[i].pid)
             /\ \A p : KnownToReceiver(p)' =>
                         KnownToReceiver(p) \/ (p = wire[i].pid /\ p \in Nat)
             /\ SndIdle'
             /\ UNCHANGED sndVars /\ UNCHANGED acks
    BY <1>5, ArrivalEffect
  <2> DEFINE pid == wire[i].pid
  <2>2. sentPackets' = sentPackets /\ acking' = {}
    BY <2>1 DEF sndVars, SndIdle
  <2>3. CASE pid = NoPid
    <3>1. recvPackets' = recvPackets
      BY <2>1, <2>3
    <3>2. \A p : KnownToReceiver(p)' <=> KnownToReceiver(p)
      BY <2>1, <3>1 DEF KnownToReceiver
    <3> QED
      BY <2>1, <2>2, <3>1, <3>2 DEF InOrder
  <2>4. CASE pid # NoPid
    <3>1. pid \in Nat /\ pid < packetCounter
      <4>1. pid \in Nat
        BY <2>1, <2>4 DEF PacketType
      <4> QED
        BY <4>1 DEF LinkInv, SndInv, PacketsInv
    <3>2. \A p \in Nat : KnownToReceiver(p) => p <= pid
      BY <2>1, <2>4, ArrivesInOrder
    <3>3. /\ recvPackets'.marked =
               {q \in recvPackets.marked \cup {pid} : q >= LeadingBase(recvPackets')}
          /\ recvPackets'.pos = recvPackets.pos \/ recvPackets'.pos = pid + 1
          /\ recvPackets'.pos \in Nat
      <4> HIDE DEF pid
      <4> DEFINE v == LeadingMark(recvPackets, pid)
      <4>1. /\ v \in LeadingWindows
            /\ v.pos = recvPackets.pos \/ v.pos = pid + 1
            /\ v.marked = {q \in recvPackets.marked \cup {pid} : q >= LeadingBase(v)}
        BY <3>1, LeadingMarkFacts DEF LinkInv
      <4>2. recvPackets' = v
        BY <2>1, <2>4 DEF pid
      <4> HIDE DEF v
      <4>3. v.pos \in Nat
        BY <4>1 DEF LeadingWindows
      <4> QED
        BY <4>1, <4>2, <4>3
    <3>4. ASSUME NEW q \in DOMAIN sentPackets, KnownToReceiver(q)'
          PROVE  q \in recvPackets'.marked
      <4>1. q \in Nat /\ q >= packetCounter - PacketWindowLen /\ PacketWindowLen \in Nat
        BY <1>0, WindowAssumption DEF LinkInv, SndInv, PacketsInv, EntriesAreRecent
      <4>2. q \in recvPackets.marked \cup {pid}
        BY <2>1, <3>4 DEF InOrder
      <4>3. q >= LeadingBase(recvPackets')
        <5>1. CASE recvPackets'.pos = pid + 1
          BY <1>0, <3>1, <4>1, <5>1 DEF LeadingBase
        <5>2. CASE recvPackets'.pos = recvPackets.pos
          <6>1. CASE q \in recvPackets.marked
            BY <4>1, <5>2, <6>1 DEF LinkInv, LeadingWindows, LeadingBase
          <6>2. CASE q = pid
            <7>1. recvPackets.pos = PacketWindowLen \/ recvPackets.pos <= packetCounter
              BY DEF LinkInv
            <7>2. recvPackets.pos \in Nat
              BY DEF LinkInv, LeadingWindows
            <7> QED
              BY <1>0, <4>1, <5>2, <7>1, <7>2 DEF LeadingBase
          <6> QED
            BY <4>2, <6>1, <6>2
        <5> QED
          BY <3>3, <5>1, <5>2
      <4> QED
        BY <3>3, <4>2, <4>3
    <3>5. ASSUME NEW pids \in acks, NEW p \in pids, NEW q \in DOMAIN sentPackets,
                 KnownToReceiver(q)', q < p
          PROVE  q \in pids
      <4>1. KnownToReceiver(p) /\ p \in Nat
        BY <1>0 DEF KnownToReceiver
      <4>2. p <= pid /\ q # pid
        BY <1>0, <3>1, <3>2, <3>5, <4>1
      <4> QED
        BY <2>1, <3>5, <4>2 DEF InOrder
    <3> HIDE DEF pid
    <3> QED
      BY <2>1, <2>2, <3>4, <3>5 DEF InOrder
  <2> QED
    BY <2>3, <2>4
<1>6. CASE ProcessMessage /\ UNCHANGED <<sndVars, high, acks>>
  <2>1. UNCHANGED <<recvPackets, acks, sentPackets, acking>>
    BY <1>6 DEF sndVars, ProcessMessage
  <2>2. \A q : KnownToReceiver(q)' <=> KnownToReceiver(q)
    BY <2>1 DEF KnownToReceiver
  <2> QED
    BY <2>1, <2>2 DEF InOrder
<1> QED
  BY <1>1, <1>2, <1>3, <1>4, <1>5, <1>6, StepCases

\* A window has settled some ids if a mark of each in turn changes nothing of
\* it: the id is covered, or too far above.
Settled(w, ids) == \A n \in ids : n \in Covered(w) \/ n >= w.pos + MessageWindowLen

\* The receiver's message window as it was when the packet after p arrived is
\* after[p]; cur is the id of the last packet that had one, and its window the
\* present one.  The sender's window is behind that of every packet whose entry
\* it still has.
Fifo(after, cur) ==
    /\ \A p \in Nat : KnownToReceiver(p) => p <= cur
    /\ \A p \in Nat : KnownToReceiver(p) /\ p # cur =>
         /\ Settled(after[p], IdsUnder(wire, p))
         /\ Covered(after[p]) \subseteq Covered(recvMessages)
         /\ \A q \in Nat : KnownToReceiver(q) /\ q # cur /\ p < q =>
              Covered(after[p]) \subseteq Covered(after[q])
         /\ p \in DOMAIN sentPackets =>
              Covered(sentMessages) \subseteq Covered(after[p])
    /\ KnownToReceiver(cur) => \A n \in IdsUnder(wire, cur) :
         \/ n \in Covered(recvMessages) \/ n \in Ids(incoming)
         \/ /\ n >= recvMessages.pos + MessageWindowLen
            /\ \A i \in Ids(incoming) : n < i

\* While the messages of an entry are marked, the window of its packet.
FifoMarking(after, cur) ==
    \E w \in SlidingWindows :
        /\ Settled(w, ToSet(marking))
        /\ Covered(sentMessages) \subseteq Covered(w)
        /\ Covered(w) \subseteq Covered(recvMessages)
        /\ \A q \in DOMAIN sentPackets : KnownToReceiver(q) /\ q # cur =>
             Covered(w) \subseteq Covered(after[q])

FifoInv ==
    /\ InOrder
    /\ AckSound
    /\ \E after \in [Nat -> SlidingWindows], cur \in Nat :
         /\ Fifo(after, cur)
         /\ marking # <<>> => FifoMarking(after, cur)

\* If what Fifo speaks of is the same, it still holds.
LEMMA FifoAside ==
    ASSUME LinkInv, SndInv', Aside, NEW after \in [Nat -> SlidingWindows], NEW cur \in Nat,
           Fifo(after, cur), marking # <<>> => FifoMarking(after, cur)
    PROVE  Fifo(after, cur)' /\ (marking' # <<>> => FifoMarking(after, cur)')
<1>1. UNCHANGED <<sentMessages, marking, recvMessages, incoming>>
  BY DEF Aside
<1>2. /\ \A p : KnownToReceiver(p)' <=> KnownToReceiver(p)
      /\ \A p \in Nat : KnownToReceiver(p) => IdsUnder(wire', p) = IdsUnder(wire, p)
      /\ \A p \in Nat : KnownToReceiver(p) /\ p \in DOMAIN sentPackets'
                          => p \in DOMAIN sentPackets
  BY AsideKeepsPackets
<1>3. \A p \in Nat : KnownToReceiver(p)' => p <= cur
  BY <1>2 DEF Fifo
<1>4. ASSUME NEW p \in Nat, KnownToReceiver(p)', p # cur
      PROVE  /\ Settled(after[p], IdsUnder(wire', p))
             /\ Covered(after[p]) \subseteq Covered(recvMessages')
             /\ \A q \in Nat : KnownToReceiver(q)' /\ q # cur /\ p < q =>
                  Covered(after[p]) \subseteq Covered(after[q])
             /\ p \in DOMAIN sentPackets' =>
                  Covered(sentMessages') \subseteq Covered(after[p])
  BY <1>1, <1>2, <1>4 DEF Fifo
<1>5. KnownToReceiver(cur)' => \A n \in IdsUnder(wire', cur) :
         \/ n \in Covered(recvMessages') \/ n \in Ids(incoming')
         \/ /\ n >= recvMessages'.pos + MessageWindowLen
            /\ \A i \in Ids(incoming') : n < i
  BY <1>1, <1>2 DEF Fifo
<1>6. Fifo(after, cur)'
  BY <1>3, <1>4, <1>5 DEF Fifo
<1>7. ASSUME marking' # <<>> PROVE FifoMarking(after, cur)'
  <2>1. PICK w \in SlidingWindows :
        /\ Settled(w, ToSet(marking))
        /\ Covered(sentMessages) \subseteq Covered(w)
        /\ Covered(w) \subseteq Covered(recvMessages)
        /\ \A q \in DOMAIN sentPackets : KnownToReceiver(q) /\ q # cur =>
             Covered(w) \subseteq Covered(after[q])
    BY <1>1, <1>7 DEF FifoMarking
  <2>3. DOMAIN sentPackets' \subseteq Nat
    BY DEF SndInv, SndTypeOK
  <2>4. \A q \in DOMAIN sentPackets' : KnownToReceiver(q)' /\ q # cur =>
             Covered(w) \subseteq Covered(after[q])
    BY <1>2, <2>1, <2>3
  <2> QED
    BY <1>1, <2>1, <2>4 DEF FifoMarking
<1> QED
  BY <1>6, <1>7

\* An id of a report is looked up.  Those of the lower ones that the receiver
\* knows were looked up before, so what is marked now is older than whatever is
\* marked later.
LEMMA FifoLookUp ==
    ASSUME LinkInv, InOrder, AckSound, MarkSentPacketReceived,
           UNCHANGED <<rcvVars, high, acks>>,
           NEW after \in [Nat -> SlidingWindows], NEW cur \in Nat, Fifo(after, cur)
    PROVE  Fifo(after, cur)' /\ (marking' # <<>> => FifoMarking(after, cur)')
<1>1. UNCHANGED <<recvMessages, recvPackets, incoming, acks>>
  BY DEF rcvVars
<1>2. PICK p \in acking :
             /\ \A q \in acking : p <= q
             /\ KnownToReceiver(p) /\ p \in Nat
             /\ DOMAIN sentPackets' = DOMAIN sentPackets \ {p}
             /\ \/ marking' = <<>>
                \/ /\ p \in DOMAIN sentPackets
                   /\ ToSet(marking') \subseteq IdsUnder(wire, p)
             /\ UNCHANGED <<sentMessages, wire>>
  BY LookUpEffect
<1>3. \A q : KnownToReceiver(q)' <=> KnownToReceiver(q)
  BY <1>1 DEF KnownToReceiver
<1>4. Fifo(after, cur)'
  BY <1>1, <1>2, <1>3 DEF Fifo
<1>5. ASSUME marking' # <<>> PROVE FifoMarking(after, cur)'
  <2> DEFINE w == IF p = cur THEN recvMessages ELSE after[p]
  <2>1. p \in DOMAIN sentPackets /\ ToSet(marking') \subseteq IdsUnder(wire, p)
    BY <1>2, <1>5
  <2>2. Ids(incoming) = {}
    <3>1. ~ SndIdle
      BY DEF MarkSentPacketReceived, SndIdle
    <3>2. incoming = <<>>
      BY <3>1 DEF LinkInv, RcvIdle
    <3> QED
      BY <3>2 DEF Ids, Reliables
  <2>3. w \in SlidingWindows
    BY <1>2 DEF LinkInv
  <2>4. Settled(w, IdsUnder(wire, p))
    <3>1. CASE p = cur
      BY <1>2, <2>2, <3>1 DEF Fifo, Settled
    <3>2. CASE p # cur
      BY <1>2, <3>2 DEF Fifo
    <3> QED
      BY <3>1, <3>2
  <2>5. Covered(sentMessages) \subseteq Covered(w)
    BY <1>2, <2>1 DEF Fifo, AckSound
  <2>6. Covered(w) \subseteq Covered(recvMessages)
    BY <1>2 DEF Fifo
  <2>7. ASSUME NEW q \in DOMAIN sentPackets', KnownToReceiver(q), q # cur
        PROVE  Covered(w) \subseteq Covered(after[q])
    <3>1. q \in DOMAIN sentPackets /\ q # p /\ q \in Nat
      BY <1>2 DEF LinkInv, SndInv, SndTypeOK
    <3>2. ~ (q < p)
      BY <1>2, <2>7, <3>1 DEF InOrder
    <3>3. p < q
      BY <1>2, <3>1, <3>2
    <3>4. q <= cur
      BY <2>7, <3>1 DEF Fifo
    <3>5. p # cur
      BY <1>2, <3>1, <3>3, <3>4
    <3> QED
      BY <1>2, <2>7, <3>1, <3>3, <3>5 DEF Fifo
  <2>8. Settled(w, ToSet(marking'))
    BY <2>1, <2>4 DEF Settled
  <2> HIDE DEF w
  <2> QED
    BY <1>1, <1>2, <1>3, <2>3, <2>5, <2>6, <2>7, <2>8 DEF FifoMarking
<1> QED
  BY <1>4, <1>5

\* A message of the entry is marked: the window of its packet covers it, or
\* the sender's window does not reach it.
LEMMA FifoMark ==
    ASSUME LinkInv, AckSound, MarkSentMessage, UNCHANGED <<rcvVars, high, acks>>,
           NEW after \in [Nat -> SlidingWindows], NEW cur \in Nat, Fifo(after, cur),
           FifoMarking(after, cur)
    PROVE  /\ AckSound'
           /\ Fifo(after, cur)' /\ FifoMarking(after, cur)'
<1>1. UNCHANGED <<recvMessages, recvPackets, incoming, acks>>
  BY DEF rcvVars
<1>2. /\ Head(marking) \in ToSet(marking) /\ Head(marking) \in Nat
      /\ sentMessages' = SlidingMark(sentMessages, Head(marking))
      /\ ToSet(marking') \subseteq ToSet(marking)
      /\ UNCHANGED <<wire, sentPackets>>
  BY MarkEffect
<1>3. \A q : KnownToReceiver(q)' <=> KnownToReceiver(q)
  BY <1>1 DEF KnownToReceiver
<1>4. PICK w \in SlidingWindows :
        /\ Settled(w, ToSet(marking))
        /\ Covered(sentMessages) \subseteq Covered(w)
        /\ Covered(w) \subseteq Covered(recvMessages)
        /\ \A q \in DOMAIN sentPackets : KnownToReceiver(q) /\ q # cur =>
             Covered(w) \subseteq Covered(after[q])
  BY DEF FifoMarking
<1>5. Covered(sentMessages') \subseteq Covered(w)
  <2> DEFINE n == Head(marking)
  <2>1. sentMessages \in SlidingWindows
    BY DEF LinkInv, SndInv, SndTypeOK
  <2>2. CASE n \in Covered(w)
    <3>1. Covered(sentMessages') \subseteq Covered(sentMessages) \cup {n}
      <4>1. CASE n \in Reach(sentMessages)
        BY <1>2, <2>1, <4>1, SlidingMarkInReach
      <4>2. CASE n \notin Reach(sentMessages)
        BY <1>2, <4>2 DEF SlidingMark
      <4> QED
        BY <4>1, <4>2
    <3> QED
      BY <1>4, <2>2, <3>1
  <2>3. CASE n >= w.pos + MessageWindowLen
    <3>1. sentMessages.pos \in Nat /\ w.pos \in Nat /\ MessageWindowLen \in Nat
      BY <2>1, CoveredFacts, WindowAssumption
    <3>2. sentMessages.pos <= w.pos
      <4>1. \A j \in Nat : j < sentMessages.pos => j \in Covered(w)
        BY <1>4, <2>1, CoveredFacts
      <4>2. w.pos \notin Covered(w)
        BY CoveredFacts
      <4> QED
        BY <3>1, <4>1, <4>2
    <3>3. n \notin Reach(sentMessages)
      BY <1>2, <2>3, <3>1, <3>2 DEF Reach
    <3> QED
      BY <1>2, <1>4, <3>3 DEF SlidingMark
  <2> QED
    BY <1>2, <1>4, <2>2, <2>3 DEF Settled
<1>6. AckSound'
  BY <1>1, <1>4, <1>5 DEF AckSound
<1>7. FifoMarking(after, cur)'
  <2>1. Settled(w, ToSet(marking'))
    BY <1>2, <1>4 DEF Settled
  <2> QED
    BY <1>1, <1>2, <1>3, <1>4, <1>5, <2>1 DEF FifoMarking
<1>8. Fifo(after, cur)'
  <2>1. \A p \in Nat : KnownToReceiver(p) /\ p # cur /\ p \in DOMAIN sentPackets =>
           Covered(sentMessages') \subseteq Covered(after[p])
    BY <1>4, <1>5
  <2> QED
    BY <1>1, <1>2, <1>3, <2>1 DEF Fifo
<1> QED
  BY <1>6, <1>7, <1>8

\* A packet arrives.  If it is not the last one again, the window of the last
\* one is what the receiver's window is now.
LEMMA FifoArrival ==
    ASSUME LinkInv, AckSound, MaxReorder = 0, PacketArrives,
           NEW after \in [Nat -> SlidingWindows], NEW cur \in Nat, Fifo(after, cur)
    PROVE  /\ marking' = <<>>
           /\ \E later \in [Nat -> SlidingWindows], now \in Nat : Fifo(later, now)'
<1>1. PICK i \in DOMAIN wire :
             /\ i + MaxReorder >= high
             /\ wire[i] \in PacketType
             /\ recvPackets' = IF wire[i].pid = NoPid THEN recvPackets
                                 ELSE LeadingMark(recvPackets, wire[i].pid)
             /\ incoming' = wire[i].messages
             /\ wire[i].pid = NoPid => Ids(incoming') = {}
             /\ \A p : KnownToReceiver(p)' =>
                         KnownToReceiver(p) \/ (p = wire[i].pid /\ p \in Nat)
             /\ incoming = <<>> /\ SndIdle
             /\ UNCHANGED sndVars /\ UNCHANGED <<recvMessages, acks>>
  BY ArrivalEffect
<1>2. UNCHANGED <<wire, sentMessages, sentPackets, marking>> /\ marking = <<>>
  BY <1>1 DEF sndVars, SndIdle
<1>3. Ids(incoming) = {}
  BY <1>1 DEF Ids, Reliables
<1>4. CASE wire[i].pid = NoPid
  <2>1. \A p : KnownToReceiver(p)' <=> KnownToReceiver(p)
    BY <1>1, <1>4 DEF KnownToReceiver
  <2>2. Ids(incoming') = Ids(incoming) /\ recvMessages' = recvMessages
    BY <1>1, <1>3, <1>4
  <2>3. Fifo(after, cur)'
    BY <1>2, <2>1, <2>2 DEF Fifo
  <2> QED
    BY <1>2, <2>3
<1>5. CASE wire[i].pid # NoPid
  <2>1. PICK pid \in Nat : pid = wire[i].pid
    BY <1>1, <1>5 DEF PacketType
  <2>2. \A p \in Nat : KnownToReceiver(p) => p <= pid
    BY <1>1, <1>5, <2>1, ArrivesInOrder
  <2>3. IdsUnder(wire, pid) \subseteq Ids(incoming')
    BY <1>1, <1>5, <2>1, UnderIsOnePacket
  <2>4. PICK later \in [Nat -> SlidingWindows] :
             /\ \A p \in Nat : p # cur => later[p] = after[p]
             /\ later[cur] = recvMessages
    <3> DEFINE l == [after EXCEPT ![cur] = recvMessages]
    <3>1. l \in [Nat -> SlidingWindows] /\ l[cur] = recvMessages
          /\ \A p \in Nat : p # cur => l[p] = after[p]
      BY DEF LinkInv
    <3> QED
      BY <3>1
  <2>7. \A p : KnownToReceiver(p)' => KnownToReceiver(p) \/ p = pid
    BY <1>1, <2>1
  <2>8. recvMessages' = recvMessages
    BY <1>1
  <2>9. \A p \in Nat : KnownToReceiver(p)' => p <= pid
    BY <2>1, <2>2, <2>7
  <2>10. ASSUME NEW p \in Nat, KnownToReceiver(p)', p # pid
         PROVE  /\ Settled(later[p], IdsUnder(wire, p))
                /\ Covered(later[p]) \subseteq Covered(recvMessages)
                /\ \A q \in Nat : KnownToReceiver(q)' /\ q # pid /\ p < q =>
                     Covered(later[p]) \subseteq Covered(later[q])
                /\ p \in DOMAIN sentPackets =>
                     Covered(sentMessages) \subseteq Covered(later[p])
    <3>1. KnownToReceiver(p)
      BY <2>7, <2>10
    <3>2. CASE p = cur
      <4>1. later[p] = recvMessages
        BY <2>4, <3>2
      <4>2. \A q \in Nat : KnownToReceiver(q)' /\ q # pid => ~ (p < q)
        <5> SUFFICES ASSUME NEW q \in Nat, KnownToReceiver(q)', q # pid
                     PROVE  ~ (p < q)
          OBVIOUS
        <5>1. q <= cur
          BY <2>7 DEF Fifo
        <5> QED
          BY <3>2, <5>1
      <4>3. Settled(recvMessages, IdsUnder(wire, p))
        BY <1>3, <3>1, <3>2 DEF Fifo, Settled
      <4> QED
        BY <4>1, <4>2, <4>3 DEF AckSound
    <3>3. CASE p # cur
      <4>1. later[p] = after[p]
        BY <2>4, <3>3
      <4>2. /\ Settled(after[p], IdsUnder(wire, p))
            /\ Covered(after[p]) \subseteq Covered(recvMessages)
            /\ \A q \in Nat : KnownToReceiver(q) /\ q # cur /\ p < q =>
                 Covered(after[p]) \subseteq Covered(after[q])
            /\ p \in DOMAIN sentPackets =>
                 Covered(sentMessages) \subseteq Covered(after[p])
        BY <3>1, <3>3 DEF Fifo
      <4>3. ASSUME NEW q \in Nat, KnownToReceiver(q)', q # pid, p < q
            PROVE  Covered(after[p]) \subseteq Covered(later[q])
        <5>1. KnownToReceiver(q)
          BY <2>7, <4>3
        <5>2. CASE q = cur
          BY <2>4, <4>2, <4>3, <5>2
        <5>3. CASE q # cur
          BY <2>4, <4>2, <4>3, <5>1, <5>3
        <5> QED
          BY <5>2, <5>3
      <4> QED
        BY <4>1, <4>2, <4>3
    <3> QED
      BY <3>2, <3>3
  <2>11. Fifo(later, pid)'
    BY <1>2, <2>3, <2>8, <2>9, <2>10 DEF Fifo
  <2> QED
    BY <1>2, <2>1, <2>4, <2>11
<1> QED
  BY <1>4, <1>5

\* A message of the last packet is processed.  What was too far above before it
\* still is: the messages of a packet are in the order of their ids.
LEMMA FifoProcess ==
    ASSUME LinkInv, AckSound, ProcessMessage, UNCHANGED <<sndVars, high, acks>>,
           NEW after \in [Nat -> SlidingWindows], NEW cur \in Nat, Fifo(after, cur)
    PROVE  /\ AckSound' /\ marking' = <<>>
           /\ Fifo(after, cur)'
<1> DEFINE m == Head(incoming)
<1>1. /\ m \in Message
      /\ Ids(incoming) = Ids(incoming') \cup (IF IsReliable(m) THEN {m.id} ELSE {})
      /\ IsReliable(m) => \A n \in Ids(incoming') : m.id < n
      /\ recvMessages' = IF IsReliable(m) THEN SlidingMark(recvMessages, m.id)
                                          ELSE recvMessages
      /\ recvPackets' = recvPackets
      /\ SndIdle
  BY ProcessEffect
<1> HIDE DEF m
<1>2. UNCHANGED <<wire, sentMessages, sentPackets, marking, acks>> /\ marking = <<>>
  BY <1>1 DEF sndVars, SndIdle
<1>3. \A q : KnownToReceiver(q)' <=> KnownToReceiver(q)
  BY <1>1, <1>2 DEF KnownToReceiver
<1>4. recvMessages \in SlidingWindows
  BY DEF LinkInv
<1>5. Covered(recvMessages) \subseteq Covered(recvMessages')
  BY <1>1, <1>4, SlidingMarkFacts
<1>6. AckSound'
  BY <1>2, <1>5 DEF AckSound
<1>7. ASSUME KnownToReceiver(cur), NEW n \in IdsUnder(wire, cur)
      PROVE  \/ n \in Covered(recvMessages') \/ n \in Ids(incoming')
             \/ /\ n >= recvMessages'.pos + MessageWindowLen
                /\ \A i \in Ids(incoming') : n < i
  <2>1. \/ n \in Covered(recvMessages) \/ n \in Ids(incoming)
        \/ /\ n >= recvMessages.pos + MessageWindowLen
           /\ \A i \in Ids(incoming) : n < i
    BY <1>7 DEF Fifo
  <2>2. CASE ~ IsReliable(m)
    BY <1>1, <2>1, <2>2
  <2>3. CASE IsReliable(m)
    <3>1. /\ recvMessages' = SlidingMark(recvMessages, m.id)
          /\ Ids(incoming) = Ids(incoming') \cup {m.id}
      BY <1>1, <2>3
    <3>2. m.id \in Nat /\ recvMessages.pos \in Nat /\ MessageWindowLen \in Nat
      BY <1>1, <1>4, CoveredFacts, WindowAssumption DEF Message
    <3>3. m.id \in Covered(recvMessages') \/ (/\ m.id >= recvMessages.pos + MessageWindowLen
                                              /\ recvMessages' = recvMessages)
      <4>1. CASE m.id \in Reach(recvMessages)
        BY <1>4, <3>1, <4>1, SlidingMarkInReach
      <4>2. CASE m.id \notin Reach(recvMessages) /\ m.id < recvMessages.pos
        BY <1>4, <1>5, <3>2, <4>2, CoveredFacts
      <4>3. CASE m.id \notin Reach(recvMessages) /\ ~ (m.id < recvMessages.pos)
        BY <3>1, <3>2, <4>3 DEF Reach, SlidingMark
      <4> QED
        BY <4>1, <4>2, <4>3
    <3>4. CASE n \in Covered(recvMessages)
      BY <1>5, <3>4
    <3>5. CASE n \in Ids(incoming)
      <4>1. CASE n = m.id
        BY <1>1, <2>3, <3>3, <4>1
      <4> QED
        BY <3>1, <3>5, <4>1
    <3>6. CASE /\ n >= recvMessages.pos + MessageWindowLen
               /\ \A i \in Ids(incoming) : n < i
      <4>1. n < m.id /\ n \in Int
        <5>1. n \in Nat
          <6>1. PICK k \in DOMAIN wire : n \in Ids(wire[k].messages)
            BY DEF IdsUnder
          <6>2. n \in 0 .. (messageCounter - 1)
            BY <6>1 DEF LinkInv, SndInv, PacketsInv
          <6> QED
            BY <6>2
        <5> QED
          BY <3>1, <3>6, <5>1
      <4>2. m.id \notin Reach(recvMessages)
        BY <3>2, <3>6, <4>1 DEF Reach
      <4>3. recvMessages' = recvMessages
        BY <3>1, <4>2 DEF SlidingMark
      <4> QED
        BY <3>1, <3>6, <4>3
    <3> QED
      BY <2>1, <3>4, <3>5, <3>6
  <2> QED
    BY <2>2, <2>3
<1>8. Fifo(after, cur)'
  <2>1. \A p \in Nat : KnownToReceiver(p) /\ p # cur =>
           Covered(after[p]) \subseteq Covered(recvMessages')
    BY <1>5 DEF Fifo
  <2> QED
    BY <1>2, <1>3, <1>7, <2>1 DEF Fifo
<1> QED
  BY <1>2, <1>6, <1>8

\* An ack map arrives: it is looked up id by id.
LEMMA FifoReport ==
    ASSUME LinkInv, AcksArrive,
           NEW after \in [Nat -> SlidingWindows], NEW cur \in Nat, Fifo(after, cur)
    PROVE  /\ UNCHANGED <<sentMessages, recvMessages>> /\ marking' = <<>>
           /\ Fifo(after, cur)'
<1>1. PICK pids \in acks : ReceiveAcks(pids)
  BY DEF AcksArrive
<1>2. /\ UNCHANGED <<sentMessages, recvMessages, recvPackets, incoming, wire, acks,
                     sentPackets>>
      /\ marking' = <<>>
  BY <1>1 DEF AcksArrive, ReceiveAcks, SndIdle, rcvVars
<1>3. \A q : KnownToReceiver(q)' <=> KnownToReceiver(q)
  BY <1>2 DEF KnownToReceiver
<1>4. Fifo(after, cur)'
  BY <1>2, <1>3 DEF Fifo
<1> QED
  BY <1>2, <1>4

LEMMA FifoStep ==
    ASSUME LinkInv, FifoInv, MaxReorder = 0, [Next]_vars
    PROVE  FifoInv'
<1>1. InOrder' /\ InOrder /\ AckSound /\ SndInv'
  BY InOrderStep, SndStep DEF FifoInv
<1>2. PICK after \in [Nat -> SlidingWindows], cur \in Nat :
         Fifo(after, cur) /\ (marking # <<>> => FifoMarking(after, cur))
  BY DEF FifoInv
<1>3. CASE Aside
  <2>1. Fifo(after, cur)' /\ (marking' # <<>> => FifoMarking(after, cur)')
    BY <1>1, <1>2, <1>3, FifoAside
  <2>2. AckSound'
    BY <1>1, <1>3 DEF Aside, AckSound
  <2> QED
    BY <1>1, <2>1, <2>2 DEF FifoInv
<1>4. CASE AcksArrive
  <2>1. UNCHANGED <<sentMessages, recvMessages>> /\ marking' = <<>> /\ Fifo(after, cur)'
    BY <1>2, <1>4, FifoReport
  <2>2. AckSound'
    BY <1>1, <2>1 DEF AckSound
  <2> QED
    BY <1>1, <2>1, <2>2 DEF FifoInv
<1>5. CASE MarkSentPacketReceived /\ UNCHANGED <<rcvVars, high, acks>>
  <2>1. Fifo(after, cur)' /\ (marking' # <<>> => FifoMarking(after, cur)')
    BY <1>1, <1>2, <1>5, FifoLookUp
  <2>2. AckSound'
    BY <1>1, <1>5 DEF MarkSentPacketReceived, rcvVars, AckSound
  <2> QED
    BY <1>1, <2>1, <2>2 DEF FifoInv
<1>6. CASE MarkSentMessage /\ UNCHANGED <<rcvVars, high, acks>>
  <2>1. marking # <<>>
    BY <1>6 DEF MarkSentMessage
  <2>2. AckSound' /\ Fifo(after, cur)' /\ FifoMarking(after, cur)'
    BY <1>1, <1>2, <1>6, <2>1, FifoMark
  <2> QED
    BY <1>1, <2>2 DEF FifoInv
<1>7. CASE PacketArrives
  <2>1. /\ marking' = <<>>
        /\ \E later \in [Nat -> SlidingWindows], now \in Nat : Fifo(later, now)'
    BY <1>1, <1>2, <1>7, FifoArrival
  <2>2. AckSound'
    BY <1>1, <1>7 DEF PacketArrives, ProcessPacket, sndVars, AckSound
  <2> QED
    BY <1>1, <2>1, <2>2 DEF FifoInv
<1>8. CASE ProcessMessage /\ UNCHANGED <<sndVars, high, acks>>
  <2>1. AckSound' /\ marking' = <<>> /\ Fifo(after, cur)'
    BY <1>1, <1>2, <1>8, FifoProcess
  <2> QED
    BY <1>1, <2>1 DEF FifoInv
<1> QED
  BY <1>3, <1>4, <1>5, <1>6, <1>7, <1>8, StepCases

\* Nothing is known to the receiver at first.
LEMMA InitFifo == ASSUME Init PROVE FifoInv
<1>1. SndInit /\ RcvInit /\ acks = {}
  BY DEF Init
<1>2. Covered(sentMessages) = {} /\ marking = <<>> /\ acking = {} /\ DOMAIN sentPackets = {}
  BY <1>1, NewSlidingWindowFacts DEF SndInit
<1>3. \A p : ~ KnownToReceiver(p)
  BY <1>1 DEF RcvInit, NewLeadingWindow, KnownToReceiver
<1>4. InOrder /\ AckSound
  BY <1>1, <1>2 DEF InOrder, AckSound
<1> DEFINE after == [p \in Nat |-> NewSlidingWindow]
<1>5. after \in [Nat -> SlidingWindows]
  BY NewSlidingWindowFacts
<1> HIDE DEF after
<1>6. Fifo(after, 0)
  BY <1>3 DEF Fifo
<1> QED
  BY <1>2, <1>4, <1>5, <1>6 DEF FifoInv

\* Over a network that keeps the order of packets the sender is right about
\* what was received, however many messages are queued, although the receiver
\* marks packets whose messages it drops.
THEOREM SoundInOrder == ASSUME MaxReorder = 0 PROVE Spec => []AckSound
<1>1. Init => FifoInv
  BY InitFifo
<1>2. LinkInv /\ FifoInv /\ [Next]_vars => FifoInv'
  BY FifoStep
<1>3. FifoInv => AckSound
  BY DEF FifoInv
<1> QED
  BY <1>1, <1>2, <1>3, LinkInductive, PTL DEF Spec

\* And no message is lost.
THEOREM NotLostInOrder == ASSUME MaxReorder = 0 PROVE Spec => []ReliableNotLost
<1>1. LinkInv /\ AckSound => ReliableNotLost
  BY NotLost
<1> QED
  BY <1>1, LinkInductive, SoundInOrder, PTL

-----------------------------------------------------------------------------
(* The receiving half, given what the sending half built *)

\* The messages that travelled, and all there is of what the sender was given.
Sent == UNION {ToSet(wire[k].messages) : k \in DOMAIN wire}
Collected == IF poll.running THEN ToSet(poll.candidates) ELSE {}
Known == ToSet(queue) \cup Collected \cup Sent

\* The kind of each reliable message, by its id.
KindsAre(kinds) ==
    \A m \in Known : IsReliable(m) => m.id \in DOMAIN kinds /\ kinds[m.id] = m.kind

OrderedOf(kinds) == {n \in DOMAIN kinds : kinds[n] = "Reliable"}

KindsOf(n) == [0 .. (n - 1) -> ReliableKinds]

Held(kinds) == KindsAre(kinds) /\ BufInv(OrderedOf(kinds))

\* What the receiver has was sent, and it has it once and in order, over any
\* network.
HeldInv ==
    /\ RcvTypeOK(Sent)
    /\ \E kinds \in KindsOf(messageCounter) : Held(kinds)

\* The elements of what sequences are built of.
LEMMA AppendSet ==
    ASSUME NEW S, NEW s \in Seq(S), NEW m \in S
    PROVE  ToSet(Append(s, m)) = ToSet(s) \cup {m}
<1>1. /\ DOMAIN Append(s, m) = DOMAIN s \cup {Len(s) + 1}
      /\ \A i \in DOMAIN s : Append(s, m)[i] = s[i]
      /\ Append(s, m)[Len(s) + 1] = m
  BY AppendFacts
<1> QED
  BY <1>1 DEF ToSet

LEMMA ConcatSet ==
    ASSUME NEW S, NEW s \in Seq(S), NEW t \in Seq(S)
    PROVE  ToSet(s \o t) \subseteq ToSet(s) \cup ToSet(t)
<1>1. /\ Len(s) \in Nat /\ Len(t) \in Nat
      /\ DOMAIN s = 1 .. Len(s) /\ DOMAIN t = 1 .. Len(t)
      /\ DOMAIN (s \o t) = 1 .. (Len(s) + Len(t))
      /\ \A i \in DOMAIN (s \o t) :
           (s \o t)[i] = IF i <= Len(s) THEN s[i] ELSE t[i - Len(s)]
  OBVIOUS
<1>2. ASSUME NEW i \in DOMAIN (s \o t) PROVE (s \o t)[i] \in ToSet(s) \cup ToSet(t)
  <2>1. CASE i <= Len(s)
    <3>1. i \in DOMAIN s
      BY <1>1, <2>1
    <3> QED
      BY <1>1, <2>1, <3>1 DEF ToSet
  <2>2. CASE i > Len(s)
    <3>1. i - Len(s) \in DOMAIN t
      BY <1>1, <2>2
    <3>2. (s \o t)[i] = t[i - Len(s)]
      BY <1>1, <2>2
    <3> QED
      BY <3>1, <3>2 DEF ToSet
  <2> QED
    BY <1>1, <2>1, <2>2
<1> QED
  BY <1>2 DEF ToSet

LEMMA SubsequenceSet ==
    ASSUME NEW s \in Seq(Message), NEW is \in SUBSET DOMAIN s
    PROVE  ToSet(Subsequence(s, is)) \subseteq ToSet(s)
<1> DEFINE t == Subsequence(s, is)
<1>1. \A k \in DOMAIN t : Place(is, k) \in is /\ t[k] = s[Place(is, k)]
  BY SubsequenceFacts
<1> HIDE DEF t
<1>2. \A k \in DOMAIN t : t[k] \in ToSet(s)
  BY <1>1 DEF ToSet
<1> QED
  BY <1>2 DEF ToSet, t

\* What is known comes from the application, message by message; everything
\* else moves it about or drops it.
LEMMA KnownStep ==
    ASSUME LinkInv, [Next]_vars
    PROVE  /\ Sent \subseteq Sent'
           /\ \/ messageCounter' = messageCounter /\ Sent' = Sent
                 /\ UNCHANGED <<rcvVars, sentMessages>>
                 /\ \A m \in Known' : m \in Known \/ ~ IsReliable(m)
              \/ messageCounter' = messageCounter /\ Known' \subseteq Known
              \/ /\ messageCounter' = messageCounter + 1 /\ Sent' = Sent
                 /\ UNCHANGED <<rcvVars, sentMessages>>
                 /\ \E kind \in ReliableKinds : \A m \in Known' :
                      m \in Known \/ (m.kind = kind /\ m.id = messageCounter)
<1>0. /\ queue \in Seq(Message) /\ wire \in Seq(PacketType)
      /\ poll.running => poll.candidates \in Seq(Message)
  BY DEF LinkInv, SndInv, SndTypeOK, PollType
<1>1. CASE Send
  <2>1. PICK kind \in SentKinds, size \in Sizes : QueueMsg(kind, size)
    BY <1>1 DEF Send
  <2> DEFINE new == [kind |-> kind, size |-> size,
                     id |-> IF kind = "Unreliable" THEN payloads ELSE messageCounter]
  <2>2. new \in Message /\ queue' = Append(queue, new)
    <3>1. kind \in Kinds /\ payloads \in Nat /\ messageCounter \in Nat
      BY LinkAssumption DEF LinkInv, SndInv, SndTypeOK
    <3> QED
      BY <2>1, <3>1 DEF QueueMsg, Message
  <2>3. UNCHANGED <<poll, wire, sentMessages, rcvVars>>
    BY <1>1, <2>1 DEF Send, QueueMsg
  <2>4. Known' = Known \cup {new} /\ Sent' = Sent
    <3>1. ToSet(queue') = ToSet(queue) \cup {new}
      BY <1>0, <2>2, AppendSet
    <3> QED
      BY <2>3, <3>1 DEF Known, Collected, Sent
  <2>5. CASE kind = "Unreliable"
    <3>1. messageCounter' = messageCounter /\ ~ IsReliable(new)
      BY <2>1, <2>5 DEF QueueMsg, IsReliable
    <3> QED
      BY <2>3, <2>4, <3>1
  <2>6. CASE kind # "Unreliable"
    <3>1. messageCounter' = messageCounter + 1 /\ kind \in ReliableKinds
          /\ new.id = messageCounter /\ new.kind = kind
      BY <2>1, <2>6, LinkAssumption DEF QueueMsg, Kinds
    <3> HIDE DEF new
    <3> QED
      BY <2>3, <2>4, <3>1
  <2> QED
    BY <2>5, <2>6
<1>2. CASE SenderPoll
  <2>1. PICK expired \in SUBSET attempted, budget \in 1 .. MaxBudget,
             score \in Scores, due \in BOOLEAN :
          BeginPoll(expired, budget, score, due)
    BY <1>2 DEF SenderPoll
  <2> DEFINE kept == {i \in DOMAIN queue : ~ Received(queue[i])}
             stay == {i \in kept : StaysQueued(queue[i], expired)}
             candidates == {i \in kept : IsReady(queue[i], expired)}
  <2>2. /\ queue' = Subsequence(queue, stay)
        /\ poll' = [running |-> TRUE, candidates |-> Subsequence(queue, candidates),
                    budget |-> budget, first |-> TRUE, score |-> score,
                    due |-> due, bare |-> 0]
        /\ UNCHANGED <<wire, messageCounter>>
    BY <2>1 DEF BeginPoll
  <2>3. stay \in SUBSET DOMAIN queue /\ candidates \in SUBSET DOMAIN queue
    OBVIOUS
  <2> HIDE DEF kept, stay, candidates
  <2>4. ToSet(queue') \subseteq ToSet(queue) /\ Collected' \subseteq ToSet(queue)
    <3>1. poll'.candidates = Subsequence(queue, candidates)
      BY <2>2
    <3> QED
      BY <1>0, <2>2, <2>3, <3>1, SubsequenceSet DEF Collected
  <2>5. Sent' = Sent
    BY <2>2 DEF Sent
  <2> QED
    BY <2>2, <2>4, <2>5 DEF Known
<1>3. CASE SendPacket
  <2>1. PICK is \in SUBSET DOMAIN poll.candidates, pid \in Nat \cup {NoPid} :
          /\ wire' = Append(wire, [pid |-> pid,
                           messages |-> Subsequence(poll.candidates, is)])
          /\ Subsequence(poll.candidates, is) \in Seq(Message)
          /\ poll' \in PollType
          /\ poll'.candidates =
               Subsequence(poll.candidates, DOMAIN poll.candidates \ is)
          /\ UNCHANGED <<queue, messageCounter>>
    BY <1>3, SendPacketEffect DEF LinkInv, SndInv
  <2>2. poll.running
    BY <1>3 DEF SendPacket
  <2> DEFINE packed == Subsequence(poll.candidates, is)
             packet == [pid |-> pid, messages |-> packed]
             new == Len(wire) + 1
  <2>3. packet \in PacketType /\ wire' = Append(wire, packet) /\ packet.messages = packed
    BY <2>1 DEF PacketType
  <2>4. ToSet(packed) \subseteq Collected
    BY <1>0, <2>2, SubsequenceSet DEF Collected
  <2>5. Collected' \subseteq Collected
    <3>1. DOMAIN poll.candidates \ is \in SUBSET DOMAIN poll.candidates
      OBVIOUS
    <3>2. ToSet(poll'.candidates) \subseteq ToSet(poll.candidates)
      BY <1>0, <2>1, <2>2, <3>1, SubsequenceSet
    <3> QED
      BY <2>2, <3>2 DEF Collected
  <2> HIDE DEF packed, packet
  <2>6. /\ DOMAIN wire' = DOMAIN wire \cup {new}
        /\ \A k \in DOMAIN wire : wire'[k] = wire[k]
        /\ wire'[new] = packet
    BY <1>0, <2>3, AppendPlaces
  <2> HIDE DEF new
  <2>7. Sent' = Sent \cup ToSet(packed)
    BY <2>3, <2>6 DEF Sent
  <2> QED
    BY <2>1, <2>4, <2>5, <2>7 DEF Known
<1>4. CASE EndPoll
  <2>1. /\ queue' = PutBack(poll.candidates) \o queue
        /\ poll.running /\ ~ poll'.running
        /\ UNCHANGED <<wire, messageCounter>>
    BY <1>4 DEF EndPoll, NoPoll
  <2>2. Unreliables(poll.candidates) \in SUBSET DOMAIN poll.candidates
    BY DEF Unreliables
  <2>3. PutBack(poll.candidates) \in Seq(Message)
        /\ ToSet(PutBack(poll.candidates)) \subseteq Collected
    BY <1>0, <2>1, <2>2, SubsequenceFacts, SubsequenceSet DEF PutBack, Collected
  <2>4. ToSet(queue') \subseteq Collected \cup ToSet(queue)
    BY <1>0, <2>1, <2>3, ConcatSet
  <2>5. Sent' = Sent /\ Collected' = {}
    BY <2>1 DEF Sent, Collected
  <2> QED
    BY <2>1, <2>4, <2>5 DEF Known
<1>5. CASE UNCHANGED <<queue, poll, wire, messageCounter>>
  BY <1>5 DEF Known, Collected, Sent
<1> QED
  <2>1. CASE AcksArrive \/ MarkSentPacketReceived \/ MarkSentMessage
    BY <1>5, <2>1 DEF AcksArrive, ReceiveAcks, MarkSentPacketReceived, MarkSentMessage
  <2>2. CASE PacketArrives \/ ReceiverPoll \/ ReceiverLoop \/ UNCHANGED vars
    BY <1>5, <2>2 DEF PacketArrives, ReceiverPoll, ReceiverLoop, vars, sndVars
  <2> QED
    BY <1>1, <1>2, <1>3, <1>4, <2>1, <2>2 DEF Next, SenderLoop, SndLoop

\* Packets hold messages, which have a kind and an id that was given out.
LEMMA SentAreMessages ==
    ASSUME LinkInv
    PROVE  Sent \subseteq Message /\ AreMessages(Sent)
<1>1. ASSUME NEW k \in DOMAIN wire PROVE ToSet(wire[k].messages) \subseteq Message
  <2>1. wire[k] \in PacketType
    BY DEF LinkInv, SndInv, SndTypeOK
  <2>2. wire[k].messages \in Seq(Message)
    BY <2>1 DEF PacketType
  <2> QED
    BY <2>2 DEF ToSet
<1>2. Sent \subseteq Message
  BY <1>1 DEF Sent
<1>3. \A m \in Message : m.kind \in Kinds /\ m.id \in Nat
  BY DEF Message
<1> QED
  BY <1>2, <1>3 DEF AreMessages

\* What was sent only grows, and the types of the receiver with it.
LEMMA SeqGrow ==
    ASSUME NEW A, NEW B, A \subseteq B, NEW s \in Seq(A) PROVE s \in Seq(B)
OBVIOUS

\* The receiver's variables are over what was sent.
LEMMA HeldTypes ==
    ASSUME LinkInv, RcvTypeOK(Sent), [Next]_vars PROVE RcvTypeOK(Sent)'
<1>1. PICK S : S = Sent
  OBVIOUS
<1>2. RcvTypeOK(S) /\ AreMessages(S)
  BY <1>1, SentAreMessages
<1>3. S \subseteq Sent'
  BY <1>1, KnownStep
<1>4. RcvTypeOK(S)'
  <2>1. CASE PacketArrives
    <3>1. PICK i \in DOMAIN wire : ProcessPacket(wire[i].pid, wire[i].messages)
      BY <2>1 DEF PacketArrives
    <3>2. wire[i] \in PacketType
      BY DEF LinkInv, SndInv, SndTypeOK
    <3>3. wire[i].pid \in Nat \cup {NoPid} /\ wire[i].messages \in Seq(Message)
      BY <3>2 DEF PacketType
    <3>4. ToSet(wire[i].messages) \subseteq S
      BY <1>1 DEF Sent
    <3>5. wire[i].messages \in Seq(S)
      BY <3>3, <3>4 DEF ToSet
    <3> QED
      BY <1>2, <3>1, <3>3, <3>5, ProcessPacketTypes
  <2>2. CASE ReceiverPoll
    BY <1>2, <2>2, BeginDrainTypes DEF ReceiverPoll
  <2>3. CASE ReceiverLoop
    BY <1>2, <2>3, RcvLoopTypes DEF ReceiverLoop
  <2>4. CASE UNCHANGED rcvVars
    BY <1>2, <2>4 DEF rcvVars, RcvTypeOK
  <2>5. CASE Send \/ SenderPoll \/ AcksArrive \/ SenderLoop \/ UNCHANGED vars
    BY <2>4, <2>5 DEF Send, SenderPoll, AcksArrive, SenderLoop, vars
  <2> QED
    BY <2>1, <2>2, <2>3, <2>5 DEF Next
<1>5. PICK T : T = Sent'
  OBVIOUS
<1>6. RcvTypeOK(T)'
  <2>1. S \subseteq T /\ \A kind : OfKind(S, kind) \subseteq OfKind(T, kind)
    BY <1>3, <1>5 DEF OfKind
  <2>2. incoming' \in Seq(T) /\ delivered' \in Seq(T)
    BY <1>4, <2>1, SeqGrow DEF RcvTypeOK
  <2>3. unreliable' \in Seq(OfKind(T, "Unreliable"))
    BY <1>4, <2>1, SeqGrow DEF RcvTypeOK
  <2>4. unordered' \in Seq(OfKind(T, "ReliableUnordered"))
    BY <1>4, <2>1, SeqGrow DEF RcvTypeOK
  <2>5. ordered' \in SUBSET OfKind(T, "Reliable")
    BY <1>4, <2>1 DEF RcvTypeOK
  <2> QED
    BY <1>4, <2>2, <2>3, <2>4, <2>5 DEF RcvTypeOK
<1> QED
  BY <1>5, <1>6 DEF RcvTypeOK

\* What the receiver has of a reliable message is as it was given in.
LEMMA HeldKinds ==
    ASSUME LinkInv, RcvTypeOK(Sent), NEW kinds \in KindsOf(messageCounter), Held(kinds)
    PROVE  /\ OrderedOf(kinds) \in SUBSET Nat
           /\ incoming # <<>> => KindAgrees(Head(incoming), OrderedOf(kinds))
           /\ \A m \in ordered : m.id \in DOMAIN kinds
           /\ \A i \in DOMAIN unordered : unordered[i].id \in DOMAIN kinds
           /\ \A i \in DOMAIN delivered : IsReliable(delivered[i]) =>
                delivered[i].id \in DOMAIN kinds /\ kinds[delivered[i].id] = delivered[i].kind
<1>1. messageCounter \in Nat /\ DOMAIN kinds = 0 .. (messageCounter - 1)
  BY DEF LinkInv, SndInv, SndTypeOK, KindsOf
<1>2. \A m \in Sent : IsReliable(m) => m.id \in DOMAIN kinds /\ kinds[m.id] = m.kind
  BY DEF Held, KindsAre, Known
<1>3. incoming # <<>> => Head(incoming) \in Sent
  BY TailFacts DEF RcvTypeOK
<1>4. \A m \in ordered : m \in Sent /\ IsReliable(m)
  BY DEF RcvTypeOK, OfKind, IsReliable
<1>5. \A i \in DOMAIN unordered : unordered[i] \in Sent /\ IsReliable(unordered[i])
  BY DEF RcvTypeOK, OfKind, IsReliable
<1>6. \A i \in DOMAIN delivered : delivered[i] \in Sent
  BY DEF RcvTypeOK
<1>7. incoming # <<>> => KindAgrees(Head(incoming), OrderedOf(kinds))
  BY <1>2, <1>3 DEF KindAgrees, OrderedOf, IsReliable
<1> QED
  BY <1>1, <1>2, <1>4, <1>5, <1>6, <1>7 DEF OrderedOf

\* A new message is above all that the receiver has.
LEMMA BufExtend ==
    ASSUME LinkInv, RcvTypeOK(Sent), NEW kinds \in KindsOf(messageCounter), Held(kinds),
           NEW ids, ids \in {OrderedOf(kinds), OrderedOf(kinds) \cup {messageCounter}}
    PROVE  BufInv(ids)
<1>1. messageCounter \in Nat /\ DOMAIN kinds = 0 .. (messageCounter - 1)
  BY DEF LinkInv, SndInv, SndTypeOK, KindsOf
<1>2. BufInv(OrderedOf(kinds))
  BY DEF Held
<1>3. KindsKept(ids)
  <2>1. messageCounter \notin UnorderedIn
    BY <1>1, HeldKinds DEF UnorderedIn, AllIds
  <2>2. \A i \in DOMAIN delivered :
          IsReliable(delivered[i]) => delivered[i].id # messageCounter
    BY <1>1, HeldKinds
  <2> QED
    BY <1>2, <2>1, <2>2 DEF BufInv, KindsKept, IsReliable
<1>4. NoGap(ids)
  <2>1. \A i \in DOMAIN delivered :
          IsReliable(delivered[i]) => ~ (messageCounter < delivered[i].id)
    BY <1>1, HeldKinds
  <2> QED
    BY <1>2, <2>1 DEF BufInv, NoGap, IsReliable
<1> QED
  BY <1>2, <1>3, <1>4 DEF BufInv

\* The kinds of the messages given in are those of before and perhaps one more.
LEMMA HeldStep ==
    ASSUME LinkInv, RcvTypeOK(Sent), NEW kinds \in KindsOf(messageCounter), Held(kinds),
           [Next]_vars
    PROVE  \/ messageCounter' = messageCounter /\ Held(kinds)'
           \/ /\ messageCounter' = messageCounter + 1
              /\ UNCHANGED <<rcvVars, sentMessages>>
              /\ \E later \in KindsOf(messageCounter + 1) :
                   /\ \A n \in DOMAIN kinds : later[n] = kinds[n]
                   /\ Held(later)'
<1>0. messageCounter \in Nat /\ DOMAIN kinds = 0 .. (messageCounter - 1)
      /\ \A n \in DOMAIN kinds : kinds[n] \in ReliableKinds
  BY DEF LinkInv, SndInv, SndTypeOK, KindsOf
<1>1. PICK S, ids : S = Sent /\ ids = OrderedOf(kinds)
  OBVIOUS
<1>2. /\ RcvTypeOK(S) /\ AreMessages(S) /\ ids \in SUBSET Nat /\ BufInv(ids)
      /\ incoming # <<>> => KindAgrees(Head(incoming), ids)
  BY <1>1, SentAreMessages, HeldKinds DEF Held
<1>3. CASE messageCounter' = messageCounter + 1 /\ UNCHANGED <<rcvVars, sentMessages>>
           /\ \E kind \in ReliableKinds : \A m \in Known' :
                m \in Known \/ (m.kind = kind /\ m.id = messageCounter)
  <2>1. PICK kind \in ReliableKinds : \A m \in Known' :
                m \in Known \/ (m.kind = kind /\ m.id = messageCounter)
    BY <1>3
  <2>2. PICK later : later = [n \in 0 .. messageCounter |->
                        IF n = messageCounter THEN kind ELSE kinds[n]]
    OBVIOUS
  <2>3. /\ later \in KindsOf(messageCounter + 1)
        /\ DOMAIN later = DOMAIN kinds \cup {messageCounter}
        /\ messageCounter \notin DOMAIN kinds
        /\ later[messageCounter] = kind
        /\ \A n \in DOMAIN kinds : later[n] = kinds[n]
    BY <1>0, <2>2 DEF KindsOf
  <2>4. OrderedOf(later) \in {ids, ids \cup {messageCounter}}
    BY <1>1, <2>3 DEF OrderedOf
  <2>5. BufInv(OrderedOf(later))
    BY <1>1, <2>4, BufExtend
  <2>6. BufInv(OrderedOf(later))'
    <3>1. PICK o : o = OrderedOf(later)
      OBVIOUS
    <3>2. BufInv(o)'
      BY <1>3, <2>5, <3>1, BufStutter DEF rcvVars, chanVars
    <3> QED
      BY <3>1, <3>2
  <2>7. KindsAre(later)'
    <3>1. \A m \in Known : IsReliable(m) => m.id \in DOMAIN kinds /\ kinds[m.id] = m.kind
      BY DEF Held, KindsAre
    <3> QED
      BY <2>1, <2>3, <3>1 DEF KindsAre
  <2>8. Held(later)'
    BY <2>6, <2>7 DEF Held
  <2> QED
    BY <1>3, <2>3, <2>8
<1>4. CASE messageCounter' = messageCounter
           /\ \A m \in Known' : m \in Known \/ ~ IsReliable(m)
  <2>1. KindsAre(kinds)'
    BY <1>4 DEF Held, KindsAre
  <2>2. BufInv(ids)'
    <3>1. CASE ReceiverLoop
      BY <1>2, <3>1, RcvLoopBuf DEF ReceiverLoop
    <3>2. CASE UNCHANGED <<recvMessages, unordered, ordered, delivered>>
      BY <1>2, <3>2, BufStutter
    <3>3. CASE Send \/ SenderPoll \/ AcksArrive \/ SenderLoop \/ PacketArrives
               \/ ReceiverPoll \/ UNCHANGED vars
      BY <3>2, <3>3 DEF Send, SenderPoll, AcksArrive, SenderLoop, PacketArrives,
         ProcessPacket, ReceiverPoll, BeginDrain, vars, rcvVars, chanVars
    <3> QED
      BY <3>1, <3>3 DEF Next
  <2>3. BufInv(OrderedOf(kinds))'
    BY <1>1, <2>2
  <2> QED
    BY <1>4, <2>1, <2>3 DEF Held
<1> QED
  BY <1>3, <1>4, KnownStep

LEMMA InitHeld == ASSUME Init PROVE HeldInv
<1>1. SndInit /\ RcvInit
  BY DEF Init
<1>2. Known = {}
  BY <1>1 DEF SndInit, NoPoll, Known, Collected, Sent, ToSet
<1> DEFINE kinds == [n \in 0 .. (0 - 1) |-> "Reliable"]
<1>3. kinds \in KindsOf(messageCounter)
  BY <1>1 DEF SndInit, KindsOf, ReliableKinds
<1>4. Held(kinds)
  BY <1>1, <1>2, BufInit DEF Held, KindsAre
<1> QED
  BY <1>1, <1>3, <1>4, InitTypes DEF HeldInv

LEMMA HeldInvStep == ASSUME LinkInv, HeldInv, [Next]_vars PROVE HeldInv'
<1>1. PICK kinds \in KindsOf(messageCounter) : Held(kinds)
  BY DEF HeldInv
<1>2. RcvTypeOK(Sent) /\ RcvTypeOK(Sent)'
  BY HeldTypes DEF HeldInv
<1>3. \E later \in KindsOf(messageCounter') : Held(later)'
  BY <1>1, <1>2, HeldStep
<1> QED
  BY <1>2, <1>3 DEF HeldInv

\* Over any network, and also when acknowledgments stand for messages that were
\* refused: what the receiver has was given to the sender, it has no message
\* twice, and it gives out the ordered ones in order with none left out.
THEOREM HeldInductive == Spec => []HeldInv
<1>1. Init => HeldInv
  BY InitHeld
<1>2. LinkInv /\ HeldInv /\ [Next]_vars => HeldInv'
  BY HeldInvStep
<1> QED
  BY <1>1, <1>2, LinkInductive, PTL DEF Spec

\* In particular the receiver counts as taken exactly what it buffers or has
\* delivered, and delivers no message twice.
THEOREM ExactlyOnce == Spec => [](NothingLost /\ AtMostOnce)
<1>1. HeldInv => NothingLost /\ AtMostOnce
  BY DEF HeldInv, Held, BufInv
<1> QED
  BY <1>1, HeldInductive, PTL

-----------------------------------------------------------------------------
(* The link implements Delivery *)

Table(kinds) == [n \in 1 .. messageCounter |-> kinds[n - 1]]

\* What is found of the messages is what they were given in as.
FoundAsGiven ==
    \A kinds \in KindsOf(messageCounter) : Held(kinds) => Submitted = Table(kinds)

\* A message that is not queued any more was covered, so the receiver has it.
LEMMA FindsMessages == ASSUME LinkInv, HeldInv, AckSound PROVE FoundAsGiven
<1> SUFFICES ASSUME NEW kinds \in KindsOf(messageCounter), Held(kinds)
             PROVE  Submitted = Table(kinds)
  BY DEF FoundAsGiven
<1> DEFINE known == ToSet(queue) \cup UNION {ToSet(wire[k].messages) : k \in DOMAIN wire}
           reliable == {m \in known : IsReliable(m)}
<1>1. messageCounter \in Nat /\ DOMAIN kinds = 0 .. (messageCounter - 1)
  BY DEF LinkInv, SndInv, SndTypeOK, KindsOf
<1>2. known = ToSet(queue) \cup Sent
  BY DEF Sent
<1>3. /\ \A m \in ToSet(queue) \cup Sent : IsReliable(m) => m \in reliable
      /\ \A m \in reliable : m.id \in DOMAIN kinds /\ kinds[m.id] = m.kind
  BY <1>2 DEF Held, KindsAre, Known
<1> HIDE DEF reliable
<1>4. ASSUME NEW n \in 0 .. (messageCounter - 1) PROVE \E m \in reliable : m.id = n
  <2>1. n \in Ids(queue) \/ n \in Covered(recvMessages)
    BY DEF LinkInv, SndInv, QueueInv, NoneForgotten, AckSound
  <2>2. CASE n \in Ids(queue)
    BY <1>3, <2>2 DEF Ids, Reliables, ToSet
  <2>3. CASE n \in OrderedIn \cup UnorderedIn \cup DeliveredIds
    <3>1. RcvTypeOK(Sent)
      BY DEF HeldInv
    <3>2. CASE n \in OrderedIn
      BY <1>3, <3>1, <3>2 DEF OrderedIn, RcvTypeOK, OfKind, IsReliable
    <3>3. CASE n \in UnorderedIn
      <4>1. PICK i \in DOMAIN unordered : unordered[i].id = n
        BY <3>3 DEF UnorderedIn, AllIds
      <4>2. unordered[i] \in Sent /\ IsReliable(unordered[i])
        BY <3>1 DEF RcvTypeOK, OfKind, IsReliable
      <4> QED
        BY <1>3, <4>1, <4>2
    <3>4. CASE n \in DeliveredIds
      <4>1. PICK i \in DOMAIN delivered : IsReliable(delivered[i]) /\ delivered[i].id = n
        BY <3>4 DEF DeliveredIds, Ids, Reliables
      <4>2. delivered[i] \in Sent
        BY <3>1 DEF RcvTypeOK
      <4> QED
        BY <1>3, <4>1, <4>2
    <3> QED
      BY <2>3, <3>2, <3>3, <3>4
  <2>4. NothingLost
    BY DEF Held, BufInv
  <2> QED
    BY <2>1, <2>2, <2>3, <2>4 DEF NothingLost
<1>5. ASSUME NEW n \in 1 .. messageCounter
      PROVE  (CHOOSE m \in reliable : m.id = n - 1).kind = kinds[n - 1]
  <2>1. \E m \in reliable : m.id = n - 1
    BY <1>1, <1>4
  <2> QED
    BY <1>3, <2>1
<1>6. Submitted = [n \in 1 .. messageCounter |-> (CHOOSE m \in reliable : m.id = n - 1).kind]
  BY DEF Submitted, reliable
<1> QED
  BY <1>5, <1>6 DEF Table

\* Handed has the ids of the messages delivered.
LEMMA HandedIds ==
    ASSUME LinkInv, RcvTypeOK(Sent)
    PROVE  Handed \in Seq(Nat) /\ ToSet(Handed) = Ids(delivered)
<1>1. delivered \in Seq(Sent) /\ Sent \subseteq Message
  BY SentAreMessages DEF RcvTypeOK
<1>2. delivered \in Seq(Message)
  BY <1>1, SeqGrow
<1> QED
  BY <1>2, EntryFacts DEF Handed

\* Every delivery of a reliable message appends its id to Handed.
LEMMA HandedGrows ==
    ASSUME LinkInv, RcvTypeOK(Sent), NEW m \in Sent, Deliver(m)
    PROVE  Handed' = IF IsReliable(m) THEN Append(Handed, m.id) ELSE Handed
<1> DEFINE later == Append(delivered, m)
           n     == Len(delivered)
           is    == Reliables(delivered)
           given == Subsequence(delivered, is)
<1>1. delivered' = later /\ delivered \in Seq(Sent)
  BY DEF Deliver, RcvTypeOK
<1>2. /\ later \in Seq(Sent) /\ n \in Nat
      /\ DOMAIN delivered = 1 .. n /\ DOMAIN later = 1 .. (n + 1)
      /\ \A i \in 1 .. n : later[i] = delivered[i]
      /\ later[n + 1] = m
  BY <1>1, AppendFacts
<1>3. Len(later) = n + 1
  BY <1>1
<1> HIDE DEF later, n
<1>4. is \in SUBSET (1 .. n)
  BY <1>2 DEF Reliables
<1>5. Reliables(later) = IF IsReliable(m) THEN is \cup {n + 1} ELSE is
  BY <1>2 DEF Reliables
<1> HIDE DEF is
<1>6. Subsequence(later, is) = given
  BY <1>2, <1>4, SubsequenceAgrees
<1>7. Subsequence(later, is \cup {n + 1}) = Append(given, m)
  <2>1. Subsequence(later, is \cup {n + 1})
           = Append(Subsequence(later, is), later[n + 1])
    BY <1>2, <1>3, <1>4, SubsequenceGrows
  <2> QED
    BY <1>2, <1>6, <2>1
<1>8. given \in Seq(Sent)
  BY <1>1, <1>2, <1>4, SubsequenceFacts
<1> DEFINE ids(ms) == [i \in DOMAIN ms |-> ms[i].id]
<1>9. Handed = ids(given)
  BY DEF Handed, is
<1>10. Handed' = ids(Subsequence(later, Reliables(later)))
  BY <1>1 DEF Handed
<1>11. ids(Append(given, m)) = Append(ids(given), m.id)
  <2>1. /\ Len(given) \in Nat /\ DOMAIN given = 1 .. Len(given)
        /\ DOMAIN Append(given, m) = 1 .. (Len(given) + 1)
        /\ \A i \in 1 .. Len(given) : Append(given, m)[i] = given[i]
        /\ Append(given, m)[Len(given) + 1] = m
    BY <1>8, AppendFacts
  <2>2. ids(given) \in Seq({given[i].id : i \in DOMAIN given}) /\ Len(ids(given)) = Len(given)
    <3> HIDE DEF given
    <3> QED
      BY <2>1
  <2> HIDE DEF given
  <2>3. Append(ids(given), m.id)
          = [i \in 1 .. (Len(given) + 1) |->
                IF i = Len(given) + 1 THEN m.id ELSE given[i].id]
    BY <2>1, <2>2
  <2>4. ids(Append(given, m))
          = [i \in 1 .. (Len(given) + 1) |-> Append(given, m)[i].id]
    BY <2>1
  <2>5. \A i \in 1 .. (Len(given) + 1) : i # Len(given) + 1 => i \in 1 .. Len(given)
    BY <2>1
  <2> QED
    BY <2>1, <2>3, <2>4, <2>5
<1> HIDE DEF ids, given
<1> QED
  BY <1>5, <1>6, <1>7, <1>9, <1>10, <1>11

LEMMA InitPromise == ASSUME Init, FoundAsGiven PROVE Promise!DInit
<1>1. SndInit /\ RcvInit
  BY DEF Init
<1>2. Submitted = <<>>
  BY <1>1 DEF SndInit, Submitted
<1>3. Covered(recvMessages) = {} /\ Covered(sentMessages) = {}
  BY <1>1, NewSlidingWindowFacts DEF SndInit, RcvInit
<1>4. Handed = <<>>
  <2>1. delivered = <<>> /\ Reliables(<<>>) = {}
    BY <1>1 DEF RcvInit, Reliables
  <2>2. Subsequence(<<>>, {}) = <<>>
    BY FS_EmptySet DEF Subsequence
  <2> QED
    BY <2>1, <2>2 DEF Handed
<1> QED
  BY <1>2, <1>3, <1>4 DEF Promise!DInit

\* A mark of the sender confirms what the receiver has.
LEMMA MarkConfirms ==
    ASSUME LinkInv, AckSound', MarkSentMessage, recvMessages' = recvMessages
    PROVE  \/ Covered(sentMessages)' = Covered(sentMessages)
           \/ \E n \in Covered(recvMessages) :
                Covered(sentMessages)' = Covered(sentMessages) \cup {n}
<1>1. sentMessages' = SlidingMark(sentMessages, Head(marking))
  BY MarkEffect
<1>2. sentMessages \in SlidingWindows
  BY DEF LinkInv, SndInv, SndTypeOK
<1>3. CASE Head(marking) \in Reach(sentMessages)
  <2>1. Covered(sentMessages') = Covered(sentMessages) \cup {Head(marking)}
    BY <1>1, <1>2, <1>3, SlidingMarkInReach
  <2>2. Covered(sentMessages') \subseteq Covered(recvMessages)
    BY DEF AckSound
  <2> QED
    BY <2>1, <2>2
<1>4. CASE Head(marking) \notin Reach(sentMessages)
  <2>1. sentMessages' = sentMessages
    BY <1>1, <1>4 DEF SlidingMark
  <2> QED
    BY <2>1
<1> QED
  BY <1>3, <1>4

\* Of the packet, the receiver takes a message that it does not have.
LEMMA ProcessTakes ==
    ASSUME LinkInv, ProcessMessage
    PROVE  \/ Covered(recvMessages)' = Covered(recvMessages)
           \/ \E n \in 0 .. (messageCounter - 1) :
                /\ n \notin Covered(recvMessages)
                /\ Covered(recvMessages)' = Covered(recvMessages) \cup {n}
<1> DEFINE m == Head(incoming)
<1>1. /\ incoming \in Seq(Message) /\ Ids(incoming) \subseteq 0 .. (messageCounter - 1)
      /\ recvMessages \in SlidingWindows /\ incoming # <<>>
  BY DEF LinkInv, ProcessMessage
<1>2. CASE recvMessages' = recvMessages
  BY <1>2
<1>3. CASE IsReliable(m) /\ Accepts(m) /\ recvMessages' = SlidingMark(recvMessages, m.id)
  <2>1. m.id \in Reach(recvMessages) \ recvMessages.marked
    BY <1>3 DEF Accepts
  <2>2. Covered(recvMessages') = Covered(recvMessages) \cup {m.id}
    BY <1>1, <1>3, <2>1, SlidingMarkInReach
  <2>3. m.id \in Ids(incoming)
    <3>1. 1 \in DOMAIN incoming /\ m = incoming[1]
      BY <1>1
    <3> QED
      BY <1>3, <3>1 DEF Ids, Reliables
  <2>4. m.id \notin Covered(recvMessages)
    BY <1>1, <2>1, WindowAssumption, CoveredFacts DEF Reach, Covered
  <2> QED
    BY <1>1, <2>2, <2>3, <2>4
<1> QED
  BY <1>2, <1>3 DEF ProcessMessage

\* What is given out was taken and not given out before, and if it is an ordered
\* message, all those below it were given out.
HandsOut(kinds) ==
    \/ Handed' = Handed
    \/ \E n \in Covered(recvMessages) \ ToSet(Handed) :
         /\ n \in DOMAIN kinds
         /\ kinds[n] = "Reliable" =>
              \A k \in OrderedOf(kinds) : k < n => k \in ToSet(Handed)
         /\ Handed' = Append(Handed, n)

LEMMA DeliveryHands ==
    ASSUME LinkInv, RcvTypeOK(Sent), NEW kinds \in KindsOf(messageCounter),
           Held(kinds), Held(kinds)', RecvUnreliable \/ RecvUnordered \/ RecvOrdered
    PROVE  HandsOut(kinds)
<1>0. NothingLost /\ AtMostOnce /\ DeliveredIds = ToSet(Handed)
  BY HandedIds DEF Held, BufInv, DeliveredIds
<1>1. CASE RecvUnreliable
  <2> DEFINE m == Head(unreliable)
  <2>1. m \in Sent /\ ~ IsReliable(m)
    BY <1>1, TailFacts DEF RecvUnreliable, RcvTypeOK, OfKind, IsReliable
  <2>2. Deliver(m)
    BY <1>1 DEF RecvUnreliable
  <2>3. Handed' = Handed
    BY <2>1, <2>2, HandedGrows
  <2> QED
    BY <2>3 DEF HandsOut
<1>2. CASE RecvUnordered
  <2> DEFINE m == Head(unordered)
  <2>1. m \in Sent /\ IsReliable(m) /\ Deliver(m)
    BY <1>2, TailFacts DEF RecvUnordered, RcvTypeOK, OfKind, IsReliable
  <2>2. Handed' = Append(Handed, m.id)
    BY <2>1, HandedGrows
  <2>3. 1 \in DOMAIN unordered /\ m = unordered[1]
    BY <1>2 DEF RecvUnordered, RcvTypeOK
  <2>4. m.id \in UnorderedIn /\ m.id \in DOMAIN kinds
    BY <2>3, HeldKinds DEF UnorderedIn, AllIds
  <2>5. kinds[m.id] # "Reliable"
    BY <2>4 DEF Held, BufInv, KindsKept, OrderedOf
  <2>6. m.id \in Covered(recvMessages) \ DeliveredIds
    BY <1>0, <2>4 DEF NothingLost, AtMostOnce
  <2> QED
    BY <1>0, <2>2, <2>4, <2>5, <2>6 DEF HandsOut
<1>3. CASE RecvOrdered
  <2>1. PICK m \in ordered : Deliver(m)
    BY <1>3 DEF RecvOrdered, OrderedReady
  <2>2. m \in Sent /\ m.kind = "Reliable" /\ IsReliable(m)
    BY DEF RcvTypeOK, OfKind, IsReliable
  <2>3. /\ Handed' = Append(Handed, m.id)
        /\ Len(delivered) \in Nat
        /\ DOMAIN delivered = 1 .. Len(delivered)
        /\ DOMAIN delivered' = 1 .. (Len(delivered) + 1)
        /\ \A i \in 1 .. Len(delivered) : delivered'[i] = delivered[i]
        /\ delivered'[Len(delivered) + 1] = m
    BY <2>1, <2>2, DeliverFacts, HandedGrows
  <2>4. m.id \in OrderedIn /\ m.id \in DOMAIN kinds
    BY HeldKinds DEF OrderedIn
  <2>5. m.id \in Covered(recvMessages) \ DeliveredIds
    BY <1>0, <2>4 DEF NothingLost, AtMostOnce
  <2>6. ASSUME NEW k \in OrderedOf(kinds), k < m.id PROVE k \in DeliveredIds
    <3>1. NoGap(OrderedOf(kinds))'
      BY DEF Held, BufInv
    <3>2. PICK j \in DOMAIN delivered' :
             /\ j < Len(delivered) + 1
             /\ delivered'[j].kind = "Reliable" /\ delivered'[j].id = k
      BY <2>2, <2>3, <2>6, <3>1 DEF NoGap
    <3>3. j \in DOMAIN delivered /\ delivered[j].kind = "Reliable" /\ delivered[j].id = k
      BY <2>3, <3>2
    <3> QED
      BY <3>3 DEF DeliveredIds, Ids, Reliables, IsReliable
  <2> QED
    BY <1>0, <2>3, <2>4, <2>5, <2>6 DEF HandsOut
<1> QED
  BY <1>1, <1>2, <1>3

\* The steps by what they mean for the promise.
PromiseInv == LinkInv /\ HeldInv /\ AckSound /\ FoundAsGiven

LEMMA SubmitStep ==
    ASSUME PromiseInv, PromiseInv', NEW kinds \in KindsOf(messageCounter), Held(kinds),
           messageCounter' = messageCounter + 1, UNCHANGED <<rcvVars, sentMessages>>,
           NEW later \in KindsOf(messageCounter + 1), Held(later)',
           \A n \in DOMAIN kinds : later[n] = kinds[n]
    PROVE  \E kind \in {"Reliable", "ReliableUnordered"} : Promise!Submit(kind)
<1>1. messageCounter \in Nat /\ DOMAIN kinds = 0 .. (messageCounter - 1)
  BY DEF PromiseInv, LinkInv, SndInv, SndTypeOK, KindsOf
<1>2. Submitted = [n \in 1 .. messageCounter |-> kinds[n - 1]]
  BY DEF PromiseInv, FoundAsGiven, Table
<1>3. Submitted' = [n \in 1 .. (messageCounter + 1) |-> later[n - 1]]
  <2>1. PICK c : c = messageCounter'
    OBVIOUS
  <2>2. \A ks \in KindsOf(c) : Held(ks)' => Submitted' = [n \in 1 .. c |-> ks[n - 1]]
    BY <2>1 DEF PromiseInv, FoundAsGiven, Table
  <2> QED
    BY <2>1, <2>2
<1>4. later[messageCounter] \in ReliableKinds
  BY <1>1 DEF KindsOf
<1>5. Submitted' = Append(Submitted, later[messageCounter])
  <2>1. /\ Len(Submitted) = messageCounter
        /\ Submitted \in Seq(ReliableKinds)
    BY <1>1, <1>2 DEF KindsOf
  <2>2. Append(Submitted, later[messageCounter])
          = [n \in 1 .. (messageCounter + 1) |->
               IF n = messageCounter + 1 THEN later[messageCounter] ELSE Submitted[n]]
    BY <1>1, <1>4, <2>1
  <2>3. ASSUME NEW n \in 1 .. (messageCounter + 1)
        PROVE  later[n - 1] = IF n = messageCounter + 1 THEN later[messageCounter]
                                                         ELSE Submitted[n]
    BY <1>1, <1>2
  <2> QED
    BY <1>3, <2>2, <2>3
<1>6. UNCHANGED <<Covered(recvMessages), Handed, Covered(sentMessages)>>
  BY DEF rcvVars, Handed
<1> QED
  BY <1>4, <1>5, <1>6 DEF Promise!Submit, ReliableKinds

\* Where nothing new was given in.
LEMMA SubmittedStays ==
    ASSUME PromiseInv, PromiseInv', NEW kinds \in KindsOf(messageCounter), Held(kinds),
           messageCounter' = messageCounter, Held(kinds)'
    PROVE  /\ Submitted' = Submitted
           /\ messageCounter \in Nat
           /\ DOMAIN kinds = 0 .. (messageCounter - 1)
           /\ DOMAIN Submitted = 1 .. messageCounter
           /\ Len(Submitted) = messageCounter
           /\ \A n \in DOMAIN kinds : Submitted[n + 1] = kinds[n]
<1>1. messageCounter \in Nat /\ DOMAIN kinds = 0 .. (messageCounter - 1)
  BY DEF PromiseInv, LinkInv, SndInv, SndTypeOK, KindsOf
<1>2. Submitted = [n \in 1 .. messageCounter |-> kinds[n - 1]]
  BY DEF PromiseInv, FoundAsGiven, Table
<1>3. Submitted' = [n \in 1 .. messageCounter |-> kinds[n - 1]]
  <2>1. PICK c : c = messageCounter'
    OBVIOUS
  <2>2. \A ks \in KindsOf(c) : Held(ks)' => Submitted' = [n \in 1 .. c |-> ks[n - 1]]
    BY <2>1 DEF PromiseInv, FoundAsGiven, Table
  <2> QED
    BY <2>1, <2>2
<1>4. \A n \in DOMAIN kinds :
         n + 1 \in 1 .. messageCounter /\ (n + 1) - 1 = n
  BY <1>1
<1>5. DOMAIN Submitted = 1 .. messageCounter /\ Len(Submitted) = messageCounter
  BY <1>1, <1>2
<1> QED
  BY <1>1, <1>2, <1>3, <1>4, <1>5

\* The receiver has what was given to the sender.
LEMMA CoveredIsGiven ==
    ASSUME LinkInv, RcvTypeOK(Sent), NEW kinds \in KindsOf(messageCounter), Held(kinds),
           NEW n \in Covered(recvMessages)
    PROVE  n \in DOMAIN kinds
<1>1. n \in OrderedIn \cup UnorderedIn \cup DeliveredIds
  BY DEF Held, BufInv, NothingLost
<1> QED
  BY <1>1, HeldKinds DEF OrderedIn, UnorderedIn, AllIds, DeliveredIds, Ids, Reliables

LEMMA PromiseStep ==
    ASSUME PromiseInv, PromiseInv', [Next]_vars
    PROVE  [Promise!DNext]_Promise!dvars
<1>0. /\ LinkInv /\ AckSound /\ AckSound' /\ RcvTypeOK(Sent)
      /\ Covered(recvMessages) = OrderedIn \cup UnorderedIn \cup DeliveredIds
  BY DEF PromiseInv, HeldInv, Held, BufInv, NothingLost
<1>1. PICK kinds \in KindsOf(messageCounter) : Held(kinds)
  BY DEF PromiseInv, HeldInv
<1>2. CASE /\ messageCounter' = messageCounter + 1
           /\ UNCHANGED <<rcvVars, sentMessages>>
           /\ \E later \in KindsOf(messageCounter + 1) :
                /\ \A n \in DOMAIN kinds : later[n] = kinds[n]
                /\ Held(later)'
  <2>1. \E kind \in {"Reliable", "ReliableUnordered"} : Promise!Submit(kind)
    BY <1>1, <1>2, SubmitStep
  <2> QED
    BY <2>1 DEF Promise!DNext
<1>3. CASE messageCounter' = messageCounter /\ Held(kinds)'
  <2>1. /\ Submitted' = Submitted
        /\ messageCounter \in Nat
        /\ DOMAIN kinds = 0 .. (messageCounter - 1)
        /\ DOMAIN Submitted = 1 .. messageCounter
        /\ Len(Submitted) = messageCounter
        /\ \A n \in DOMAIN kinds : Submitted[n + 1] = kinds[n]
    BY <1>1, <1>3, SubmittedStays
  <2>2. ASSUME NEW n \in DOMAIN kinds
        PROVE  n + 1 \in DOMAIN Submitted /\ (n + 1) - 1 = n
    BY <2>1
  <2>3. CASE MarkSentMessage /\ UNCHANGED <<rcvVars, high, acks>>
    <3>1. UNCHANGED <<Covered(recvMessages), Handed>> /\ recvMessages' = recvMessages
      BY <2>3 DEF rcvVars, Handed
    <3>2. CASE Covered(sentMessages)' = Covered(sentMessages)
      BY <2>1, <3>1, <3>2 DEF Promise!dvars
    <3>3. ASSUME NEW n \in Covered(recvMessages) \ Covered(sentMessages),
                 Covered(sentMessages)' = Covered(sentMessages) \cup {n}
          PROVE  Promise!DNext
      <4>1. n \in DOMAIN kinds
        BY <1>0, <1>1, <3>3, CoveredIsGiven
      <4>2. Promise!Confirm(n)
        BY <2>1, <3>1, <3>3 DEF Promise!Confirm
      <4> QED
        BY <2>2, <4>1, <4>2 DEF Promise!DNext
    <3> QED
      BY <1>0, <2>3, <3>1, <3>2, <3>3, MarkConfirms
  <2>4. CASE ProcessMessage /\ UNCHANGED <<sndVars, high, acks>>
    <3>1. UNCHANGED <<Covered(sentMessages), Handed>>
      BY <2>4 DEF ProcessMessage, sndVars, Handed
    <3>2. CASE Covered(recvMessages)' = Covered(recvMessages)
      BY <2>1, <3>1, <3>2 DEF Promise!dvars
    <3>3. ASSUME NEW n \in 0 .. (messageCounter - 1), n \notin Covered(recvMessages),
                 Covered(recvMessages)' = Covered(recvMessages) \cup {n}
          PROVE  Promise!DNext
      <4>1. Promise!Take(n)
        BY <2>1, <3>1, <3>3 DEF Promise!Take
      <4> QED
        BY <2>1, <2>2, <4>1 DEF Promise!DNext
    <3> QED
      BY <1>0, <2>4, <3>2, <3>3, ProcessTakes
  <2>5. CASE (RecvUnreliable \/ RecvUnordered \/ RecvOrdered) /\ UNCHANGED sndVars
    <3>1. UNCHANGED <<Covered(sentMessages), Covered(recvMessages)>>
      BY <2>5 DEF RecvUnreliable, RecvUnordered, RecvOrdered, Deliver, sndVars
    <3>2. HandsOut(kinds)
      BY <1>0, <1>1, <1>3, <2>5, DeliveryHands
    <3>3. CASE Handed' = Handed
      BY <2>1, <3>1, <3>3 DEF Promise!dvars
    <3>4. ASSUME NEW n \in Covered(recvMessages) \ ToSet(Handed), n \in DOMAIN kinds,
                 kinds[n] = "Reliable" =>
                   \A k \in OrderedOf(kinds) : k < n => k \in ToSet(Handed),
                 Handed' = Append(Handed, n)
          PROVE  Promise!DNext
      <4>1. Promise!Ordered(n) =>
              \A k \in 0 .. (n - 1) : Promise!Ordered(k) => k \in ToSet(Handed)
        <5> SUFFICES ASSUME Submitted[n + 1] = "Reliable", NEW k \in 0 .. (n - 1),
                            Submitted[k + 1] = "Reliable"
                     PROVE  k \in ToSet(Handed)
          BY DEF Promise!Ordered
        <5>1. k \in DOMAIN kinds /\ k < n
          BY <2>1, <3>4
        <5>2. kinds[n] = "Reliable" /\ k \in OrderedOf(kinds)
          BY <2>1, <3>4, <5>1 DEF OrderedOf
        <5> QED
          BY <3>4, <5>1, <5>2
      <4>2. Promise!Hand(n)
        BY <2>1, <3>1, <3>4, <4>1 DEF Promise!Hand, Promise!ToSet, ToSet
      <4> QED
        BY <2>2, <3>4, <4>2 DEF Promise!DNext
    <3> QED
      BY <3>2, <3>3, <3>4 DEF HandsOut
  <2>6. CASE UNCHANGED <<sentMessages, recvMessages, delivered>>
    <3>1. UNCHANGED <<Covered(sentMessages), Covered(recvMessages), Handed>>
      BY <2>6 DEF Handed
    <3> QED
      BY <2>1, <3>1 DEF Promise!dvars
  <2>7. CASE Send \/ SenderPoll \/ AcksArrive \/ PacketArrives \/ ReceiverPoll
             \/ UNCHANGED vars
    BY <2>6, <2>7 DEF Send, QueueMsg, SenderPoll, BeginPoll, AcksArrive, ReceiveAcks,
       PacketArrives, ProcessPacket, ReceiverPoll, BeginDrain, vars, sndVars, rcvVars
  <2>8. CASE SenderLoop
    <3>1. CASE MarkSentPacketReceived \/ SendPacket \/ EndPoll
      BY <2>6, <2>8, <3>1 DEF SenderLoop, MarkSentPacketReceived, SendPacket, EndPoll,
         rcvVars
    <3> QED
      BY <2>3, <2>8, <3>1 DEF SenderLoop, SndLoop
  <2>9. CASE ReceiverLoop
    <3>1. CASE EndDrain
      BY <2>6, <2>9, <3>1 DEF ReceiverLoop, EndDrain, sndVars
    <3> QED
      BY <2>4, <2>5, <2>9, <3>1 DEF ReceiverLoop, RcvLoop
  <2> QED
    BY <2>7, <2>8, <2>9 DEF Next
<1> QED
  BY <1>0, <1>1, <1>2, <1>3, HeldStep

\* As long as what the sender believes received is received, the link does what
\* Delivery promises.
THEOREM PromiseWhileSound == Spec /\ []AckSound => KeepsPromise
<1>1. LinkInv /\ HeldInv /\ AckSound => FoundAsGiven
  BY FindsMessages
<1>2. Init /\ FoundAsGiven => Promise!DInit
  BY InitPromise
<1>3. PromiseInv /\ PromiseInv' /\ [Next]_vars => [Promise!DNext]_Promise!dvars
  BY PromiseStep
<1>4. LinkInv /\ HeldInv /\ AckSound /\ FoundAsGiven <=> PromiseInv
  BY DEF PromiseInv
<1> QED
  BY <1>1, <1>2, <1>3, <1>4, LinkInductive, HeldInductive, PTL
     DEF Spec, KeepsPromise, Promise!DSpec

\* Whatever the network does, if the application keeps within the window.
THEOREM PromiseWithinWindow == Spec /\ []WithinWindow => KeepsPromise
BY PromiseWhileSound, SoundWithinWindow, PTL

\* In particular if no more messages are queued in all than fit in it.
THEOREM PromiseInOneWindow ==
    ASSUME MaxMessages <= MessageWindowLen PROVE Spec => KeepsPromise
BY PromiseWhileSound, SoundInOneWindow, PTL

\* Whatever the application does, if the network keeps the order.
THEOREM PromiseInOrder == ASSUME MaxReorder = 0 PROVE Spec => KeepsPromise
BY PromiseWhileSound, SoundInOrder, PTL
=============================================================================
