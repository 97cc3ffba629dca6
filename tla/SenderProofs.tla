----------------------------- MODULE SenderProofs -----------------------------
(***************************************************************************)
(* Proofs about the sending half of a connection (src/socket/sender): for  *)
(* every length of its windows, every capacity of a crate, and whatever    *)
(* the application sends and the peer reports; and that the queue of       *)
(* optional entries of src/socket/sender/pwindow.rs is the function from   *)
(* packet ids to message ids that the module SendManager has for it.       *)
(*                                                                         *)
(* The second half is about the data structures of the module Parts, this  *)
(* queue among them: an inductive invariant for each part, and from it     *)
(* what the part promises, without the bounds of the model.                *)
(***************************************************************************)
EXTENDS Sender, Parts, ConnectionProofs

-----------------------------------------------------------------------------
(* The packets in flight: the window holds an entry exactly for the recent *)
(* packets that were not reported.                                         *)

\* The packet ids that have an entry, or had one until they were reported.
Recent ==
    {p \in 0 .. (packetCounter - 1) : p >= packetCounter - PacketWindowLen}

FlightTypeOK ==
    /\ packetCounter \in Nat
    /\ acking \in SUBSET Nat

\* Between the report of an ack map and the end of its loop the entries of the
\* ids that are still to be looked up may exist or not.
FlightInv ==
    /\ FlightTypeOK
    /\ acked \subseteq 0 .. (packetCounter - 1)
    /\ acking \cap 0 .. (packetCounter - 1) \subseteq acked
    /\ poll.running => acking = {}
    /\ DOMAIN sentPackets \subseteq Recent \ (acked \ acking)
    /\ Recent \ acked \subseteq DOMAIN sentPackets

-----------------------------------------------------------------------------
(* Every step keeps the invariant *)

\* Nothing is in flight at first.
LEMMA InitFlight == ASSUME Init PROVE FlightInv
BY DEF Init, SndInit, NoPoll, FlightInv, FlightTypeOK, Recent

\* Queueing leaves the packets alone.
LEMMA QueueKeepsFlight == ASSUME FlightInv, Queue PROVE FlightInv'
<1>1. /\ UNCHANGED <<packetCounter, acking, poll, acked, sentPackets>>
  BY DEF Queue, QueueMsg
<1> QED
  BY <1>1 DEF FlightInv, FlightTypeOK, Recent

\* The ids of a report that were sent count as reported at once, and their
\* entries go one by one.
LEMMA AcksKeepFlight == ASSUME FlightInv, Acks PROVE FlightInv'
<1>1. PICK pids \in AckMaps :
          /\ ReceiveAcks(pids)
          /\ acked' = acked \cup (pids \cap 0 .. (packetCounter - 1))
  BY DEF Acks
<1>2. /\ acking = {} /\ ~ poll.running /\ acking' = pids
      /\ UNCHANGED <<packetCounter, sentPackets, poll>>
  BY <1>1 DEF ReceiveAcks, SndIdle, NoPoll
<1>3. pids \subseteq 0 .. packetCounter
  BY DEF AckMaps
<1>4. FlightTypeOK'
  BY <1>2, <1>3 DEF FlightInv, FlightTypeOK
<1>5. /\ acked' \subseteq 0 .. (packetCounter - 1)
      /\ acking' \cap 0 .. (packetCounter - 1) \subseteq acked'
  BY <1>1, <1>2 DEF FlightInv
<1>6. /\ DOMAIN sentPackets \subseteq Recent \ (acked' \ acking')
      /\ Recent \ acked' \subseteq DOMAIN sentPackets
  BY <1>1, <1>2 DEF FlightInv
<1>7. Recent' = Recent
  BY <1>2 DEF Recent
<1> QED
  BY <1>2, <1>4, <1>5, <1>6, <1>7 DEF FlightInv

\* mark_sent takes the entry of the lowest id of the report out.
LEMMA MarkSentKeepsFlight ==
    ASSUME FlightInv, MarkSentPacketReceived, UNCHANGED acked PROVE FlightInv'
<1> DEFINE pid == Min(acking)
<1>1. /\ acking # {} /\ acking' = acking \ {pid}
      /\ UNCHANGED <<packetCounter, poll>>
      /\ sentPackets' = IF pid \in DOMAIN sentPackets THEN MarkSent(pid)
                                                      ELSE sentPackets
  BY DEF MarkSentPacketReceived
<1>2. pid \in acking
  BY <1>1, MinIsLeast DEF FlightInv, FlightTypeOK
<1>3. DOMAIN sentPackets' = DOMAIN sentPackets \ {pid}
  BY <1>1 DEF MarkSent, Restrict
<1>4. pid \in 0 .. (packetCounter - 1) => pid \in acked
  BY <1>2 DEF FlightInv
<1>5. Recent' = Recent /\ Recent \subseteq 0 .. (packetCounter - 1)
  BY <1>1 DEF Recent
<1> HIDE DEF pid
<1> QED
  BY <1>1, <1>2, <1>3, <1>4, <1>5 DEF FlightInv, FlightTypeOK

\* The loop over its messages, and the beginning and the end of a poll.
LEMMA OthersKeepFlight ==
    ASSUME FlightInv, UNCHANGED acked, MarkSentMessage \/ EndPoll
    PROVE  FlightInv'
<1>1. /\ UNCHANGED <<packetCounter, acking, sentPackets>>
      /\ poll' = poll \/ poll' = NoPoll
  BY DEF MarkSentMessage, EndPoll
<1>2. poll'.running => poll.running
  BY <1>1 DEF NoPoll
<1>3. Recent' = Recent
  BY <1>1 DEF Recent
<1> QED
  BY <1>1, <1>2, <1>3 DEF FlightInv, FlightTypeOK

\* A poll begins while no report is being handled.
LEMMA PollKeepsFlight == ASSUME FlightInv, Poll PROVE FlightInv'
<1>1. acking = {} /\ UNCHANGED <<packetCounter, acking, sentPackets, acked>>
  BY DEF Poll, BeginPoll, SndIdle
<1>2. Recent' = Recent
  BY <1>1 DEF Recent
<1> QED
  BY <1>1, <1>2 DEF FlightInv, FlightTypeOK

\* push_sent makes room for the new packet by dropping exactly what leaves the
\* range of recent ids.
LEMMA SendKeepsFlight ==
    ASSUME FlightInv, SendPacket, UNCHANGED acked PROVE FlightInv'
<1>1. acking = {} /\ acking' = {}
  BY DEF SendPacket, FlightInv
<1>2. \/ UNCHANGED <<packetCounter, sentPackets>>
      \/ /\ packetCounter' = packetCounter + 1
         /\ \E ids : sentPackets' = PushSent(packetCounter, ids)
  BY DEF SendPacket
<1>3. CASE UNCHANGED <<packetCounter, sentPackets>>
  <2>1. Recent' = Recent
    BY <1>3 DEF Recent
  <2> QED
    BY <1>1, <1>3, <2>1 DEF FlightInv, FlightTypeOK
<1>4. CASE /\ packetCounter' = packetCounter + 1
           /\ \E ids : sentPackets' = PushSent(packetCounter, ids)
  <2>1. DOMAIN sentPackets' =
          {q \in DOMAIN sentPackets : q > packetCounter - PacketWindowLen}
             \cup {packetCounter}
    BY <1>4 DEF PushSent
  <2>2. packetCounter \in Nat /\ PacketWindowLen \in Nat /\ PacketWindowLen > 0
    BY WindowAssumption DEF FlightInv, FlightTypeOK
  <2>3. Recent' = {q \in Recent : q > packetCounter - PacketWindowLen}
                     \cup {packetCounter}
    BY <1>4, <2>2 DEF Recent
  <2>4. /\ DOMAIN sentPackets \subseteq Recent \ acked
        /\ Recent \ acked \subseteq DOMAIN sentPackets
        /\ acked \subseteq 0 .. (packetCounter - 1)
    BY <1>1 DEF FlightInv
  <2>5. packetCounter \notin acked
    BY <2>2, <2>4
  <2>6. acked' \subseteq 0 .. (packetCounter' - 1)
    BY <1>4, <2>2, <2>4
  <2> QED
    BY <1>1, <1>4, <2>1, <2>2, <2>3, <2>4, <2>5, <2>6 DEF FlightInv, FlightTypeOK
<1> QED
  BY <1>2, <1>3, <1>4

\* So does every step.
LEMMA FlightStep == ASSUME FlightInv, [Next]_vars PROVE FlightInv'
<1>1. CASE Queue
  BY <1>1, QueueKeepsFlight
<1>2. CASE Acks
  BY <1>2, AcksKeepFlight
<1>3. CASE Poll
  BY <1>3, PollKeepsFlight
<1>4. CASE Loop
  <2>1. UNCHANGED acked
    BY <1>4 DEF Loop
  <2>2. CASE MarkSentPacketReceived
    BY <2>1, <2>2, MarkSentKeepsFlight
  <2>3. CASE SendPacket
    BY <2>1, <2>3, SendKeepsFlight
  <2>4. CASE MarkSentMessage \/ EndPoll
    BY <2>1, <2>4, OthersKeepFlight
  <2> QED
    BY <1>4, <2>2, <2>3, <2>4 DEF Loop, SndLoop
<1>5. CASE UNCHANGED vars
  BY <1>5 DEF vars, sndVars, FlightInv, FlightTypeOK, Recent
<1> QED
  BY <1>1, <1>2, <1>3, <1>4, <1>5 DEF Next

-----------------------------------------------------------------------------
(* What was reported *)

\* A message that was sent in a packet the peer has reported.
Reported(n) == \E k \in DOMAIN wire : wire[k].pid \in acked /\ n \in Ids(wire[k].messages)

\* Of what the loop of mark_sent_packet_received still has to mark it holds
\* already.
ReportedInv == \A n \in Covered(sentMessages) \cup ToSet(marking) : Reported(n)

\* What was reported stays so: packets and reports are only added.
LEMMA StaysReported ==
    ASSUME wire \in Seq(PacketType), acked \subseteq acked',
           wire' = wire \/ \E packet \in PacketType : wire' = Append(wire, packet),
           NEW n, Reported(n)
    PROVE  Reported(n)'
<1>1. PICK k \in DOMAIN wire : wire[k].pid \in acked /\ n \in Ids(wire[k].messages)
  BY DEF Reported
<1>2. k \in DOMAIN wire' /\ wire'[k] = wire[k]
  <2>1. CASE wire' = wire
    BY <2>1
  <2>2. ASSUME NEW packet \in PacketType, wire' = Append(wire, packet)
        PROVE  k \in DOMAIN wire' /\ wire'[k] = wire[k]
    BY <2>2, AppendPlaces
  <2> QED
    BY <2>1, <2>2
<1> QED
  BY <1>1, <1>2 DEF Reported

\* The other steps leave the windows alone.
LEMMA OthersReported ==
    ASSUME SndTypeOK, ReportedInv, acked \subseteq acked',
           UNCHANGED <<sentMessages, marking>>,
           wire' = wire \/ \E packet \in PacketType : wire' = Append(wire, packet)
    PROVE  ReportedInv'
<1>1. ASSUME NEW n \in Covered(sentMessages) \cup ToSet(marking) PROVE Reported(n)'
  <2>1. Reported(n)
    BY DEF ReportedInv
  <2>2. wire \in Seq(PacketType)
    BY DEF SndTypeOK
  <2> QED
    BY <2>1, <2>2, StaysReported
<1>2. Covered(sentMessages)' = Covered(sentMessages) /\ ToSet(marking)' = ToSet(marking)
  OBVIOUS
<1> QED
  BY <1>1, <1>2 DEF ReportedInv

\* An entry that exists when its id is looked up is that of a reported packet.
LEMMA MarkSentReported ==
    ASSUME SndTypeOK, FlightInv, EntriesAreSent, ReportedInv, MarkSentPacketReceived,
           UNCHANGED acked
    PROVE  ReportedInv'
<1> DEFINE pid == Min(acking)
<1>1. UNCHANGED <<wire, acked, sentMessages>>
  BY DEF MarkSentPacketReceived
<1>2. \A n : Reported(n)' <=> Reported(n)
  BY <1>1 DEF Reported
<1>3. CASE marking' = marking
  BY <1>1, <1>3, OthersReported
<1>4. CASE pid \in DOMAIN sentPackets /\ marking' = sentPackets[pid]
  <2>1. pid \in acking
    BY MinIsLeast DEF MarkSentPacketReceived, FlightInv, FlightTypeOK
  <2>2. pid \in acked
    BY <1>4, <2>1 DEF FlightInv, Recent
  <2> HIDE DEF pid
  <2>3. PICK k \in DOMAIN wire :
           wire[k].pid = pid /\ ToSet(sentPackets[pid]) = Ids(wire[k].messages)
    BY <1>4 DEF EntriesAreSent
  <2>4. \A n \in ToSet(marking') : Reported(n)
    BY <1>4, <2>2, <2>3 DEF Reported
  <2>5. \A n \in Covered(sentMessages) : Reported(n)
    BY DEF ReportedInv
  <2>6. Covered(sentMessages)' = Covered(sentMessages) /\ ToSet(marking)' = ToSet(marking')
    BY <1>1
  <2> QED
    BY <1>2, <2>4, <2>5, <2>6 DEF ReportedInv
<1> QED
  BY <1>3, <1>4 DEF MarkSentPacketReceived

\* A mark covers one id more at most.
LEMMA MarkSentMessageReported ==
    ASSUME SndTypeOK, ReportedInv, MarkSentMessage, UNCHANGED acked
    PROVE  ReportedInv'
<1>1. /\ marking # <<>> /\ marking' = Tail(marking)
      /\ sentMessages' = SlidingMark(sentMessages, Head(marking))
      /\ UNCHANGED <<wire, acked>>
  BY DEF MarkSentMessage
<1>2. sentMessages \in SlidingWindows /\ marking \in Seq(Nat)
  BY DEF SndTypeOK
<1>3. Head(marking) \in ToSet(marking) /\ ToSet(Tail(marking)) \subseteq ToSet(marking)
  <2>1. 1 \in DOMAIN marking /\ Head(marking) = marking[1]
    BY <1>1, <1>2
  <2>2. \A i \in DOMAIN Tail(marking) :
           i + 1 \in DOMAIN marking /\ Tail(marking)[i] = marking[i + 1]
    BY <1>1, <1>2
  <2> QED
    BY <2>1, <2>2 DEF ToSet
<1>4. Covered(sentMessages') \subseteq Covered(sentMessages) \cup {Head(marking)}
  <2>1. CASE Head(marking) \in Reach(sentMessages)
    BY <1>1, <1>2, <2>1, SlidingMarkInReach
  <2>2. CASE Head(marking) \notin Reach(sentMessages)
    BY <1>1, <2>2 DEF SlidingMark
  <2> QED
    BY <2>1, <2>2
<1>5. \A n : Reported(n)' <=> Reported(n)
  BY <1>1 DEF Reported
<1>6. Covered(sentMessages)' = Covered(sentMessages') /\ ToSet(marking)' = ToSet(Tail(marking))
  BY <1>1
<1> QED
  BY <1>3, <1>4, <1>5, <1>6 DEF ReportedInv

-----------------------------------------------------------------------------
(* All of it *)

IInv ==
    /\ SndInv
    /\ acked \in SUBSET Nat
    /\ FlightInv
    /\ ReportedInv

\* Nothing was queued, sent or reported at first.
LEMMA InitIInv == ASSUME Init PROVE IInv
<1>1. SndInit /\ acked = {}
  BY DEF Init
<1>2. SndInv /\ FlightInv /\ acked \in SUBSET Nat
  BY <1>1, InitSnd, InitFlight
<1>3. ReportedInv
  <2>1. Covered(sentMessages) = {}
    BY <1>1, NewSlidingWindowFacts DEF SndInit
  <2>2. ToSet(marking) = {}
    BY <1>1 DEF SndInit, ToSet
  <2> QED
    BY <2>1, <2>2 DEF ReportedInv
<1> QED
  BY <1>2, <1>3 DEF IInv

\* What an action does to the sending half is known, to the flight as well;
\* it is left to see what becomes of the reports.
LEMMA SndStep == ASSUME IInv, [Next]_vars PROVE SndInv'
<1>1. CASE Queue
  <2>1. PICK kind \in Kinds, size \in Sizes : QueueMsg(kind, size)
    BY <1>1 DEF Queue
  <2> QED
    BY <2>1, QueueMsgSnd DEF IInv
<1>2. CASE Acks
  <2>1. PICK pids \in AckMaps : ReceiveAcks(pids)
    BY <1>2 DEF Acks
  <2>2. pids \in SUBSET Nat
    BY DEF AckMaps
  <2> QED
    BY <2>1, <2>2, ReceiveAcksSnd DEF IInv
<1>3. CASE Poll
  <2>1. PICK expired \in SUBSET attempted, budget \in 1 .. MaxBudget,
             score \in 0 .. PacketWindowLen, due \in BOOLEAN :
          BeginPoll(expired, budget, score, due)
    BY <1>3 DEF Poll
  <2> QED
    BY <2>1, BeginPollSnd DEF IInv
<1>4. CASE Loop
  BY <1>4, SndLoopSnd DEF IInv, Loop
<1>5. CASE UNCHANGED vars
  BY <1>5, StutterSnd DEF IInv, vars
<1> QED
  BY <1>1, <1>2, <1>3, <1>4, <1>5 DEF Next

LEMMA ReportedStep == ASSUME IInv, SndInv', [Next]_vars PROVE ReportedInv'
<1>1. SndTypeOK /\ ReportedInv /\ acked \in SUBSET Nat
  BY DEF IInv, SndInv
<1>2. CASE Queue \/ Acks \/ Poll \/ UNCHANGED vars
  <2>1. UNCHANGED <<sentMessages, marking, wire>>
    BY <1>2 DEF Queue, QueueMsg, Acks, ReceiveAcks, Poll, BeginPoll, vars, sndVars
  <2>2. acked \subseteq acked'
    BY <1>2 DEF Queue, Acks, Poll, vars
  <2> QED
    BY <1>1, <2>1, <2>2, OthersReported
<1>3. CASE Loop
  <2>1. UNCHANGED acked
    BY <1>3 DEF Loop
  <2>2. CASE MarkSentPacketReceived
    BY <1>1, <2>1, <2>2, MarkSentReported DEF IInv, SndInv, PacketsInv
  <2>3. CASE MarkSentMessage
    BY <1>1, <2>1, <2>3, MarkSentMessageReported
  <2>4. CASE SendPacket
    <3>1. UNCHANGED <<sentMessages, marking>>
      BY <2>4 DEF SendPacket
    <3>2. \E packet \in PacketType : wire' = Append(wire, packet)
      <4>1. PICK is \in SUBSET DOMAIN poll.candidates, pid \in Nat \cup {NoPid} :
              LET packed == Subsequence(poll.candidates, is) IN
              /\ packed \in Seq(Message)
              /\ wire' = Append(wire, [pid |-> pid, messages |-> packed])
        BY <1>1, <2>4, SendPacketEffect
      <4> QED
        BY <4>1 DEF PacketType
    <3> QED
      BY <1>1, <2>1, <3>1, <3>2, OthersReported
  <2>5. CASE EndPoll
    <3>1. UNCHANGED <<sentMessages, marking, wire>>
      BY <2>5 DEF EndPoll
    <3> QED
      BY <1>1, <2>1, <3>1, OthersReported
  <2> QED
    BY <1>3, <2>2, <2>3, <2>4, <2>5 DEF Loop, SndLoop
<1> QED
  BY <1>2, <1>3 DEF Next

\* The invariant holds always.
THEOREM SenderInductive == Spec => []IInv
<1>1. Init => IInv
  BY InitIInv
<1>2. IInv /\ [Next]_vars => IInv'
  <2> SUFFICES ASSUME IInv, [Next]_vars PROVE IInv'
    OBVIOUS
  <2>1. SndInv'
    BY SndStep
  <2>2. FlightInv'
    BY FlightStep DEF IInv
  <2>3. ReportedInv'
    BY <2>1, ReportedStep
  <2>4. acked' \in SUBSET Nat
    <3>1. acked' \subseteq 0 .. (packetCounter' - 1)
      BY <2>2 DEF FlightInv
    <3>2. 0 .. (packetCounter' - 1) \subseteq Nat
      OBVIOUS
    <3> QED
      BY <3>1, <3>2, Zenon
  <2> QED
    BY <2>1, <2>2, <2>3, <2>4 DEF IInv
<1> QED
  BY <1>1, <1>2, PTL DEF Spec

-----------------------------------------------------------------------------
(* Theorems *)

\* Every variable keeps its type, the locals of a poll included.
THEOREM SenderTypeCorrect == Spec => []TypeOK
<1>1. IInv => TypeOK
  BY DEF IInv, SndInv, TypeOK
<1> QED
  BY <1>1, SenderInductive, PTL

\* A reliable message stays queued, in its order, until its id is covered.
THEOREM SenderForgetsNothing == Spec => []NoneForgotten
<1>1. IInv => NoneForgotten
  BY DEF IInv, SndInv, QueueInv
<1> QED
  BY <1>1, SenderInductive, PTL

\* prepare_and_send always finds the reliable message it packs in the queue.
THEOREM PackedMessagesAreQueued == Spec => []CandidatesAreQueued
<1>1. IInv => CandidatesAreQueued
  BY DEF IInv, SndInv, QueueInv
<1> QED
  BY <1>1, SenderInductive, PTL

\* An unreliable message is queued, collected or sent, and only once.
THEOREM UnreliableSentOnce == Spec => []UnreliableOnce
<1>1. IInv => UnreliableOnce
  BY DEF IInv, SndInv, UnreliableInv
<1> QED
  BY <1>1, SenderInductive, PTL

\* Every packet is valid, fits its crate and has an id of its own.
THEOREM SoundPackets == Spec => []PacketsAreSound
<1>1. IInv => PacketsAreSound
  BY DEF IInv, SndInv, PacketsInv
<1> QED
  BY <1>1, SenderInductive, PTL

\* What the message window covers was carried by a packet that was reported.
THEOREM CoveredWasReported == Spec => []CoveredWasAcked
<1>1. IInv => CoveredWasAcked
  BY DEF IInv, SndInv, PacketsInv, ReportedInv, Reported, CoveredWasAcked
<1> QED
  BY <1>1, SenderInductive, PTL

\* A message that is known to be received is not sent again.
THEOREM NoResendOfAcked == Spec => NeverResendsAcked
<1>1. IInv /\ [Next]_vars =>
        (wire' # wire =>
           Ids(wire'[Len(wire')].messages) \cap Covered(sentMessages) = {})
  <2> SUFFICES ASSUME IInv, [Next]_vars, wire' # wire
               PROVE  Ids(wire'[Len(wire')].messages) \cap Covered(sentMessages) = {}
    OBVIOUS
  <2>1. CASE Loop
    BY <2>1, PacksUncovered DEF IInv, Loop
  <2>2. CASE Queue \/ Acks \/ Poll \/ UNCHANGED vars
    BY <2>2 DEF Queue, QueueMsg, Acks, ReceiveAcks, Poll, BeginPoll, vars, sndVars
  <2> QED
    BY <2>1, <2>2 DEF Next
<1> QED
  BY <1>1, SenderInductive, PTL DEF Spec, NeverResendsAcked

\* PacketWindow holds the recent unreported packets and no other, however the
\* reports come.
THEOREM FlightIsExact == Spec => []InFlightIsExact
<1>1. IInv => InFlightIsExact
  BY DEF IInv, FlightInv, InFlightIsExact, Recent
<1> QED
  BY <1>1, SenderInductive, PTL

-----------------------------------------------------------------------------
(* The vectors that hold the ids of a packet's messages *)

Vecs ==
    {v \in [heap : BOOLEAN, items : Seq(Nat), length : Nat] :
        ~ v.heap => Len(v.items) = Inline /\ v.length <= Inline}

\* A vector gives what was pushed, also when it moved to the heap.
THEOREM VecIsTheSequence ==
    /\ NewVec \in Vecs /\ AsSlice(NewVec) = <<>>
    /\ \A v \in Vecs, item \in Nat :
         /\ VecPush(v, item) \in Vecs
         /\ AsSlice(VecPush(v, item)) = Append(AsSlice(v), item)
         /\ VecLen(v) = Len(AsSlice(v))
<1>0. Inline \in Nat /\ Inline > 0
  BY InlineAssumption
<1>1. NewVec \in Vecs /\ AsSlice(NewVec) = <<>>
  <2> DEFINE items == [i \in 1 .. Inline |-> 0]
  <2>1. items \in Seq(Nat) /\ Len(items) = Inline
    BY <1>0
  <2>2. NewVec = [heap |-> FALSE, items |-> items, length |-> 0]
    BY DEF NewVec
  <2> HIDE DEF items
  <2>3. SubSeq(items, 1, 0) = <<>>
    BY <2>1
  <2> QED
    BY <1>0, <2>1, <2>2, <2>3 DEF Vecs, AsSlice
<1>2. ASSUME NEW v \in Vecs, NEW item \in Nat
      PROVE  /\ VecPush(v, item) \in Vecs
             /\ AsSlice(VecPush(v, item)) = Append(AsSlice(v), item)
             /\ VecLen(v) = Len(AsSlice(v))
  <2>1. /\ v = [heap |-> v.heap, items |-> v.items, length |-> v.length]
        /\ v.heap \in BOOLEAN /\ v.items \in Seq(Nat) /\ v.length \in Nat
        /\ ~ v.heap => Len(v.items) = Inline /\ v.length <= Inline
    BY DEF Vecs
  <2> DEFINE s == AsSlice(v)
  <2>2. s \in Seq(Nat) /\ VecLen(v) = Len(s)
    <3>1. CASE v.heap
      BY <2>1, <3>1 DEF AsSlice, VecLen
    <3>2. CASE ~ v.heap
      <4>1. SubSeq(v.items, 1, v.length) \in Seq(Nat)
            /\ Len(SubSeq(v.items, 1, v.length)) = v.length
        BY <1>0, <2>1, <3>2
      <4> QED
        BY <3>2, <4>1 DEF AsSlice, VecLen
    <3> QED
      BY <3>1, <3>2
  <2>3. CASE v.heap \/ v.length = Inline
    <3> DEFINE u == Reallocate(v)
               t == Append(s, item)
    <3>1. /\ u \in [heap : BOOLEAN, items : Seq(Nat), length : Nat]
          /\ u.heap /\ u.items = s
      <4>1. CASE ~ v.heap
        <5>1. u = [heap |-> TRUE, items |-> s, length |-> 0]
          BY <2>3, <4>1 DEF Reallocate, VecLen
        <5> HIDE DEF u, s
        <5> QED
          BY <2>2, <5>1
      <4>2. CASE v.heap
        <5>1. u = v /\ s = v.items
          BY <4>2 DEF Reallocate, AsSlice
        <5> QED
          BY <4>2, <5>1 DEF Vecs
      <4> QED
        BY <4>1, <4>2
    <3>2. VecPush(v, item) = [u EXCEPT !.items = t]
      <4>1. VecPush(v, item) = [u EXCEPT !.items = Append(@, item)]
        BY <3>1 DEF VecPush
      <4> HIDE DEF u, s
      <4> QED
        BY <3>1, <4>1
    <3>3. t \in Seq(Nat)
      BY <2>2
    <3> HIDE DEF t, u
    <3>4. /\ VecPush(v, item) \in [heap : BOOLEAN, items : Seq(Nat), length : Nat]
          /\ VecPush(v, item).heap /\ VecPush(v, item).items = t
      BY <3>1, <3>2, <3>3
    <3>5. VecPush(v, item) \in Vecs /\ AsSlice(VecPush(v, item)) = t
      BY <3>4 DEF Vecs, AsSlice
    <3> QED
      BY <2>2, <3>5 DEF t
  <2>4. CASE ~ v.heap /\ v.length # Inline
    <3> DEFINE n == v.length
               items == [v.items EXCEPT ![n + 1] = item]
    <3>1. Reallocate(v) = v
      BY <2>4 DEF Reallocate, VecLen
    <3>2. n + 1 \in 1 .. Inline /\ n \in Nat /\ Len(v.items) = Inline
      BY <1>0, <2>1, <2>4
    <3>3. /\ items \in Seq(Nat) /\ Len(items) = Inline
          /\ \A i \in 1 .. n : items[i] = v.items[i]
          /\ items[n + 1] = item
      <4> HIDE DEF n
      <4> QED
        BY <1>0, <2>1, <3>2
    <3>4. VecPush(v, item) = [heap |-> FALSE, items |-> items, length |-> n + 1]
      <4>1. VecPush(v, item) = [v EXCEPT !.items[v.length + 1] = item,
                                         !.length = @ + 1]
        BY <2>4, <3>1 DEF VecPush
      <4> QED
        BY <2>1, <2>4, <4>1
    <3> HIDE DEF items
    <3>5. VecPush(v, item) \in Vecs
      BY <3>2, <3>3, <3>4 DEF Vecs
    <3>6. AsSlice(VecPush(v, item)) = SubSeq(items, 1, n + 1) /\ s = SubSeq(v.items, 1, n)
      <4>1. /\ VecPush(v, item).heap = FALSE
            /\ VecPush(v, item).items = items
            /\ VecPush(v, item).length = n + 1
        BY <3>4
      <4>2. AsSlice(VecPush(v, item)) = SubSeq(items, 1, n + 1)
        BY <4>1 DEF AsSlice
      <4> QED
        BY <2>4, <4>2 DEF AsSlice
    <3>7. SubSeq(items, 1, n + 1) = Append(SubSeq(v.items, 1, n), item)
      <4> HIDE DEF n
      <4>0. ASSUME NEW a \in Seq(Nat), NEW k \in Nat, k <= Len(a)
            PROVE  /\ SubSeq(a, 1, k) \in Seq(Nat) /\ Len(SubSeq(a, 1, k)) = k
                   /\ \A i \in 1 .. k : SubSeq(a, 1, k)[i] = a[i]
        BY <4>0
      <4>1. /\ SubSeq(v.items, 1, n) \in Seq(Nat) /\ Len(SubSeq(v.items, 1, n)) = n
            /\ \A i \in 1 .. n : SubSeq(v.items, 1, n)[i] = v.items[i]
        <5>1. n <= Len(v.items)
          BY <1>0, <3>2
        <5> QED
          BY <2>1, <3>2, <4>0, <5>1
      <4>2. /\ SubSeq(items, 1, n + 1) \in Seq(Nat)
            /\ Len(SubSeq(items, 1, n + 1)) = n + 1
            /\ \A i \in 1 .. (n + 1) : SubSeq(items, 1, n + 1)[i] = items[i]
        BY <1>0, <3>2, <3>3, <4>0
      <4> DEFINE t == SubSeq(v.items, 1, n)
                 u == SubSeq(items, 1, n + 1)
      <4> HIDE DEF t, u
      <4>3. /\ t \in Seq(Nat) /\ Len(t) = n /\ u \in Seq(Nat) /\ Len(u) = n + 1
            /\ \A i \in 1 .. n : u[i] = t[i]
            /\ u[n + 1] = item
        <5>1. \A i \in 1 .. n : i \in 1 .. (n + 1)
          BY <3>2
        <5>2. n + 1 \in 1 .. (n + 1)
          BY <3>2
        <5> QED
          BY <3>3, <4>1, <4>2, <5>1, <5>2 DEF t, u
      <4>4. /\ Append(t, item) \in Seq(Nat) /\ Len(Append(t, item)) = n + 1
            /\ \A i \in 1 .. (n + 1) :
                 Append(t, item)[i] = IF i = n + 1 THEN item ELSE t[i]
        BY <3>2, <4>3, AppendFacts
      <4>5. \A i \in 1 .. (n + 1) : i = n + 1 \/ i \in 1 .. n
        BY <3>2
      <4>6. u = Append(t, item)
        BY <3>2, <4>3, <4>4, <4>5, SeqEqual
      <4> QED
        BY <4>6 DEF t, u
    <3> QED
      BY <2>2, <3>5, <3>6, <3>7
  <2> QED
    BY <2>3, <2>4
<1> QED
  BY <1>1, <1>2

-----------------------------------------------------------------------------
(* The queue of packets *)

\* The queues that push_sent and mark_sent make of an empty one.
PacketQueues ==
    {w \in [queue : Seq(Vecs \cup {None}), pos : Nat, next : Nat, lost : Nat,
            capacity : {PacketWindowLen}] :
        /\ w.next <= PacketWindowLen =>
             w.pos = PacketWindowLen /\ Len(w.queue) = w.next
        /\ w.next > PacketWindowLen =>
             w.pos = w.next /\ Len(w.queue) = PacketWindowLen}

\* What a queue says: the packets whose entry is there, and their messages.
SentIn(w) ==
    {id \in WindowBase(w) .. (w.next - 1) : w.queue[PidToInd(w, id)] # None}

SentOf(w) == [id \in SentIn(w) |-> AsSlice(w.queue[PidToInd(w, id)])]

\* A vector is not the entry of a packet that was taken out.
LEMMA VecIsNotNone == ASSUME NEW v \in Vecs PROVE v # None
<1>1. "heap" \in DOMAIN v /\ "heap" \notin DOMAIN None
  BY DEF Vecs, None
<1> QED
  BY <1>1

\* The numbers of a queue of n packets, and those of the next.
LEMMA QueueNumbers ==
    ASSUME NEW size \in Nat \ {0}, NEW n \in Nat, NEW top \in Nat, NEW len \in Nat,
           n <= size => top = size /\ len = n,
           n > size => top = n /\ len = size
    PROVE  /\ top - size \in Nat /\ len = n - (top - size) /\ n <= top
           /\ n <= size => top - size = 0
           /\ n >= size => top - size = n - size
           /\ len = size <=> n >= size
<1>1. CASE n <= size
  BY <1>1
<1>2. CASE n > size
  BY <1>2
<1> QED
  BY <1>1, <1>2

\* push_sent moves the window when it is full.
LEMMA NextQueueNumbers ==
    ASSUME NEW size \in Nat \ {0}, NEW n \in Nat, NEW top \in Nat,
           n <= size => top = size, n > size => top = n,
           NEW from, n >= size => from = n - size + 1, n < size => from = 0,
           NEW up, up = IF n + 1 > top THEN n + 1 ELSE top
    PROVE  /\ n + 1 <= size => up = size /\ n - from + 1 = n + 1
           /\ n + 1 > size => up = n + 1 /\ n - from + 1 = size
           /\ up - size = from
<1>1. CASE n < size
  BY <1>1
<1>2. CASE n = size
  BY <1>2
<1>3. CASE n > size
  BY <1>3
<1> QED
  BY <1>1, <1>2, <1>3

\* Where a queue is, and what is in it.
LEMMA QueueFacts ==
    ASSUME NEW w \in PacketQueues
    PROVE  /\ w.queue \in Seq(Vecs \cup {None}) /\ w.next \in Nat
           /\ w.pos \in Nat /\ w.lost \in Nat /\ w.capacity = PacketWindowLen
           /\ WindowBase(w) \in Nat
           /\ Len(w.queue) = w.next - WindowBase(w)
           /\ w.next <= PacketWindowLen => WindowBase(w) = 0
           /\ w.next >= PacketWindowLen => WindowBase(w) = w.next - PacketWindowLen
           /\ Len(w.queue) = PacketWindowLen <=> w.next >= PacketWindowLen
           /\ \A id \in WindowBase(w) .. (w.next - 1) :
                /\ id \in Nat /\ InWindow(w, id)
                /\ PidToInd(w, id) = id - WindowBase(w) + 1
                /\ PidToInd(w, id) \in 1 .. Len(w.queue)
           /\ \A id \in 0 .. (w.next - 1) :
                InWindow(w, id) <=> id \in WindowBase(w) .. (w.next - 1)
<1>1. PacketWindowLen \in Nat \ {0}
  BY WindowAssumption
<1>2. /\ w.queue \in Seq(Vecs \cup {None}) /\ w.next \in Nat
      /\ w.pos \in Nat /\ w.lost \in Nat /\ w.capacity = PacketWindowLen
      /\ Len(w.queue) \in Nat
      /\ w.next <= PacketWindowLen =>
             w.pos = PacketWindowLen /\ Len(w.queue) = w.next
      /\ w.next > PacketWindowLen =>
             w.pos = w.next /\ Len(w.queue) = PacketWindowLen
  BY DEF PacketQueues
<1> DEFINE base == WindowBase(w)
<1>3. /\ base = w.pos - PacketWindowLen
      /\ base \in Nat /\ Len(w.queue) = w.next - base
      /\ w.next <= PacketWindowLen => base = 0
      /\ w.next >= PacketWindowLen => base = w.next - PacketWindowLen
      /\ Len(w.queue) = PacketWindowLen <=> w.next >= PacketWindowLen
      /\ w.next <= w.pos
  <2>1. base = w.pos - PacketWindowLen
    BY <1>2 DEF WindowBase
  <2> DEFINE n == w.next
             top == w.pos
             len == Len(w.queue)
  <2>2. /\ n \in Nat /\ top \in Nat /\ len \in Nat
        /\ n <= PacketWindowLen => top = PacketWindowLen /\ len = n
        /\ n > PacketWindowLen => top = n /\ len = PacketWindowLen
    BY <1>2
  <2>3. base = top - PacketWindowLen
    BY <2>1
  <2> HIDE DEF base, n, top, len
  <2>4. /\ base \in Nat /\ len = n - base
        /\ n <= PacketWindowLen => base = 0
        /\ n >= PacketWindowLen => base = n - PacketWindowLen
        /\ len = PacketWindowLen <=> n >= PacketWindowLen
        /\ n <= top
    BY <1>1, <2>2, <2>3, QueueNumbers
  <2> QED
    BY <2>1, <2>4 DEF n, top, len
<1>4. /\ \A id \in base .. (w.next - 1) :
           /\ id \in Nat /\ id >= base /\ id < w.pos
           /\ id - base + 1 \in 1 .. Len(w.queue)
      /\ \A id \in 0 .. (w.next - 1) :
           (id >= base /\ id < w.pos) <=> id \in base .. (w.next - 1)
  <2>1. ASSUME NEW b \in Nat, NEW n \in Nat, NEW top \in Nat, NEW len \in Nat,
               len = n - b, n <= top
        PROVE  /\ \A id \in b .. (n - 1) :
                    /\ id \in Nat /\ id >= b /\ id < top
                    /\ id - b + 1 \in 1 .. len
               /\ \A id \in 0 .. (n - 1) :
                    (id >= b /\ id < top) <=> id \in b .. (n - 1)
    BY <2>1
  <2>2. w.next \in Nat /\ w.pos \in Nat /\ Len(w.queue) \in Nat
    BY <1>2
  <2> HIDE DEF base
  <2> QED
    BY <1>3, <2>1, <2>2
<1> QED
  BY <1>2, <1>3, <1>4 DEF InWindow, PidToInd

\* push_sent and mark_sent, of any function from packet ids to message ids.
Pushed(sent, pid, ids) ==
    [p \in {q \in DOMAIN sent : q > pid - PacketWindowLen} \cup {pid} |->
        IF p = pid THEN ids ELSE sent[p]]

Taken(sent, pid) == Restrict(sent, DOMAIN sent \ {pid})

\* What they do to the queue, and to the function it stands for.
LEMMA QueueOperations ==
    ASSUME NEW w \in PacketQueues, NEW sent, sent = SentOf(w)
    PROVE  /\ \A v \in Vecs :
                /\ PushSentEntry(w, v) \in PacketQueues
                /\ PushSentEntry(w, v).next = w.next + 1
                /\ SentOf(PushSentEntry(w, v)) = Pushed(sent, w.next, AsSlice(v))
                /\ PushSentEntry(w, v).lost =
                     IF w.next - PacketWindowLen \in DOMAIN sent
                     THEN w.lost + 1 ELSE w.lost
           /\ \A id \in 0 .. (w.next - 1) :
                /\ id \notin DOMAIN sent => Entry(w, id) = None
                /\ id \in DOMAIN sent =>
                     Entry(w, id) # None /\ AsSlice(Entry(w, id)) = sent[id]
                /\ MarkSentEntry(w, id) \in PacketQueues
                /\ MarkSentEntry(w, id).next = w.next
                /\ SentOf(MarkSentEntry(w, id)) = Taken(sent, id)
<1> DEFINE S == Vecs \cup {None}
           base == WindowBase(w)
<1>0. PacketWindowLen \in Nat \ {0}
  BY WindowAssumption
<1>1. /\ w.queue \in Seq(S) /\ w.next \in Nat /\ Len(w.queue) \in Nat
      /\ w.pos \in Nat /\ w.lost \in Nat /\ w.capacity = PacketWindowLen
      /\ base \in Nat
      /\ Len(w.queue) = w.next - base
      /\ w.next <= PacketWindowLen => base = 0
      /\ w.next >= PacketWindowLen => base = w.next - PacketWindowLen
      /\ Len(w.queue) = PacketWindowLen <=> w.next >= PacketWindowLen
  BY QueueFacts
<1>2. /\ DOMAIN sent = SentIn(w)
      /\ \A id \in SentIn(w) :
           sent[id] = AsSlice(w.queue[PidToInd(w, id)])
  BY DEF SentOf
<1>3. ASSUME NEW id \in 0 .. (w.next - 1)
      PROVE  /\ id \notin DOMAIN sent => Entry(w, id) = None
             /\ id \in DOMAIN sent =>
                  Entry(w, id) # None /\ AsSlice(Entry(w, id)) = sent[id]
  BY <1>2, QueueFacts DEF Entry, SentIn
<1>4. ASSUME NEW id \in 0 .. (w.next - 1), ~ InWindow(w, id)
      PROVE  /\ MarkSentEntry(w, id) \in PacketQueues
             /\ MarkSentEntry(w, id).next = w.next
             /\ SentOf(MarkSentEntry(w, id)) = Taken(sent, id)
  <2>1. MarkSentEntry(w, id) = w
    BY <1>4 DEF MarkSentEntry
  <2>2. id \notin DOMAIN sent
    BY <1>2, <1>4, QueueFacts DEF SentIn
  <2>3. Taken(sent, id) = sent
    BY <2>2 DEF Taken, Restrict, SentOf
  <2> QED
    BY <2>1, <2>3
<1>5. ASSUME NEW id \in 0 .. (w.next - 1), InWindow(w, id)
      PROVE  /\ MarkSentEntry(w, id) \in PacketQueues
             /\ MarkSentEntry(w, id).next = w.next
             /\ SentOf(MarkSentEntry(w, id)) = Taken(sent, id)
  <2> DEFINE k == PidToInd(w, id)
             u == MarkSentEntry(w, id)
             q == [w.queue EXCEPT ![k] = None]
  <2>1. /\ id \in base .. (w.next - 1) /\ k = id - base + 1
        /\ k \in 1 .. Len(w.queue)
    BY <1>5, QueueFacts
  <2>2. u = [w EXCEPT !.queue = q]
    <3>1. u = [w EXCEPT !.queue[k] = None]
      BY <1>5 DEF MarkSentEntry
    <3> QED
      BY <3>1
  <2>3. /\ q \in Seq(S) /\ Len(q) = Len(w.queue)
        /\ \A i \in 1 .. Len(q) : q[i] = IF i = k THEN None ELSE w.queue[i]
    <3> HIDE DEF k
    <3>1. None \in S
      OBVIOUS
    <3> HIDE DEF S
    <3> QED
      BY <1>1, <2>1, <3>1
  <2> HIDE DEF q, k
  <2>4. /\ u \in PacketQueues
        /\ u.queue = q /\ u.next = w.next /\ u.pos = w.pos
        /\ u.capacity = w.capacity
    BY <2>2, <2>3 DEF PacketQueues
  <2> HIDE DEF u
  <2>5. WindowBase(u) = base
    BY <2>4 DEF WindowBase
  <2>6. ASSUME NEW j \in base .. (w.next - 1)
        PROVE  /\ PidToInd(u, j) = PidToInd(w, j)
               /\ u.queue[PidToInd(u, j)] =
                    IF j = id THEN None ELSE w.queue[PidToInd(w, j)]
    <3>1. /\ PidToInd(w, j) = j - base + 1 /\ PidToInd(w, j) \in 1 .. Len(w.queue)
      BY QueueFacts
    <3>2. PidToInd(u, j) = PidToInd(w, j)
      BY <2>5 DEF PidToInd
    <3>3. PidToInd(w, j) = k <=> j = id
      <4>1. \A a, b, c \in Int : a - c + 1 = b - c + 1 <=> a = b
        OBVIOUS
      <4>2. j \in Int /\ id \in Int /\ base \in Int
        BY <1>1
      <4> HIDE DEF base
      <4> QED
        BY <2>1, <3>1, <4>1, <4>2
    <3> QED
      BY <2>3, <2>4, <3>1, <3>2, <3>3
  <2>7. SentIn(u) = SentIn(w) \ {id}
    BY <2>4, <2>5, <2>6 DEF SentIn
  <2>8. ASSUME NEW j \in SentIn(u)
        PROVE  AsSlice(u.queue[PidToInd(u, j)]) = sent[j]
    BY <1>2, <2>6, <2>7 DEF SentIn
  <2>9. SentOf(u) = [j \in SentIn(w) \ {id} |-> sent[j]]
    BY <2>7, <2>8 DEF SentOf
  <2> QED
    BY <1>2, <2>4, <2>9 DEF Taken, Restrict, u
<1>6. ASSUME NEW v \in Vecs
      PROVE  /\ PushSentEntry(w, v) \in PacketQueues
             /\ PushSentEntry(w, v).next = w.next + 1
             /\ SentOf(PushSentEntry(w, v)) = Pushed(sent, w.next, AsSlice(v))
             /\ PushSentEntry(w, v).lost =
                  IF w.next - PacketWindowLen \in DOMAIN sent
                  THEN w.lost + 1 ELSE w.lost
  <2> DEFINE full == Len(w.queue) = w.capacity
             rest == IF full THEN Tail(w.queue) ELSE w.queue
             gone == full /\ Head(w.queue) # None
             q == Append(rest, v)
             u == PushSentEntry(w, v)
             from == IF full THEN base + 1 ELSE base
  <2>1. v \in S /\ v # None
    BY VecIsNotNone
  <2>2. /\ from \in Nat /\ from >= base /\ from <= w.next
        /\ (full <=> w.next >= PacketWindowLen)
        /\ from > w.next - PacketWindowLen
        /\ \A j \in base .. (w.next - 1) : j > w.next - PacketWindowLen <=> j >= from
        /\ w.next >= PacketWindowLen => from = w.next - PacketWindowLen + 1
        /\ w.next < PacketWindowLen => from = 0
    <3>1. CASE full
      <4>1. /\ w.next >= PacketWindowLen /\ base = w.next - PacketWindowLen
            /\ from = base + 1
        BY <1>1, <3>1
      <4>2. ASSUME NEW size \in Nat \ {0}, NEW n \in Nat, NEW b \in Nat,
                   NEW f, n >= size, b = n - size, f = b + 1
            PROVE  /\ f \in Nat /\ f >= b /\ f <= n /\ f > n - size
                   /\ \A j \in b .. (n - 1) : j > n - size <=> j >= f
                   /\ n >= size => f = n - size + 1
                   /\ n < size => f = 0
        BY <4>2
      <4>3. (full <=> w.next >= PacketWindowLen)
        BY <3>1, <4>1
      <4>4. base \in Nat /\ w.next \in Nat
        BY <1>1
      <4> HIDE DEF base, from, full
      <4> QED
        BY <1>0, <4>1, <4>2, <4>3, <4>4
    <3>2. CASE ~ full
      <4>1. w.next < PacketWindowLen /\ base = 0 /\ from = base
        BY <1>0, <1>1, <3>2
      <4> HIDE DEF base, from
      <4> QED
        BY <1>0, <1>1, <3>2, <4>1
    <3> QED
      BY <3>1, <3>2
  <2>3. /\ rest \in Seq(S) /\ Len(rest) = w.next - from
        /\ \A i \in 1 .. Len(rest) :
             rest[i] = w.queue[IF full THEN i + 1 ELSE i]
    <3> HIDE DEF S
    <3>1. CASE full
      <4>1. Len(w.queue) > 0
        BY <1>0, <1>1, <3>1
      <4>2. rest = Tail(w.queue)
        BY <3>1
      <4>3. /\ Tail(w.queue) \in Seq(S) /\ Len(Tail(w.queue)) = Len(w.queue) - 1
            /\ \A i \in 1 .. Len(Tail(w.queue)) : Tail(w.queue)[i] = w.queue[i + 1]
        BY <1>1, <4>1
      <4> QED
        BY <1>1, <3>1, <4>2, <4>3
    <3>2. CASE ~ full
      BY <1>1, <3>2
    <3> QED
      BY <3>1, <3>2
  <2> HIDE DEF rest
  <2>4. /\ q \in Seq(S) /\ Len(q) = w.next - from + 1
        /\ q[w.next - from + 1] = v
        /\ \A i \in 1 .. (w.next - from) :
             q[i] = w.queue[IF full THEN i + 1 ELSE i]
    <3> HIDE DEF S, from, full
    <3>1. /\ q \in Seq(S) /\ Len(q) = Len(rest) + 1
          /\ \A i \in 1 .. Len(q) : q[i] = IF i = Len(rest) + 1 THEN v ELSE rest[i]
      BY <2>1, <2>3
    <3> QED
      BY <1>1, <2>2, <2>3, <3>1
  <2>5. /\ u = [w EXCEPT !.queue = q,
                         !.next = w.next + 1,
                         !.pos = Max({w.pos, w.next + 1}),
                         !.lost = w.lost + (IF gone THEN 1 ELSE 0)]
    BY DEF PushSentEntry, rest
  <2>6. Max({w.pos, w.next + 1}) = IF w.next + 1 > w.pos THEN w.next + 1 ELSE w.pos
    <3> DEFINE m == IF w.next + 1 > w.pos THEN w.next + 1 ELSE w.pos
    <3>1. m \in {w.pos, w.next + 1} /\ \A y \in {w.pos, w.next + 1} : m >= y
      BY <1>1
    <3>2. \A x \in {w.pos, w.next + 1} :
            (\A y \in {w.pos, w.next + 1} : x >= y) => x = m
      BY <1>1
    <3> HIDE DEF m
    <3>3. Max({w.pos, w.next + 1}) = m
      BY <3>1, <3>2 DEF Max
    <3> QED
      BY <3>3 DEF m
  <2>7. /\ u.queue = q /\ u.next = w.next + 1
        /\ u.pos = IF w.next + 1 > w.pos THEN w.next + 1 ELSE w.pos
        /\ u.capacity = PacketWindowLen
        /\ u.lost = IF gone THEN w.lost + 1 ELSE w.lost
        /\ u \in [queue : Seq(S), pos : Nat, next : Nat, lost : Nat,
                  capacity : {PacketWindowLen}]
    <3> DEFINE p == IF w.next + 1 > w.pos THEN w.next + 1 ELSE w.pos
               l == IF gone THEN w.lost + 1 ELSE w.lost
    <3> HIDE DEF q, S, gone
    <3>1. w \in [queue : Seq(S), pos : Nat, next : Nat, lost : Nat,
                 capacity : {PacketWindowLen}]
      BY DEF PacketQueues, S
    <3>2. p \in Nat /\ l \in Nat /\ w.next + 1 \in Nat
          /\ l = w.lost + (IF gone THEN 1 ELSE 0)
      BY <1>1
    <3> HIDE DEF u
    <3>3. u = [w EXCEPT !.queue = q, !.next = w.next + 1, !.pos = p, !.lost = l]
      BY <2>5, <2>6, <3>2
    <3> HIDE DEF p, l
    <3>4. /\ u.queue = q /\ u.next = w.next + 1 /\ u.pos = p /\ u.lost = l
          /\ u.capacity = PacketWindowLen
          /\ u \in [queue : Seq(S), pos : Nat, next : Nat, lost : Nat,
                    capacity : {PacketWindowLen}]
      BY <1>1, <2>4, <3>1, <3>2, <3>3
    <3> QED
      BY <3>4 DEF p, l
  <2> HIDE DEF u, q
  <2>8. /\ u \in PacketQueues /\ WindowBase(u) = from
        /\ from .. (u.next - 1) = from .. w.next
    <3>1. /\ w.next <= PacketWindowLen => w.pos = PacketWindowLen
          /\ w.next > PacketWindowLen => w.pos = w.next
      BY DEF PacketQueues
    <3> DEFINE n == w.next
               top == w.pos
               up == u.pos
    <3>2. /\ n \in Nat /\ top \in Nat
          /\ n <= PacketWindowLen => top = PacketWindowLen
          /\ n > PacketWindowLen => top = n
          /\ n >= PacketWindowLen => from = n - PacketWindowLen + 1
          /\ n < PacketWindowLen => from = 0
          /\ up = IF n + 1 > top THEN n + 1 ELSE top
      <4>1. up = IF n + 1 > top THEN n + 1 ELSE top
        BY <2>7
      <4> HIDE DEF up, from
      <4> QED
        BY <1>1, <2>2, <3>1, <4>1
    <3> HIDE DEF n, top, up, from
    <3>7. /\ n + 1 <= PacketWindowLen => up = PacketWindowLen /\ n - from + 1 = n + 1
          /\ n + 1 > PacketWindowLen => up = n + 1 /\ n - from + 1 = PacketWindowLen
          /\ up - PacketWindowLen = from
      BY <1>0, <3>2, NextQueueNumbers
    <3>8. /\ u.next <= PacketWindowLen =>
               u.pos = PacketWindowLen /\ Len(u.queue) = u.next
          /\ u.next > PacketWindowLen =>
               u.pos = u.next /\ Len(u.queue) = PacketWindowLen
      BY <2>4, <2>7, <3>7 DEF n, up
    <3>3. u \in PacketQueues
      BY <2>7, <3>8 DEF PacketQueues
    <3>4. WindowBase(u) = u.pos - PacketWindowLen
      BY <2>7 DEF WindowBase
    <3>5. u.pos - PacketWindowLen = from
      BY <3>7 DEF up
    <3>6. from .. (u.next - 1) = from .. w.next
      BY <1>1, <2>2, <2>7
    <3> QED
      BY <3>3, <3>4, <3>5, <3>6
  <2>9. ASSUME NEW j \in from .. w.next
        PROVE  u.queue[PidToInd(u, j)] =
                   IF j = w.next THEN v ELSE w.queue[PidToInd(w, j)]
    <3>1. PidToInd(u, j) = j - from + 1
      BY <2>8 DEF PidToInd
    <3>2. PidToInd(w, j) = j - base + 1
      BY DEF PidToInd
    <3>3. CASE j = w.next
      BY <2>4, <2>7, <3>1, <3>3
    <3>4. CASE j # w.next
      <4>1. j - from + 1 \in 1 .. (w.next - from)
        <5>1. from \in Nat /\ w.next \in Nat
          BY <1>1, <2>2
        <5> HIDE DEF from
        <5> QED
          BY <3>4, <5>1
      <4>2. q[j - from + 1] =
              w.queue[IF full THEN j - from + 1 + 1 ELSE j - from + 1]
        BY <2>4, <4>1
      <4>3. (IF full THEN j - from + 1 + 1 ELSE j - from + 1) = j - base + 1
        BY <1>1
      <4> QED
        BY <2>7, <3>1, <3>2, <3>4, <4>2, <4>3
    <3> QED
      BY <3>3, <3>4
  <2>10. SentIn(u) = {j \in SentIn(w) : j > w.next - PacketWindowLen} \cup {w.next}
    <3>1. ASSUME NEW j \in SentIn(u)
          PROVE  j \in {i \in SentIn(w) : i > w.next - PacketWindowLen} \cup {w.next}
      <4>1. j \in from .. w.next /\ u.queue[PidToInd(u, j)] # None
        BY <1>1, <2>7, <2>8 DEF SentIn
      <4>2. CASE j # w.next
        <5>1. j \in base .. (w.next - 1)
          <6> HIDE DEF base, from
          <6> QED
            BY <1>1, <2>2, <4>1, <4>2
        <5>2. j > w.next - PacketWindowLen
          <6>1. j >= from
            BY <2>2, <4>1
          <6> HIDE DEF base, from
          <6> QED
            BY <1>0, <2>2, <5>1, <6>1
        <5> QED
          BY <2>9, <4>1, <4>2, <5>1, <5>2 DEF SentIn
      <4> QED
        BY <4>2
    <3>2. ASSUME NEW j \in SentIn(w), j > w.next - PacketWindowLen
          PROVE  j \in SentIn(u)
      <4>1. j \in base .. (w.next - 1) /\ w.queue[PidToInd(w, j)] # None
        BY DEF SentIn
      <4>2. j \in from .. w.next /\ j # w.next
        BY <1>1, <2>2, <3>2, <4>1
      <4> QED
        BY <1>1, <2>7, <2>8, <2>9, <4>1, <4>2 DEF SentIn
    <3>3. w.next \in SentIn(u)
      <4>1. w.next \in from .. w.next
        BY <1>1, <2>2
      <4> QED
        BY <1>1, <2>1, <2>7, <2>8, <2>9, <4>1 DEF SentIn
    <3> QED
      BY <3>1, <3>2, <3>3
  <2>11. ASSUME NEW j \in SentIn(u)
         PROVE  AsSlice(u.queue[PidToInd(u, j)]) =
                    IF j = w.next THEN AsSlice(v) ELSE sent[j]
    <3>1. j \in from .. w.next
      BY <1>1, <2>7, <2>8 DEF SentIn
    <3> QED
      BY <1>2, <2>9, <2>10, <3>1
  <2>12. SentOf(u) = Pushed(sent, w.next, AsSlice(v))
    BY <1>2, <2>10, <2>11 DEF SentOf, Pushed
  <2>13. gone <=> w.next - PacketWindowLen \in SentIn(w)
    <3>1. CASE full
      <4>1. base = w.next - PacketWindowLen /\ base \in base .. (w.next - 1)
            /\ PidToInd(w, base) = 1
        BY <1>0, <1>1, <3>1 DEF PidToInd
      <4>2. Head(w.queue) = w.queue[1]
        BY <1>0, <1>1, <3>1
      <4> QED
        BY <3>1, <4>1, <4>2 DEF SentIn
    <3>2. CASE ~ full
      <4>1. \A j \in base .. (w.next - 1) : j # w.next - PacketWindowLen
        BY <1>0, <1>1, <3>2
      <4> QED
        BY <3>2, <4>1 DEF SentIn
    <3> QED
      BY <3>1, <3>2
  <2> QED
    BY <1>2, <2>7, <2>8, <2>12, <2>13 DEF u
<1> QED
  BY <1>3, <1>4, <1>5, <1>6

\* push_sent and mark_sent, in the queue and in the function.
THEOREM PacketQueueIsTheFunction ==
    ASSUME NEW w \in PacketQueues, sentPackets = SentOf(w)
    PROVE  /\ \A v \in Vecs :
                /\ PushSentEntry(w, v) \in PacketQueues
                /\ SentOf(PushSentEntry(w, v)) = PushSent(w.next, AsSlice(v))
                /\ PushSentEntry(w, v).lost =
                     IF w.next - PacketWindowLen \in DOMAIN sentPackets
                     THEN w.lost + 1 ELSE w.lost
           /\ \A id \in 0 .. (w.next - 1) :
                /\ id \notin DOMAIN sentPackets => Entry(w, id) = None
                /\ id \in DOMAIN sentPackets =>
                     Entry(w, id) # None /\ AsSlice(Entry(w, id)) = sentPackets[id]
                /\ MarkSentEntry(w, id) \in PacketQueues
                /\ SentOf(MarkSentEntry(w, id)) = MarkSent(id)
<1>1. /\ \A v \in Vecs :
           /\ PushSentEntry(w, v) \in PacketQueues
           /\ SentOf(PushSentEntry(w, v)) = Pushed(sentPackets, w.next, AsSlice(v))
           /\ PushSentEntry(w, v).lost =
                IF w.next - PacketWindowLen \in DOMAIN sentPackets
                THEN w.lost + 1 ELSE w.lost
      /\ \A id \in 0 .. (w.next - 1) :
           /\ id \notin DOMAIN sentPackets => Entry(w, id) = None
           /\ id \in DOMAIN sentPackets =>
                Entry(w, id) # None /\ AsSlice(Entry(w, id)) = sentPackets[id]
           /\ MarkSentEntry(w, id) \in PacketQueues
           /\ SentOf(MarkSentEntry(w, id)) = Taken(sentPackets, id)
  BY QueueOperations
<1>2. \A pid, ids : Pushed(sentPackets, pid, ids) = PushSent(pid, ids)
  BY DEF Pushed, PushSent
<1>3. \A pid : Taken(sentPackets, pid) = MarkSent(pid)
  BY DEF Taken, MarkSent
<1> QED
  BY <1>1, <1>2, <1>3

-----------------------------------------------------------------------------
(* The parts below a connection: a step is one of the part it is about *)

\* A step is one of the part the behaviour is about.
LEMMA StepOfPart ==
    ASSUME PartsNext
    PROVE  /\ part' = part
           /\ part = "bits" => BitOperation
           /\ part = "windows" => Marking
           /\ part = "queue" => PackMessage \/ PushPacket \/ PacketReceived \/ NewPoll
           /\ part = "trips" => PushRoundTrip \/ UpdateRoundTrips
           /\ part = "checksum" => PutChunk
BY DEF PartsNext, BitOperation, Marking, PackMessage, PushPacket, PacketReceived,
       NewPoll, PushRoundTrip, UpdateRoundTrips, PutChunk

-----------------------------------------------------------------------------
(* The bit set *)

\* The invariant of the bit set, with the shape that its operations need.
BitsInv ==
    part = "bits" =>
        /\ state \in [bits : BitSets, ones : SUBSET Nat]
        /\ Ones(state.bits) = state.ones

\* A new bit set has no ones.
LEMMA InitBits == ASSUME PartsInit PROVE BitsInv
<1> SUFFICES ASSUME part = "bits"
             PROVE  /\ state \in [bits : BitSets, ones : SUBSET Nat]
                    /\ Ones(state.bits) = state.ones
  BY DEF BitsInv
<1>1. PICK len \in BitLens : state = [bits |-> NewBits(len), ones |-> {}]
  BY DEF PartsInit
<1>2. len \in Nat \ {0}
  BY PartsAssumption
<1>3. NewBits(len) \in BitSets /\ Ones(NewBits(len)) = {}
  BY <1>2, PagesKeepBits
<1> QED
  BY <1>1, <1>3

\* Setting a bit and shifting do what they do to the set of ones.
LEMMA StepKeepsBits == ASSUME BitsInv, PartsNext PROVE BitsInv'
<1> SUFFICES ASSUME part = "bits"
             PROVE  /\ state' \in [bits : BitSets, ones : SUBSET Nat]
                    /\ Ones(state'.bits) = state'.ones
  BY StepOfPart DEF BitsInv
<1>1. /\ BitOperation
      /\ state.bits \in BitSets /\ state.ones \in SUBSET Nat
      /\ Ones(state.bits) = state.ones
  BY StepOfPart DEF BitsInv
<1>2. state.bits.len \in Nat
  BY <1>1 DEF BitSets
<1>3. CASE \E ind \in 0 .. (state.bits.len - 1), to \in BOOLEAN :
              state' = [bits |-> SetBit(state.bits, ind, to),
                        ones |-> IF to THEN state.ones \cup {ind}
                                       ELSE state.ones \ {ind}]
  <2>1. PICK ind \in 0 .. (state.bits.len - 1), to \in BOOLEAN :
              state' = [bits |-> SetBit(state.bits, ind, to),
                        ones |-> IF to THEN state.ones \cup {ind}
                                       ELSE state.ones \ {ind}]
    BY <1>3
  <2>2. /\ SetBit(state.bits, ind, to) \in BitSets
        /\ Ones(SetBit(state.bits, ind, to)) = IF to THEN state.ones \cup {ind}
                                                     ELSE state.ones \ {ind}
    BY <1>1, PagesKeepBits
  <2>3. (IF to THEN state.ones \cup {ind} ELSE state.ones \ {ind}) \in SUBSET Nat
    BY <1>1, <1>2
  <2> QED
    BY <2>1, <2>2, <2>3
<1>4. CASE \E by \in 1 .. (state.bits.len + 1) :
              /\ CanShift(state.bits, by)
              /\ state' = [bits |-> Shr(state.bits, by),
                           ones |-> {i + by : i \in state.ones}
                                        \cap 0 .. (state.bits.len - 1)]
  <2>1. PICK by \in 1 .. (state.bits.len + 1) :
              /\ CanShift(state.bits, by)
              /\ state' = [bits |-> Shr(state.bits, by),
                           ones |-> {i + by : i \in state.ones}
                                        \cap 0 .. (state.bits.len - 1)]
    BY <1>4
  <2>2. by \in Nat
    BY <1>2
  <2>3. /\ Shr(state.bits, by) \in BitSets
        /\ Ones(Shr(state.bits, by)) =
             {i + by : i \in state.ones} \cap 0 .. (state.bits.len - 1)
    BY <1>1, <2>1, <2>2, PagesKeepBits
  <2>4. {i + by : i \in state.ones} \cap 0 .. (state.bits.len - 1) \in SUBSET Nat
    BY <1>2
  <2> QED
    BY <2>1, <2>3, <2>4
<1> QED
  BY <1>1, <1>3, <1>4 DEF BitOperation

\* A BitSet holds exactly the bits that were set and not shifted out, after any
\* sets and any shifts that CanShift allows, for every length of a set and of a
\* page (src/window.rs).
THEOREM BitsAreKept == PartsSpec => []ShiftsKeepBits
<1>1. BitsInv /\ UNCHANGED partsVars => BitsInv'
  BY DEF BitsInv, partsVars
<1>2. BitsInv => ShiftsKeepBits
  BY DEF BitsInv, ShiftsKeepBits
<1> QED
  BY <1>1, <1>2, InitBits, StepKeepsBits, PTL DEF PartsSpec

-----------------------------------------------------------------------------
(* The windows *)

\* The invariant of the windows, made of bits and as sets of ids.
WindowsInv ==
    part = "windows" =>
        /\ state \in [sliding : BitSlidings, messages : SlidingWindows,
                      leading : BitLeadings, packets : LeadingWindows]
        /\ SlidingSet(state.sliding) = state.messages
        /\ LeadingSet(state.leading) = state.packets

\* New windows stand for new windows.
LEMMA InitWindows == ASSUME PartsInit PROVE WindowsInv
<1> SUFFICES ASSUME part = "windows"
             PROVE  /\ state \in [sliding : BitSlidings, messages : SlidingWindows,
                                  leading : BitLeadings, packets : LeadingWindows]
                    /\ SlidingSet(state.sliding) = state.messages
                    /\ LeadingSet(state.leading) = state.packets
  BY DEF WindowsInv
<1>1. state = [sliding |-> NewBitSliding, messages |-> NewSlidingWindow,
               leading |-> NewBitLeading, packets |-> NewLeadingWindow]
  BY DEF PartsInit
<1>2. PageBits # 1 /\ 0 \in Nat /\ PacketWindowLen <= PageBits
  BY PartsAssumption
<1>3. /\ NewBitSliding \in BitSlidings /\ SlidingSet(NewBitSliding) = NewSlidingWindow
      /\ NewSlidingWindow \in SlidingWindows
  BY <1>2, SlidingBitsAreTheWindow
<1>4. /\ NewBitLeading \in BitLeadings /\ LeadingSet(NewBitLeading) = NewLeadingWindow
      /\ NewLeadingWindow \in LeadingWindows
  BY <1>2, LeadingBitsAreTheWindow
<1> QED
  BY <1>1, <1>3, <1>4

\* Marking an id in the bits is marking it in the set.
LEMMA StepKeepsWindows == ASSUME WindowsInv, PartsNext PROVE WindowsInv'
<1> SUFFICES ASSUME part = "windows"
             PROVE  /\ state' \in [sliding : BitSlidings, messages : SlidingWindows,
                                   leading : BitLeadings, packets : LeadingWindows]
                    /\ SlidingSet(state'.sliding) = state'.messages
                    /\ LeadingSet(state'.leading) = state'.packets
  BY StepOfPart DEF WindowsInv
<1>1. /\ Marking
      /\ state \in [sliding : BitSlidings, messages : SlidingWindows,
                    leading : BitLeadings, packets : LeadingWindows]
      /\ SlidingSet(state.sliding) = state.messages
      /\ LeadingSet(state.leading) = state.packets
  BY StepOfPart DEF WindowsInv
<1>2. PICK id \in 0 .. MaxId :
         \/ state' = [state EXCEPT !.sliding = BitSlidingMark(state.sliding, id),
                                   !.messages = SlidingMark(state.messages, id)]
         \/ state' = [state EXCEPT !.leading = BitLeadingMark(state.leading, id),
                                   !.packets = LeadingMark(state.packets, id)]
  BY <1>1 DEF Marking
<1>3. PageBits # 1 /\ id \in Nat /\ PacketWindowLen <= PageBits
  BY PartsAssumption
<1>4. /\ BitSlidingMark(state.sliding, id) \in BitSlidings
      /\ SlidingSet(BitSlidingMark(state.sliding, id)) = SlidingMark(state.messages, id)
      /\ SlidingMark(state.messages, id) \in SlidingWindows
  BY <1>1, <1>3, SlidingBitsAreTheWindow, SlidingMarkFacts
<1>5. /\ BitLeadingMark(state.leading, id) \in BitLeadings
      /\ LeadingSet(BitLeadingMark(state.leading, id)) = LeadingMark(state.packets, id)
      /\ LeadingMark(state.packets, id) \in LeadingWindows
  BY <1>1, <1>3, LeadingBitsAreTheWindow, LeadingMarkFacts
<1> QED
  BY <1>1, <1>2, <1>4, <1>5

\* The bits and pages of both acknowledgment windows stand for the ids the
\* windows cover, whatever ids are marked in whatever order, for every length
\* of a message window and of a page, and of a packet window that fits a page
\* (src/window.rs).
THEOREM BitsFollowTheWindows == PartsSpec => []BitsAreTheWindows
<1>1. WindowsInv /\ UNCHANGED partsVars => WindowsInv'
  BY DEF WindowsInv, partsVars
<1>2. WindowsInv => BitsAreTheWindows
  BY DEF WindowsInv, BitsAreTheWindows
<1> QED
  BY <1>1, <1>2, InitWindows, StepKeepsWindows, PTL DEF PartsSpec

-----------------------------------------------------------------------------
(* The queue of sent packets *)

\* The states of a queue, beside what was sent, received and lost.
QueueStates ==
    [window : PacketQueues, packing : Vecs, packed : Seq(Nat),
     sent : Seq(Seq(Nat)), received : SUBSET Nat, lost : SUBSET Nat]

\* What the queue should amount to.
QueueHolds(s) ==
    /\ AsSlice(s.packing) = s.packed
    /\ Len(s.sent) = s.window.next
    /\ s.received \cap s.lost = {}
    /\ s.received \cup s.lost \subseteq 0 .. (s.window.next - 1)
    /\ DOMAIN SentOf(s.window) =
          (0 .. (s.window.next - 1)) \ (s.received \cup s.lost)
    /\ \A id \in DOMAIN SentOf(s.window) : SentOf(s.window)[id] = s.sent[id + 1]

\* The invariant of the queue.
SentQueueInv == part = "queue" => state \in QueueStates /\ QueueHolds(state)

\* Where the packets are that the queue holds.
LEMMA SentInFacts ==
    ASSUME NEW w \in PacketQueues
    PROVE  /\ w.next \in Nat /\ PacketWindowLen \in Nat /\ PacketWindowLen > 0
           /\ DOMAIN SentOf(w) = SentIn(w)
           /\ \A id \in SentIn(w) :
                /\ id \in 0 .. (w.next - 1)
                /\ id >= w.next - PacketWindowLen
           /\ w.lost \in Nat
<1>1. /\ w.next \in Nat /\ w.lost \in Nat /\ WindowBase(w) \in Nat
      /\ w.next <= PacketWindowLen => WindowBase(w) = 0
      /\ w.next >= PacketWindowLen => WindowBase(w) = w.next - PacketWindowLen
  BY QueueFacts
<1>2. PacketWindowLen \in Nat /\ PacketWindowLen > 0
  BY WindowAssumption
<1>3. WindowBase(w) >= w.next - PacketWindowLen
  BY <1>1, <1>2
<1>4. \A id \in SentIn(w) : id \in WindowBase(w) .. (w.next - 1)
  BY DEF SentIn
<1>5. DOMAIN SentOf(w) = SentIn(w)
  BY DEF SentOf
<1> QED
  BY <1>1, <1>2, <1>3, <1>4, <1>5

\* Counting the entries counts the packets.
LEMMA InFlightCounts ==
    ASSUME NEW w \in PacketQueues
    PROVE  InFlight(w) = Cardinality(SentIn(w))
<1> DEFINE base == WindowBase(w)
           places == {i \in DOMAIN w.queue : w.queue[i] # None}
           f == [id \in SentIn(w) |-> PidToInd(w, id)]
<1>1. /\ w.queue \in Seq(Vecs \cup {None}) /\ w.next \in Nat /\ base \in Nat
      /\ Len(w.queue) = w.next - base
      /\ \A id \in base .. (w.next - 1) :
           /\ PidToInd(w, id) = id - base + 1
           /\ PidToInd(w, id) \in 1 .. Len(w.queue)
  BY QueueFacts
<1>2. DOMAIN w.queue = 1 .. Len(w.queue)
  BY <1>1
<1>3. \A id \in SentIn(w) : id \in base .. (w.next - 1) /\ w.queue[PidToInd(w, id)] # None
  BY DEF SentIn
<1>4. f \in [SentIn(w) -> places]
  BY <1>1, <1>2, <1>3
<1>5. ASSUME NEW id \in SentIn(w), NEW j \in SentIn(w), f[id] = f[j] PROVE id = j
  <2>1. id - base + 1 = j - base + 1 /\ id \in Int /\ j \in Int /\ base \in Int
    BY <1>1, <1>3, <1>5
  <2> HIDE DEF base
  <2> QED
    BY <2>1
<1>6. ASSUME NEW i \in places PROVE \E id \in SentIn(w) : f[id] = i
  <2> DEFINE id == i + base - 1
  <2>1. i \in 1 .. (w.next - base) /\ w.queue[i] # None
    BY <1>1, <1>2
  <2>2. id \in base .. (w.next - 1) /\ id - base + 1 = i
    <3>1. ASSUME NEW b \in Nat, NEW n \in Nat, NEW k \in 1 .. (n - b)
          PROVE  (k + b - 1) \in b .. (n - 1) /\ (k + b - 1) - b + 1 = k
      OBVIOUS
    <3>2. base \in Nat /\ w.next \in Nat
      BY <1>1
    <3> HIDE DEF base
    <3> QED
      BY <2>1, <3>1, <3>2
  <2> HIDE DEF base, id
  <2>3. PidToInd(w, id) = i
    BY <1>1, <2>2
  <2>4. id \in SentIn(w)
    BY <2>1, <2>2, <2>3 DEF SentIn, base
  <2> QED
    BY <2>3, <2>4
<1>7. ExistsBijection(SentIn(w), places)
  <2> HIDE DEF f, places
  <2> QED
    BY <1>4, <1>5, <1>6
       DEF ExistsBijection, Bijection, Injection, Surjection, IsInjective
<1>8. IsFiniteSet(SentIn(w))
  <2>1. IsFiniteSet(base .. (w.next - 1))
    <3>1. base \in Int /\ (w.next - 1) \in Int
      BY <1>1
    <3> HIDE DEF base
    <3> QED
      BY <3>1, FS_Interval
  <2> QED
    BY <1>3, <2>1, FS_Subset
<1> HIDE DEF places
<1>9. Cardinality(places) = Cardinality(SentIn(w))
  BY <1>7, <1>8, FS_Bijection
<1> QED
  BY <1>9 DEF InFlight, places

\* A new queue holds nothing.
LEMMA InitQueue == ASSUME PartsInit PROVE SentQueueInv
<1> SUFFICES ASSUME part = "queue"
             PROVE  state \in QueueStates /\ QueueHolds(state)
  BY DEF SentQueueInv
<1> DEFINE w == NewPacketWindow(PacketWindowLen)
<1>1. state = [window |-> w, packing |-> NewVec, packed |-> <<>>,
               sent |-> <<>>, received |-> {}, lost |-> {}]
  BY DEF PartsInit
<1>2. /\ w \in PacketQueues /\ w.next = 0
  <2>1. PacketWindowLen \in Nat
    BY WindowAssumption
  <2>2. w = [queue |-> <<>>, pos |-> PacketWindowLen, next |-> 0, lost |-> 0,
             capacity |-> PacketWindowLen]
    BY DEF NewPacketWindow
  <2>3. <<>> \in Seq(Vecs \cup {None}) /\ Len(<<>>) = 0
    OBVIOUS
  <2> QED
    BY <2>1, <2>2, <2>3 DEF PacketQueues
<1> HIDE DEF w
<1>3. DOMAIN SentOf(w) = {}
  <2>1. \A id \in SentIn(w) : id \in 0 .. (0 - 1)
    BY <1>2, SentInFacts
  <2>2. SentIn(w) = {}
    BY <2>1
  <2> QED
    BY <1>2, <2>2, SentInFacts
<1>4. NewVec \in Vecs /\ AsSlice(NewVec) = <<>>
  BY VecIsTheSequence
<1>5. <<>> \in Seq(Nat) /\ <<>> \in Seq(Seq(Nat)) /\ Len(<<>>) = 0
  OBVIOUS
<1>6. state \in QueueStates
  BY <1>1, <1>2, <1>4, <1>5 DEF QueueStates
<1> QED
  BY <1>1, <1>2, <1>3, <1>4, <1>5, <1>6 DEF QueueHolds

\* Packing an id adds it to the packet that is packed.
LEMMA PackKeepsQueue ==
    ASSUME state \in QueueStates, QueueHolds(state), PackMessage
    PROVE  state' \in QueueStates /\ QueueHolds(state')
<1> DEFINE item == Len(state.sent) + Len(state.packed) + 1
           v == VecPush(state.packing, item)
           ids == Append(state.packed, item)
<1>1. state' = [state EXCEPT !.packing = v, !.packed = ids]
  BY DEF PackMessage
<1>2. /\ state.packing \in Vecs /\ state.packed \in Seq(Nat)
      /\ state.sent \in Seq(Seq(Nat))
  BY DEF QueueStates
<1>3. item \in Nat
  <2>1. Len(state.sent) \in Nat /\ Len(state.packed) \in Nat
    BY <1>2
  <2>2. \A a, b \in Nat : a + b + 1 \in Nat
    OBVIOUS
  <2> QED
    BY <2>1, <2>2
<1> HIDE DEF item
<1>4. /\ v \in Vecs /\ AsSlice(v) = Append(AsSlice(state.packing), item)
      /\ ids \in Seq(Nat)
  <2>1. /\ VecPush(state.packing, item) \in Vecs
        /\ AsSlice(VecPush(state.packing, item)) = Append(AsSlice(state.packing), item)
    BY <1>2, <1>3, VecIsTheSequence
  <2>2. Append(state.packed, item) \in Seq(Nat)
    BY <1>2, <1>3
  <2> QED
    BY <2>1, <2>2
<1> HIDE DEF v
<1>5. /\ state' \in QueueStates
      /\ state'.window = state.window /\ state'.sent = state.sent
      /\ state'.received = state.received /\ state'.lost = state.lost
      /\ state'.packing = v /\ state'.packed = ids
  BY <1>1, <1>4 DEF QueueStates
<1> QED
  BY <1>4, <1>5 DEF QueueHolds

\* Pushing the packet may drop the oldest one, which counts as lost if its
\* entry was still there.
LEMMA PushKeepsQueue ==
    ASSUME state \in QueueStates, QueueHolds(state), PushPacket
    PROVE  state' \in QueueStates /\ QueueHolds(state')
<1> DEFINE w == state.window
           u == PushSentEntry(w, state.packing)
           old == w.next - PacketWindowLen
           gone == IF u.lost > w.lost THEN {old} ELSE {}
           sent == Append(state.sent, state.packed)
<1>1. state' = [window |-> u, packing |-> NewVec, packed |-> <<>>,
                sent |-> sent, received |-> state.received,
                lost |-> state.lost \cup gone]
  BY DEF PushPacket
<1>2. /\ w \in PacketQueues /\ state.packing \in Vecs /\ state.packed \in Seq(Nat)
      /\ state.sent \in Seq(Seq(Nat))
      /\ state.received \in SUBSET Nat /\ state.lost \in SUBSET Nat
  BY DEF QueueStates
<1>3. /\ AsSlice(state.packing) = state.packed /\ Len(state.sent) = w.next
      /\ state.received \cap state.lost = {}
      /\ state.received \cup state.lost \subseteq 0 .. (w.next - 1)
      /\ DOMAIN SentOf(w) = (0 .. (w.next - 1)) \ (state.received \cup state.lost)
      /\ \A id \in DOMAIN SentOf(w) : SentOf(w)[id] = state.sent[id + 1]
  BY DEF QueueHolds
<1>4. /\ u \in PacketQueues /\ u.next = w.next + 1
      /\ SentOf(u) = Pushed(SentOf(w), w.next, state.packed)
      /\ u.lost = IF old \in DOMAIN SentOf(w) THEN w.lost + 1 ELSE w.lost
  BY <1>2, <1>3, QueueOperations
<1>5. /\ w.next \in Nat /\ PacketWindowLen \in Nat /\ PacketWindowLen > 0
      /\ w.lost \in Nat /\ old \in Int
      /\ \A id \in DOMAIN SentOf(w) : id \in 0 .. (w.next - 1) /\ id >= old
  BY <1>2, SentInFacts
<1>6. gone = IF old \in DOMAIN SentOf(w) THEN {old} ELSE {}
  BY <1>4, <1>5
<1>7. DOMAIN SentOf(u) = {q \in DOMAIN SentOf(w) : q > old} \cup {w.next}
  BY <1>4 DEF Pushed
<1>8. \A id \in DOMAIN SentOf(u) :
        SentOf(u)[id] = IF id = w.next THEN state.packed ELSE SentOf(w)[id]
  BY <1>4 DEF Pushed
<1>9. /\ sent \in Seq(Seq(Nat)) /\ Len(sent) = w.next + 1
      /\ sent[w.next + 1] = state.packed
      /\ \A i \in 1 .. w.next : sent[i] = state.sent[i]
  <2>1. ASSUME NEW S, NEW s \in Seq(S), NEW e \in S
        PROVE  /\ Append(s, e) \in Seq(S) /\ Len(Append(s, e)) = Len(s) + 1
               /\ Append(s, e)[Len(s) + 1] = e
               /\ \A i \in 1 .. Len(s) : Append(s, e)[i] = s[i]
    OBVIOUS
  <2> QED
    BY <1>2, <1>3, <2>1
<1> HIDE DEF u, sent, gone, old
<1>10. gone \subseteq 0 .. (w.next - 1) /\ gone \cap state.received = {}
  BY <1>3, <1>5, <1>6
<1>11. 0 .. (u.next - 1) = (0 .. (w.next - 1)) \cup {w.next}
  BY <1>4, <1>5
<1>12. \A id \in DOMAIN SentOf(w) : id > old <=> id \notin gone
  BY <1>5, <1>6
<1>13. DOMAIN SentOf(u) =
          (0 .. (u.next - 1)) \ (state.received \cup (state.lost \cup gone))
  <2>1. w.next \notin 0 .. (w.next - 1)
    BY <1>5
  <2>2. DOMAIN SentOf(u) = (DOMAIN SentOf(w) \ gone) \cup {w.next}
    BY <1>7, <1>12
  <2> QED
    BY <1>3, <1>10, <1>11, <2>1, <2>2
<1>14. ASSUME NEW id \in DOMAIN SentOf(u) PROVE SentOf(u)[id] = sent[id + 1]
  <2>1. CASE id = w.next
    BY <1>8, <1>9, <2>1
  <2>2. CASE id # w.next
    <3>1. id \in DOMAIN SentOf(w) /\ id \in 0 .. (w.next - 1)
      BY <1>5, <1>7, <2>2
    <3>2. id + 1 \in 1 .. w.next
      BY <1>5, <3>1
    <3> QED
      BY <1>3, <1>8, <1>9, <2>2, <3>1, <3>2
  <2> QED
    BY <2>1, <2>2
<1>15. NewVec \in Vecs /\ AsSlice(NewVec) = <<>> /\ <<>> \in Seq(Nat)
  BY VecIsTheSequence
<1>16. state.lost \cup gone \in SUBSET Nat
  <2>1. 0 .. (w.next - 1) \subseteq Nat
    BY <1>5
  <2> QED
    BY <1>2, <1>10, <2>1
<1>17. state' \in QueueStates
  BY <1>1, <1>2, <1>4, <1>9, <1>15, <1>16 DEF QueueStates
<1>18. /\ state.received \cap (state.lost \cup gone) = {}
       /\ state.received \cup (state.lost \cup gone) \subseteq 0 .. (u.next - 1)
  BY <1>3, <1>10, <1>11
<1> QED
  BY <1>1, <1>4, <1>9, <1>13, <1>14, <1>15, <1>17, <1>18 DEF QueueHolds

\* A report takes the packet's entry, if it has one.
LEMMA ReceivedKeepsQueue ==
    ASSUME state \in QueueStates, QueueHolds(state), PacketReceived
    PROVE  state' \in QueueStates /\ QueueHolds(state')
<1> DEFINE w == state.window
<1>1. PICK id \in 0 .. (w.next - 1) :
         state' = [state EXCEPT
             !.window = MarkSentEntry(w, id),
             !.received = state.received \cup
                 IF Entry(w, id) # None THEN {id} ELSE {}]
  BY DEF PacketReceived
<1> DEFINE u == MarkSentEntry(w, id)
           new == IF Entry(w, id) # None THEN {id} ELSE {}
<1>2. /\ w \in PacketQueues /\ state.received \in SUBSET Nat
  BY DEF QueueStates
<1>3. /\ AsSlice(state.packing) = state.packed /\ Len(state.sent) = w.next
      /\ state.received \cap state.lost = {}
      /\ state.received \cup state.lost \subseteq 0 .. (w.next - 1)
      /\ DOMAIN SentOf(w) = (0 .. (w.next - 1)) \ (state.received \cup state.lost)
      /\ \A j \in DOMAIN SentOf(w) : SentOf(w)[j] = state.sent[j + 1]
  BY DEF QueueHolds
<1>4. /\ u \in PacketQueues /\ u.next = w.next
      /\ SentOf(u) = Taken(SentOf(w), id)
      /\ Entry(w, id) # None <=> id \in DOMAIN SentOf(w)
  BY <1>2, QueueOperations
<1>5. id \in Nat
  BY <1>2, SentInFacts
<1>6. new = IF id \in DOMAIN SentOf(w) THEN {id} ELSE {}
  BY <1>4
<1>7. /\ DOMAIN SentOf(u) = DOMAIN SentOf(w) \ {id}
      /\ \A j \in DOMAIN SentOf(u) : SentOf(u)[j] = SentOf(w)[j]
  BY <1>4 DEF Taken, Restrict
<1>8. state.received \cup new \in SUBSET Nat
  BY <1>2, <1>5
<1> HIDE DEF u, new
<1>9. /\ state' \in QueueStates
      /\ state'.window = u /\ state'.received = state.received \cup new
      /\ state'.packing = state.packing /\ state'.packed = state.packed
      /\ state'.sent = state.sent /\ state'.lost = state.lost
  BY <1>1, <1>4, <1>8 DEF QueueStates, u, new
<1>10. /\ (state.received \cup new) \cap state.lost = {}
       /\ (state.received \cup new) \cup state.lost \subseteq 0 .. (w.next - 1)
       /\ DOMAIN SentOf(u) =
            (0 .. (w.next - 1)) \ ((state.received \cup new) \cup state.lost)
  BY <1>3, <1>6, <1>7
<1> QED
  BY <1>3, <1>4, <1>7, <1>9, <1>10 DEF QueueHolds

\* A new poll resets the count of lost packets and nothing else.
LEMMA PollKeepsQueue ==
    ASSUME state \in QueueStates, QueueHolds(state), NewPoll
    PROVE  state' \in QueueStates /\ QueueHolds(state')
<1> DEFINE w == state.window
           u == ResetImmediateStats(w)
<1>1. state' = [state EXCEPT !.window = u]
  BY DEF NewPoll
<1>2. w \in PacketQueues
  BY DEF QueueStates
<1>3. u = [w EXCEPT !.lost = 0]
  BY DEF ResetImmediateStats
<1>4. /\ u \in PacketQueues /\ u.queue = w.queue /\ u.next = w.next
      /\ u.pos = w.pos /\ u.capacity = w.capacity
  BY <1>2, <1>3 DEF PacketQueues
<1>5. SentOf(u) = SentOf(w)
  BY <1>4 DEF SentOf, SentIn, WindowBase, PidToInd
<1> HIDE DEF u
<1>6. /\ state' \in QueueStates
      /\ state'.window = u /\ state'.received = state.received
      /\ state'.packing = state.packing /\ state'.packed = state.packed
      /\ state'.sent = state.sent /\ state'.lost = state.lost
  BY <1>1, <1>4 DEF QueueStates
<1> QED
  BY <1>4, <1>5, <1>6 DEF QueueHolds

\* So every step keeps the invariant of the queue.
LEMMA StepKeepsQueue == ASSUME SentQueueInv, PartsNext PROVE SentQueueInv'
<1> SUFFICES ASSUME part = "queue"
             PROVE  state' \in QueueStates /\ QueueHolds(state')
  <2>1. QueueHolds(state)' <=> QueueHolds(state')
    BY DEF QueueHolds, SentOf, SentIn, WindowBase, PidToInd
  <2>2. QueueStates' = QueueStates
    BY DEF QueueStates, PacketQueues, Vecs
  <2> QED
    BY <2>1, <2>2, StepOfPart DEF SentQueueInv
<1>1. /\ state \in QueueStates /\ QueueHolds(state)
      /\ PackMessage \/ PushPacket \/ PacketReceived \/ NewPoll
  BY StepOfPart DEF SentQueueInv
<1> QED
  BY <1>1, PackKeepsQueue, PushKeepsQueue, ReceivedKeepsQueue, PollKeepsQueue

\* Each packet that was sent is in flight, received or lost and only one of
\* these, and an entry in flight has the ids that were packed into it, for
\* every length of the window and number of ids held in place
\* (src/socket/sender/pwindow.rs, StackVec of src/utils.rs).
THEOREM PacketsCountedOnce == PartsSpec => []PacketsAreCountedOnce
<1>1. SentQueueInv /\ UNCHANGED partsVars => SentQueueInv'
  BY DEF SentQueueInv, partsVars
<1>2. ASSUME SentQueueInv PROVE PacketsAreCountedOnce
  <2> SUFFICES ASSUME part = "queue" PROVE PacketsAreCountedOnce
    BY DEF PacketsAreCountedOnce
  <2> DEFINE w == state.window
             ids == 0 .. (w.next - 1)
             flying == {id \in ids : Entry(w, id) # None}
  <2>1. w \in PacketQueues /\ QueueHolds(state)
    BY <1>2 DEF SentQueueInv, QueueStates
  <2>2. /\ state.received \cap state.lost = {}
        /\ DOMAIN SentOf(w) = ids \ (state.received \cup state.lost)
        /\ \A id \in DOMAIN SentOf(w) : SentOf(w)[id] = state.sent[id + 1]
    BY <2>1 DEF QueueHolds
  <2>3. \A id \in ids :
          /\ id \notin DOMAIN SentOf(w) => Entry(w, id) = None
          /\ id \in DOMAIN SentOf(w) =>
               Entry(w, id) # None /\ AsSlice(Entry(w, id)) = SentOf(w)[id]
    BY <2>1, QueueOperations
  <2>4. flying = DOMAIN SentOf(w)
    BY <2>2, <2>3
  <2>5. InFlight(w) = Cardinality(flying)
    BY <2>1, <2>4, InFlightCounts, SentInFacts
  <2>6. \A id \in flying : AsSlice(Entry(w, id)) = state.sent[id + 1]
    BY <2>2, <2>3, <2>4
  <2> QED
    BY <2>2, <2>4, <2>5, <2>6 DEF PacketsAreCountedOnce
<1> QED
  BY <1>1, <1>2, InitQueue, StepKeepsQueue, PTL DEF PartsSpec

-----------------------------------------------------------------------------
(* Sorting: every sequence has an order in which it ascends *)

\* An order of the places 1 .. k, without a word about its values.
Orders(k) ==
    {p \in [1 .. k -> 1 .. k] :
        /\ \A i, j \in 1 .. k : p[i] = p[j] => i = j
        /\ \A t \in 1 .. k : \E i \in 1 .. k : p[i] = t}

\* The values of s ascend in the order p of their places.
Ascends(s, p, k) == \A i, j \in 1 .. k : i < j => s[p[i]] <= s[p[j]]

\* Where the next value belongs among those that ascend already.
LEMMA InsertOrder ==
    ASSUME NEW n \in Nat, NEW s \in [1 .. n -> Nat], NEW k \in Nat, k < n,
           NEW p \in Orders(k), Ascends(s, p, k)
    PROVE  \E q \in Orders(k + 1) : Ascends(s, q, k + 1)
<1> DEFINE behind == {i \in 1 .. (k + 1) : i = k + 1 \/ s[p[i]] > s[k + 1]}
<1>1. /\ p \in [1 .. k -> 1 .. k]
      /\ \A i, j \in 1 .. k : p[i] = p[j] => i = j
      /\ \A t \in 1 .. k : \E i \in 1 .. k : p[i] = t
      /\ \A i \in 1 .. k : p[i] \in 1 .. k
  BY DEF Orders
<1>2. /\ \A i \in 1 .. k : s[p[i]] \in Nat
      /\ s[k + 1] \in Nat
  <2>1. k + 1 \in 1 .. n /\ \A t \in 1 .. k : t \in 1 .. n
    OBVIOUS
  <2> QED
    BY <1>1, <2>1
<1>3. \A i, j \in 1 .. k : i < j => s[p[i]] <= s[p[j]]
  BY DEF Ascends
<1>a. ASSUME NEW i \in 1 .. k, NEW j \in 1 .. k, i < j
      PROVE  p[i] # p[j] /\ s[p[i]] <= s[p[j]]
  <2>1. i # j
    BY <1>a
  <2> QED
    BY <1>1, <1>3, <1>a, <2>1
<1>4. PICK m \in behind : \A y \in behind : m <= y
  <2>1. behind \subseteq Nat /\ k + 1 \in behind
    OBVIOUS
  <2> HIDE DEF behind
  <2> QED
    BY <2>1, NatLeast
<1>5. /\ m \in 1 .. (k + 1)
      /\ \A i \in 1 .. k : i < m => s[p[i]] <= s[k + 1]
      /\ \A i \in 1 .. k : i >= m => s[k + 1] <= s[p[i]]
  <2>1. m \in 1 .. (k + 1) /\ (m = k + 1 \/ s[p[m]] > s[k + 1])
    OBVIOUS
  <2>2. ASSUME NEW i \in 1 .. k, i < m PROVE s[p[i]] <= s[k + 1]
    <3>1. i \notin behind
      BY <1>4, <2>1, <2>2
    <3>2. i \in 1 .. (k + 1)
      OBVIOUS
    <3>3. ~ (s[p[i]] > s[k + 1])
      BY <3>1, <3>2
    <3> QED
      BY <1>2, <3>3
  <2>3. ASSUME NEW i \in 1 .. k, i >= m PROVE s[k + 1] <= s[p[i]]
    <3>1. m \in 1 .. k /\ s[p[m]] > s[k + 1]
      BY <2>1, <2>3
    <3>2. s[p[m]] <= s[p[i]]
      <4>1. CASE i = m
        BY <1>2, <4>1
      <4>2. CASE i > m
        BY <1>3, <3>1, <4>2
      <4> QED
        BY <2>3, <3>1, <4>1, <4>2
    <3> QED
      BY <1>2, <3>1, <3>2
  <2> QED
    BY <2>1, <2>2, <2>3
<1> HIDE DEF behind
<1> DEFINE q == [i \in 1 .. (k + 1) |-> IF i < m THEN p[i]
                                        ELSE IF i = m THEN k + 1 ELSE p[i - 1]]
<1>6. /\ \A i \in 1 .. (k + 1) : i < m => i \in 1 .. k /\ q[i] = p[i]
      /\ q[m] = k + 1
      /\ \A i \in 1 .. (k + 1) : i > m => i - 1 \in 1 .. k /\ q[i] = p[i - 1]
      /\ q \in [1 .. (k + 1) -> 1 .. (k + 1)]
  <2>1. /\ \A i \in 1 .. (k + 1) : i < m => i \in 1 .. k
        /\ \A i \in 1 .. (k + 1) : i > m => i - 1 \in 1 .. k
    BY <1>5
  <2>2. \A i \in 1 .. (k + 1) : (IF i < m THEN p[i]
                                 ELSE IF i = m THEN k + 1 ELSE p[i - 1]) \in 1 .. (k + 1)
    <3>1. \A t \in 1 .. k : t \in 1 .. (k + 1)
      OBVIOUS
    <3>2. k + 1 \in 1 .. (k + 1)
      OBVIOUS
    <3>3. \A i \in 1 .. (k + 1) : i < m \/ i = m \/ i > m
      BY <1>5
    <3> QED
      BY <1>1, <2>1, <3>1, <3>2, <3>3
  <2> QED
    BY <1>5, <2>1, <2>2
<1> HIDE DEF q
<1>7. ASSUME NEW i \in 1 .. (k + 1), NEW j \in 1 .. (k + 1), i < j
      PROVE  q[i] # q[j] /\ s[q[i]] <= s[q[j]]
  <2>0. i \in Nat /\ j \in Nat /\ m \in Nat /\ k \in Nat /\ i <= k + 1 /\ j <= k + 1
    BY <1>5
  <2>1. CASE j < m
    <3>1. i < m
      BY <1>7, <2>0, <2>1
    <3>2. i \in 1 .. k /\ q[i] = p[i] /\ j \in 1 .. k /\ q[j] = p[j]
      BY <1>6, <2>1, <3>1
    <3> QED
      BY <1>7, <1>a, <3>2
  <2>2. CASE j = m
    <3>1. i < m /\ i \in 1 .. k /\ q[i] = p[i] /\ p[i] \in 1 .. k
      BY <1>1, <1>6, <1>7, <2>2
    <3>2. p[i] # k + 1
      BY <3>1
    <3> QED
      BY <1>5, <1>6, <2>2, <3>1, <3>2
  <2>3. CASE j > m /\ i = m
    <3>1. j - 1 \in 1 .. k /\ q[j] = p[j - 1]
      BY <1>6, <2>3
    <3>2. j - 1 >= m
      BY <2>0, <2>3
    <3>3. p[j - 1] \in 1 .. k
      BY <1>1, <3>1
    <3>4. p[j - 1] # k + 1
      BY <3>3
    <3> QED
      BY <1>5, <1>6, <2>3, <3>1, <3>2, <3>4
  <2>4. CASE j > m /\ i < m
    <3>1. j - 1 \in 1 .. k /\ q[j] = p[j - 1] /\ i \in 1 .. k /\ q[i] = p[i]
      BY <1>6, <2>4
    <3>2. i < j - 1
      BY <2>0, <2>4
    <3> QED
      BY <1>a, <3>1, <3>2
  <2>5. CASE j > m /\ i > m
    <3>1. /\ j - 1 \in 1 .. k /\ q[j] = p[j - 1]
          /\ i - 1 \in 1 .. k /\ q[i] = p[i - 1]
      BY <1>6, <2>5
    <3>2. i - 1 < j - 1
      BY <1>7, <2>0
    <3> QED
      BY <1>a, <3>1, <3>2
  <2>6. j < m \/ j = m \/ (j > m /\ i = m) \/ (j > m /\ i < m) \/ (j > m /\ i > m)
    BY <2>0
  <2> QED
    BY <2>1, <2>2, <2>3, <2>4, <2>5, <2>6
<1>8. \A i, j \in 1 .. (k + 1) : q[i] = q[j] => i = j
  <2>1. \A i, j \in 1 .. (k + 1) : i < j \/ i = j \/ j < i
    OBVIOUS
  <2> QED
    BY <1>7, <2>1
<1>9. ASSUME NEW t \in 1 .. (k + 1) PROVE \E i \in 1 .. (k + 1) : q[i] = t
  <2>1. CASE t = k + 1
    BY <1>5, <1>6, <2>1
  <2>2. CASE t # k + 1
    <3>1. PICK i \in 1 .. k : p[i] = t
      <4>1. t \in 1 .. k
        BY <2>2
      <4> QED
        BY <1>1, <4>1
    <3>2. CASE i < m
      <4>1. i \in 1 .. (k + 1)
        OBVIOUS
      <4> QED
        BY <1>6, <3>1, <3>2, <4>1
    <3>3. CASE i >= m
      <4>1. i + 1 \in 1 .. (k + 1) /\ i + 1 > m /\ (i + 1) - 1 = i
        BY <1>5, <3>3
      <4> QED
        BY <1>6, <3>1, <4>1
    <3> QED
      BY <1>5, <3>2, <3>3
  <2> QED
    BY <2>1, <2>2
<1>10. q \in Orders(k + 1)
  BY <1>6, <1>8, <1>9 DEF Orders
<1>11. Ascends(s, q, k + 1)
  BY <1>7 DEF Ascends
<1> QED
  BY <1>10, <1>11

\* Every sequence of numbers ascends in some order, by insertion.
LEMMA AscendingOrder ==
    ASSUME NEW n \in Nat, NEW s \in [1 .. n -> Nat]
    PROVE  \E p \in Orders(n) : Ascends(s, p, n)
<1> DEFINE Bad == {k \in 0 .. n : ~ \E p \in Orders(k) : Ascends(s, p, k)}
<1>1. Bad = {}
  <2> SUFFICES ASSUME Bad # {} PROVE FALSE
    OBVIOUS
  <2>1. PICK k \in Bad : \A y \in Bad : k <= y
    <3>1. Bad \subseteq Nat
      OBVIOUS
    <3> HIDE DEF Bad
    <3> QED
      BY <3>1, NatLeast
  <2>2. k # 0
    <3>1. CASE k = 0
      <4> DEFINE p == [i \in 1 .. 0 |-> i]
      <4>1. p \in Orders(0) /\ Ascends(s, p, 0)
        BY DEF Orders, Ascends
      <4> QED
        BY <3>1, <4>1
    <3> QED
      BY <3>1
  <2>3. k - 1 \in Nat /\ k - 1 < n /\ k - 1 \in 0 .. n /\ (k - 1) + 1 = k /\ k - 1 < k
    BY <2>2
  <2>4. PICK p \in Orders(k - 1) : Ascends(s, p, k - 1)
    BY <2>1, <2>3
  <2>5. \E q \in Orders((k - 1) + 1) : Ascends(s, q, (k - 1) + 1)
    BY <2>3, <2>4, InsertOrder
  <2>6. \E q \in Orders(k) : Ascends(s, q, k)
    BY <2>3, <2>5
  <2> QED
    BY <2>6
<1>2. n \in 0 .. n
  OBVIOUS
<1> QED
  BY <1>1, <1>2

\* The orders are the bijections that Sorted chooses from.
LEMMA OrdersAreBijections ==
    ASSUME NEW k \in Nat
    PROVE  Orders(k) = Bijection(1 .. k, 1 .. k)
BY DEF Orders, Bijection, Injection, Surjection, IsInjective

\* So there is what Sorted chooses.
LEMMA SortedFacts ==
    ASSUME NEW S, S \subseteq Nat, NEW s \in Seq(S)
    PROVE  /\ Sorted(s) \in Seq(S) /\ Len(Sorted(s)) = Len(s)
           /\ \E p \in Orders(Len(s)) :
                \A i \in 1 .. Len(s) : Sorted(s)[i] = s[p[i]]
           /\ \A i, j \in 1 .. Len(s) : i < j => Sorted(s)[i] <= Sorted(s)[j]
<1> DEFINE n == Len(s)
           Of(p) == [i \in 1 .. n |-> s[p[i]]]
           Good(t) == \A i, j \in DOMAIN t : i < j => t[i] <= t[j]
           All == {Of(p) : p \in Orders(n)}
<1>1. /\ n \in Nat /\ DOMAIN s = 1 .. n /\ s \in [1 .. n -> S]
      /\ \A i \in 1 .. n : s[i] \in S
  OBVIOUS
<1>2. Sorted(s) = CHOOSE t \in All : Good(t)
  <2>1. Orders(n) = Bijection(DOMAIN s, DOMAIN s)
    <3> HIDE DEF n
    <3> QED
      BY <1>1, OrdersAreBijections
  <2>2. Sorted(s) = CHOOSE t \in {[i \in DOMAIN s |-> s[p[i]]] :
                                      p \in Bijection(DOMAIN s, DOMAIN s)} : Good(t)
    BY DEF Sorted
  <2>3. All = {[i \in DOMAIN s |-> s[p[i]]] : p \in Bijection(DOMAIN s, DOMAIN s)}
    BY <1>1, <2>1
  <2> HIDE DEF All, Good
  <2> QED
    BY <2>2, <2>3
<1>3. \E t \in All : Good(t)
  <2>1. PICK p \in Orders(n) : Ascends(s, p, n)
    <3> HIDE DEF n
    <3>1. s \in [1 .. n -> Nat]
      BY <1>1
    <3> QED
      BY <1>1, <3>1, AscendingOrder
  <2>2. Good(Of(p))
    BY <2>1 DEF Ascends
  <2> QED
    BY <2>2
<1>4. Sorted(s) \in All /\ Good(Sorted(s))
  <2> HIDE DEF All, Good
  <2> QED
    BY <1>2, <1>3
<1>5. PICK p \in Orders(n) : Sorted(s) = Of(p)
  BY <1>4
<1>6. \A i \in 1 .. n : p[i] \in 1 .. n
  BY DEF Orders
<1>7. Of(p) \in [1 .. n -> S]
  BY <1>1, <1>6
<1>8. /\ Sorted(s) \in Seq(S) /\ Len(Sorted(s)) = n /\ DOMAIN Sorted(s) = 1 .. n
  <2> HIDE DEF Of, n
  <2> QED
    BY <1>1, <1>5, <1>7
<1>9. \A i \in 1 .. n : Sorted(s)[i] = s[p[i]]
  BY <1>5
<1>10. \A i, j \in 1 .. n : i < j => Sorted(s)[i] <= Sorted(s)[j]
  BY <1>4, <1>8
<1> QED
  BY <1>8, <1>9, <1>10

-----------------------------------------------------------------------------
(* Ranks *)

\* The value at a place of the sorted sequence has that rank.
LEMMA SortedRanks ==
    ASSUME NEW S, S \subseteq Nat, NEW s \in Seq(S), NEW r \in 1 .. Len(s)
    PROVE  LET t == Sorted(s)[r] IN
           /\ t \in S
           /\ Cardinality({i \in DOMAIN s : s[i] < t}) < r
           /\ r <= Cardinality({i \in DOMAIN s : s[i] <= t})
<1> DEFINE n == Len(s)
           t == Sorted(s)[r]
           below == {i \in 1 .. n : s[i] < t}
           upto == {i \in 1 .. n : s[i] <= t}
<1>1. n \in Nat /\ DOMAIN s = 1 .. n /\ \A i \in 1 .. n : s[i] \in Nat
  <2>1. n \in Nat /\ DOMAIN s = 1 .. n /\ \A i \in 1 .. n : s[i] \in S
    OBVIOUS
  <2> QED
    BY <2>1
<1>2. PICK p \in Orders(n) : \A i \in 1 .. n : Sorted(s)[i] = s[p[i]]
  BY SortedFacts
<1>3. /\ \A i \in 1 .. n : p[i] \in 1 .. n
      /\ \A i, j \in 1 .. n : p[i] = p[j] => i = j
      /\ \A k \in 1 .. n : \E i \in 1 .. n : p[i] = k
  BY DEF Orders
<1>4. \A i, j \in 1 .. n : i < j => s[p[i]] <= s[p[j]]
  <2>1. \A i, j \in 1 .. n : i < j => Sorted(s)[i] <= Sorted(s)[j]
    BY SortedFacts
  <2> HIDE DEF n
  <2> QED
    BY <1>2, <2>1
<1>5. t = s[p[r]] /\ t \in S /\ t \in Nat
  <2>1. t = s[p[r]] /\ p[r] \in 1 .. n
    BY <1>2, <1>3
  <2>2. \A i \in 1 .. n : s[i] \in S
    OBVIOUS
  <2> QED
    BY <1>1, <2>1, <2>2
<1> HIDE DEF t, n
<1>6. r \in 1 .. n
  BY DEF n
<1>7. IsFiniteSet(below) /\ Cardinality(below) <= r - 1
  <2> DEFINE front == {i \in 1 .. n : s[p[i]] < t}
             f == [i \in front |-> p[i]]
  <2>1. front \subseteq 1 .. (r - 1)
    <3>1. ASSUME NEW i \in front PROVE i < r
      <4>1. i \in 1 .. n /\ s[p[i]] < s[p[r]]
        BY <1>5
      <4>2. s[p[i]] \in Nat /\ s[p[r]] \in Nat
        BY <1>1, <1>3, <1>6, <4>1
      <4>3. i # r
        BY <4>1, <4>2
      <4>4. ~ (r < i)
        <5>1. r < i => s[p[r]] <= s[p[i]]
          BY <1>4, <1>6, <4>1
        <5> QED
          BY <4>1, <4>2, <5>1
      <4>5. i \in Nat /\ r \in Nat
        BY <1>6, <4>1
      <4> QED
        BY <4>3, <4>4, <4>5
    <3> QED
      BY <1>1, <1>6, <3>1
  <2>2. IsFiniteSet(1 .. (r - 1)) /\ Cardinality(1 .. (r - 1)) = r - 1
    <3>1. 1 \in Int /\ r - 1 \in Int /\ r >= 1
      BY <1>6
    <3>2. /\ IsFiniteSet(1 .. (r - 1))
          /\ Cardinality(1 .. (r - 1)) = IF 1 > r - 1 THEN 0 ELSE (r - 1) - 1 + 1
      BY <3>1, FS_Interval
    <3> QED
      BY <3>1, <3>2
  <2>3. IsFiniteSet(front) /\ Cardinality(front) <= r - 1
    <3> HIDE DEF front
    <3>1. /\ IsFiniteSet(front)
          /\ Cardinality(front) <= Cardinality(1 .. (r - 1))
      <4>1. front \in SUBSET (1 .. (r - 1))
        BY <2>1
      <4> QED
        BY <2>2, <4>1, FS_Subset
    <3> QED
      BY <2>2, <3>1
  <2>4. f \in Surjection(front, below)
    <3>1. \A i \in front : p[i] \in below
      BY <1>3
    <3>2. ASSUME NEW k \in below PROVE \E i \in front : p[i] = k
      <4>1. k \in 1 .. n /\ s[k] < t
        OBVIOUS
      <4>2. PICK i \in 1 .. n : p[i] = k
        BY <1>3, <4>1
      <4> QED
        BY <4>1, <4>2
    <3> HIDE DEF front, below
    <3> QED
      BY <3>1, <3>2 DEF Surjection
  <2> HIDE DEF front, below, f
  <2>5. IsFiniteSet(below) /\ Cardinality(below) <= Cardinality(front)
    BY <2>3, <2>4, FS_Surjection
  <2>6. Cardinality(below) \in Nat /\ Cardinality(front) \in Nat
    BY <2>3, <2>5, FS_CardinalityType
  <2> QED
    BY <1>6, <2>3, <2>5, <2>6
<1>8. Cardinality(upto) \in Nat /\ r <= Cardinality(upto)
  <2> DEFINE f == [i \in 1 .. r |-> p[i]]
  <2>1. IsFiniteSet(1 .. n)
    BY <1>1, FS_Interval
  <2>2. IsFiniteSet(upto)
    BY <2>1, FS_Subset
  <2>3. \A i \in 1 .. r : i \in 1 .. n
    BY <1>1, <1>6
  <2>4. \A i \in 1 .. r : p[i] \in upto
    <3>1. ASSUME NEW i \in 1 .. r PROVE s[p[i]] <= s[p[r]]
      <4>0. s[p[i]] \in Nat /\ s[p[r]] \in Nat /\ i \in Nat /\ r \in Nat
        <5>1. i \in 1 .. n /\ r \in 1 .. n /\ i \in Nat /\ r \in Nat
          BY <1>1, <1>6, <2>3
        <5>2. p[i] \in 1 .. n /\ p[r] \in 1 .. n
          BY <1>3, <5>1
        <5> QED
          BY <1>1, <5>1, <5>2
      <4>1. CASE i = r
        BY <4>0, <4>1
      <4>2. CASE i < r
        BY <1>4, <1>6, <2>3, <4>2
      <4> QED
        BY <4>0, <4>1, <4>2
    <3> QED
      BY <1>3, <1>5, <2>3, <3>1
  <2>5. f \in Injection(1 .. r, upto)
    <3> HIDE DEF upto
    <3> QED
      BY <1>3, <2>3, <2>4 DEF Injection, IsInjective
  <2>6. Cardinality(1 .. r) = r
    <3>1. 1 \in Int /\ r \in Int /\ r >= 1
      BY <1>6
    <3>2. Cardinality(1 .. r) = IF 1 > r THEN 0 ELSE r - 1 + 1
      BY <3>1, FS_Interval
    <3> QED
      BY <3>1, <3>2
  <2> HIDE DEF f, upto
  <2>7. Cardinality(1 .. r) <= Cardinality(upto)
    BY <2>2, <2>5, FS_Injection
  <2> QED
    BY <2>2, <2>6, <2>7, FS_CardinalityType
<1>9. Cardinality(below) < r
  <2>1. Cardinality(below) \in Nat
    BY <1>7, FS_CardinalityType
  <2> HIDE DEF below
  <2> QED
    BY <1>6, <1>7, <2>1
<1> QED
  BY <1>1, <1>5, <1>8, <1>9 DEF t, n

-----------------------------------------------------------------------------
(* The record of round trip times *)

\* How many records the history has turned out.
Dropped(n) == IF n <= HistoryLen THEN 0 ELSE n - HistoryLen

\* One more record drops the oldest once the history is full.
LEMMA DroppedFacts ==
    ASSUME NEW n \in Nat
    PROVE  /\ HistoryLen \in Nat /\ HistoryLen > 0
           /\ Dropped(n) \in 0 .. n
           /\ n > 0 => Dropped(n) < n
           /\ Max({1, n - HistoryLen + 1}) = Dropped(n) + 1
           /\ Dropped(n + 1) = IF n - Dropped(n) = HistoryLen
                               THEN Dropped(n) + 1 ELSE Dropped(n)
<1>1. HistoryLen \in Nat /\ HistoryLen > 0
  BY RoundTripAssumption
<1>2. Max({1, n - HistoryLen + 1}) = Dropped(n) + 1
  <2> DEFINE S == {1, n - HistoryLen + 1}
             m == Dropped(n) + 1
  <2>1. m \in S /\ \A y \in S : m >= y
    BY <1>1 DEF Dropped
  <2>2. \A x \in S : (\A y \in S : x >= y) => x = m
    BY <1>1 DEF Dropped
  <2> HIDE DEF S, m
  <2>3. Max(S) = m
    BY <2>1, <2>2 DEF Max
  <2> QED
    BY <2>3 DEF S, m
<1> QED
  BY <1>1, <1>2 DEF Dropped

\* The history is the end of what was recorded.
TripsInv ==
    part = "trips" =>
        /\ state \in [trips : [rtt : Times, hist : Seq(Times), sorted : Seq(Times),
                               next : Nat],
                      recorded : Seq(Times)]
        /\ state.trips.hist = SubSeq(state.recorded, Dropped(Len(state.recorded)) + 1,
                                     Len(state.recorded))
        /\ IF state.recorded = <<>> THEN state.trips.sorted = <<>>
           ELSE state.trips.sorted = Sorted(state.trips.hist)

\* Pushing into a full Circular keeps the last values pushed.
LEMMA CircularKeepsLast ==
    ASSUME NEW s \in Seq(Times), NEW t \in Times
    PROVE  CircularPush(SubSeq(s, Dropped(Len(s)) + 1, Len(s)), t)
             = SubSeq(Append(s, t), Dropped(Len(s) + 1) + 1, Len(s) + 1)
<1> DEFINE n == Len(s)
           k == Dropped(n)
           hist == SubSeq(s, k + 1, n)
           u == Append(s, t)
<1>0. n \in Nat
  OBVIOUS
<1>1. /\ n \in Nat /\ k \in 0 .. n /\ (n > 0 => k < n)
      /\ HistoryLen \in Nat /\ HistoryLen > 0
      /\ Dropped(n + 1) = IF n - k = HistoryLen THEN k + 1 ELSE k
  BY <1>0, DroppedFacts
<1>2. hist \in Seq(Times) /\ Len(hist) = n - k
  BY <1>1, SuffixFacts
<1>3. u \in Seq(Times) /\ Len(u) = n + 1
  OBVIOUS
<1> HIDE DEF k
<1>4. SubSeq(u, k + 1, n + 1) = Append(hist, t)
  BY <1>1, SuffixGrows
<1>5. CASE n - k # HistoryLen
  <2>1. CircularPush(hist, t) = Append(hist, t)
    BY <1>2, <1>5 DEF CircularPush
  <2> QED
    BY <1>1, <1>4, <1>5, <2>1 DEF k
<1>6. CASE n - k = HistoryLen
  <2>1. CircularPush(hist, t) = Append(Tail(hist), t)
    BY <1>2, <1>6 DEF CircularPush
  <2>2. k \in 0 .. (n - 1) /\ k + 1 \in 0 .. n /\ (k + 1) + 1 = k + 2
    BY <1>1, <1>6
  <2>3. Tail(hist) = SubSeq(s, k + 2, n)
    BY <2>2, SuffixShrinks
  <2>4. SubSeq(u, (k + 1) + 1, n + 1) = Append(SubSeq(s, (k + 1) + 1, n), t)
    BY <2>2, SuffixGrows
  <2> QED
    BY <1>1, <1>6, <2>1, <2>2, <2>3, <2>4 DEF k
<1> QED
  BY <1>5, <1>6

\* A new record holds nothing.
LEMMA InitTrips == ASSUME PartsInit PROVE TripsInv
<1> SUFFICES ASSUME part = "trips" PROVE TripsInv
  BY DEF TripsInv
<1>1. PICK t \in Times : state = [trips |-> NewRoundTrips(t), recorded |-> <<>>]
  BY DEF PartsInit
<1>2. /\ state.recorded = <<>>
      /\ state.trips = [rtt |-> t, hist |-> <<>>, sorted |-> <<>>, next |-> 0]
  BY <1>1 DEF NewRoundTrips
<1>3. /\ <<>> \in Seq(Times) /\ Len(<<>>) = 0 /\ 0 \in Nat
      /\ SubSeq(<<>>, Dropped(0) + 1, 0) = <<>>
  <2>1. Dropped(0) = 0
    BY RoundTripAssumption DEF Dropped
  <2> QED
    BY <2>1
<1> QED
  BY <1>1, <1>2, <1>3 DEF TripsInv, NewRoundTrips

\* Pushes and updates keep the history the end of what was recorded.
LEMMA StepKeepsTrips == ASSUME TripsInv, PartsNext PROVE TripsInv'
<1> DEFINE Trips == [rtt : Times, hist : Seq(Times), sorted : Seq(Times), next : Nat]
<1> SUFFICES ASSUME part = "trips"
             PROVE  /\ state' \in [trips : Trips, recorded : Seq(Times)]
                    /\ state'.trips.hist =
                         SubSeq(state'.recorded, Dropped(Len(state'.recorded)) + 1,
                                Len(state'.recorded))
                    /\ IF state'.recorded = <<>> THEN state'.trips.sorted = <<>>
                       ELSE state'.trips.sorted = Sorted(state'.trips.hist)
  BY StepOfPart DEF TripsInv
<1> DEFINE r == state.trips
           s == state.recorded
<1>1. /\ PushRoundTrip \/ UpdateRoundTrips
      /\ state \in [trips : Trips, recorded : Seq(Times)]
      /\ r \in Trips /\ s \in Seq(Times)
      /\ r.hist = SubSeq(s, Dropped(Len(s)) + 1, Len(s))
      /\ IF s = <<>> THEN r.sorted = <<>> ELSE r.sorted = Sorted(r.hist)
  BY StepOfPart DEF TripsInv
<1>2. CASE PushRoundTrip
  <2>1. PICK t \in Times : state' = [state EXCEPT !.trips.rtt = t]
    BY <1>2 DEF PushRoundTrip
  <2>2. /\ state' \in [trips : Trips, recorded : Seq(Times)]
        /\ state'.recorded = s
        /\ state'.trips.hist = r.hist /\ state'.trips.sorted = r.sorted
    BY <1>1, <2>1
  <2> QED
    BY <1>1, <2>2
<1>3. CASE UpdateRoundTrips
  <2>1. PICK delta \in Deltas :
          state' = [trips |-> Update(r, delta),
                    recorded |-> IF r.next <= delta THEN Append(s, r.rtt) ELSE s]
    BY <1>3 DEF UpdateRoundTrips
  <2>2. delta \in Nat /\ Times \subseteq Nat
    BY PartsAssumption
  <2>3. CASE r.next <= delta
    <3> DEFINE h == CircularPush(r.hist, r.rtt)
               u == Append(s, r.rtt)
    <3>1. /\ u \in Seq(Times) /\ u # <<>> /\ Len(u) = Len(s) + 1
      BY <1>1
    <3>2. h = SubSeq(u, Dropped(Len(u)) + 1, Len(u))
      BY <1>1, <3>1, CircularKeepsLast
    <3>3. h \in Seq(Times)
      <4>1. /\ Len(u) \in Nat /\ Dropped(Len(u)) \in 0 .. Len(u)
        <5>1. Len(u) \in Nat
          BY <3>1
        <5> QED
          BY <5>1, DroppedFacts
      <4> HIDE DEF h, u
      <4> QED
        BY <3>1, <3>2, <4>1, SuffixFacts
    <3>4. Sorted(h) \in Seq(Times)
      <4> HIDE DEF h
      <4> QED
        BY <2>2, <3>3, SortedFacts
    <3>5. Update(r, delta) = [[r EXCEPT !.hist = h, !.sorted = Sorted(h)]
                                EXCEPT !.next = RecordFreq]
      BY <2>3 DEF Update, RecordRtt
    <3>6. RecordFreq \in Nat
      BY RoundTripAssumption
    <3> DEFINE v == [[r EXCEPT !.hist = h, !.sorted = Sorted(h)] EXCEPT !.next = RecordFreq]
    <3>7. v \in Trips /\ v.hist = h /\ v.sorted = Sorted(h)
      <4> HIDE DEF h
      <4> QED
        BY <1>1, <3>3, <3>4, <3>6
    <3>8. state' = [trips |-> v, recorded |-> u]
      BY <2>1, <2>3, <3>5
    <3> HIDE DEF v, h, u
    <3> QED
      BY <3>1, <3>2, <3>7, <3>8
  <2>4. CASE ~ (r.next <= delta)
    <3> DEFINE v == [r EXCEPT !.next = r.next - delta]
    <3>1. r.next \in Nat /\ r.next - delta \in Nat
      BY <1>1, <2>2, <2>4
    <3>2. v \in Trips /\ v.hist = r.hist /\ v.sorted = r.sorted
      BY <1>1, <3>1
    <3>3. Update(r, delta) = v
      BY <2>4 DEF Update
    <3>4. state' = [trips |-> v, recorded |-> s]
      BY <2>1, <2>4, <3>3
    <3> HIDE DEF v
    <3> QED
      BY <1>1, <3>2, <3>4
  <2> QED
    BY <2>3, <2>4
<1> QED
  BY <1>1, <1>2, <1>3

\* The two places in the middle of n places, and that they are places.
LEMMA MiddleFacts ==
    ASSUME NEW n \in Nat, n > 0
    PROVE  /\ (n + 1) \div 2 \in 1 .. n /\ n \div 2 + 1 \in 1 .. n
           /\ n % 2 = 1 => (n + 1) \div 2 = n \div 2 + 1
           /\ n % 2 # 1 => (n + 1) \div 2 = (n - 1) \div 2 + 1
OBVIOUS

\* The median of the round trip times is the middle of the last ones recorded,
\* for every length of the history, any times and however many records
\* (src/socket/stats.rs, Circular of src/utils.rs).
THEOREM MedianIsMiddle == PartsSpec => []MedianIsTheMiddle
<1>1. TripsInv /\ UNCHANGED partsVars => TripsInv'
  BY DEF TripsInv, partsVars
<1>2. ASSUME TripsInv PROVE MedianIsTheMiddle
  <2> SUFFICES ASSUME part = "trips" PROVE MedianIsTheMiddle
    BY DEF MedianIsTheMiddle
  <2> DEFINE r == state.trips
             s == state.recorded
             n == Len(s)
             last == SubSeq(s, Max({1, n - HistoryLen + 1}), n)
             Below(t) == Cardinality({i \in DOMAIN last : last[i] < t})
             UpTo(t)  == Cardinality({i \in DOMAIN last : last[i] <= t})
             Ranked(t, rank) == Below(t) < rank /\ rank <= UpTo(t)
  <2>1. /\ r.rtt \in Times /\ r.hist \in Seq(Times) /\ r.sorted \in Seq(Times)
        /\ s \in Seq(Times) /\ n \in Nat
        /\ r.hist = SubSeq(s, Dropped(n) + 1, n)
        /\ IF s = <<>> THEN r.sorted = <<>> ELSE r.sorted = Sorted(r.hist)
        /\ Times \subseteq Nat
    BY <1>2, PartsAssumption DEF TripsInv
  <2>2. /\ Dropped(n) \in 0 .. n /\ (n > 0 => Dropped(n) < n)
        /\ last = r.hist
    BY <2>1, DroppedFacts
  <2>3. Len(last) = n - Dropped(n)
    <3>1. Len(SubSeq(s, Dropped(n) + 1, Len(s))) = Len(s) - Dropped(n)
      BY <2>1, <2>2, SuffixFacts
    <3>2. last = SubSeq(s, Dropped(n) + 1, Len(s))
      BY <2>1, <2>2
    <3> QED
      BY <3>1, <3>2
  <2>4. CASE n = 0
    <3>1. Median2(r) = 2 * r.rtt
      <4>1. s = <<>>
        <5>1. \A q \in Seq(Times) : Len(q) = 0 => q = <<>>
          OBVIOUS
        <5> QED
          BY <2>1, <2>4, <5>1
      <4>2. r.sorted = <<>> /\ Len(<<>>) = 0
        BY <2>1, <4>1
      <4> QED
        BY <4>2 DEF Median2
    <3> QED
      BY <2>4, <3>1 DEF MedianIsTheMiddle
  <2>5. CASE n # 0
    <3> DEFINE m == Len(last)
    <3>1. m \in Nat /\ m > 0 /\ s # <<>>
      <4>1. n > 0
        BY <2>1, <2>5
      <4> HIDE DEF n, last
      <4>2. m \in Nat /\ m > 0
        BY <2>1, <2>2, <2>3, <4>1
      <4> QED
        BY <4>1, <4>2 DEF n
    <3>2. /\ r.sorted = Sorted(last) /\ Len(r.sorted) = m
          /\ last \in Seq(Times)
      <4> HIDE DEF last
      <4>1. last \in Seq(Times) /\ r.sorted = Sorted(last)
        BY <2>1, <2>2, <3>1
      <4> QED
        BY <2>1, <4>1, SortedFacts
    <3>3. ASSUME NEW k \in 1 .. m
          PROVE  r.sorted[k] \in Times /\ Ranked(r.sorted[k], k)
      <4> HIDE DEF last
      <4> QED
        BY <2>1, <3>2, SortedRanks
    <3> HIDE DEF last, Ranked
    <3> DEFINE i == (m + 1) \div 2
               j == m \div 2 + 1
    <3>4. /\ i \in 1 .. m /\ j \in 1 .. m
          /\ m % 2 = 1 => i = j
          /\ m % 2 # 1 => i = (m - 1) \div 2 + 1
      <4> HIDE DEF m
      <4> QED
        BY <3>1, MiddleFacts
    <3>5. Median2(r) = r.sorted[i] + r.sorted[j]
      <4>1. r.sorted[j] \in Nat
        BY <2>1, <3>3, <3>4
      <4>2. CASE m % 2 = 1
        <5>1. Median2(r) = 2 * r.sorted[j]
          BY <3>1, <3>2, <4>2 DEF Median2
        <5>2. i = j
          BY <3>4, <4>2
        <5> HIDE DEF i, j
        <5> QED
          BY <4>1, <5>1, <5>2
      <4>3. CASE m % 2 # 1
        BY <3>1, <3>2, <3>4, <4>3 DEF Median2
      <4> QED
        BY <4>2, <4>3
    <3> HIDE DEF i, j
    <3>6. \E a, b \in Times :
            /\ Ranked(a, i) /\ Ranked(b, j)
            /\ Median2(r) = a + b
      BY <3>3, <3>4, <3>5
    <3> QED
      BY <2>5, <3>6 DEF MedianIsTheMiddle, Ranked, last, i, j
  <2> QED
    BY <2>4, <2>5
<1> QED
  BY <1>1, <1>2, InitTrips, StepKeepsTrips, PTL DEF PartsSpec

-----------------------------------------------------------------------------
(* Words as sets of the places of their ones *)

\* The words of the checksum's width.
Words == SUBSET (0 .. (CrcBits - 1))

\* A checksum has at least one chunk, and its highest bit has a place.
LEMMA WidthFacts ==
    /\ ChunkBits \in Nat /\ CrcBits \in Nat /\ 0 < ChunkBits /\ ChunkBits <= CrcBits
    /\ SigLen \in Nat /\ SigLen > 0 /\ CrcBits = ChunkBits * SigLen
    /\ Generator \in Words /\ CrcBits - 1 \in Generator
    /\ CrcInit \in Words /\ Chunks \subseteq Words
<1>1. /\ ChunkBits \in Nat /\ CrcBits \in Nat /\ 0 < ChunkBits /\ 0 < CrcBits
      /\ CrcBits % ChunkBits = 0
      /\ Generator \in Words /\ CrcBits - 1 \in Generator
  BY ChecksumAssumption DEF Words
<1>2. SigLen \in Nat /\ CrcBits = ChunkBits * SigLen /\ SigLen > 0
  <2>1. ASSUME NEW n \in Nat, NEW m \in Nat, 0 < m, 0 < n, n % m = 0
        PROVE  n \div m \in Nat /\ n = m * (n \div m) /\ n \div m > 0
    BY <2>1
  <2> QED
    BY <1>1, <2>1 DEF SigLen
<1>3. ChunkBits <= CrcBits
  <2>1. ASSUME NEW n \in Nat, NEW m \in Nat, NEW k \in Nat, n = m * k, k > 0
        PROVE  m <= n
    BY <2>1
  <2> QED
    BY <1>1, <1>2, <2>1
<1>4. 0 .. (ChunkBits - 1) \subseteq 0 .. (CrcBits - 1)
  BY <1>1, <1>3
<1> QED
  BY <1>1, <1>2, <1>3, <1>4 DEF Words, CrcInit, Chunks

\* Exclusive or, place by place.
LEMMA XorFacts ==
    ASSUME NEW a \in Words, NEW b \in Words
    PROVE  /\ Xor(a, b) \in Words
           /\ \A x : x \in Xor(a, b) <=> ~ (x \in a <=> x \in b)
BY DEF Xor, Words

\* Exclusive or with one word tells words apart.
LEMMA XorCancels ==
    ASSUME NEW a, NEW b, NEW c, Xor(a, c) = Xor(b, c) \/ Xor(c, a) = Xor(c, b)
    PROVE  a = b
BY DEF Xor

\* A word moved down, place by place.
LEMMA ShiftDownFacts ==
    ASSUME NEW w \in Words, NEW by \in Nat
    PROVE  /\ ShiftDown(w, by) \in Words
           /\ \A x \in Nat : x \in ShiftDown(w, by) <=> x + by \in w
           /\ by > 0 => CrcBits - 1 \notin ShiftDown(w, by)
<1>1. CrcBits \in Nat /\ w \subseteq 0 .. (CrcBits - 1)
  BY WidthFacts DEF Words
<1>2. ASSUME NEW x \in ShiftDown(w, by)
      PROVE  x \in 0 .. (CrcBits - 1) /\ x + by \in w /\ (by > 0 => x # CrcBits - 1)
  <2>1. PICK c \in w : c >= by /\ x = c - by
    BY DEF ShiftDown
  <2> QED
    BY <1>1, <2>1
<1>3. ASSUME NEW x \in Nat, x + by \in w
      PROVE  x \in ShiftDown(w, by)
  <2>1. x + by >= by /\ x = (x + by) - by
    OBVIOUS
  <2> QED
    BY <1>3, <2>1 DEF ShiftDown
<1> QED
  BY <1>2, <1>3 DEF Words

\* Words are equal that agree on every natural number.
LEMMA WordsEqual ==
    ASSUME NEW a \in Words, NEW b \in Words, \A x \in Nat : x \in a <=> x \in b
    PROVE  a = b
<1>1. \A x \in a : x \in Nat
  BY WidthFacts DEF Words
<1>2. \A x \in b : x \in Nat
  BY WidthFacts DEF Words
<1> QED
  BY <1>1, <1>2

-----------------------------------------------------------------------------
(* The division *)

\* What a bit of the division is, place by place.
LEMMA DivideBitFacts ==
    ASSUME NEW w \in Words
    PROVE  /\ DivideBit(w) \in Words
           /\ \A x \in Nat : x \in DivideBit(w) <=>
                ~ (x + 1 \in w <=> 0 \in w /\ x \in Generator)
           /\ CrcBits - 1 \in DivideBit(w) <=> 0 \in w
<1>1. /\ ShiftDown(w, 1) \in Words /\ CrcBits - 1 \notin ShiftDown(w, 1)
      /\ \A x \in Nat : x \in ShiftDown(w, 1) <=> x + 1 \in w
  BY ShiftDownFacts
<1>2. Generator \in Words /\ CrcBits - 1 \in Generator
  BY WidthFacts
<1>3. CASE 0 \in w
  <2>1. DivideBit(w) = Xor(ShiftDown(w, 1), Generator)
    BY <1>3 DEF DivideBit
  <2>2. /\ Xor(ShiftDown(w, 1), Generator) \in Words
        /\ \A x : x \in Xor(ShiftDown(w, 1), Generator)
                    <=> ~ (x \in ShiftDown(w, 1) <=> x \in Generator)
    BY <1>1, <1>2, XorFacts
  <2> QED
    BY <1>1, <1>2, <1>3, <2>1, <2>2
<1>4. CASE 0 \notin w
  <2>1. DivideBit(w) = ShiftDown(w, 1)
    BY <1>4 DEF DivideBit
  <2> QED
    BY <1>1, <1>4, <2>1
<1> QED
  BY <1>3, <1>4

\* A bit of the division loses nothing: the highest bit of its result tells
\* whether the generator was taken off.
LEMMA DivideBitTellsApart ==
    ASSUME NEW v \in Words, NEW w \in Words, DivideBit(v) = DivideBit(w)
    PROVE  v = w
<1>1. 0 \in v <=> 0 \in w
  BY DivideBitFacts
<1>2. ASSUME NEW x \in Nat PROVE x + 1 \in v <=> x + 1 \in w
  BY <1>1, DivideBitFacts
<1>3. ASSUME NEW x \in Nat PROVE x \in v <=> x \in w
  <2>1. CASE x = 0
    BY <1>1, <2>1
  <2>2. CASE x # 0
    <3>1. x - 1 \in Nat /\ x = (x - 1) + 1
      BY <2>2
    <3> QED
      BY <1>2, <3>1
  <2> QED
    BY <2>1, <2>2
<1> QED
  BY <1>3, WordsEqual

\* A word whose lowest bit is zero is moved down beside the division.
LEMMA DivideBitIsLinear ==
    ASSUME NEW v \in Words, NEW w \in Words, 0 \notin v
    PROVE  DivideBit(Xor(v, w)) = Xor(ShiftDown(v, 1), DivideBit(w))
<1>1. /\ Xor(v, w) \in Words
      /\ \A x : x \in Xor(v, w) <=> ~ (x \in v <=> x \in w)
  BY XorFacts
<1>2. /\ DivideBit(Xor(v, w)) \in Words /\ DivideBit(w) \in Words
      /\ \A x \in Nat : x \in DivideBit(Xor(v, w)) <=>
                ~ (x + 1 \in Xor(v, w) <=> 0 \in Xor(v, w) /\ x \in Generator)
      /\ \A x \in Nat : x \in DivideBit(w) <=>
                ~ (x + 1 \in w <=> 0 \in w /\ x \in Generator)
  BY <1>1, DivideBitFacts
<1>3. /\ ShiftDown(v, 1) \in Words
      /\ \A x \in Nat : x \in ShiftDown(v, 1) <=> x + 1 \in v
  BY ShiftDownFacts
<1>4. /\ Xor(ShiftDown(v, 1), DivideBit(w)) \in Words
      /\ \A x : x \in Xor(ShiftDown(v, 1), DivideBit(w))
                  <=> ~ (x \in ShiftDown(v, 1) <=> x \in DivideBit(w))
  BY <1>2, <1>3, XorFacts
<1>5. ASSUME NEW x \in Nat
      PROVE  x \in DivideBit(Xor(v, w)) <=> x \in Xor(ShiftDown(v, 1), DivideBit(w))
  BY <1>1, <1>2, <1>3, <1>4
<1> QED
  BY <1>2, <1>4, <1>5, WordsEqual

\* The loop of crc32_table as a relation between its start and its end.
Divides(f, w) ==
    /\ f \in [0 .. ChunkBits -> Words]
    /\ f[0] = w
    /\ \A bit \in 1 .. ChunkBits : f[bit] = DivideBit(f[bit - 1])

\* The recursive function of DivideBits is that relation.
LEMMA DivideBitsFacts ==
    ASSUME NEW w \in Words
    PROVE  \E f : Divides(f, w) /\ DivideBits(w) = f[ChunkBits]
<1> DEFINE n == ChunkBits
           step == [p \in (1 .. n) \X Words |-> DivideBit(p[2])]
           Run(g) == [bit \in 0 .. n |-> IF bit = 0 THEN w ELSE DivideBit(g[bit - 1])]
           h == CHOOSE g : g = Run(g)
<1>1. n \in Nat
  BY WidthFacts
<1>2. step \in [(1 .. n) \X Words -> Words]
  BY DivideBitFacts
<1>3. PICK f \in [0 .. n -> Words] : Iterates(f, w, step, n)
  <2>1. n \in 0 .. n
    BY <1>1
  <2> HIDE DEF step, n
  <2> QED
    BY <1>1, <1>2, <2>1, RecursionExists
<1>4. f[0] = w /\ \A bit \in 1 .. n : f[bit] = DivideBit(f[bit - 1])
  <2>1. \A bit \in 1 .. n : f[bit - 1] \in Words
    BY <1>1
  <2>2. \A bit \in 1 .. n : f[bit] = step[<<bit, f[bit - 1]>>]
    BY <1>3 DEF Iterates
  <2> QED
    BY <1>3, <2>1, <2>2 DEF Iterates
<1>5. f = Run(f)
  <2>1. \A bit \in 0 .. n : bit # 0 => bit \in 1 .. n
    BY <1>1
  <2> QED
    BY <1>4, <2>1
<1>6. h = Run(h)
  <2> HIDE DEF Run
  <2> QED
    BY <1>5
<1>7. /\ h[0] = w
      /\ \A bit \in 1 .. n : h[bit] = DivideBit(h[bit - 1])
      /\ DOMAIN h = 0 .. n
  <2> HIDE DEF h
  <2> QED
    BY <1>1, <1>6
<1>8. DivideBits(w) = h[n]
  BY DEF DivideBits
<1> HIDE DEF h
<1>9. \A bit \in 0 .. n : h[bit] = f[bit]
  <2> DEFINE Bad == {bit \in 0 .. n : h[bit] # f[bit]}
  <2> SUFFICES ASSUME Bad # {} PROVE FALSE
    OBVIOUS
  <2>1. PICK k \in Bad : \A y \in Bad : k <= y
    <3>1. Bad \subseteq Nat
      BY <1>1
    <3> HIDE DEF Bad
    <3> QED
      BY <3>1, NatLeast
  <2>2. k # 0
    BY <1>4, <1>7
  <2>3. k \in 1 .. n /\ k - 1 \in 0 .. n /\ k - 1 < k
    BY <1>1, <2>2
  <2>4. k - 1 \notin Bad
    BY <1>1, <2>1, <2>3
  <2> QED
    BY <1>4, <1>7, <2>3, <2>4
<1>10. Divides(f, w)
  BY <1>3, <1>4 DEF Divides
<1>11. n \in 0 .. n
  BY <1>1
<1> QED
  BY <1>8, <1>9, <1>10, <1>11

\* The division of a word is a word.
LEMMA DivideBitsWord == ASSUME NEW w \in Words PROVE DivideBits(w) \in Words
<1>1. PICK f : Divides(f, w) /\ DivideBits(w) = f[ChunkBits]
  BY DivideBitsFacts
<1>2. ChunkBits \in 0 .. ChunkBits
  BY WidthFacts
<1> QED
  BY <1>1, <1>2 DEF Divides

\* A chunk's worth of the division loses nothing either.
LEMMA DivideBitsTellsApart ==
    ASSUME NEW v \in Words, NEW w \in Words, DivideBits(v) = DivideBits(w)
    PROVE  v = w
<1>1. PICK f : Divides(f, v) /\ DivideBits(v) = f[ChunkBits]
  BY DivideBitsFacts
<1>2. PICK g : Divides(g, w) /\ DivideBits(w) = g[ChunkBits]
  BY DivideBitsFacts
<1>3. ChunkBits \in Nat
  BY WidthFacts
<1> DEFINE Bad == {bit \in 0 .. ChunkBits : f[ChunkBits - bit] # g[ChunkBits - bit]}
<1>4. Bad = {}
  <2> SUFFICES ASSUME Bad # {} PROVE FALSE
    OBVIOUS
  <2>1. PICK k \in Bad : \A y \in Bad : k <= y
    <3>1. Bad \subseteq Nat
      BY <1>3
    <3> HIDE DEF Bad
    <3> QED
      BY <3>1, NatLeast
  <2>2. k # 0
    <3>1. ChunkBits - 0 = ChunkBits
      BY <1>3
    <3>2. f[ChunkBits] = g[ChunkBits]
      BY <1>1, <1>2
    <3> QED
      BY <2>1, <3>1, <3>2
  <2>3. /\ k - 1 \in 0 .. ChunkBits /\ k - 1 < k /\ k \in 0 .. ChunkBits
        /\ ChunkBits - (k - 1) = (ChunkBits - k) + 1
        /\ ChunkBits - k \in 0 .. ChunkBits
        /\ (ChunkBits - k) + 1 \in 1 .. ChunkBits
        /\ ((ChunkBits - k) + 1) - 1 = ChunkBits - k
    BY <1>3, <2>2
  <2>4. k - 1 \notin Bad
    BY <2>1, <2>3
  <2>5. f[(ChunkBits - k) + 1] = g[(ChunkBits - k) + 1]
    BY <2>3, <2>4
  <2>6. /\ f[(ChunkBits - k) + 1] = DivideBit(f[ChunkBits - k])
        /\ g[(ChunkBits - k) + 1] = DivideBit(g[ChunkBits - k])
        /\ f[ChunkBits - k] \in Words /\ g[ChunkBits - k] \in Words
    BY <1>1, <1>2, <2>3 DEF Divides
  <2>7. f[ChunkBits - k] = g[ChunkBits - k]
    BY <2>5, <2>6, DivideBitTellsApart
  <2> QED
    BY <2>7
<1>5. ChunkBits \in 0 .. ChunkBits /\ ChunkBits - ChunkBits = 0
  BY <1>3
<1>6. f[0] = g[0]
  BY <1>4, <1>5
<1> QED
  BY <1>1, <1>2, <1>6 DEF Divides

\* What lies above the lowest chunk of a word is moved down beside the
\* division of the rest.
LEMMA DivideBitsIsLinear ==
    ASSUME NEW v \in Words, NEW w \in Words,
           \A x \in 0 .. (ChunkBits - 1) : x \notin v
    PROVE  DivideBits(Xor(v, w)) = Xor(ShiftDown(v, ChunkBits), DivideBits(w))
<1>1. ChunkBits \in Nat /\ Xor(v, w) \in Words
  BY WidthFacts, XorFacts
<1>2. PICK f : Divides(f, Xor(v, w)) /\ DivideBits(Xor(v, w)) = f[ChunkBits]
  BY <1>1, DivideBitsFacts
<1>3. PICK g : Divides(g, w) /\ DivideBits(w) = g[ChunkBits]
  BY DivideBitsFacts
<1> DEFINE Bad == {bit \in 0 .. ChunkBits : f[bit] # Xor(ShiftDown(v, bit), g[bit])}
<1>4. Bad = {}
  <2> SUFFICES ASSUME Bad # {} PROVE FALSE
    OBVIOUS
  <2>1. PICK k \in Bad : \A y \in Bad : k <= y
    <3>1. Bad \subseteq Nat
      BY <1>1
    <3> HIDE DEF Bad
    <3> QED
      BY <3>1, NatLeast
  <2>2. k \in 0 .. ChunkBits /\ f[k] # Xor(ShiftDown(v, k), g[k])
    OBVIOUS
  <2>3. k # 0
    <3>1. ShiftDown(v, 0) = v
      <4>1. /\ ShiftDown(v, 0) \in Words
            /\ \A x \in Nat : x \in ShiftDown(v, 0) <=> x + 0 \in v
        BY ShiftDownFacts
      <4>2. \A x \in Nat : x + 0 = x
        OBVIOUS
      <4> QED
        BY <4>1, <4>2, WordsEqual
    <3>2. f[0] = Xor(v, w) /\ g[0] = w
      BY <1>2, <1>3 DEF Divides
    <3> QED
      BY <2>2, <3>1, <3>2
  <2> DEFINE j == k - 1
  <2>4. /\ j \in 0 .. ChunkBits /\ j \in Nat /\ j < k /\ k \in 1 .. ChunkBits
        /\ k = j + 1 /\ j \in 0 .. (ChunkBits - 1)
    BY <1>1, <2>2, <2>3
  <2>5. f[j] = Xor(ShiftDown(v, j), g[j])
    <3>1. j \notin Bad
      BY <2>1, <2>4
    <3> QED
      BY <2>4, <3>1
  <2>6. /\ f[k] = DivideBit(f[j]) /\ g[k] = DivideBit(g[j]) /\ g[j] \in Words
    BY <1>2, <1>3, <2>4 DEF Divides
  <2> HIDE DEF j
  <2>7. /\ ShiftDown(v, j) \in Words /\ 0 \notin ShiftDown(v, j)
        /\ \A x \in Nat : x \in ShiftDown(v, j) <=> x + j \in v
    <3>1. /\ ShiftDown(v, j) \in Words
          /\ \A x \in Nat : x \in ShiftDown(v, j) <=> x + j \in v
      BY <2>4, ShiftDownFacts
    <3>2. 0 + j = j /\ 0 \in Nat
      BY <2>4
    <3> QED
      BY <2>4, <3>1, <3>2
  <2>8. ShiftDown(ShiftDown(v, j), 1) = ShiftDown(v, k)
    <3>1. /\ ShiftDown(ShiftDown(v, j), 1) \in Words
          /\ \A x \in Nat : x \in ShiftDown(ShiftDown(v, j), 1)
                              <=> x + 1 \in ShiftDown(v, j)
      BY <2>7, ShiftDownFacts
    <3>2. /\ ShiftDown(v, k) \in Words
          /\ \A x \in Nat : x \in ShiftDown(v, k) <=> x + k \in v
      BY <2>4, ShiftDownFacts
    <3>3. \A x \in Nat : x + 1 \in Nat /\ (x + 1) + j = x + k
      BY <2>4
    <3>4. \A x \in Nat : x \in ShiftDown(ShiftDown(v, j), 1) <=> x \in ShiftDown(v, k)
      BY <2>7, <3>1, <3>2, <3>3
    <3> QED
      BY <3>1, <3>2, <3>4, WordsEqual
  <2>9. DivideBit(Xor(ShiftDown(v, j), g[j]))
          = Xor(ShiftDown(ShiftDown(v, j), 1), DivideBit(g[j]))
    BY <2>6, <2>7, DivideBitIsLinear
  <2> QED
    BY <2>2, <2>5, <2>6, <2>8, <2>9
<1>5. ChunkBits \in 0 .. ChunkBits
  BY <1>1
<1>6. f[ChunkBits] = Xor(ShiftDown(v, ChunkBits), g[ChunkBits])
  BY <1>4, <1>5
<1> QED
  BY <1>2, <1>3, <1>6

\* The table gives what the division of the remainder and the chunk, bit by
\* bit, would.
LEMMA CrcStepDivides ==
    ASSUME NEW r \in Words, NEW c \in Chunks
    PROVE  /\ CrcStep(r, c) = DivideBits(Xor(r, c))
           /\ Xor(r, c) \in Words
<1> DEFINE low == r \cap 0 .. (ChunkBits - 1)
           high == r \ (0 .. (ChunkBits - 1))
<1>1. /\ ChunkBits \in Nat /\ c \in Words /\ Chunks \subseteq Words
      /\ low \in Chunks /\ low \in Words /\ high \in Words
      /\ \A x \in 0 .. (ChunkBits - 1) : x \notin high
  BY WidthFacts DEF Words, Chunks
<1>2. Xor(low, c) \in Chunks
  BY <1>1 DEF Xor, Chunks
<1>3. Xor(r, c) = Xor(high, Xor(low, c))
  BY <1>1 DEF Xor
<1>4. ShiftDown(high, ChunkBits) = ShiftDown(r, ChunkBits)
  <2>1. /\ ShiftDown(high, ChunkBits) \in Words
        /\ \A x \in Nat : x \in ShiftDown(high, ChunkBits) <=> x + ChunkBits \in high
    BY <1>1, ShiftDownFacts
  <2>2. /\ ShiftDown(r, ChunkBits) \in Words
        /\ \A x \in Nat : x \in ShiftDown(r, ChunkBits) <=> x + ChunkBits \in r
    BY <1>1, ShiftDownFacts
  <2>3. \A x \in Nat : x + ChunkBits \notin 0 .. (ChunkBits - 1)
    BY <1>1
  <2>4. \A x \in Nat : x \in ShiftDown(high, ChunkBits) <=> x \in ShiftDown(r, ChunkBits)
    BY <2>1, <2>2, <2>3
  <2> QED
    BY <2>1, <2>2, <2>4, WordsEqual
<1>5. CrcStep(r, c) = Xor(ShiftDown(r, ChunkBits), DivideBits(Xor(low, c)))
  BY <1>2 DEF CrcStep, CrcTable
<1> HIDE DEF low, high
<1>6. DivideBits(Xor(high, Xor(low, c)))
        = Xor(ShiftDown(high, ChunkBits), DivideBits(Xor(low, c)))
  BY <1>1, <1>2, DivideBitsIsLinear
<1> QED
  BY <1>1, <1>3, <1>4, <1>5, <1>6, XorFacts

\* So a step tells remainders apart, and chunks.
LEMMA CrcStepTellsApart ==
    ASSUME NEW r \in Words, NEW s \in Words, NEW c \in Chunks, NEW d \in Chunks
    PROVE  /\ CrcStep(r, c) \in Words
           /\ CrcStep(r, c) = CrcStep(s, c) => r = s
           /\ CrcStep(r, c) = CrcStep(r, d) => c = d
<1>1. /\ CrcStep(r, c) = DivideBits(Xor(r, c)) /\ Xor(r, c) \in Words
      /\ CrcStep(s, c) = DivideBits(Xor(s, c)) /\ Xor(s, c) \in Words
      /\ CrcStep(r, d) = DivideBits(Xor(r, d)) /\ Xor(r, d) \in Words
  BY CrcStepDivides
<1>2. CrcStep(r, c) = CrcStep(s, c) => Xor(r, c) = Xor(s, c)
  BY <1>1, DivideBitsTellsApart
<1>3. CrcStep(r, c) = CrcStep(r, d) => Xor(r, c) = Xor(r, d)
  BY <1>1, DivideBitsTellsApart
<1> QED
  BY <1>1, <1>2, <1>3, XorCancels, DivideBitsWord

-----------------------------------------------------------------------------
(* The checksum *)

\* The loop of crc32_multi.
Remainders(f, data) ==
    /\ f \in [0 .. Len(data) -> Words]
    /\ f[0] = CrcInit
    /\ \A i \in 1 .. Len(data) : f[i] = CrcStep(f[i - 1], data[i])

\* The recursive function of Crc is that loop.
LEMMA CrcFacts ==
    ASSUME NEW data \in Seq(Chunks)
    PROVE  /\ \E f : Remainders(f, data) /\ Crc(data) = Xor(f[Len(data)], CrcInit)
           /\ Crc(data) \in Words
<1> DEFINE n == Len(data)
           step == [p \in (1 .. n) \X Words |-> CrcStep(p[2], data[p[1]])]
           Run(g) == [i \in 0 .. n |-> IF i = 0 THEN CrcInit
                                       ELSE CrcStep(g[i - 1], data[i])]
           h == CHOOSE g : g = Run(g)
<1>1. n \in Nat /\ CrcInit \in Words /\ \A i \in 1 .. n : data[i] \in Chunks
  BY WidthFacts
<1>2. step \in [(1 .. n) \X Words -> Words]
  <2>1. \A p \in (1 .. n) \X Words : CrcStep(p[2], data[p[1]]) \in Words
    <3>1. \A p \in (1 .. n) \X Words : p[2] \in Words /\ p[1] \in 1 .. n
      OBVIOUS
    <3> HIDE DEF n
    <3> QED
      BY <1>1, <3>1, CrcStepTellsApart
  <2> HIDE DEF n
  <2> QED
    BY <2>1
<1>3. PICK f \in [0 .. n -> Words] : Iterates(f, CrcInit, step, n)
  <2>1. n \in 0 .. n
    BY <1>1
  <2> HIDE DEF step, n
  <2> QED
    BY <1>1, <1>2, <2>1, RecursionExists
<1>4. f[0] = CrcInit /\ \A i \in 1 .. n : f[i] = CrcStep(f[i - 1], data[i])
  <2>1. \A i \in 1 .. n : f[i - 1] \in Words
    BY <1>1
  <2>2. \A i \in 1 .. n : f[i] = step[<<i, f[i - 1]>>]
    BY <1>3 DEF Iterates
  <2> QED
    BY <1>3, <2>1, <2>2 DEF Iterates
<1>5. f = Run(f)
  <2>1. \A i \in 0 .. n : i # 0 => i \in 1 .. n
    BY <1>1
  <2> QED
    BY <1>4, <2>1
<1>6. h = Run(h)
  <2> HIDE DEF Run
  <2> QED
    BY <1>5
<1>7. /\ h[0] = CrcInit
      /\ \A i \in 1 .. n : h[i] = CrcStep(h[i - 1], data[i])
      /\ DOMAIN h = 0 .. n
  <2> HIDE DEF h
  <2> QED
    BY <1>1, <1>6
<1>8. Crc(data) = Xor(h[n], CrcInit)
  BY DEF Crc
<1> HIDE DEF h
<1>9. \A i \in 0 .. n : h[i] = f[i]
  <2> DEFINE Bad == {i \in 0 .. n : h[i] # f[i]}
  <2> SUFFICES ASSUME Bad # {} PROVE FALSE
    OBVIOUS
  <2>1. PICK k \in Bad : \A y \in Bad : k <= y
    <3>1. Bad \subseteq Nat
      BY <1>1
    <3> HIDE DEF Bad
    <3> QED
      BY <3>1, NatLeast
  <2>2. k # 0
    BY <1>4, <1>7
  <2>3. k \in 1 .. n /\ k - 1 \in 0 .. n /\ k - 1 < k
    BY <1>1, <2>2
  <2>4. k - 1 \notin Bad
    BY <1>1, <2>1, <2>3
  <2> QED
    BY <1>4, <1>7, <2>3, <2>4
<1>10. Remainders(f, data)
  BY <1>3, <1>4 DEF Remainders
<1>11. n \in 0 .. n
  BY <1>1
<1>12. Crc(data) = Xor(f[n], CrcInit) /\ f[n] \in Words
  BY <1>8, <1>9, <1>11
<1>13. Crc(data) \in Words
  BY <1>1, <1>12, XorFacts
<1> QED
  BY <1>10, <1>12, <1>13

\* Sequences of chunks that differ in one place have different checksums:
\* the remainders differ from there on.
LEMMA CrcTellsApart ==
    ASSUME NEW s \in Seq(Chunks), NEW t \in Seq(Chunks), Len(s) = Len(t),
           NEW i \in 1 .. Len(s), s[i] # t[i],
           \A j \in 1 .. Len(s) : j # i => s[j] = t[j]
    PROVE  Crc(s) # Crc(t)
<1> DEFINE n == Len(s)
<1>1. n \in Nat /\ i \in 1 .. n /\ \A j \in 1 .. n : s[j] \in Chunks /\ t[j] \in Chunks
  OBVIOUS
<1>2. PICK f : Remainders(f, s) /\ Crc(s) = Xor(f[n], CrcInit)
  BY CrcFacts
<1>3. PICK g : Remainders(g, t) /\ Crc(t) = Xor(g[n], CrcInit)
  BY CrcFacts
<1>4. /\ f[0] = CrcInit /\ g[0] = CrcInit
      /\ \A j \in 0 .. n : f[j] \in Words /\ g[j] \in Words
      /\ \A j \in 1 .. n : f[j] = CrcStep(f[j - 1], s[j]) /\ g[j] = CrcStep(g[j - 1], t[j])
  BY <1>2, <1>3 DEF Remainders
<1> DEFINE Bad == {j \in 0 .. n : ~ (f[j] = g[j] <=> j < i)}
<1>5. Bad = {}
  <2> SUFFICES ASSUME Bad # {} PROVE FALSE
    OBVIOUS
  <2>1. PICK k \in Bad : \A y \in Bad : k <= y
    <3>1. Bad \subseteq Nat
      BY <1>1
    <3> HIDE DEF Bad
    <3> QED
      BY <3>1, NatLeast
  <2>2. k \in 0 .. n /\ ~ (f[k] = g[k] <=> k < i)
    OBVIOUS
  <2>3. k # 0
    BY <1>1, <1>4, <2>2
  <2> DEFINE p == k - 1
  <2>4. /\ k \in 1 .. n /\ p \in 0 .. n /\ p < k /\ k \in Int /\ i \in Int
        /\ p < i <=> k <= i
    BY <1>1, <2>2, <2>3
  <2>5. f[p] = g[p] <=> k <= i
    <3>1. p \notin Bad
      BY <2>1, <2>4
    <3> QED
      BY <2>4, <3>1
  <2>6. /\ f[k] = CrcStep(f[p], s[k]) /\ g[k] = CrcStep(g[p], t[k])
        /\ f[p] \in Words /\ g[p] \in Words /\ s[k] \in Chunks /\ t[k] \in Chunks
    BY <1>1, <1>4, <2>4
  <2> HIDE DEF p, Bad, n
  <2>7. CASE k < i
    BY <2>2, <2>4, <2>5, <2>6, <2>7 DEF n
  <2>8. CASE k = i
    <3>1. f[p] = g[p]
      BY <2>4, <2>5, <2>8
    <3>2. CrcStep(f[p], s[k]) # CrcStep(f[p], t[k])
      BY <2>6, <2>8, CrcStepTellsApart
    <3> QED
      BY <2>2, <2>4, <2>6, <2>8, <3>1, <3>2
  <2>9. CASE k > i
    <3>1. f[p] # g[p] /\ s[k] = t[k]
      BY <2>4, <2>5, <2>9 DEF n
    <3>2. CrcStep(f[p], s[k]) # CrcStep(g[p], s[k])
      BY <2>6, <3>1, CrcStepTellsApart
    <3> QED
      BY <2>2, <2>4, <2>6, <2>9, <3>1, <3>2
  <2> QED
    BY <2>4, <2>7, <2>8, <2>9
<1>6. n \in 0 .. n /\ ~ (n < i)
  BY <1>1
<1>7. f[n] # g[n]
  BY <1>5, <1>6
<1> QED
  BY <1>2, <1>3, <1>7, XorCancels

\* The bytes of a checksum are as many as it has, and tell checksums apart.
LEMMA BigEndianFacts ==
    ASSUME NEW c \in Words
    PROVE  BigEndian(c) \in Seq(Chunks) /\ Len(BigEndian(c)) = SigLen
<1>1. SigLen \in Nat
  BY WidthFacts
<1> DEFINE C(i) == {b \in 0 .. (ChunkBits - 1) : b + ChunkBits * (SigLen - i) \in c}
<1>2. \A i \in 1 .. SigLen : C(i) \in Chunks
  BY DEF Chunks
<1>3. BigEndian(c) = [i \in 1 .. SigLen |-> C(i)]
  BY DEF BigEndian
<1> HIDE DEF C
<1> QED
  BY <1>1, <1>2, <1>3

\* Checksums with the same bytes are the same.
LEMMA BigEndianTellsApart ==
    ASSUME NEW c \in Words, NEW d \in Words, BigEndian(c) = BigEndian(d)
    PROVE  c = d
<1>1. /\ ChunkBits \in Nat /\ ChunkBits > 0 /\ SigLen \in Nat
      /\ CrcBits = ChunkBits * SigLen /\ CrcBits \in Nat
  BY WidthFacts
<1>2. ASSUME NEW x \in 0 .. (CrcBits - 1)
      PROVE  x \in c <=> x \in d
  <2> DEFINE b == x % ChunkBits
             q == x \div ChunkBits
             i == SigLen - q
  <2>1. /\ b \in 0 .. (ChunkBits - 1) /\ q \in Nat
        /\ x = b + ChunkBits * q /\ q < SigLen
    <3>1. ASSUME NEW m \in Nat, NEW k \in Nat, NEW y \in Nat, m > 0, y < m * k
          PROVE  /\ y % m \in 0 .. (m - 1) /\ y \div m \in Nat
                 /\ y = (y % m) + m * (y \div m) /\ y \div m < k
      <4>1. /\ y % m \in 0 .. (m - 1) /\ y \div m \in Nat
            /\ y = (y % m) + m * (y \div m)
        BY <3>1
      <4>2. ASSUME NEW a \in Nat, NEW r \in 0 .. (m - 1), y = r + m * a
            PROVE  a < k
        <5>1. CASE a >= k
          <6>1. m * a >= m * k
            BY <3>1, <5>1
          <6> QED
            BY <3>1, <4>2, <6>1
        <5> QED
          BY <5>1
      <4> QED
        BY <4>1, <4>2
    <3>2. x \in Nat /\ x < ChunkBits * SigLen
      BY <1>1
    <3> QED
      BY <1>1, <3>1, <3>2
  <2> HIDE DEF b, q
  <2>2. i \in 1 .. SigLen /\ SigLen - i = q
    BY <1>1, <2>1
  <2> HIDE DEF i
  <2>3. BigEndian(c)[i] = BigEndian(d)[i]
    OBVIOUS
  <2>4. b \in BigEndian(c)[i] <=> b + ChunkBits * q \in c
    BY <2>1, <2>2 DEF BigEndian
  <2>5. b \in BigEndian(d)[i] <=> b + ChunkBits * q \in d
    BY <2>1, <2>2 DEF BigEndian
  <2> QED
    BY <2>1, <2>3, <2>4, <2>5
<1> QED
  BY <1>2 DEF Words

-----------------------------------------------------------------------------
(* Datagrams *)

\* A signed datagram: the data, then the checksum of the data and the
\* signature.
LEMMA SignFacts ==
    ASSUME NEW data \in Seq(Chunks), NEW sig \in Seq(Chunks)
    PROVE  /\ data \o sig \in Seq(Chunks) /\ Crc(data \o sig) \in Words
           /\ Sign(data, sig) \in Seq(Chunks)
           /\ Len(Sign(data, sig)) = Len(data) + SigLen
           /\ \A i \in 1 .. Len(data) : Sign(data, sig)[i] = data[i]
           /\ \A i \in 1 .. SigLen :
                Sign(data, sig)[Len(data) + i] = BigEndian(Crc(data \o sig))[i]
<1> DEFINE all == data \o sig
           crc == Crc(all)
           sum == BigEndian(crc)
<1>1. all \in Seq(Chunks) /\ Len(data) \in Nat /\ SigLen \in Nat
  BY ConcatFacts, WidthFacts
<1> HIDE DEF all
<1>2. crc \in Words
  BY <1>1, CrcFacts
<1> HIDE DEF crc
<1>3. sum \in Seq(Chunks) /\ Len(sum) = SigLen
  BY <1>2, BigEndianFacts
<1> HIDE DEF sum
<1>4. /\ data \o sum \in Seq(Chunks) /\ Len(data \o sum) = Len(data) + SigLen
      /\ \A j \in 1 .. (Len(data) + SigLen) :
           (data \o sum)[j] = IF j <= Len(data) THEN data[j] ELSE sum[j - Len(data)]
  BY <1>3, ConcatFacts
<1>5. Sign(data, sig) = data \o sum
  BY DEF Sign, sum, crc, all
<1>6. \A i \in 1 .. Len(data) : (data \o sum)[i] = data[i]
  BY <1>1, <1>4
<1>7. ASSUME NEW i \in 1 .. SigLen PROVE (data \o sum)[Len(data) + i] = sum[i]
  <2>1. /\ Len(data) + i \in 1 .. (Len(data) + SigLen) /\ ~ (Len(data) + i <= Len(data))
        /\ (Len(data) + i) - Len(data) = i
    BY <1>1
  <2> QED
    BY <1>4, <2>1
<1> QED
  BY <1>1, <1>2, <1>4, <1>5, <1>6, <1>7 DEF sum, crc, all

\* What validates: the data in front, and the checksum of it behind.
LEMMA ValidatesFacts ==
    ASSUME NEW data \in Seq(Chunks), NEW sig \in Seq(Chunks),
           NEW d \in Seq(Chunks), Len(d) = Len(data) + SigLen,
           \A i \in 1 .. Len(data) : d[i] = data[i]
    PROVE  /\ Body(d) = data
           /\ Validates(d, sig) <=> d = Sign(data, sig)
<1>1. Len(data) \in Nat /\ SigLen \in Nat
  BY WidthFacts
<1>2. Body(d) = data
  <2> DEFINE n == Len(data)
             b == SubSeq(d, 1, n)
  <2>1. Body(d) = b
    <3>1. Len(d) - SigLen = n
      BY <1>1
    <3> QED
      BY <3>1 DEF Body
  <2>2. b \in Seq(Chunks) /\ Len(b) = n /\ \A i \in 1 .. n : b[i] = d[i]
    <3> HIDE DEF n
    <3>1. n \in Nat /\ n <= Len(d)
      BY <1>1 DEF n
    <3> QED
      BY <3>1
  <2> HIDE DEF b
  <2> QED
    BY <2>1, <2>2, SeqEqual
<1>3. Len(d) >= SigLen
  BY <1>1
<1> QED
  BY <1>2, <1>3 DEF Validates

\* What is altered keeps its length and the other chunks.
LEMMA AlteredFacts ==
    ASSUME NEW s \in Seq(Chunks), NEW i \in DOMAIN s, NEW c \in Chunks
    PROVE  /\ Altered(s, i, c) \in Seq(Chunks) /\ Len(Altered(s, i, c)) = Len(s)
           /\ \A j \in 1 .. Len(s) : Altered(s, i, c)[j] = IF j = i THEN c ELSE s[j]
BY DEF Altered

\* The checksum of data and a signature, one chunk of which is altered.
LEMMA AlteredCrc ==
    ASSUME NEW s \in Seq(Chunks), NEW i \in DOMAIN s,
           NEW c \in Chunks \ {s[i]}, NEW t \in Seq(Chunks)
    PROVE  /\ Crc(Altered(s, i, c) \o t) # Crc(s \o t)
           /\ Crc(t \o Altered(s, i, c)) # Crc(t \o s)
<1> DEFINE a == Altered(s, i, c)
<1>0. a \in Seq(Chunks)
  BY AlteredFacts
<1>1. /\ Len(a) = Len(s) /\ i \in 1 .. Len(s)
      /\ a[i] # s[i] /\ \A j \in 1 .. Len(s) : j # i => a[j] = s[j]
      /\ Len(s) \in Nat /\ Len(t) \in Nat
  <2>1. /\ Len(a) = Len(s)
        /\ \A j \in 1 .. Len(s) : a[j] = IF j = i THEN c ELSE s[j]
    BY AlteredFacts
  <2>2. i \in 1 .. Len(s) /\ Len(s) \in Nat /\ Len(t) \in Nat /\ c # s[i]
    OBVIOUS
  <2> HIDE DEF a
  <2> QED
    BY <2>1, <2>2
<1> HIDE DEF a
<1>2. /\ a \o t \in Seq(Chunks) /\ Len(a \o t) = Len(s) + Len(t)
      /\ \A j \in 1 .. (Len(s) + Len(t)) :
           (a \o t)[j] = IF j <= Len(s) THEN a[j] ELSE t[j - Len(s)]
  <2>1. /\ a \o t \in Seq(Chunks) /\ Len(a \o t) = Len(a) + Len(t)
        /\ \A j \in 1 .. (Len(a) + Len(t)) :
             (a \o t)[j] = IF j <= Len(a) THEN a[j] ELSE t[j - Len(a)]
    BY <1>0, ConcatFacts
  <2> QED
    BY <1>1, <2>1
<1>3. /\ s \o t \in Seq(Chunks) /\ Len(s \o t) = Len(s) + Len(t)
      /\ \A j \in 1 .. (Len(s) + Len(t)) :
           (s \o t)[j] = IF j <= Len(s) THEN s[j] ELSE t[j - Len(s)]
  BY ConcatFacts
<1>4. /\ t \o a \in Seq(Chunks) /\ Len(t \o a) = Len(t) + Len(s)
      /\ \A j \in 1 .. (Len(t) + Len(s)) :
           (t \o a)[j] = IF j <= Len(t) THEN t[j] ELSE a[j - Len(t)]
  <2>1. /\ t \o a \in Seq(Chunks) /\ Len(t \o a) = Len(t) + Len(a)
        /\ \A j \in 1 .. (Len(t) + Len(a)) :
             (t \o a)[j] = IF j <= Len(t) THEN t[j] ELSE a[j - Len(t)]
    BY <1>0, ConcatFacts
  <2> QED
    BY <1>1, <2>1
<1>5. /\ t \o s \in Seq(Chunks) /\ Len(t \o s) = Len(t) + Len(s)
      /\ \A j \in 1 .. (Len(t) + Len(s)) :
           (t \o s)[j] = IF j <= Len(t) THEN t[j] ELSE s[j - Len(t)]
  BY ConcatFacts
<1>6. Crc(a \o t) # Crc(s \o t)
  <2> DEFINE u == a \o t
             v == s \o t
             n == Len(s) + Len(t)
  <2>1. i \in 1 .. n /\ i <= Len(s)
    BY <1>1
  <2>2. u[i] # v[i] /\ \A j \in 1 .. n : j # i => u[j] = v[j]
    <3>1. ASSUME NEW j \in 1 .. n, j # i PROVE u[j] = v[j]
      <4>1. CASE j <= Len(s)
        <5>1. j \in 1 .. Len(s)
          BY <1>1, <4>1
        <5> QED
          BY <1>1, <1>2, <1>3, <3>1, <4>1, <5>1
      <4>2. CASE ~ (j <= Len(s))
        BY <1>2, <1>3, <4>2
      <4> QED
        BY <4>1, <4>2
    <3>2. u[i] = a[i] /\ v[i] = s[i]
      BY <1>2, <1>3, <2>1
    <3> HIDE DEF u, v, n
    <3> QED
      BY <1>1, <3>1, <3>2
  <2>3. u \in Seq(Chunks) /\ v \in Seq(Chunks) /\ Len(u) = n /\ Len(v) = n
    BY <1>2, <1>3
  <2> HIDE DEF u, v, n
  <2>4. Crc(u) # Crc(v)
    BY <2>1, <2>2, <2>3, CrcTellsApart
  <2> QED
    BY <2>4 DEF u, v
<1>7. Crc(t \o a) # Crc(t \o s)
  <2> DEFINE u == t \o a
             v == t \o s
             n == Len(t) + Len(s)
             k == Len(t) + i
  <2>1. /\ k \in 1 .. n /\ ~ (k <= Len(t)) /\ k - Len(t) = i
        /\ \A j \in 1 .. n : ~ (j <= Len(t)) => j - Len(t) \in 1 .. Len(s)
        /\ \A j \in 1 .. n : j # k => j - Len(t) # i
    BY <1>1
  <2>2. u[k] # v[k] /\ \A j \in 1 .. n : j # k => u[j] = v[j]
    <3> HIDE DEF k
    <3>1. ASSUME NEW j \in 1 .. n, j # k PROVE u[j] = v[j]
      <4>1. CASE j <= Len(t)
        BY <1>4, <1>5, <4>1
      <4>2. CASE ~ (j <= Len(t))
        <5>1. j - Len(t) \in 1 .. Len(s) /\ j - Len(t) # i
          BY <2>1, <3>1, <4>2
        <5>2. u[j] = a[j - Len(t)] /\ v[j] = s[j - Len(t)]
          BY <1>4, <1>5, <4>2
        <5> QED
          BY <1>1, <5>1, <5>2
      <4> QED
        BY <4>1, <4>2
    <3>2. u[k] = a[i] /\ v[k] = s[i]
      BY <1>4, <1>5, <2>1
    <3> HIDE DEF u, v, n
    <3> QED
      BY <1>1, <3>1, <3>2
  <2>3. u \in Seq(Chunks) /\ v \in Seq(Chunks) /\ Len(u) = n /\ Len(v) = n
    BY <1>4, <1>5
  <2> HIDE DEF u, v, n, k
  <2>4. Crc(u) # Crc(v)
    BY <2>1, <2>2, <2>3, CrcTellsApart
  <2> QED
    BY <2>4 DEF u, v
<1> QED
  BY <1>6, <1>7 DEF a

\* Different checksums make different datagrams.
LEMMA SignsTellApart ==
    ASSUME NEW data \in Seq(Chunks), NEW other \in Seq(Chunks),
           NEW sig \in Seq(Chunks), NEW key \in Seq(Chunks),
           Len(data) = Len(other), Crc(data \o sig) # Crc(other \o key)
    PROVE  \E j \in 1 .. SigLen :
              Sign(data, sig)[Len(data) + j] # Sign(other, key)[Len(data) + j]
<1> DEFINE x == Crc(data \o sig)
           y == Crc(other \o key)
<1>1. /\ x \in Words
      /\ \A i \in 1 .. SigLen : Sign(data, sig)[Len(data) + i] = BigEndian(x)[i]
  BY SignFacts
<1>2. /\ y \in Words
      /\ \A i \in 1 .. SigLen : Sign(other, key)[Len(data) + i] = BigEndian(y)[i]
  BY SignFacts
<1>3. x # y
  OBVIOUS
<1> HIDE DEF x, y
<1>4. BigEndian(x) # BigEndian(y)
  BY <1>1, <1>2, <1>3, BigEndianTellsApart
<1>5. \E j \in 1 .. SigLen : BigEndian(x)[j] # BigEndian(y)[j]
  BY <1>1, <1>2, <1>4, BigEndianFacts, SeqEqual
<1> QED
  BY <1>1, <1>2, <1>5

\* Every datagram is caught that ChecksumCatches lists.
LEMMA DatagramsAreChecked ==
    ASSUME NEW data \in Seq(Chunks), NEW sig \in Seq(Chunks)
    PROVE  LET datagram == Sign(data, sig)
           IN  /\ Validates(datagram, sig) /\ Body(datagram) = data
               /\ \A i \in DOMAIN datagram : \A c \in Chunks \ {datagram[i]} :
                    ~ Validates(Altered(datagram, i, c), sig)
               /\ \A i \in DOMAIN sig : \A c \in Chunks \ {sig[i]} :
                    ~ Validates(datagram, Altered(sig, i, c))
               /\ ~ Validates(SubSeq(datagram, 1, SigLen - 1), sig)
<1> DEFINE datagram == Sign(data, sig)
           n == Len(data)
<1>1. /\ datagram \in Seq(Chunks) /\ Len(datagram) = n + SigLen
      /\ \A i \in 1 .. n : datagram[i] = data[i]
      /\ n \in Nat /\ SigLen \in Nat /\ SigLen > 0
      /\ DOMAIN datagram = 1 .. (n + SigLen)
  BY SignFacts, WidthFacts
<1> HIDE DEF datagram
<1>2. Validates(datagram, sig) /\ Body(datagram) = data
  BY <1>1, ValidatesFacts DEF datagram
<1>3. ASSUME NEW i \in DOMAIN datagram, NEW c \in Chunks \ {datagram[i]}
      PROVE  ~ Validates(Altered(datagram, i, c), sig)
  <2> DEFINE d == Altered(datagram, i, c)
  <2>1. /\ d \in Seq(Chunks) /\ Len(d) = n + SigLen
        /\ \A j \in 1 .. (n + SigLen) : d[j] = IF j = i THEN c ELSE datagram[j]
        /\ d[i] # datagram[i] /\ i \in 1 .. (n + SigLen)
    <3>1. /\ d \in Seq(Chunks) /\ Len(d) = Len(datagram)
          /\ \A j \in 1 .. Len(datagram) : d[j] = IF j = i THEN c ELSE datagram[j]
      BY <1>1, AlteredFacts
    <3>2. i \in 1 .. (n + SigLen) /\ c # datagram[i]
      BY <1>1
    <3> HIDE DEF d, n
    <3> QED
      BY <1>1, <3>1, <3>2
  <2>2. CASE i <= n
    <3> DEFINE other == Altered(data, i, c)
    <3>1. i \in DOMAIN data /\ c \in Chunks \ {data[i]}
      BY <1>1, <2>1, <2>2
    <3>2. /\ other \in Seq(Chunks) /\ Len(other) = n
          /\ \A j \in 1 .. n : other[j] = IF j = i THEN c ELSE data[j]
      BY <3>1, AlteredFacts
    <3>3. Crc(data \o sig) # Crc(other \o sig)
      BY <3>1, AlteredCrc
    <3> HIDE DEF other, d
    <3>4. \A j \in 1 .. n : d[j] = other[j]
      <4>1. \A j \in 1 .. n : j \in 1 .. (n + SigLen)
        BY <1>1
      <4> QED
        BY <1>1, <2>1, <3>2, <4>1
    <3>5. Validates(d, sig) <=> d = Sign(other, sig)
      BY <2>1, <3>2, <3>4, ValidatesFacts
    <3>6. PICK j \in 1 .. SigLen : datagram[n + j] # Sign(other, sig)[n + j]
      BY <3>2, <3>3, SignsTellApart DEF datagram
    <3>7. n + j \in 1 .. (n + SigLen) /\ n + j # i
      BY <1>1, <2>1, <2>2
    <3>8. d[n + j] = datagram[n + j]
      BY <2>1, <3>7
    <3>9. ~ Validates(d, sig)
      BY <3>5, <3>6, <3>8
    <3> QED
      BY <3>9 DEF d
  <2>3. CASE ~ (i <= n)
    <3> HIDE DEF d
    <3>1. \A j \in 1 .. n : d[j] = data[j]
      <4>1. \A j \in 1 .. n : j \in 1 .. (n + SigLen) /\ j # i
        BY <1>1, <2>1, <2>3
      <4> QED
        BY <1>1, <2>1, <4>1
    <3>2. Validates(d, sig) <=> d = datagram
      BY <2>1, <3>1, ValidatesFacts DEF datagram
    <3>3. ~ Validates(d, sig)
      BY <2>1, <3>2
    <3> QED
      BY <3>3 DEF d
  <2> QED
    BY <2>2, <2>3
<1>4. ASSUME NEW i \in DOMAIN sig, NEW c \in Chunks \ {sig[i]}
      PROVE  ~ Validates(datagram, Altered(sig, i, c))
  <2> DEFINE key == Altered(sig, i, c)
  <2>1. key \in Seq(Chunks)
    BY AlteredFacts
  <2>2. Crc(data \o sig) # Crc(data \o key)
    BY AlteredCrc
  <2> HIDE DEF key
  <2>3. Validates(datagram, key) <=> datagram = Sign(data, key)
    BY <1>1, <2>1, ValidatesFacts
  <2>4. \E j \in 1 .. SigLen : datagram[n + j] # Sign(data, key)[n + j]
    BY <2>1, <2>2, SignsTellApart DEF datagram
  <2>5. ~ Validates(datagram, key)
    BY <2>3, <2>4
  <2> QED
    BY <2>5 DEF key
<1>5. ~ Validates(SubSeq(datagram, 1, SigLen - 1), sig)
  <2>1. Len(SubSeq(datagram, 1, SigLen - 1)) = SigLen - 1
    BY <1>1
  <2>2. ~ (SigLen - 1 >= SigLen)
    BY <1>1
  <2> QED
    BY <2>1, <2>2 DEF Validates
<1> QED
  BY <1>2, <1>3, <1>4, <1>5 DEF datagram

-----------------------------------------------------------------------------
\* What is signed is a sequence of chunks.
ChecksumInv == part = "checksum" => state \in Seq(Chunks)

\* It stays one.
LEMMA StepKeepsChecksum == ASSUME ChecksumInv, PartsNext PROVE ChecksumInv'
<1> SUFFICES ASSUME part = "checksum" PROVE state' \in Seq(Chunks)
  BY StepOfPart DEF ChecksumInv
<1>1. PutChunk /\ state \in Seq(Chunks)
  BY StepOfPart DEF ChecksumInv
<1>2. PICK chunk \in Chunks :
          state' = IF Len(state) < MaxData THEN Append(state, chunk) ELSE <<>>
  BY <1>1 DEF PutChunk
<1>3. Append(state, chunk) \in Seq(Chunks) /\ <<>> \in Seq(Chunks)
  BY <1>1
<1> QED
  BY <1>2, <1>3

\* A signed datagram validates and gives back its data, and what differs from
\* it in one chunk, is shorter than a checksum or was signed for another
\* signature does not, for datagrams of every length, and every generator
\* whose highest bit is one (src/crc32.rs).
THEOREM ChecksumIsSound == PartsSpec => []ChecksumCatches
<1>1. PartsInit => ChecksumInv
  BY DEF PartsInit, ChecksumInv
<1>2. ChecksumInv /\ UNCHANGED partsVars => ChecksumInv'
  BY DEF ChecksumInv, partsVars
<1>3. ASSUME ChecksumInv PROVE ChecksumCatches
  <2>1. Signature \in Seq(Chunks)
    BY PartsAssumption
  <2> QED
    BY <1>3, <2>1, DatagramsAreChecked DEF ChecksumInv, ChecksumCatches
<1> QED
  BY <1>1, <1>2, <1>3, StepKeepsChecksum, PTL DEF PartsSpec
=============================================================================
