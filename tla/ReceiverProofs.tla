---------------------------- MODULE ReceiverProofs ----------------------------
(***************************************************************************)
(* Proofs about the receiving half of a connection: whatever its peer and  *)
(* the network do, a reliable message is delivered at most once, none is   *)
(* lost inside the receiver, and Reliable messages are delivered in order  *)
(* without a gap.  They hold for every length of the windows and every     *)
(* choice of message ids.                                                  *)
(***************************************************************************)
EXTENDS Receiver, ConnectionProofs

-----------------------------------------------------------------------------
(* Type correctness *)

\* A message of the environment has a kind and an id, and the kind is that of
\* its id.
LEMMA MessageShapes ==
    /\ AreMessages(Messages)
    /\ \A m \in Messages : KindAgrees(m, OrderedIds)
BY ReceiverAssumption DEF Messages, ReliableMessages, UnreliableMessages,
   KindOf, Kinds, ReliableKinds, AreMessages, KindAgrees, IsReliable

\* The batches of a packet are sequences of messages.
LEMMA BatchesAreSequences ==
    ASSUME NEW S PROVE Batches(S) \subseteq Seq(S)
<1>1. \A n \in 0 .. MaxBatch : [1 .. n -> S] \subseteq Seq(S)
  BY ReceiverAssumption
<1> QED
  BY <1>1 DEF Batches

LEMMA TypeInit == Init => TypeOK
BY InitTypes DEF Init, TypeOK

\* Every step keeps the types.
LEMMA TypeStep == TypeOK /\ [Next]_vars => TypeOK'
<1> SUFFICES ASSUME TypeOK, [Next]_vars PROVE TypeOK'
  OBVIOUS
<1>1. CASE Receive
  <2>1. PICK p \in ValidPackets :
          /\ ProcessPacket(p.pid, p.messages)
          /\ seen' = seen \cup ({p.pid} \ {NoPid})
    BY <1>1 DEF Receive
  <2>2. p.messages \in Seq(Messages) /\ p.pid \in Nat \cup {NoPid}
    BY BatchesAreSequences, ReceiverAssumption DEF ValidPackets
  <2>3. seen' \in SUBSET Nat
    BY <2>1, <2>2 DEF TypeOK
  <2>4. RcvTypeOK(Messages)'
    BY <2>1, <2>2, ProcessPacketTypes DEF TypeOK
  <2> QED
    BY <1>1, <2>3, <2>4 DEF Receive, TypeOK
<1>2. CASE Poll
  BY <1>2, BeginDrainTypes DEF Poll, TypeOK
<1>3. CASE Loop
  BY <1>3, RcvLoopTypes, MessageShapes DEF Loop, TypeOK
<1>4. CASE UNCHANGED vars
  BY <1>4 DEF vars, rcvVars, TypeOK, RcvTypeOK
<1> QED
  BY <1>1, <1>2, <1>3, <1>4 DEF Next

\* The receiver keeps its types for every length of the windows: in particular
\* the windows keep their shape, so no id is out of the bitset that stands for
\* them.
THEOREM TypeCorrect == Spec => []TypeOK
BY TypeInit, TypeStep, PTL DEF Spec

-----------------------------------------------------------------------------
(* The buffers, the window and what was delivered *)

LEMMA BufStep == TypeOK /\ BufInv(OrderedIds) /\ [Next]_vars => BufInv(OrderedIds)'
<1> SUFFICES ASSUME TypeOK, BufInv(OrderedIds), [Next]_vars
             PROVE  BufInv(OrderedIds)'
  OBVIOUS
<1>1. CASE Receive
  BY <1>1, BufStutter DEF Receive, ProcessPacket, chanVars
<1>2. CASE Poll
  BY <1>2, BufStutter DEF Poll, BeginDrain, chanVars
<1>3. CASE Loop
  <2>1. incoming # <<>> => Head(incoming) \in Messages
    BY DEF TypeOK, RcvTypeOK
  <2>2. incoming # <<>> => KindAgrees(Head(incoming), OrderedIds)
    BY <2>1, MessageShapes
  <2>3. OrderedIds \in SUBSET Nat
    BY ReceiverAssumption
  <2> QED
    BY <1>3, <2>2, <2>3, RcvLoopBuf, MessageShapes DEF Loop, TypeOK
<1>4. CASE UNCHANGED vars
  BY <1>4, BufStutter DEF vars, rcvVars
<1> QED
  BY <1>1, <1>2, <1>3, <1>4 DEF Next

-----------------------------------------------------------------------------
(* The acknowledgments *)

LEMMA AcksInit == Init => AcksAreExact
BY WindowAssumption DEF Init, RcvInit, AcksAreExact, NewLeadingWindow, LeadingBase

\* Only the arrival of a packet changes the packet window and the history.
LEMMA AcksStep == TypeOK /\ AcksAreExact /\ [Next]_vars => AcksAreExact'
<1> SUFFICES ASSUME TypeOK, AcksAreExact, [Next]_vars PROVE AcksAreExact'
  OBVIOUS
<1>1. CASE Receive
  <2>1. PICK p \in ValidPackets :
          /\ ProcessPacket(p.pid, p.messages)
          /\ seen' = seen \cup ({p.pid} \ {NoPid})
    BY <1>1 DEF Receive
  <2>2. CASE p.pid = NoPid
    <3>1. recvPackets' = recvPackets /\ seen' = seen
      BY <2>1, <2>2 DEF ProcessPacket
    <3> QED
      BY <3>1 DEF AcksAreExact, LeadingBase
  <2>3. CASE p.pid # NoPid
    <3> DEFINE id == p.pid
               v == LeadingMark(recvPackets, id)
    <3>1. id \in Nat
      BY <2>3, ReceiverAssumption DEF ValidPackets
    <3>2. recvPackets' = v /\ seen' = seen \cup {id}
      BY <2>1, <2>3 DEF ProcessPacket
    <3>3. recvPackets \in LeadingWindows /\ seen \subseteq Nat
      BY DEF TypeOK, RcvTypeOK
    <3>4. /\ v \in LeadingWindows
          /\ v.pos >= recvPackets.pos /\ v.pos > id
          /\ v.pos = recvPackets.pos \/ v.pos = id + 1
          /\ v.marked = {i \in recvPackets.marked \cup {id} : i >= LeadingBase(v)}
      BY <3>1, <3>3, LeadingMarkFacts
    <3>5. /\ recvPackets.pos \in Nat /\ v.pos \in Nat
          /\ PacketWindowLen \in Nat
      BY <3>3, <3>4, WindowAssumption DEF LeadingWindows
    <3> HIDE DEF v, id
    <3>6. v.marked = {q \in seen' : q >= LeadingBase(v)}
      <4>1. \A q \in Nat : q >= LeadingBase(v) => q >= LeadingBase(recvPackets)
        BY <3>4, <3>5 DEF LeadingBase
      <4> QED
        BY <3>1, <3>2, <3>3, <3>4, <4>1 DEF AcksAreExact
    <3>7. \A q \in seen' : q < v.pos
      BY <3>2, <3>3, <3>4, <3>5 DEF AcksAreExact
    <3>8. v.pos > PacketWindowLen => v.pos - 1 \in seen'
      BY <3>1, <3>2, <3>4, <3>5 DEF AcksAreExact
    <3> QED
      BY <3>2, <3>6, <3>7, <3>8 DEF AcksAreExact
  <2> QED
    BY <2>2, <2>3
<1>2. CASE ~ Receive
  <2>1. recvPackets' = recvPackets /\ seen' = seen
    BY <1>2 DEF Next, Poll, BeginDrain, Loop, RcvLoop, ProcessMessage,
       RecvUnreliable, RecvUnordered, RecvOrdered, EndDrain, Deliver, vars,
       rcvVars
  <2> QED
    BY <2>1 DEF AcksAreExact, LeadingBase
<1> QED
  BY <1>1, <1>2

-----------------------------------------------------------------------------
(* The theorems *)

\* The inductive invariant holds in every reachable state.
THEOREM Inductive == Spec => []IInv
<1>1. Init => IInv
  BY TypeInit, BufInit, AcksInit DEF Init, IInv, BufInv, InOrderNoGap
<1>2. IInv /\ [Next]_vars => IInv'
  BY TypeStep, BufStep, AcksStep DEF IInv, BufInv, InOrderNoGap
<1> QED
  BY <1>1, <1>2, PTL DEF Spec

\* Nothing the receiver took is lost in it: what the message window covers is
\* buffered or was delivered, and nothing else is.
THEOREM ReceiverLosesNothing == Spec => []NothingLost
<1>1. IInv => NothingLost
  BY DEF IInv
<1> QED
  BY <1>1, Inductive, PTL

\* The application gets a reliable message once at most, however often the
\* network duplicates its packets and the sender repeats it.
THEOREM DeliveredAtMostOnce == Spec => []AtMostOnce
<1>1. IInv => AtMostOnce
  BY DEF IInv
<1> QED
  BY <1>1, Inductive, PTL

\* Reliable messages are delivered in the order of their ids, without a gap.
THEOREM DeliveredInOrder == Spec => []InOrderNoGap
<1>1. IInv => InOrderNoGap
  BY DEF IInv
<1> QED
  BY <1>1, Inductive, PTL

\* The acknowledgments are exactly the packets that arrived among the last
\* PacketWindowLen packet ids.
THEOREM AcknowledgmentsAreExact == Spec => []AcksAreExact
<1>1. IInv => AcksAreExact
  BY DEF IInv
<1> QED
  BY <1>1, Inductive, PTL

\* No step makes the message window go back or forget an id.
THEOREM WindowNeverForgets == Spec => NeverForgets
<1>1. TypeOK /\ [Next]_vars =>
        [/\ recvMessages.pos <= recvMessages'.pos
         /\ Covered(recvMessages) \subseteq Covered(recvMessages')]_vars
  <2> SUFFICES ASSUME TypeOK, Next
               PROVE  /\ recvMessages.pos <= recvMessages'.pos
                      /\ Covered(recvMessages) \subseteq Covered(recvMessages')
    OBVIOUS
  <2>1. recvMessages \in SlidingWindows /\ recvMessages.pos \in Nat
    BY DEF TypeOK, RcvTypeOK, SlidingWindows
  <2>2. \/ recvMessages' = recvMessages
        \/ \E id \in {Head(incoming).id} :
              recvMessages' = SlidingMark(recvMessages, id)
    BY DEF Next, Receive, ProcessPacket, Poll, BeginDrain, Loop, RcvLoop,
       ProcessMessage, RecvUnreliable, RecvUnordered, RecvOrdered, EndDrain,
       Deliver
  <2> QED
    BY <2>1, <2>2, SlidingMarkFacts
<1> QED
  BY <1>1, TypeCorrect, PTL DEF Spec, NeverForgets

-----------------------------------------------------------------------------
(* What a poll leaves *)

\* If the ordered channel gives nothing out, its buffer has no message below
\* the position of the window.
LEMMA NothingReady ==
    ASSUME TypeOK, OrderedReady = {}, NEW m \in ordered
    PROVE  m.id \in Nat /\ recvMessages.pos <= m.id
<1> DEFINE ids == {n.id : n \in ordered}
<1>1. recvMessages.pos \in Nat /\ \A n \in ordered : n.id \in Nat
  BY ReceiverAssumption
  DEF TypeOK, RcvTypeOK, OfKind, Messages, ReliableMessages,
      UnreliableMessages, SlidingWindows
<1>2. ids \subseteq Nat /\ ids # {}
  BY <1>1
<1>3. PICK i \in ids : \A j \in ids : i <= j
  BY <1>2, NatLeast
<1>4. PICK n \in ordered : n.id = i
  OBVIOUS
<1>5. \A o \in ordered : n.id <= o.id
  BY <1>3, <1>4
<1>6. ~ (n.id < recvMessages.pos)
  BY <1>5 DEF OrderedReady
<1> QED
  BY <1>1, <1>5, <1>6

\* A poll takes every message that may be delivered out of the channels: what
\* recv_message leaves are ordered messages, each with a hole in the window
\* below it.
THEOREM PollsDrain == Spec => PollDrains
<1>1. TypeOK /\ [Next]_vars =>
        [draining /\ ~ draining' =>
            /\ unreliable' = <<>> /\ unordered' = <<>>
            /\ \A m \in ordered' : \E n \in 0 .. m.id :
                  n \notin Covered(recvMessages')]_vars
  <2> SUFFICES ASSUME TypeOK, Next, draining, ~ draining'
               PROVE  /\ unreliable' = <<>> /\ unordered' = <<>>
                      /\ \A m \in ordered' : \E n \in 0 .. m.id :
                            n \notin Covered(recvMessages')
    OBVIOUS
  <2>1. EndDrain
    BY DEF Next, Receive, ProcessPacket, Poll, BeginDrain, Loop, RcvLoop,
       ProcessMessage, RecvUnreliable, RecvUnordered, RecvOrdered, Deliver
  <2>2. /\ unreliable' = <<>> /\ unordered' = <<>> /\ ordered' = ordered
        /\ recvMessages' = recvMessages /\ OrderedReady = {}
    BY <2>1 DEF EndDrain, chanVars
  <2>3. recvMessages \in SlidingWindows
    BY DEF TypeOK, RcvTypeOK
  <2>4. recvMessages.pos \in Nat /\ recvMessages.pos \notin Covered(recvMessages)
    BY <2>3, CoveredFacts
  <2>5. ASSUME NEW m \in ordered
        PROVE  recvMessages.pos \in 0 .. m.id
    BY <2>2, <2>4, NothingReady
  <2> QED
    BY <2>2, <2>4, <2>5
<1> QED
  BY <1>1, TypeCorrect, PTL DEF Spec, PollDrains
=============================================================================
