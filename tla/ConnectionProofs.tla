--------------------------- MODULE ConnectionProofs ---------------------------
(***************************************************************************)
(* Lemmas about the two halves of a connection, for whatever drives them:  *)
(* the modules Receiver, Sender and Link.                                  *)
(***************************************************************************)
EXTENDS SendManager, ReceiveManager, OperatorProofs

\* Messages have a kind and an id.
AreMessages(messages) == \A m \in messages : m.kind \in Kinds /\ m.id \in Nat

\* A reliable message is of the kind that ids gives its id.
KindAgrees(m, ids) == IsReliable(m) => (m.kind = "Reliable" <=> m.id \in ids)

-----------------------------------------------------------------------------
(* Sequences of messages *)

\* The reliable ids of a sequence to which a message is appended.
LEMMA IdsAppend ==
    ASSUME NEW S, NEW s \in Seq(S), NEW m \in S
    PROVE  Ids(Append(s, m)) = Ids(s) \cup (IF IsReliable(m) THEN {m.id} ELSE {})
<1>1. ASSUME NEW n \in Ids(Append(s, m))
      PROVE  n \in Ids(s) \cup (IF IsReliable(m) THEN {m.id} ELSE {})
  BY AppendFacts DEF Ids, Reliables
<1>2. ASSUME NEW n \in Ids(s) PROVE n \in Ids(Append(s, m))
  <2>1. PICK i \in 1 .. Len(s) : IsReliable(s[i]) /\ s[i].id = n
    BY AppendFacts DEF Ids, Reliables
  <2>2. /\ i \in DOMAIN Append(s, m)
        /\ Append(s, m)[i] = s[i]
    BY AppendFacts
  <2> QED
    BY <2>1, <2>2 DEF Ids, Reliables
<1>3. ASSUME IsReliable(m) PROVE m.id \in Ids(Append(s, m))
  <2>1. /\ Len(s) + 1 \in DOMAIN Append(s, m)
        /\ Append(s, m)[Len(s) + 1] = m
    BY AppendFacts
  <2> QED
    BY <1>3, <2>1 DEF Ids, Reliables
<1> QED
  BY <1>1, <1>2, <1>3

-----------------------------------------------------------------------------
(* The receiving half: types *)

LEMMA InitTypes == ASSUME RcvInit, NEW messages PROVE RcvTypeOK(messages)
<1>1. NewLeadingWindow \in LeadingWindows
  BY LeadingWindowOf, WindowAssumption DEF NewLeadingWindow
<1>2. \A S : <<>> \in Seq(S)
  OBVIOUS
<1>3. recvMessages \in SlidingWindows /\ recvPackets \in LeadingWindows
  BY <1>1, NewSlidingWindowFacts DEF RcvInit
<1> QED
  BY <1>2, <1>3 DEF RcvInit, RcvTypeOK

LEMMA ProcessPacketTypes ==
    ASSUME NEW messages, RcvTypeOK(messages),
           NEW pid \in Nat \cup {NoPid}, NEW ms \in Seq(messages),
           ProcessPacket(pid, ms)
    PROVE  RcvTypeOK(messages)'
<1>1. recvPackets' \in LeadingWindows
  BY LeadingMarkFacts DEF ProcessPacket, RcvTypeOK
<1> QED
  BY <1>1 DEF ProcessPacket, chanVars, RcvTypeOK

LEMMA BeginDrainTypes ==
    ASSUME NEW messages, RcvTypeOK(messages), BeginDrain PROVE RcvTypeOK(messages)'
BY DEF BeginDrain, chanVars, RcvTypeOK

LEMMA ProcessMessageTypes ==
    ASSUME NEW messages, AreMessages(messages), RcvTypeOK(messages), ProcessMessage
    PROVE  RcvTypeOK(messages)'
<1> DEFINE m == Head(incoming)
           Part(kind) == OfKind(messages, kind)
<1>1. m \in messages /\ incoming' \in Seq(messages)
  BY TailFacts DEF ProcessMessage, RcvTypeOK
<1>2. recvMessages' \in SlidingWindows
  BY SlidingMarkFacts DEF ProcessMessage, RcvTypeOK
<1>3. /\ \/ unreliable' = unreliable
         \/ m.kind = "Unreliable" /\ unreliable' = Append(unreliable, m)
      /\ \/ unordered' = unordered
         \/ m.kind = "ReliableUnordered" /\ unordered' = Append(unordered, m)
      /\ \/ ordered' = ordered
         \/ m.kind = "Reliable" /\ ordered' = ordered \cup {m}
  BY DEF ProcessMessage, chanVars
<1> HIDE DEF m
<1>4. m \in Part(m.kind)
  BY <1>1 DEF OfKind
<1>5. /\ unreliable \in Seq(Part("Unreliable"))
      /\ unordered \in Seq(Part("ReliableUnordered"))
      /\ ordered \in SUBSET Part("Reliable")
  BY DEF RcvTypeOK
<1> HIDE DEF Part
<1>6. unreliable' \in Seq(Part("Unreliable"))
  BY <1>3, <1>4, <1>5, AppendFacts
<1>7. unordered' \in Seq(Part("ReliableUnordered"))
  BY <1>3, <1>4, <1>5, AppendFacts
<1>8. ordered' \in SUBSET Part("Reliable")
  BY <1>3, <1>4, <1>5
<1>9. UNCHANGED <<recvPackets, draining, delivered>>
  BY DEF ProcessMessage
<1> QED
  BY <1>1, <1>2, <1>6, <1>7, <1>8, <1>9 DEF Part, RcvTypeOK

LEMMA DrainTypes ==
    ASSUME NEW messages, RcvTypeOK(messages),
           RecvUnreliable \/ RecvUnordered \/ RecvOrdered \/ EndDrain
    PROVE  RcvTypeOK(messages)'
<1>1. CASE RecvUnreliable
  <2>1. /\ Head(unreliable) \in OfKind(messages, "Unreliable")
        /\ unreliable' \in Seq(OfKind(messages, "Unreliable"))
    BY <1>1, TailFacts DEF RecvUnreliable, RcvTypeOK
  <2>2. Head(unreliable) \in messages
    BY <2>1 DEF OfKind
  <2> QED
    BY <1>1, <2>1, <2>2, AppendFacts DEF RecvUnreliable, Deliver, RcvTypeOK
<1>2. CASE RecvUnordered
  <2>1. /\ Head(unordered) \in OfKind(messages, "ReliableUnordered")
        /\ unordered' \in Seq(OfKind(messages, "ReliableUnordered"))
    BY <1>2, TailFacts DEF RecvUnordered, RcvTypeOK
  <2>2. Head(unordered) \in messages
    BY <2>1 DEF OfKind
  <2> QED
    BY <1>2, <2>1, <2>2, AppendFacts DEF RecvUnordered, Deliver, RcvTypeOK
<1>3. CASE RecvOrdered
  <2>1. PICK m \in ordered : Deliver(m) /\ ordered' = ordered \ {m}
    BY <1>3 DEF RecvOrdered, OrderedReady
  <2>2. m \in messages
    BY DEF OfKind, RcvTypeOK
  <2> QED
    BY <1>3, <2>1, <2>2, AppendFacts DEF RecvOrdered, Deliver, RcvTypeOK
<1>4. CASE EndDrain
  BY <1>4 DEF EndDrain, chanVars, RcvTypeOK
<1> QED
  BY <1>1, <1>2, <1>3, <1>4

LEMMA RcvLoopTypes ==
    ASSUME NEW messages, AreMessages(messages), RcvTypeOK(messages), RcvLoop
    PROVE  RcvTypeOK(messages)'
BY ProcessMessageTypes, DrainTypes DEF RcvLoop

\* What is delivered has a kind and an id.
LEMMA DeliveredShapes ==
    ASSUME NEW messages, AreMessages(messages), RcvTypeOK(messages),
           NEW i \in DOMAIN delivered
    PROVE  delivered[i].kind \in Kinds /\ delivered[i].id \in Nat
<1>1. delivered[i] \in messages
  BY DEF RcvTypeOK
<1> QED
  BY <1>1 DEF AreMessages

-----------------------------------------------------------------------------
(* The receiving half: the buffers, the window and what was delivered *)

\* The receiver keeps this if ids are those of the Reliable messages.
BufInv(ids) == /\ NothingLost /\ AtMostOnce
               /\ KindsKept(ids) /\ OrderedAbove /\ NoGap(ids)

\* The message at the head of a sequence of unordered messages whose ids differ
\* is the only one with its id.
LEMMA UnorderedTail ==
    ASSUME NEW M, NEW s \in Seq(M), s # <<>>,
           \A i, j \in DOMAIN s : s[i].id = s[j].id => i = j,
           NEW t, t = Tail(s)
    PROVE  /\ AllIds(s) = AllIds(t) \cup {Head(s).id}
           /\ Head(s).id \notin AllIds(t)
           /\ \A i, j \in DOMAIN t : t[i].id = t[j].id => i = j
<1> DEFINE all == {s[i].id : i \in DOMAIN s}
           rest == {t[i].id : i \in DOMAIN t}
<1>1. /\ Len(s) \in Nat /\ Len(s) > 0
      /\ DOMAIN s = 1 .. Len(s) /\ DOMAIN t = 1 .. (Len(s) - 1)
      /\ Head(s) = s[1]
      /\ \A i \in 1 .. (Len(s) - 1) : t[i] = s[i + 1]
  BY TailFacts
<1>2. \A i \in DOMAIN t : i + 1 \in DOMAIN s /\ t[i].id = s[i + 1].id /\ i + 1 # 1
  BY <1>1
<1>3. rest \subseteq all
  BY <1>2
<1>4. Head(s).id \in all
  BY <1>1
<1>5. all \subseteq rest \cup {Head(s).id}
  <2> SUFFICES ASSUME NEW i \in DOMAIN s PROVE s[i].id \in rest \cup {Head(s).id}
    OBVIOUS
  <2>1. CASE i = 1
    BY <1>1, <2>1
  <2>2. CASE i # 1
    <3>1. i - 1 \in DOMAIN t /\ t[i - 1] = s[i]
      BY <1>1, <2>2
    <3> QED
      BY <3>1
  <2> QED
    BY <2>1, <2>2
<1>6. Head(s).id \notin rest
  <2> SUFFICES ASSUME NEW i \in DOMAIN t, t[i].id = Head(s).id PROVE FALSE
    OBVIOUS
  <2>1. 1 \in DOMAIN s /\ s[i + 1].id = s[1].id
    BY <1>1, <1>2
  <2> QED
    BY <1>2, <2>1
<1>7. \A i, j \in DOMAIN t : t[i].id = t[j].id => i = j
  <2> SUFFICES ASSUME NEW i \in DOMAIN t, NEW j \in DOMAIN t, t[i].id = t[j].id
               PROVE  i = j
    OBVIOUS
  <2>1. i + 1 = j + 1
    BY <1>2
  <2> QED
    BY <1>1, <2>1
<1> QED
  BY <1>3, <1>4, <1>5, <1>6, <1>7 DEF AllIds

\* Nothing was taken at first.
LEMMA BufInit ==
    ASSUME RcvInit, NEW ids PROVE BufInv(ids)
<1>1. Covered(recvMessages) = {}
  BY NewSlidingWindowFacts DEF RcvInit
<1>2. DOMAIN delivered = {} /\ DOMAIN unordered = {} /\ ordered = {}
  BY DEF RcvInit
<1>3. OrderedIn = {} /\ UnorderedIn = {} /\ DeliveredIds = {}
  BY <1>2 DEF OrderedIn, UnorderedIn, AllIds, DeliveredIds, Ids, Reliables
<1> QED
  BY <1>1, <1>2, <1>3 DEF BufInv, NothingLost, AtMostOnce, KindsKept,
     OrderedAbove, NoGap

\* A step that changes none of the variables of the invariant.
LEMMA BufStutter ==
    ASSUME NEW ids, BufInv(ids),
           UNCHANGED <<recvMessages, unordered, ordered, delivered>>
    PROVE  BufInv(ids)'
<1>1. /\ OrderedIn' = OrderedIn /\ UnorderedIn' = UnorderedIn
      /\ DeliveredIds' = DeliveredIds
  BY DEF OrderedIn, UnorderedIn, DeliveredIds
<1>2. NothingLost' /\ AtMostOnce'
  BY <1>1 DEF BufInv, NothingLost, AtMostOnce
<1>3. KindsKept(ids)' /\ OrderedAbove' /\ NoGap(ids)'
  BY <1>1 DEF BufInv, KindsKept, OrderedAbove, NoGap
<1> QED
  BY <1>2, <1>3 DEF BufInv

\* process_message: an id that is taken was covered by nothing before, so it
\* was in no buffer and not delivered; an ordered one is above the window's
\* position, and so above all that was delivered in order.
LEMMA BufProcess ==
    ASSUME NEW messages, AreMessages(messages), RcvTypeOK(messages),
           NEW ids \in SUBSET Nat, BufInv(ids), ProcessMessage,
           KindAgrees(Head(incoming), ids)
    PROVE  BufInv(ids)'
<1> DEFINE m == Head(incoming)
<1>1. m \in messages /\ m.kind \in Kinds /\ m.id \in Nat
  BY TailFacts DEF RcvTypeOK, ProcessMessage, AreMessages
<1>2. delivered' = delivered
  BY DEF ProcessMessage
<1>3. CASE ~ Accepts(m)
  BY <1>2, <1>3, BufStutter DEF ProcessMessage, chanVars
<1>4. CASE m.kind = "Unreliable"
  BY <1>2, <1>4, BufStutter DEF ProcessMessage, chanVars, IsReliable
<1>5. CASE Accepts(m) /\ m.kind \in ReliableKinds
  <2>0. m.kind = "Reliable" <=> m.id \in ids
    BY <1>5 DEF KindAgrees, IsReliable, ReliableKinds
  <2>1. /\ recvMessages' = SlidingMark(recvMessages, m.id)
        /\ \/ m.kind = "ReliableUnordered" /\ unordered' = Append(unordered, m)
                                           /\ ordered' = ordered
           \/ m.kind = "Reliable" /\ ordered' = ordered \cup {m}
                                  /\ unordered' = unordered
    BY <1>5 DEF ProcessMessage, ReliableKinds, IsReliable
  <2>2. /\ recvMessages \in SlidingWindows
        /\ m.id \in Reach(recvMessages) \ recvMessages.marked
    BY <1>5 DEF Accepts, IsReliable, ReliableKinds, RcvTypeOK
  <2>3. /\ Covered(recvMessages') = Covered(recvMessages) \cup {m.id}
        /\ recvMessages.pos <= recvMessages'.pos
        /\ recvMessages' \in SlidingWindows
    BY <2>1, <2>2, SlidingMarkInReach
  <2>4. /\ m.id \in Nat /\ m.id >= recvMessages.pos /\ recvMessages.pos \in Nat
        /\ m.id \notin Covered(recvMessages) /\ recvMessages'.pos \in Nat
    BY <2>2, <2>3, WindowAssumption, CoveredFacts DEF Reach, SlidingWindows
  <2>5. m.id \notin OrderedIn /\ m.id \notin UnorderedIn /\ m.id \notin DeliveredIds
    BY <2>4 DEF BufInv, NothingLost
  <2>6. DeliveredIds' = DeliveredIds
    BY <1>2 DEF DeliveredIds, Ids, Reliables
  <2>7. \A i \in DOMAIN delivered : delivered[i].id \in Nat
    BY DeliveredShapes
  <2> HIDE DEF m
  <2>8. CASE m.kind = "ReliableUnordered" /\ unordered' = Append(unordered, m)
                                          /\ ordered' = ordered
    <3>1. m \in OfKind(messages, "ReliableUnordered") /\ m.id \notin ids
      BY <1>1, <2>0, <2>8 DEF OfKind
    <3>2. /\ Len(unordered) \in Nat
          /\ DOMAIN unordered = 1 .. Len(unordered)
          /\ DOMAIN unordered' = 1 .. (Len(unordered) + 1)
          /\ \A i \in 1 .. Len(unordered) : unordered'[i] = unordered[i]
          /\ unordered'[Len(unordered) + 1] = m
      BY <2>8, <3>1, AppendFacts DEF RcvTypeOK
    <3>3. UnorderedIn' = UnorderedIn \cup {m.id}
      BY <3>2 DEF UnorderedIn, AllIds
    <3>4. OrderedIn' = OrderedIn
      BY <2>8 DEF OrderedIn
    <3>5. \A i, j \in DOMAIN unordered' :
             unordered'[i].id = unordered'[j].id => i = j
      <4>1. \A i \in 1 .. Len(unordered) : unordered[i].id # m.id
        BY <2>5, <3>2 DEF UnorderedIn, AllIds
      <4>2. \A i, j \in 1 .. Len(unordered) :
               unordered[i].id = unordered[j].id => i = j
        BY <3>2 DEF BufInv, AtMostOnce
      <4> QED
        BY <3>2, <4>1, <4>2
    <3>6. NothingLost'
      BY <2>3, <2>6, <3>3, <3>4 DEF BufInv, NothingLost
    <3>7. AtMostOnce'
      BY <1>2, <2>5, <2>6, <2>8, <3>3, <3>4, <3>5 DEF BufInv, AtMostOnce
    <3>8. KindsKept(ids)'
      BY <1>2, <3>1, <3>3, <3>4 DEF BufInv, KindsKept
    <3>9. OrderedAbove' /\ NoGap(ids)'
      BY <1>2, <2>3, <2>4, <2>7, <2>8 DEF BufInv, OrderedAbove, NoGap
    <3> QED
      BY <3>6, <3>7, <3>8, <3>9 DEF BufInv
  <2>9. CASE m.kind = "Reliable" /\ ordered' = ordered \cup {m}
                                 /\ unordered' = unordered
    <3>1. m.id \in ids
      BY <2>0, <2>9
    <3>2. OrderedIn' = OrderedIn \cup {m.id}
      BY <2>9 DEF OrderedIn
    <3>3. UnorderedIn' = UnorderedIn
      BY <2>9 DEF UnorderedIn, AllIds
    <3>4. NothingLost'
      BY <2>3, <2>6, <3>2, <3>3 DEF BufInv, NothingLost
    <3>5. AtMostOnce'
      <4>1. \A n \in ordered : n.id # m.id
        BY <2>5 DEF OrderedIn
      <4> QED
        BY <1>2, <2>5, <2>6, <2>9, <3>2, <3>3, <4>1 DEF BufInv, AtMostOnce
    <3>6. KindsKept(ids)'
      BY <1>2, <3>1, <3>2, <3>3 DEF BufInv, KindsKept
    <3>7. OrderedAbove'
      BY <1>2, <2>3, <2>4, <2>7, <2>9 DEF BufInv, OrderedAbove
    <3>8. NoGap(ids)'
      BY <1>2 DEF BufInv, NoGap
    <3> QED
      BY <3>4, <3>5, <3>6, <3>7, <3>8 DEF BufInv
  <2> QED
    BY <2>1, <2>8, <2>9
<1> QED
  BY <1>1, <1>3, <1>4, <1>5 DEF Kinds

\* What it means to append one message to those delivered.
LEMMA DeliverFacts ==
    ASSUME NEW messages, RcvTypeOK(messages), NEW m \in messages, Deliver(m)
    PROVE  /\ Len(delivered) \in Nat
           /\ DOMAIN delivered = 1 .. Len(delivered)
           /\ DOMAIN delivered' = 1 .. (Len(delivered) + 1)
           /\ \A i \in 1 .. Len(delivered) : delivered'[i] = delivered[i]
           /\ delivered'[Len(delivered) + 1] = m
           /\ DeliveredIds' = DeliveredIds \cup (IF IsReliable(m) THEN {m.id} ELSE {})
<1>1. delivered \in Seq(messages) /\ delivered' = Append(delivered, m)
  BY DEF RcvTypeOK, Deliver
<1> QED
  BY <1>1, AppendFacts, IdsAppend DEF DeliveredIds

\* A delivery that is not an ordered one leaves the order of those alone.
LEMMA OrderKept ==
    ASSUME NEW messages, RcvTypeOK(messages), NEW ids, BufInv(ids),
           NEW m \in messages, Deliver(m),
           m.kind # "Reliable", ordered' = ordered
    PROVE  OrderedAbove' /\ NoGap(ids)'
<1>1. /\ Len(delivered) \in Nat
      /\ DOMAIN delivered = 1 .. Len(delivered)
      /\ DOMAIN delivered' = 1 .. (Len(delivered) + 1)
      /\ \A i \in 1 .. Len(delivered) : delivered'[i] = delivered[i]
      /\ delivered'[Len(delivered) + 1] = m
  BY DeliverFacts
<1>2. \A i \in DOMAIN delivered' : delivered'[i].kind = "Reliable" =>
          i \in DOMAIN delivered /\ delivered'[i] = delivered[i]
  BY <1>1
<1>3. \A i \in DOMAIN delivered : i \in DOMAIN delivered'
                                  /\ delivered'[i] = delivered[i]
  BY <1>1
<1>4. OrderedAbove'
  BY <1>2 DEF BufInv, OrderedAbove, Deliver
<1>5. NoGap(ids)'
  BY <1>2, <1>3 DEF BufInv, NoGap
<1> QED
  BY <1>4, <1>5

LEMMA BufUnreliable ==
    ASSUME NEW messages, AreMessages(messages), RcvTypeOK(messages),
           NEW ids \in SUBSET Nat, BufInv(ids), RecvUnreliable
    PROVE  BufInv(ids)'
<1> DEFINE m == Head(unreliable)
<1>1. m \in messages /\ m.kind = "Unreliable"
  BY TailFacts DEF RcvTypeOK, OfKind, RecvUnreliable
<1>2. Deliver(m) /\ UNCHANGED <<recvMessages, unordered, ordered>>
  BY DEF RecvUnreliable, Deliver
<1> HIDE DEF m
<1>3. /\ Len(delivered) \in Nat
      /\ DOMAIN delivered = 1 .. Len(delivered)
      /\ DOMAIN delivered' = 1 .. (Len(delivered) + 1)
      /\ \A i \in 1 .. Len(delivered) : delivered'[i] = delivered[i]
      /\ delivered'[Len(delivered) + 1] = m
      /\ DeliveredIds' = DeliveredIds
  BY <1>1, <1>2, DeliverFacts DEF IsReliable
<1>4. OrderedIn' = OrderedIn /\ UnorderedIn' = UnorderedIn
  BY <1>2 DEF OrderedIn, UnorderedIn
<1>5. NothingLost'
  BY <1>2, <1>3, <1>4 DEF BufInv, NothingLost, Covered
<1>6. \A i \in DOMAIN delivered' : delivered'[i].kind # "Unreliable" =>
          i \in DOMAIN delivered /\ delivered'[i] = delivered[i]
  BY <1>1, <1>3
<1>7. AtMostOnce'
  BY <1>2, <1>3, <1>4, <1>6 DEF BufInv, AtMostOnce, IsReliable
<1>8. KindsKept(ids)'
  BY <1>4, <1>6 DEF BufInv, KindsKept
<1> QED
  BY <1>1, <1>2, <1>5, <1>7, <1>8, OrderKept DEF BufInv

LEMMA BufUnordered ==
    ASSUME NEW messages, AreMessages(messages), RcvTypeOK(messages),
           NEW ids \in SUBSET Nat, BufInv(ids), RecvUnordered
    PROVE  BufInv(ids)'
<1> DEFINE m == Head(unordered)
<1>1. m \in messages /\ m.kind = "ReliableUnordered" /\ m.id \in Nat
  BY TailFacts DEF RcvTypeOK, OfKind, RecvUnordered, AreMessages
<1>2. Deliver(m) /\ UNCHANGED <<recvMessages, ordered>>
  BY DEF RecvUnordered, Deliver
<1>3. /\ UnorderedIn = UnorderedIn' \cup {m.id}
      /\ m.id \notin UnorderedIn'
      /\ \A i, j \in DOMAIN unordered' :
            unordered'[i].id = unordered'[j].id => i = j
  <2>1. unordered' = Tail(unordered) /\ unordered # <<>>
    BY DEF RecvUnordered
  <2>2. unordered \in Seq(OfKind(messages, "ReliableUnordered"))
    BY DEF RcvTypeOK
  <2>3. \A i, j \in DOMAIN unordered : unordered[i].id = unordered[j].id => i = j
    BY DEF BufInv, AtMostOnce
  <2> DEFINE S == OfKind(messages, "ReliableUnordered")
             t == Tail(unordered)
  <2> HIDE DEF S
  <2>4. unordered \in Seq(S) /\ unordered # <<>>
    BY <2>1, <2>2 DEF S
  <2>5. /\ AllIds(unordered) = AllIds(t) \cup {m.id}
        /\ m.id \notin AllIds(t)
        /\ \A i, j \in DOMAIN t : t[i].id = t[j].id => i = j
    BY <2>3, <2>4, UnorderedTail
  <2> QED
    BY <2>1, <2>5 DEF UnorderedIn
<1> HIDE DEF m
<1>4. /\ Len(delivered) \in Nat
      /\ DOMAIN delivered = 1 .. Len(delivered)
      /\ DOMAIN delivered' = 1 .. (Len(delivered) + 1)
      /\ \A i \in 1 .. Len(delivered) : delivered'[i] = delivered[i]
      /\ delivered'[Len(delivered) + 1] = m
      /\ DeliveredIds' = DeliveredIds \cup {m.id}
  BY <1>1, <1>2, DeliverFacts DEF IsReliable
<1>5. OrderedIn' = OrderedIn
  BY <1>2 DEF OrderedIn
<1>6. NothingLost'
  BY <1>2, <1>3, <1>4, <1>5 DEF BufInv, NothingLost, Covered
<1>7. m.id \notin DeliveredIds /\ m.id \notin OrderedIn /\ m.id \notin ids
  BY <1>3 DEF BufInv, AtMostOnce, KindsKept
<1>8. AtMostOnce'
  <2>1. \A i \in 1 .. Len(delivered) :
           IsReliable(delivered[i]) => delivered[i].id # m.id
    BY <1>4, <1>7 DEF DeliveredIds, Ids, Reliables
  <2>2. \A i, j \in DOMAIN delivered' :
           /\ IsReliable(delivered'[i]) /\ IsReliable(delivered'[j])
           /\ delivered'[i].id = delivered'[j].id
           => i = j
    <3> SUFFICES ASSUME NEW i \in DOMAIN delivered', NEW j \in DOMAIN delivered',
                        IsReliable(delivered'[i]), IsReliable(delivered'[j]),
                        delivered'[i].id = delivered'[j].id
                 PROVE  i = j
      OBVIOUS
    <3>1. CASE i \in 1 .. Len(delivered) /\ j \in 1 .. Len(delivered)
      BY <1>4, <3>1 DEF BufInv, AtMostOnce
    <3>2. CASE i = Len(delivered) + 1 \/ j = Len(delivered) + 1
      BY <1>4, <2>1, <3>2
    <3> QED
      BY <1>4, <3>1, <3>2
  <2> QED
    BY <1>2, <1>3, <1>4, <1>5, <1>7, <2>2 DEF BufInv, AtMostOnce
<1>9. KindsKept(ids)'
  <2>1. \A i \in DOMAIN delivered' :
           \/ i \in DOMAIN delivered /\ delivered'[i] = delivered[i]
           \/ delivered'[i] = m
    BY <1>4
  <2> QED
    BY <1>3, <1>5, <1>7, <2>1 DEF BufInv, KindsKept
<1> QED
  BY <1>1, <1>2, <1>6, <1>8, <1>9, OrderKept DEF BufInv

\* The lowest id of the ordered buffer is below the window's position, so every
\* lower id is covered; those that are ordered are in no buffer any more.
LEMMA BufOrdered ==
    ASSUME NEW messages, AreMessages(messages), RcvTypeOK(messages),
           NEW ids \in SUBSET Nat, BufInv(ids), RecvOrdered
    PROVE  BufInv(ids)'
<1>1. PICK m \in ordered : /\ m \in OrderedReady
                           /\ Deliver(m) /\ ordered' = ordered \ {m}
  BY DEF RecvOrdered, OrderedReady
<1>2. /\ m \in messages /\ m.kind = "Reliable" /\ m.id \in Nat
      /\ \A n \in ordered : n.kind = "Reliable" /\ n.id \in Nat
      /\ \A n \in ordered : n.id = m.id => n = m
  BY <1>1 DEF RcvTypeOK, OfKind, AreMessages, BufInv, AtMostOnce
<1>3. m.id < recvMessages.pos /\ \A n \in ordered : m.id <= n.id
  BY <1>1 DEF OrderedReady
<1>4. UNCHANGED <<recvMessages, unordered>>
  BY <1>1 DEF RecvOrdered, Deliver
<1>5. /\ Len(delivered) \in Nat
      /\ DOMAIN delivered = 1 .. Len(delivered)
      /\ DOMAIN delivered' = 1 .. (Len(delivered) + 1)
      /\ \A i \in 1 .. Len(delivered) : delivered'[i] = delivered[i]
      /\ delivered'[Len(delivered) + 1] = m
      /\ DeliveredIds' = DeliveredIds \cup {m.id}
  BY <1>1, <1>2, DeliverFacts DEF IsReliable
<1>6. /\ OrderedIn' = OrderedIn \ {m.id} /\ m.id \in OrderedIn
      /\ UnorderedIn' = UnorderedIn
  BY <1>1, <1>2, <1>4 DEF OrderedIn, UnorderedIn
<1>7. NothingLost'
  BY <1>4, <1>5, <1>6 DEF BufInv, NothingLost, Covered
<1>8. m.id \notin DeliveredIds /\ m.id \notin UnorderedIn
  BY <1>6 DEF BufInv, AtMostOnce
<1>9. AtMostOnce'
  <2>1. \A i \in 1 .. Len(delivered) :
           IsReliable(delivered[i]) => delivered[i].id # m.id
    BY <1>5, <1>8 DEF DeliveredIds, Ids, Reliables
  <2>2. \A i, j \in DOMAIN delivered' :
           /\ IsReliable(delivered'[i]) /\ IsReliable(delivered'[j])
           /\ delivered'[i].id = delivered'[j].id
           => i = j
    <3> SUFFICES ASSUME NEW i \in DOMAIN delivered', NEW j \in DOMAIN delivered',
                        IsReliable(delivered'[i]), IsReliable(delivered'[j]),
                        delivered'[i].id = delivered'[j].id
                 PROVE  i = j
      OBVIOUS
    <3>1. CASE i \in 1 .. Len(delivered) /\ j \in 1 .. Len(delivered)
      BY <1>5, <3>1 DEF BufInv, AtMostOnce
    <3>2. CASE i = Len(delivered) + 1 \/ j = Len(delivered) + 1
      BY <1>5, <2>1, <3>2
    <3> QED
      BY <1>5, <3>1, <3>2
  <2> QED
    BY <1>1, <1>4, <1>5, <1>6, <1>8, <2>2 DEF BufInv, AtMostOnce
<1>10. \A i \in DOMAIN delivered' :
          \/ i \in DOMAIN delivered /\ delivered'[i] = delivered[i]
          \/ i = Len(delivered) + 1 /\ delivered'[i] = m
  BY <1>5
<1>11. KindsKept(ids)'
  BY <1>2, <1>6, <1>10 DEF BufInv, KindsKept
<1>12. \A n \in ordered' : m.id < n.id
  BY <1>1, <1>2, <1>3
<1>13. OrderedAbove'
  BY <1>1, <1>3, <1>4, <1>10, <1>12 DEF BufInv, OrderedAbove
<1>14. NoGap(ids)'
  <2> SUFFICES ASSUME NEW i \in DOMAIN delivered', delivered'[i].kind = "Reliable"
               PROVE  /\ \A j \in DOMAIN delivered' :
                           delivered'[j].kind = "Reliable" /\ j < i
                           => delivered'[j].id < delivered'[i].id
                      /\ \A n \in ids : n < delivered'[i].id =>
                           \E j \in DOMAIN delivered' :
                              /\ j < i /\ delivered'[j].kind = "Reliable"
                              /\ delivered'[j].id = n
    BY DEF NoGap
  <2>1. CASE i \in 1 .. Len(delivered)
    BY <1>5, <2>1 DEF BufInv, NoGap
  <2>2. CASE i = Len(delivered) + 1
    <3>1. delivered'[i] = m
      BY <1>5, <2>2
    <3>2. \A j \in DOMAIN delivered' : j < i =>
             j \in DOMAIN delivered /\ delivered'[j] = delivered[j]
      BY <1>5, <2>2
    <3>3. \A j \in DOMAIN delivered' :
             delivered'[j].kind = "Reliable" /\ j < i => delivered'[j].id < m.id
      BY <1>1, <3>2 DEF BufInv, OrderedAbove
    <3>4. ASSUME NEW n \in ids, n < m.id
          PROVE  \E j \in DOMAIN delivered' :
                    j < i /\ delivered'[j].kind = "Reliable" /\ delivered'[j].id = n
      <4>1. n \in Nat /\ recvMessages.pos \in Nat
        BY DEF RcvTypeOK, SlidingWindows
      <4>2. n \in Covered(recvMessages)
        BY <1>2, <1>3, <3>4, <4>1, CoveredFacts DEF RcvTypeOK
      <4>3. n \notin OrderedIn
        BY <1>2, <1>3, <3>4, <4>1 DEF OrderedIn
      <4>4. n \notin UnorderedIn
        BY <3>4 DEF BufInv, KindsKept
      <4>5. n \in DeliveredIds
        BY <4>2, <4>3, <4>4 DEF BufInv, NothingLost
      <4>6. PICK j \in DOMAIN delivered : IsReliable(delivered[j])
                                          /\ delivered[j].id = n
        BY <4>5 DEF DeliveredIds, Ids, Reliables
      <4>7. delivered[j].kind = "Reliable"
        <5>1. delivered[j].kind \in Kinds
          BY <4>6, DeliveredShapes
        <5>2. delivered[j].kind # "ReliableUnordered"
          BY <3>4, <4>6 DEF BufInv, KindsKept
        <5> QED
          BY <4>6, <5>1, <5>2 DEF Kinds, ReliableKinds, IsReliable
      <4>8. j \in DOMAIN delivered' /\ j < i /\ delivered'[j] = delivered[j]
        BY <1>5, <2>2
      <4> QED
        BY <4>6, <4>7, <4>8
    <3> QED
      BY <3>1, <3>3, <3>4
  <2> QED
    BY <1>5, <2>1, <2>2
<1> QED
  BY <1>7, <1>9, <1>11, <1>13, <1>14 DEF BufInv

\* Every step of the receiver keeps it, if the kind of the message it takes in
\* is what it always was.
LEMMA RcvLoopBuf ==
    ASSUME NEW messages, AreMessages(messages), RcvTypeOK(messages),
           NEW ids \in SUBSET Nat, BufInv(ids),
           incoming # <<>> => KindAgrees(Head(incoming), ids), RcvLoop
    PROVE  BufInv(ids)'
<1>1. CASE EndDrain
  BY <1>1, BufStutter DEF EndDrain, chanVars
<1>2. CASE ProcessMessage
  BY <1>2, BufProcess DEF ProcessMessage
<1> QED
  BY <1>1, <1>2, BufUnreliable, BufUnordered, BufOrdered DEF RcvLoop

-----------------------------------------------------------------------------
(* The sending half: the ids of parts of the queue *)

\* Ids are numbers.
LEMMA IdsAreNat == ASSUME NEW s \in Seq(Message) PROVE Ids(s) \subseteq Nat
<1>1. \A i \in DOMAIN s : s[i] \in Message
  OBVIOUS
<1>2. \A m \in Message : m.id \in Nat
  BY DEF Message
<1> QED
  BY <1>1, <1>2 DEF Ids, Reliables

\* Its reliable messages, the ids of them, and the others.
LEMMA SubsequenceIds ==
    ASSUME NEW s \in Seq(Message), NEW is \in SUBSET DOMAIN s
    PROVE  Ids(Subsequence(s, is)) = {s[i].id : i \in is \cap Reliables(s)}
<1> DEFINE t == Subsequence(s, is)
<1>1. /\ t \in Seq(Message)
      /\ \A k \in DOMAIN t : Place(is, k) \in is /\ t[k] = s[Place(is, k)]
      /\ \A i \in is : \E k \in DOMAIN t : Place(is, k) = i
  BY SubsequenceFacts
<1> HIDE DEF t
<1>2. ASSUME NEW n \in Ids(t) PROVE n \in {s[i].id : i \in is \cap Reliables(s)}
  <2>1. PICK k \in DOMAIN t : IsReliable(t[k]) /\ n = t[k].id
    BY <1>2 DEF Ids, Reliables
  <2>2. Place(is, k) \in is \cap Reliables(s) /\ n = s[Place(is, k)].id
    BY <1>1, <2>1 DEF Reliables
  <2> QED
    BY <2>2
<1>3. ASSUME NEW i \in is \cap Reliables(s) PROVE s[i].id \in Ids(t)
  <2>1. PICK k \in DOMAIN t : Place(is, k) = i
    BY <1>1
  <2>2. t[k] = s[i] /\ k \in Reliables(t)
    BY <1>1, <2>1 DEF Reliables
  <2> QED
    BY <2>2 DEF Ids
<1> QED
  BY <1>2, <1>3 DEF t

\* The reliable messages of a sequence, put in a sequence, are all that the
\* packet window needs to know of it.
LEMMA EntryFacts ==
    ASSUME NEW s \in Seq(Message)
    PROVE  LET r == Subsequence(s, Reliables(s))
               e == [i \in DOMAIN r |-> r[i].id]
           IN  /\ e \in Seq(Nat) /\ ToSet(e) = Ids(s)
               /\ r = <<>> => Ids(s) = {}
<1> DEFINE r == Subsequence(s, Reliables(s))
           e == [i \in DOMAIN r |-> r[i].id]
<1>1. Reliables(s) \in SUBSET DOMAIN s
  BY DEF Reliables
<1>2. /\ r \in Seq(Message)
      /\ \A k \in DOMAIN r : Place(Reliables(s), k) \in Reliables(s)
                               /\ r[k] = s[Place(Reliables(s), k)]
      /\ \A i \in Reliables(s) : \E k \in DOMAIN r : Place(Reliables(s), k) = i
  BY <1>1, SubsequenceFacts
<1> HIDE DEF r
<1>3. \A k \in DOMAIN r : r[k].id \in Nat
  <2>1. \A k \in DOMAIN r : r[k] \in Message
    BY <1>2
  <2>2. \A m \in Message : m.id \in Nat
    BY DEF Message
  <2> QED
    BY <2>1, <2>2
<1>4. DOMAIN r = 1 .. Len(r) /\ Len(r) \in Nat
  BY <1>2
<1>5. e \in Seq(Nat)
  BY <1>3, <1>4
<1>6. ToSet(e) = {r[k].id : k \in DOMAIN r}
  BY DEF ToSet
<1>7. {r[k].id : k \in DOMAIN r} = Ids(s)
  <2>1. ASSUME NEW k \in DOMAIN r PROVE r[k].id \in Ids(s)
    BY <1>2, <2>1 DEF Ids
  <2>2. ASSUME NEW i \in Reliables(s) PROVE s[i].id \in {r[k].id : k \in DOMAIN r}
    <3>1. PICK k \in DOMAIN r : Place(Reliables(s), k) = i
      BY <1>2
    <3> QED
      BY <1>2, <3>1
  <2> QED
    BY <2>1, <2>2 DEF Ids
<1>8. r = <<>> => Ids(s) = {}
  BY <1>4, <1>7
<1> HIDE DEF e
<1>9. e \in Seq(Nat) /\ ToSet(e) = Ids(s) /\ (r = <<>> => Ids(s) = {})
  BY <1>5, <1>6, <1>7, <1>8
<1> QED
  BY <1>9 DEF r, e

-----------------------------------------------------------------------------
(* The sending half: types *)

\* queue_msg puts one message more at the end of the queue.
LEMMA QueueMsgTypes ==
    ASSUME SndTypeOK, NEW kind \in Kinds, NEW size \in Sizes, QueueMsg(kind, size)
    PROVE  SndTypeOK'
<1> DEFINE m == [kind |-> kind, size |-> size,
                 id |-> IF kind = "Unreliable" THEN payloads ELSE messageCounter]
<1>1. m \in Message
  BY DEF Message, SndTypeOK
<1>2. queue' = Append(queue, m)
  BY DEF QueueMsg
<1> HIDE DEF m
<1>3. queue' \in Seq(Message)
  BY <1>1, <1>2 DEF SndTypeOK
<1>4. messageCounter' \in Nat /\ payloads' \in Nat
  BY DEF QueueMsg, SndTypeOK
<1> QED
  BY <1>3, <1>4 DEF QueueMsg, SndTypeOK

\* A report only sets the ids to look up.
LEMMA ReceiveAcksTypes ==
    ASSUME SndTypeOK, NEW pids \in SUBSET Nat, ReceiveAcks(pids)
    PROVE  SndTypeOK'
BY DEF ReceiveAcks, SndTypeOK

\* Looking one up takes out an entry, or none.
LEMMA MarkSentPacketReceivedTypes ==
    ASSUME SndTypeOK, MarkSentPacketReceived
    PROVE  SndTypeOK'
<1> DEFINE pid == Min(acking)
<1>1. /\ acking' = acking \ {pid}
      /\ IF pid \in DOMAIN sentPackets
         THEN marking' = sentPackets[pid] /\ sentPackets' = MarkSent(pid)
         ELSE UNCHANGED <<marking, sentPackets>>
      /\ UNCHANGED <<queue, attempted, messageCounter, payloads, packetCounter,
                     sentMessages, poll, wire>>
  BY DEF MarkSentPacketReceived
<1> HIDE DEF pid
<1>2. marking' \in Seq(Nat)
  BY <1>1 DEF SndTypeOK
<1>3. /\ DOMAIN sentPackets' \subseteq Nat
      /\ \A p \in DOMAIN sentPackets' : sentPackets'[p] \in Seq(Nat)
  BY <1>1 DEF SndTypeOK, MarkSent, Restrict
<1> QED
  BY <1>1, <1>2, <1>3 DEF SndTypeOK

\* One message of it is marked.
LEMMA MarkSentMessageTypes ==
    ASSUME SndTypeOK, MarkSentMessage
    PROVE  SndTypeOK'
<1>1. sentMessages' \in SlidingWindows
  BY SlidingMarkFacts DEF MarkSentMessage, SndTypeOK
<1>2. marking' \in Seq(Nat)
  BY DEF MarkSentMessage, SndTypeOK
<1> QED
  BY <1>1, <1>2 DEF MarkSentMessage, SndTypeOK

\* A poll begins with parts of the queue.
LEMMA BeginPollTypes ==
    ASSUME SndTypeOK, NEW expired, NEW budget \in 1 .. MaxBudget,
           NEW score \in 0 .. PacketWindowLen, NEW due \in BOOLEAN,
           BeginPoll(expired, budget, score, due)
    PROVE  SndTypeOK' /\ poll' \in PollType
<1> DEFINE kept == {i \in DOMAIN queue : ~ Received(queue[i])}
           stay == {i \in kept : StaysQueued(queue[i], expired)}
           candidates == {i \in kept : IsReady(queue[i], expired)}
<1>1. /\ queue' = Subsequence(queue, stay)
      /\ attempted' \subseteq attempted
      /\ poll' = [running |-> TRUE, candidates |-> Subsequence(queue, candidates),
                  budget |-> budget, first |-> TRUE, score |-> score,
                  due |-> due, bare |-> 0]
      /\ UNCHANGED <<messageCounter, payloads, packetCounter, sentMessages,
                     sentPackets, acking, marking, wire>>
  BY DEF BeginPoll
<1>2. stay \in SUBSET DOMAIN queue /\ candidates \in SUBSET DOMAIN queue
  OBVIOUS
<1> HIDE DEF kept, stay, candidates
<1>3. queue' \in Seq(Message) /\ Subsequence(queue, candidates) \in Seq(Message)
  BY <1>1, <1>2, SubsequenceFacts DEF SndTypeOK
<1>4. poll' \in PollType
  BY <1>1, <1>3 DEF PollType
<1>5. poll'.running
  BY <1>1
<1> QED
  BY <1>1, <1>3, <1>4, <1>5 DEF SndTypeOK, PollType

\* What one iteration of prepare_and_send does, whatever it packs.
LEMMA SendPacketEffect ==
    ASSUME SndTypeOK, SendPacket
    PROVE  \E is \in SUBSET DOMAIN poll.candidates, pid \in Nat \cup {NoPid} :
             LET packed == Subsequence(poll.candidates, is) IN
             /\ Packs(is)
             /\ packed \in Seq(Message)
             /\ wire' = Append(wire, [pid |-> pid, messages |-> packed])
             /\ poll' \in PollType
             /\ poll'.candidates =
                  Subsequence(poll.candidates, DOMAIN poll.candidates \ is)
             /\ attempted' = attempted \cup Ids(packed)
             /\ \/ /\ pid = NoPid /\ Ids(packed) = {}
                   /\ UNCHANGED <<packetCounter, sentPackets>>
                \/ /\ pid = packetCounter /\ packetCounter' = packetCounter + 1
                   /\ \E entry \in Seq(Nat) :
                        /\ ToSet(entry) = Ids(packed)
                        /\ sentPackets' = PushSent(pid, entry)
             /\ UNCHANGED <<queue, messageCounter, payloads, sentMessages,
                            acking, marking>>
<1>1. poll.running /\ ~ MustStop
  BY DEF SendPacket
<1>2. poll \in PollType
  BY <1>1 DEF SndTypeOK, PollType
<1>3. PICK is \in SUBSET DOMAIN poll.candidates, score \in 0 .. poll.score :
         /\ Packs(is)
         /\ LET packed == Subsequence(poll.candidates, is)
                rest == Subsequence(poll.candidates,
                                    DOMAIN poll.candidates \ is)
                ids == Subsequence(packed, Reliables(packed))
                hasPid == ids # <<>> \/ poll.due
                pid == IF hasPid THEN packetCounter ELSE NoPid
            IN /\ wire' = Append(wire, [pid |-> pid, messages |-> packed])
               /\ attempted' = attempted \cup Ids(packed)
               /\ packetCounter' = IF hasPid THEN packetCounter + 1
                                             ELSE packetCounter
               /\ sentPackets' = IF hasPid
                    THEN PushSent(pid, [i \in DOMAIN ids |-> ids[i].id])
                    ELSE sentPackets
               /\ score # poll.score => hasPid
               /\ poll' = [poll EXCEPT
                    !.candidates = rest,
                    !.budget = @ - 1,
                    !.first = FALSE,
                    !.score = score,
                    !.due = @ /\ ~ hasPid,
                    !.bare = IF packed = <<>> /\ ~ hasPid THEN @ + 1 ELSE @]
  BY DEF SendPacket
<1> DEFINE packed == Subsequence(poll.candidates, is)
           rest == Subsequence(poll.candidates, DOMAIN poll.candidates \ is)
           ids == Subsequence(packed, Reliables(packed))
           entry == [i \in DOMAIN ids |-> ids[i].id]
           hasPid == ids # <<>> \/ poll.due
           pid == IF hasPid THEN packetCounter ELSE NoPid
<1>4. UNCHANGED <<queue, messageCounter, payloads, sentMessages, acking, marking>>
  BY DEF SendPacket
<1>5. poll.candidates \in Seq(Message) /\ poll.budget \in 0 .. MaxBudget
      /\ poll.score \in 0 .. PacketWindowLen /\ poll.due \in BOOLEAN
      /\ poll.bare \in Nat
  BY <1>2 DEF PollType
<1>6. packed \in Seq(Message) /\ rest \in Seq(Message)
  BY <1>5, SubsequenceFacts
<1> HIDE DEF packed, rest
<1>7. entry \in Seq(Nat) /\ ToSet(entry) = Ids(packed) /\ (ids = <<>> => Ids(packed) = {})
  BY <1>6, EntryFacts
<1> HIDE DEF ids, entry
<1>8. poll.budget # 0
  BY <1>1 DEF MustStop
<1>9. poll' \in PollType /\ poll'.candidates = rest
  <2>1. poll' = [poll EXCEPT
                    !.candidates = rest,
                    !.budget = @ - 1,
                    !.first = FALSE,
                    !.score = score,
                    !.due = @ /\ ~ hasPid,
                    !.bare = IF packed = <<>> /\ ~ hasPid THEN @ + 1 ELSE @]
    BY <1>3 DEF packed, rest, ids
  <2>2. poll.budget - 1 \in 0 .. MaxBudget /\ score \in 0 .. PacketWindowLen
    BY <1>5, <1>8, <1>3, WindowAssumption, SenderAssumption
  <2>3. (IF packed = <<>> /\ ~ hasPid THEN poll.bare + 1 ELSE poll.bare) \in Nat
    BY <1>5
  <2>4. (poll.due /\ ~ hasPid) \in BOOLEAN
    OBVIOUS
  <2> HIDE DEF hasPid
  <2> QED
    BY <1>2, <1>6, <2>1, <2>2, <2>3, <2>4 DEF PollType
<1>10. \/ /\ pid = NoPid /\ Ids(packed) = {}
          /\ UNCHANGED <<packetCounter, sentPackets>>
       \/ /\ pid = packetCounter /\ packetCounter' = packetCounter + 1
          /\ sentPackets' = PushSent(pid, entry)
  BY <1>3, <1>7 DEF packed, ids, entry
<1>11. pid \in Nat \cup {NoPid}
  BY DEF SndTypeOK
<1>12. wire' = Append(wire, [pid |-> pid, messages |-> packed])
       /\ attempted' = attempted \cup Ids(packed)
  BY <1>3 DEF packed, ids
<1> HIDE DEF pid
<1> QED
  BY <1>3, <1>4, <1>6, <1>7, <1>9, <1>10, <1>11, <1>12 DEF packed, rest

\* A packet is sent with some of the candidates, and the others remain.
LEMMA SendPacketTypes ==
    ASSUME SndTypeOK, SendPacket
    PROVE  SndTypeOK' /\ poll' \in PollType
<1>1. PICK is \in SUBSET DOMAIN poll.candidates, pid \in Nat \cup {NoPid} :
             /\ Subsequence(poll.candidates, is) \in Seq(Message)
             /\ wire' = Append(wire, [pid |-> pid,
                              messages |-> Subsequence(poll.candidates, is)])
             /\ poll' \in PollType
             /\ attempted' = attempted \cup Ids(Subsequence(poll.candidates, is))
             /\ \/ /\ UNCHANGED <<packetCounter, sentPackets>>
                \/ /\ pid = packetCounter /\ packetCounter' = packetCounter + 1
                   /\ \E entry \in Seq(Nat) : sentPackets' = PushSent(pid, entry)
             /\ UNCHANGED <<queue, messageCounter, payloads, sentMessages,
                            acking, marking>>
  BY SendPacketEffect
<1> DEFINE packed == Subsequence(poll.candidates, is)
<1> HIDE DEF packed
<1>2. packed \in Seq(Message) /\ attempted' = attempted \cup Ids(packed)
      /\ wire' = Append(wire, [pid |-> pid, messages |-> packed])
  BY <1>1 DEF packed
<1>3. Ids(packed) \subseteq Nat
  BY <1>2, IdsAreNat
<1>4. wire' \in Seq(PacketType)
  BY <1>2 DEF SndTypeOK, PacketType
<1>5. packetCounter' \in Nat
  BY <1>1 DEF SndTypeOK
<1>6. /\ DOMAIN sentPackets' \subseteq Nat
      /\ \A p \in DOMAIN sentPackets' : sentPackets'[p] \in Seq(Nat)
  <2>1. CASE UNCHANGED sentPackets
    BY <2>1 DEF SndTypeOK
  <2>2. CASE pid = packetCounter
             /\ \E entry \in Seq(Nat) : sentPackets' = PushSent(pid, entry)
    BY <2>2 DEF SndTypeOK, PushSent
  <2> QED
    BY <1>1, <2>1, <2>2
<1>7. poll'.running
  BY <1>1 DEF PollType
<1> QED
  BY <1>1, <1>2, <1>3, <1>4, <1>5, <1>6, <1>7 DEF SndTypeOK, PollType, PacketType

\* What was not sent goes back.
LEMMA EndPollTypes ==
    ASSUME SndTypeOK, EndPoll
    PROVE  SndTypeOK'
<1>1. poll.candidates \in Seq(Message)
  BY DEF EndPoll, SndTypeOK, PollType
<1>2. Unreliables(poll.candidates) \in SUBSET DOMAIN poll.candidates
  BY DEF Unreliables
<1>3. PutBack(poll.candidates) \in Seq(Message)
  BY <1>1, <1>2, SubsequenceFacts DEF PutBack
<1>4. queue' \in Seq(Message)
  BY <1>3 DEF EndPoll, SndTypeOK
<1>5. ~ poll'.running /\ poll' = NoPoll
  BY DEF EndPoll, NoPoll
<1> QED
  BY <1>4, <1>5 DEF EndPoll, SndTypeOK

-----------------------------------------------------------------------------
(* The sending half: the queue *)

\* What prepare_and_send relies on while it runs: its candidates are queued
\* still, none of them is known to be received, and no report is handled.
QueueInv ==
    /\ NoneForgotten
    /\ CandidatesAreQueued
    /\ poll.running => /\ acking = {} /\ marking = <<>>
                       /\ InIdOrder(poll.candidates)
                       /\ Ids(poll.candidates) \cap Covered(sentMessages) = {}

\* A part of a sequence in the order of its ids is in that order.
LEMMA SubsequenceInIdOrder ==
    ASSUME NEW s \in Seq(Message), NEW is \in SUBSET DOMAIN s, InIdOrder(s)
    PROVE  InIdOrder(Subsequence(s, is))
<1> DEFINE t == Subsequence(s, is)
<1>1. /\ \A k \in DOMAIN t : Place(is, k) \in is /\ t[k] = s[Place(is, k)]
      /\ \A k, l \in DOMAIN t : k < l => Place(is, k) < Place(is, l)
  BY SubsequenceFacts
<1> HIDE DEF t
<1> SUFFICES ASSUME NEW k \in Reliables(t), NEW l \in Reliables(t), k < l
             PROVE  t[k].id < t[l].id
  BY DEF InIdOrder, t
<1>2. Place(is, k) \in Reliables(s) /\ Place(is, l) \in Reliables(s)
  BY <1>1 DEF Reliables
<1>3. Place(is, k) < Place(is, l)
  BY <1>1 DEF Reliables
<1> QED
  BY <1>1, <1>2, <1>3 DEF InIdOrder, Reliables

\* What is at the places of two sequences put together.
LEMMA ConcatPlaces ==
    ASSUME NEW S, NEW s \in Seq(S), NEW t \in Seq(S)
    PROVE  /\ s \o t \in Seq(S)
           /\ \A i \in DOMAIN s : i \in DOMAIN (s \o t) /\ (s \o t)[i] = s[i]
           /\ \A i \in DOMAIN t : /\ Len(s) + i \in DOMAIN (s \o t)
                                  /\ (s \o t)[Len(s) + i] = t[i]
           /\ \A i \in DOMAIN (s \o t) : i \in DOMAIN s \/ i - Len(s) \in DOMAIN t
OBVIOUS

\* Queueing keeps the order: a new id is above all others.
LEMMA QueueMsgQueue ==
    ASSUME SndTypeOK, QueueInv, NEW kind \in Kinds, NEW size \in Sizes,
           QueueMsg(kind, size)
    PROVE  QueueInv'
<1> DEFINE m == [kind |-> kind, size |-> size,
                 id |-> IF kind = "Unreliable" THEN payloads ELSE messageCounter]
<1>1. /\ queue' = Append(queue, m)
      /\ messageCounter' = IF IsReliable(m) THEN messageCounter + 1 ELSE messageCounter
      /\ UNCHANGED <<sentMessages, poll, acking, marking>>
      /\ ~ poll.running
  BY DEF QueueMsg, IsReliable, SndIdle, NoPoll
<1>2. m \in Message /\ (IsReliable(m) => m.id = messageCounter)
  BY DEF Message, SndTypeOK, IsReliable
<1> HIDE DEF m
<1>3. /\ DOMAIN queue' = DOMAIN queue \cup {Len(queue) + 1}
      /\ \A i \in DOMAIN queue : i < Len(queue) + 1 /\ queue'[i] = queue[i]
      /\ queue'[Len(queue) + 1] = m
      /\ Len(queue) \in Nat
  BY <1>1, <1>2, AppendPlaces DEF SndTypeOK
<1>4. Reliables(queue') = Reliables(queue)
            \cup (IF IsReliable(m) THEN {Len(queue) + 1} ELSE {})
  BY <1>3 DEF Reliables
<1>5. \A i \in Reliables(queue) : i \in DOMAIN queue /\ queue[i].id \in Ids(queue)
  BY DEF Reliables, Ids
<1>6. Ids(queue') = Ids(queue) \cup (IF IsReliable(m) THEN {messageCounter} ELSE {})
  BY <1>2, <1>3, <1>4, <1>5 DEF Ids
<1>7. /\ 0 .. (messageCounter' - 1) \subseteq Ids(queue') \cup Covered(sentMessages')
      /\ Ids(queue') \subseteq 0 .. (messageCounter' - 1)
  BY <1>1, <1>6 DEF QueueInv, NoneForgotten, SndTypeOK
<1>8. InIdOrder(queue')
  <2> SUFFICES ASSUME NEW i \in Reliables(queue'), NEW j \in Reliables(queue'), i < j
               PROVE  queue'[i].id < queue'[j].id
    BY DEF InIdOrder
  <2>1. i \in Reliables(queue)
    <3>1. j \in DOMAIN queue'
      BY DEF Reliables
    <3>2. \A k \in DOMAIN queue : k \in Nat
      BY DEF SndTypeOK
    <3>3. ~ (Len(queue) + 1 < j)
      BY <1>3, <3>1, <3>2
    <3> QED
      BY <1>4, <3>3
  <2>2. queue[i].id \in 0 .. (messageCounter - 1)
    BY <1>5, <2>1 DEF QueueInv, NoneForgotten
  <2>3. CASE j \in Reliables(queue)
    <3>1. queue[i].id < queue[j].id
      BY <2>1, <2>3 DEF QueueInv, NoneForgotten, InIdOrder
    <3>2. queue'[i] = queue[i] /\ queue'[j] = queue[j]
      BY <1>3, <1>5, <2>1, <2>3
    <3> QED
      BY <3>1, <3>2
  <2>4. CASE j = Len(queue) + 1 /\ IsReliable(m)
    <3>1. queue'[i] = queue[i] /\ queue'[j] = m
      BY <1>3, <1>5, <2>1, <2>4
    <3>2. m.id = messageCounter /\ messageCounter \in Nat
      BY <1>2, <2>4 DEF SndTypeOK
    <3>3. queue[i].id < m.id
      BY <2>2, <3>2
    <3> QED
      BY <3>1, <3>3
  <2> QED
    BY <1>4, <2>3, <2>4
<1>9. ~ poll'.running
  BY <1>1
<1> QED
  BY <1>7, <1>8, <1>9 DEF QueueInv, NoneForgotten, CandidatesAreQueued

\* A report comes between polls.
LEMMA ReceiveAcksQueue ==
    ASSUME QueueInv, NEW pids, ReceiveAcks(pids)
    PROVE  QueueInv'
<1>1. UNCHANGED <<queue, messageCounter, sentMessages, poll>> /\ ~ poll.running
  BY DEF ReceiveAcks, SndIdle, NoPoll
<1>2. NoneForgotten'
  BY <1>1 DEF QueueInv, NoneForgotten
<1> QED
  BY <1>1, <1>2 DEF QueueInv, CandidatesAreQueued

\* Nor does a poll run while one is handled.
LEMMA MarkSentPacketReceivedQueue ==
    ASSUME QueueInv, MarkSentPacketReceived
    PROVE  QueueInv'
<1>1. UNCHANGED <<queue, messageCounter, sentMessages, poll>> /\ ~ poll.running
  BY DEF MarkSentPacketReceived, QueueInv
<1>2. NoneForgotten'
  BY <1>1 DEF QueueInv, NoneForgotten
<1> QED
  BY <1>1, <1>2 DEF QueueInv, CandidatesAreQueued

\* The window covers more and more.
LEMMA MarkSentMessageQueue ==
    ASSUME SndTypeOK, QueueInv, MarkSentMessage
    PROVE  QueueInv'
<1>1. UNCHANGED <<queue, messageCounter, poll>> /\ ~ poll.running
  BY DEF MarkSentMessage, QueueInv
<1>2. Covered(sentMessages) \subseteq Covered(sentMessages')
  BY SlidingMarkFacts DEF MarkSentMessage, SndTypeOK
<1>3. NoneForgotten'
  BY <1>1, <1>2 DEF QueueInv, NoneForgotten
<1> QED
  BY <1>1, <1>3 DEF QueueInv, CandidatesAreQueued

\* What a poll takes out of the queue was received or is unreliable.
LEMMA BeginPollQueue ==
    ASSUME SndTypeOK, QueueInv, NEW expired, NEW budget, NEW score, NEW due,
           BeginPoll(expired, budget, score, due)
    PROVE  QueueInv'
<1> DEFINE kept == {i \in DOMAIN queue : ~ Received(queue[i])}
           stay == {i \in kept : StaysQueued(queue[i], expired)}
           candidates == {i \in kept : IsReady(queue[i], expired)}
<1>1. /\ queue' = Subsequence(queue, stay)
      /\ poll' = [running |-> TRUE, candidates |-> Subsequence(queue, candidates),
                  budget |-> budget, first |-> TRUE, score |-> score,
                  due |-> due, bare |-> 0]
      /\ UNCHANGED <<messageCounter, sentMessages, acking, marking>>
      /\ acking = {} /\ marking = <<>>
  BY DEF BeginPoll, SndIdle
<1>2. stay \in SUBSET DOMAIN queue /\ candidates \in SUBSET DOMAIN queue
  OBVIOUS
<1>3. \A i \in Reliables(queue) :
         i \in stay <=> queue[i].id \notin Covered(sentMessages)
  BY DEF Reliables, StaysQueued, Received
<1>4. \A i \in candidates \cap Reliables(queue) :
         i \in stay /\ queue[i].id \notin Covered(sentMessages)
  BY <1>3 DEF Reliables, Received
<1> HIDE DEF kept, stay, candidates
<1>5. queue \in Seq(Message)
  BY DEF SndTypeOK
<1>6. Ids(queue') = {queue[i].id : i \in stay \cap Reliables(queue)}
  BY <1>1, <1>2, <1>5, SubsequenceIds
<1>7. poll'.candidates = Subsequence(queue, candidates)
  BY <1>1
<1>8. Ids(poll'.candidates) = {queue[i].id : i \in candidates \cap Reliables(queue)}
  BY <1>2, <1>5, <1>7, SubsequenceIds
<1>9. /\ Ids(poll'.candidates) \subseteq Ids(queue')
      /\ Ids(poll'.candidates) \cap Covered(sentMessages) = {}
  BY <1>4, <1>6, <1>8
<1>10. InIdOrder(queue') /\ InIdOrder(poll'.candidates)
  BY <1>1, <1>2, <1>5, <1>7, SubsequenceInIdOrder DEF QueueInv, NoneForgotten
<1>11. Ids(queue') \subseteq Ids(queue)
  BY <1>6 DEF Ids
<1>12. Ids(queue) \subseteq Ids(queue') \cup Covered(sentMessages)
  BY <1>3, <1>6 DEF Ids
<1>13. NoneForgotten'
  BY <1>1, <1>10, <1>11, <1>12 DEF QueueInv, NoneForgotten
<1> QED
  BY <1>1, <1>9, <1>10, <1>13 DEF QueueInv, CandidatesAreQueued

\* Fewer candidates remain; the queue stays.
LEMMA SendPacketQueue ==
    ASSUME SndTypeOK, QueueInv, SendPacket
    PROVE  QueueInv'
<1>1. PICK is \in SUBSET DOMAIN poll.candidates :
         /\ poll'.candidates =
              Subsequence(poll.candidates, DOMAIN poll.candidates \ is)
         /\ UNCHANGED <<queue, messageCounter, sentMessages, acking, marking>>
  BY SendPacketEffect
<1>2. poll.running /\ poll.candidates \in Seq(Message)
  BY DEF SendPacket, SndTypeOK, PollType
<1>3. InIdOrder(poll'.candidates)
  BY <1>1, <1>2, SubsequenceInIdOrder DEF QueueInv
<1>4. Ids(poll'.candidates) \subseteq Ids(poll.candidates)
  <2>1. Ids(poll'.candidates) = {poll.candidates[i].id :
            i \in (DOMAIN poll.candidates \ is) \cap Reliables(poll.candidates)}
    BY <1>1, <1>2, SubsequenceIds
  <2> QED
    BY <2>1 DEF Ids
<1>5. NoneForgotten'
  BY <1>1 DEF QueueInv, NoneForgotten
<1> QED
  BY <1>1, <1>2, <1>3, <1>4, <1>5 DEF QueueInv, CandidatesAreQueued

\* What goes back to the queue is unreliable.
LEMMA EndPollQueue ==
    ASSUME SndTypeOK, QueueInv, EndPoll
    PROVE  QueueInv'
<1> DEFINE back == PutBack(poll.candidates)
           un == Unreliables(poll.candidates)
<1>1. /\ queue' = back \o queue
      /\ UNCHANGED <<messageCounter, sentMessages, acking, marking>>
      /\ ~ poll'.running
  BY DEF EndPoll, NoPoll
<1>2. poll.candidates \in Seq(Message)
  BY DEF EndPoll, SndTypeOK, PollType
<1>3. un \in SUBSET DOMAIN poll.candidates
  BY DEF Unreliables
<1>4. back \in Seq(Message) /\ Reliables(back) = {}
  <2>1. /\ back \in Seq(Message)
        /\ \A k \in DOMAIN back : Place(un, k) \in un
                                  /\ back[k] = poll.candidates[Place(un, k)]
    BY <1>2, <1>3, SubsequenceFacts DEF PutBack
  <2> QED
    BY <2>1 DEF Reliables, Unreliables
<1> HIDE DEF back, un
<1>5. queue \in Seq(Message) /\ Len(back) \in Nat
  BY <1>4 DEF SndTypeOK
<1>6. /\ \A i \in Reliables(queue) : /\ Len(back) + i \in Reliables(queue')
                                     /\ queue'[Len(back) + i] = queue[i]
      /\ \A i \in Reliables(queue') : /\ i - Len(back) \in Reliables(queue)
                                      /\ queue'[i] = queue[i - Len(back)]
                                      /\ i \in Nat
  <2>1. /\ \A i \in DOMAIN back : queue'[i] = back[i]
        /\ \A i \in DOMAIN queue : /\ Len(back) + i \in DOMAIN queue'
                                   /\ queue'[Len(back) + i] = queue[i]
        /\ \A i \in DOMAIN queue' : i \in DOMAIN back \/ i - Len(back) \in DOMAIN queue
        /\ queue' \in Seq(Message)
    BY <1>1, <1>4, <1>5, ConcatPlaces
  <2>2. \A i \in DOMAIN queue' : i \in Nat /\ Len(back) + (i - Len(back)) = i
    BY <1>5, <2>1
  <2> QED
    BY <1>4, <2>1, <2>2 DEF Reliables
<1>7. Ids(queue') = Ids(queue)
  BY <1>6 DEF Ids
<1>8. InIdOrder(queue')
  <2> SUFFICES ASSUME NEW i \in Reliables(queue'), NEW j \in Reliables(queue'), i < j
               PROVE  queue'[i].id < queue'[j].id
    BY DEF InIdOrder
  <2>1. i - Len(back) < j - Len(back)
    BY <1>5, <1>6
  <2> QED
    BY <1>6, <2>1 DEF QueueInv, NoneForgotten, InIdOrder
<1>9. NoneForgotten'
  BY <1>1, <1>7, <1>8 DEF QueueInv, NoneForgotten
<1> QED
  BY <1>1, <1>9 DEF QueueInv, CandidatesAreQueued

-----------------------------------------------------------------------------
(* The sending half: unreliable messages *)

\* Each payload number that was given out is in one place, and no other is
\* anywhere.
UnreliableInv ==
    /\ UnreliableOnce
    /\ \A l \in DOMAIN Lists : \A i \in Unreliables(Lists[l]) :
         Lists[l][i].id \in 0 .. (payloads - 1)

\* Place never names an element twice.
LEMMA PlacesDiffer ==
    ASSUME NEW S, NEW s \in Seq(S), NEW is \in SUBSET DOMAIN s,
           NEW k \in DOMAIN Subsequence(s, is), NEW l \in DOMAIN Subsequence(s, is),
           Place(is, k) = Place(is, l)
    PROVE  k = l
<1> DEFINE t == Subsequence(s, is)
<1>1. /\ t \in Seq(S)
      /\ \A i \in DOMAIN t : Place(is, i) \in is
      /\ \A i, j \in DOMAIN t : i < j => Place(is, i) < Place(is, j)
  BY SubsequenceFacts
<1>2. k \in DOMAIN t /\ l \in DOMAIN t
  OBVIOUS
<1> HIDE DEF t
<1>3. k \in Int /\ l \in Int
  BY <1>1, <1>2
<1>4. Place(is, k) \in Int
  <2>1. Place(is, k) \in is
    BY <1>1, <1>2
  <2>2. \A i \in is : i \in Int
    OBVIOUS
  <2> QED
    BY <2>1, <2>2
<1>5. ~ (Place(is, k) < Place(is, l)) /\ ~ (Place(is, l) < Place(is, k))
  BY <1>4
<1> QED
  BY <1>1, <1>2, <1>3, <1>5

\* To be in one place is to be somewhere and nowhere else.
LEMMA OnePlace ==
    ASSUME NEW lists, NEW n, \E p \in Places(lists, n) : Places(lists, n) = {p}
    PROVE  \E l, i :
             /\ l \in DOMAIN lists /\ i \in Unreliables(lists[l])
             /\ lists[l][i].id = n
             /\ \A k \in DOMAIN lists : \A j \in Unreliables(lists[k]) :
                  lists[k][j].id = n => k = l /\ j = i
<1>1. \A p : p \in Places(lists, n) <=>
              \E l \in DOMAIN lists : \E i \in Unreliables(lists[l]) :
                 lists[l][i].id = n /\ p = <<l, i>>
  BY DEF Places
<1>2. PICK p \in Places(lists, n) : Places(lists, n) = {p}
  OBVIOUS
<1>3. PICK l, i : /\ l \in DOMAIN lists /\ i \in Unreliables(lists[l])
                  /\ lists[l][i].id = n /\ p = <<l, i>>
  BY <1>1
<1>4. ASSUME NEW k \in DOMAIN lists, NEW j \in Unreliables(lists[k]), lists[k][j].id = n
      PROVE  k = l /\ j = i
  <2>1. <<k, j>> \in Places(lists, n)
    BY <1>1, <1>4
  <2>2. <<k, j>> = <<l, i>>
    BY <1>2, <1>3, <2>1
  <2> QED
    BY <2>2
<1> QED
  BY <1>3, <1>4

LEMMA OnlyPlace ==
    ASSUME NEW lists, NEW n, NEW l \in DOMAIN lists, NEW i \in Unreliables(lists[l]),
           lists[l][i].id = n,
           \A k \in DOMAIN lists : \A j \in Unreliables(lists[k]) :
               lists[k][j].id = n => k = l /\ j = i
    PROVE  \E p \in Places(lists, n) : Places(lists, n) = {p}
<1>1. \A p : p \in Places(lists, n) <=>
              \E k \in DOMAIN lists : \E j \in Unreliables(lists[k]) :
                 lists[k][j].id = n /\ p = <<k, j>>
  BY DEF Places
<1>2. <<l, i>> \in Places(lists, n)
  BY <1>1
<1>3. \A p \in Places(lists, n) : p = <<l, i>>
  BY <1>1
<1> QED
  BY <1>2, <1>3

\* What the three kinds of lists are.
AreLists(lists, q, c, w) ==
    /\ DOMAIN lists = {InQueue, InCandidates} \cup DOMAIN w
    /\ lists[InQueue] = q
    /\ lists[InCandidates] = c
    /\ \A k \in DOMAIN w : /\ lists[k] = w[k].messages
                           /\ k # InQueue /\ k # InCandidates
    /\ InQueue # InCandidates

LEMMA ListsAre ==
    ASSUME NEW q, NEW c, NEW w \in Seq(PacketType)
    PROVE  AreLists(ListsOf(q, c, w), q, c, w)
<1>1. \A k \in DOMAIN w : k # InQueue /\ k # InCandidates
  BY DEF InQueue, InCandidates
<1>2. InQueue # InCandidates
  BY DEF InQueue, InCandidates
<1> QED
  BY <1>1, <1>2 DEF ListsOf, AreLists

\* A message that is queued has a new number and one place.
LEMMA QueueMsgUnreliable ==
    ASSUME SndTypeOK, UnreliableInv, NEW kind \in Kinds, NEW size \in Sizes,
           QueueMsg(kind, size)
    PROVE  UnreliableInv'
<1> DEFINE m == [kind |-> kind, size |-> size,
                 id |-> IF kind = "Unreliable" THEN payloads ELSE messageCounter]
           last == Len(queue) + 1
<1>1. /\ queue' = Append(queue, m)
      /\ payloads' = IF IsReliable(m) THEN payloads ELSE payloads + 1
      /\ UNCHANGED <<poll, wire>>
  BY DEF QueueMsg, IsReliable
<1>2. m \in Message /\ (~ IsReliable(m) => m.id = payloads)
  BY DEF Message, SndTypeOK, IsReliable
<1> HIDE DEF m
<1>3. /\ DOMAIN queue' = DOMAIN queue \cup {last}
      /\ \A i \in DOMAIN queue : i # last /\ queue'[i] = queue[i]
      /\ queue'[last] = m
  BY <1>1, <1>2, AppendPlaces DEF SndTypeOK
<1> HIDE DEF last
<1>4. /\ Unreliables(queue') = Unreliables(queue)
                              \cup (IF IsReliable(m) THEN {} ELSE {last})
      /\ \A i \in Unreliables(queue) : i # last /\ queue'[i] = queue[i]
  BY <1>3 DEF Unreliables, Reliables
<1>5. wire \in Seq(PacketType) /\ wire' \in Seq(PacketType)
  BY <1>1 DEF SndTypeOK
<1>6. /\ DOMAIN Lists = {InQueue, InCandidates} \cup DOMAIN wire
      /\ DOMAIN Lists' = DOMAIN Lists
      /\ Lists[InQueue] = queue /\ Lists'[InQueue] = queue'
      /\ \A l \in DOMAIN Lists : l # InQueue => Lists'[l] = Lists[l]
  <2> DEFINE c == IF poll.running THEN poll.candidates ELSE <<>>
  <2>1. Lists = ListsOf(queue, c, wire) /\ Lists' = ListsOf(queue', c, wire)
    BY <1>1 DEF Lists
  <2> HIDE DEF c
  <2>2. AreLists(Lists, queue, c, wire) /\ AreLists(Lists', queue', c, wire)
    BY <1>5, <2>1, ListsAre
  <2> QED
    BY <2>2 DEF AreLists
<1>7. payloads \in Nat
  BY DEF SndTypeOK
<1>8. \A l \in DOMAIN Lists' : \A i \in Unreliables(Lists'[l]) :
         Lists'[l][i].id \in 0 .. (payloads' - 1)
  <2> SUFFICES ASSUME NEW l \in DOMAIN Lists', NEW i \in Unreliables(Lists'[l])
               PROVE  Lists'[l][i].id \in 0 .. (payloads' - 1)
    OBVIOUS
  <2>1. CASE l = InQueue /\ i = last /\ ~ IsReliable(m)
    BY <1>1, <1>2, <1>3, <1>6, <1>7, <2>1
  <2>2. CASE i \in Unreliables(Lists[l]) /\ Lists'[l][i] = Lists[l][i]
    <3>1. Lists[l][i].id \in 0 .. (payloads - 1)
      BY <1>6, <2>2 DEF UnreliableInv
    <3> QED
      BY <1>1, <1>7, <2>2, <3>1
  <2> QED
    BY <1>4, <1>6, <2>1, <2>2
<1>9. UnreliableOnce'
  <2> SUFFICES ASSUME NEW n \in 0 .. (payloads' - 1)
               PROVE  \E p \in Places(Lists', n) : Places(Lists', n) = {p}
    BY DEF UnreliableOnce
  <2>1. CASE n \in 0 .. (payloads - 1)
    <3>1. PICK l, i :
             /\ l \in DOMAIN Lists /\ i \in Unreliables(Lists[l])
             /\ Lists[l][i].id = n
             /\ \A k \in DOMAIN Lists : \A j \in Unreliables(Lists[k]) :
                  Lists[k][j].id = n => k = l /\ j = i
      BY <2>1, OnePlace DEF UnreliableInv, UnreliableOnce
    <3>2. i \in Unreliables(Lists'[l]) /\ Lists'[l][i].id = n
      BY <1>4, <1>6, <3>1
    <3>3. ASSUME NEW k \in DOMAIN Lists', NEW j \in Unreliables(Lists'[k]), Lists'[k][j].id = n
          PROVE  k = l /\ j = i
      <4>1. CASE j \in Unreliables(Lists[k]) /\ Lists'[k][j] = Lists[k][j]
        BY <1>6, <3>1, <3>3, <4>1
      <4>2. CASE k = InQueue /\ j = last /\ ~ IsReliable(m)
        BY <1>2, <1>3, <1>6, <1>7, <2>1, <3>3, <4>2
      <4> QED
        BY <1>4, <1>6, <4>1, <4>2, <3>3
    <3> QED
      BY <1>6, <3>1, <3>2, <3>3, OnlyPlace
  <2>2. CASE ~ IsReliable(m) /\ n = payloads
    <3>1. last \in Unreliables(Lists'[InQueue]) /\ Lists'[InQueue][last].id = n
      BY <1>2, <1>3, <1>4, <1>6, <2>2
    <3>2. ASSUME NEW k \in DOMAIN Lists', NEW j \in Unreliables(Lists'[k]), Lists'[k][j].id = n
          PROVE  k = InQueue /\ j = last
      <4>1. CASE j \in Unreliables(Lists[k]) /\ Lists'[k][j] = Lists[k][j]
        <5>1. Lists[k][j].id \in 0 .. (payloads - 1)
          BY <1>6, <4>1 DEF UnreliableInv
        <5> QED
          BY <1>7, <2>2, <3>2, <4>1, <5>1
      <4> QED
        BY <1>4, <1>6, <4>1, <3>2
    <3> QED
      BY <1>6, <3>1, <3>2, OnlyPlace
  <2> QED
    BY <1>1, <1>7, <2>1, <2>2
<1> QED
  BY <1>8, <1>9 DEF UnreliableInv

\* The unreliable elements of t, the subsequence of s at is, are those of s at
\* is, one for one.
TakesUnreliables(t, s, is) ==
    /\ \A k \in Unreliables(t) : /\ Place(is, k) \in Unreliables(s) \cap is
                                /\ t[k] = s[Place(is, k)]
    /\ \A i \in Unreliables(s) \cap is :
         \E k \in Unreliables(t) : Place(is, k) = i
    /\ \A k, l \in Unreliables(t) : Place(is, k) = Place(is, l) => k = l

\* The unreliable elements of a subsequence are those of the places.
LEMMA UnreliableSubsequence ==
    ASSUME NEW s \in Seq(Message), NEW is \in SUBSET DOMAIN s
    PROVE  TakesUnreliables(Subsequence(s, is), s, is)
<1> DEFINE t == Subsequence(s, is)
<1>1. /\ \A k \in DOMAIN t : Place(is, k) \in is /\ t[k] = s[Place(is, k)]
      /\ \A i \in is : \E k \in DOMAIN t : Place(is, k) = i
  BY SubsequenceFacts, ZenonT(40)
<1>2. \A k, l \in DOMAIN t : Place(is, k) = Place(is, l) => k = l
  BY PlacesDiffer
<1> HIDE DEF t
<1>3. Unreliables(t) = {k \in DOMAIN t : ~ IsReliable(t[k])}
      /\ Unreliables(s) = {i \in DOMAIN s : ~ IsReliable(s[i])}
  BY DEF Unreliables, Reliables
<1>4. \A k \in Unreliables(t) : /\ Place(is, k) \in Unreliables(s) \cap is
                               /\ t[k] = s[Place(is, k)]
  BY <1>1, <1>3
<1>5. ASSUME NEW i \in Unreliables(s) \cap is
      PROVE  \E k \in Unreliables(t) : Place(is, k) = i
  <2>1. PICK k \in DOMAIN t : Place(is, k) = i
    BY <1>1
  <2>2. k \in Unreliables(t)
    BY <1>1, <1>3, <2>1
  <2> QED
    BY <2>1, <2>2
<1>6. \A k, l \in Unreliables(t) : Place(is, k) = Place(is, l) => k = l
  BY <1>2, <1>3
<1> QED
  BY <1>4, <1>5, <1>6 DEF t, TakesUnreliables

\* All unreliable messages of the queue become candidates.
LEMMA BeginPollUnreliable ==
    ASSUME SndTypeOK, UnreliableInv, NEW expired, NEW budget, NEW score, NEW due,
           BeginPoll(expired, budget, score, due)
    PROVE  UnreliableInv'
<1> DEFINE kept == {i \in DOMAIN queue : ~ Received(queue[i])}
           stay == {i \in kept : StaysQueued(queue[i], expired)}
           candidates == {i \in kept : IsReady(queue[i], expired)}
<1>1. /\ queue' = Subsequence(queue, stay)
      /\ poll' = [running |-> TRUE, candidates |-> Subsequence(queue, candidates),
                  budget |-> budget, first |-> TRUE, score |-> score,
                  due |-> due, bare |-> 0]
      /\ UNCHANGED <<payloads, wire>>
      /\ ~ poll.running
  BY DEF BeginPoll, SndIdle, NoPoll
<1>2. stay \in SUBSET DOMAIN queue /\ candidates \in SUBSET DOMAIN queue
  OBVIOUS
<1>3. Unreliables(queue) \cap stay = {} /\ Unreliables(queue) \subseteq candidates
  BY DEF Unreliables, Reliables, StaysQueued, IsReady, Received
<1> HIDE DEF kept, stay, candidates
<1> DEFINE t == Subsequence(queue, candidates)
<1>4. poll'.candidates = t /\ poll'.running
  BY <1>1
<1>5. queue \in Seq(Message)
  BY DEF SndTypeOK
<1>6. Unreliables(queue') = {}
  <2>1. TakesUnreliables(queue', queue, stay)
    BY <1>1, <1>2, <1>5, UnreliableSubsequence
  <2> QED
    BY <1>3, <2>1 DEF TakesUnreliables
<1>7. /\ \A k \in Unreliables(t) : /\ Place(candidates, k) \in Unreliables(queue)
                                  /\ t[k] = queue[Place(candidates, k)]
      /\ \A i \in Unreliables(queue) :
           \E k \in Unreliables(t) : Place(candidates, k) = i
      /\ \A k, l \in Unreliables(t) :
           Place(candidates, k) = Place(candidates, l) => k = l
  <2>1. TakesUnreliables(t, queue, candidates)
    BY <1>2, <1>5, UnreliableSubsequence
  <2> QED
    BY <1>3, <2>1 DEF TakesUnreliables
<1> HIDE DEF t
<1>8. wire \in Seq(PacketType) /\ wire' = wire
  BY <1>1 DEF SndTypeOK
<1>9. /\ DOMAIN Lists = {InQueue, InCandidates} \cup DOMAIN wire
      /\ Lists[InQueue] = queue /\ Unreliables(Lists[InCandidates]) = {}
      /\ \A k \in DOMAIN wire : /\ Lists[k] = wire[k].messages
                              /\ k # InQueue /\ k # InCandidates
  <2>1. Lists = ListsOf(queue, <<>>, wire)
    BY <1>1 DEF Lists
  <2>2. Unreliables(<<>>) = {}
    BY DEF Unreliables
  <2>3. AreLists(Lists, queue, <<>>, wire)
    BY <1>8, <2>1, ListsAre
  <2> QED
    BY <2>2, <2>3 DEF AreLists
<1>10. /\ DOMAIN Lists' = DOMAIN Lists
       /\ Lists'[InQueue] = queue' /\ Lists'[InCandidates] = t
       /\ \A k \in DOMAIN wire : Lists'[k] = wire[k].messages
  <2>1. Lists' = ListsOf(queue', t, wire)
    BY <1>4, <1>8 DEF Lists
  <2>2. AreLists(Lists', queue', t, wire)
    BY <1>8, <2>1, ListsAre
  <2> QED
    BY <1>9, <2>2 DEF AreLists
<1>11. \A k \in DOMAIN wire : Lists'[k] = Lists[k]
  BY <1>9, <1>10
<1>12. ASSUME NEW l \in DOMAIN Lists', NEW i \in Unreliables(Lists'[l])
       PROVE  \/ /\ l \in DOMAIN wire /\ i \in Unreliables(Lists[l])
                 /\ Lists'[l][i] = Lists[l][i]
              \/ /\ l = InCandidates /\ i \in Unreliables(t)
                 /\ Lists'[l][i] = Lists[InQueue][Place(candidates, i)]
  BY <1>6, <1>7, <1>9, <1>10, <1>11, <1>12
<1>13. \A l \in DOMAIN Lists' : \A i \in Unreliables(Lists'[l]) :
          Lists'[l][i].id \in 0 .. (payloads' - 1)
  BY <1>1, <1>7, <1>9, <1>10, <1>12 DEF UnreliableInv
<1>14. UnreliableOnce'
  <2> SUFFICES ASSUME NEW n \in 0 .. (payloads - 1)
               PROVE  \E p \in Places(Lists', n) : Places(Lists', n) = {p}
    BY <1>1 DEF UnreliableOnce
  <2>1. PICK l, i : /\ l \in DOMAIN Lists /\ i \in Unreliables(Lists[l])
                    /\ Lists[l][i].id = n
                    /\ \A k \in DOMAIN Lists : \A j \in Unreliables(Lists[k]) :
                         Lists[k][j].id = n => k = l /\ j = i
    BY OnePlace DEF UnreliableInv, UnreliableOnce
  <2>2. CASE l \in DOMAIN wire
    <3>1. i \in Unreliables(Lists'[l]) /\ Lists'[l][i].id = n
      BY <1>11, <2>1, <2>2
    <3>2. ASSUME NEW k \in DOMAIN Lists', NEW j \in Unreliables(Lists'[k]), Lists'[k][j].id = n
          PROVE  k = l /\ j = i
      BY <1>7, <1>9, <1>10, <1>12, <2>1, <2>2, <3>2
    <3> QED
      BY <1>10, <2>1, <3>1, <3>2, OnlyPlace
  <2>3. CASE l = InQueue
    <3>1. PICK m \in Unreliables(t) : Place(candidates, m) = i
      BY <1>7, <1>9, <2>1, <2>3
    <3>2. m \in Unreliables(Lists'[InCandidates]) /\ Lists'[InCandidates][m].id = n
      BY <1>7, <1>9, <1>10, <2>1, <2>3, <3>1
    <3>3. ASSUME NEW k \in DOMAIN Lists', NEW j \in Unreliables(Lists'[k]), Lists'[k][j].id = n
          PROVE  k = InCandidates /\ j = m
      <4>1. CASE k \in DOMAIN wire /\ j \in Unreliables(Lists[k]) /\ Lists'[k][j] = Lists[k][j]
        BY <1>9, <1>10, <2>1, <2>3, <3>3, <4>1
      <4>2. CASE /\ k = InCandidates /\ j \in Unreliables(t)
                 /\ Lists'[k][j] = Lists[InQueue][Place(candidates, j)]
        <5>1. Place(candidates, j) = i
          BY <1>7, <1>9, <2>1, <3>3, <4>2
        <5> QED
          BY <1>7, <3>1, <4>2, <5>1
      <4> QED
        BY <1>12, <3>3, <4>1, <4>2
    <3> QED
      BY <1>9, <1>10, <3>2, <3>3, OnlyPlace
  <2> QED
    BY <1>9, <2>1, <2>2, <2>3
<1> QED
  BY <1>13, <1>14 DEF UnreliableInv

\* An iteration shares its candidates out between the packet and the rest.
LEMMA SendPacketUnreliable ==
    ASSUME SndTypeOK, UnreliableInv, SendPacket
    PROVE  UnreliableInv'
<1>1. PICK is \in SUBSET DOMAIN poll.candidates, pid \in Nat \cup {NoPid} :
         /\ Subsequence(poll.candidates, is) \in Seq(Message)
         /\ wire' = Append(wire, [pid |-> pid,
                          messages |-> Subsequence(poll.candidates, is)])
         /\ poll' \in PollType
         /\ poll'.candidates =
              Subsequence(poll.candidates, DOMAIN poll.candidates \ is)
         /\ UNCHANGED <<queue, payloads>>
  BY SendPacketEffect
<1>2. poll.running /\ poll.candidates \in Seq(Message) /\ poll'.running
  BY <1>1 DEF SendPacket, SndTypeOK, PollType
<1> DEFINE c == poll.candidates
           out == DOMAIN c \ is
           packed == Subsequence(c, is)
           rest == Subsequence(c, out)
           last == Len(wire) + 1
<1>3. is \in SUBSET DOMAIN c /\ out \in SUBSET DOMAIN c
      /\ (\A i \in Unreliables(c) : i \in is \/ i \in out)
      /\ is \cap out = {}
  BY DEF Unreliables
<1>4. /\ \A k \in Unreliables(packed) : /\ Place(is, k) \in Unreliables(c) \cap is
                                       /\ packed[k] = c[Place(is, k)]
      /\ \A i \in Unreliables(c) \cap is :
           \E k \in Unreliables(packed) : Place(is, k) = i
      /\ \A k, l \in Unreliables(packed) : Place(is, k) = Place(is, l) => k = l
  <2>1. TakesUnreliables(packed, c, is)
    BY <1>2, <1>3, UnreliableSubsequence
  <2> QED
    BY <2>1 DEF TakesUnreliables
<1>5. /\ \A k \in Unreliables(rest) : /\ Place(out, k) \in Unreliables(c) \cap out
                                     /\ rest[k] = c[Place(out, k)]
      /\ \A i \in Unreliables(c) \cap out :
           \E k \in Unreliables(rest) : Place(out, k) = i
      /\ \A k, l \in Unreliables(rest) : Place(out, k) = Place(out, l) => k = l
  <2>1. TakesUnreliables(rest, c, out)
    BY <1>2, <1>3, UnreliableSubsequence
  <2> QED
    BY <2>1 DEF TakesUnreliables
<1> DEFINE packet == [pid |-> pid, messages |-> packed]
<1>6. packet \in PacketType /\ wire' = Append(wire, packet)
  BY <1>1 DEF PacketType
<1>7. wire \in Seq(PacketType)
  BY DEF SndTypeOK
<1>8. packet.messages = packed
  OBVIOUS
<1>9. poll'.candidates = rest
  BY <1>1
<1> HIDE DEF c, out, packed, rest, packet
<1>10. /\ wire' \in Seq(PacketType)
       /\ DOMAIN wire' = DOMAIN wire \cup {last}
       /\ \A k \in DOMAIN wire : k # last /\ wire'[k] = wire[k]
       /\ wire'[last] = packet
  BY <1>6, <1>7, AppendPlaces
<1> HIDE DEF last
<1>11. /\ DOMAIN Lists = {InQueue, InCandidates} \cup DOMAIN wire
       /\ Lists[InQueue] = queue /\ Lists[InCandidates] = c
       /\ \A k \in DOMAIN wire : Lists[k] = wire[k].messages
  <2>1. Lists = ListsOf(queue, c, wire)
    BY <1>2 DEF Lists, c
  <2>2. AreLists(Lists, queue, c, wire)
    BY <1>7, <2>1, ListsAre
  <2> QED
    BY <2>2 DEF AreLists
<1>12. /\ DOMAIN Lists' = {InQueue, InCandidates} \cup DOMAIN wire'
       /\ Lists'[InQueue] = queue' /\ Lists'[InCandidates] = rest
       /\ \A k \in DOMAIN wire' : /\ Lists'[k] = wire'[k].messages
                                  /\ k # InQueue /\ k # InCandidates
       /\ InQueue # InCandidates
  <2>1. Lists' = ListsOf(queue', rest, wire')
    BY <1>2, <1>9 DEF Lists
  <2>2. AreLists(Lists', queue', rest, wire')
    BY <1>10, <2>1, ListsAre
  <2> QED
    BY <2>2 DEF AreLists
<1>13. /\ Lists'[last] = packed /\ last \in DOMAIN Lists' /\ last \notin DOMAIN Lists
       /\ \A k \in DOMAIN Lists : k # InCandidates => Lists'[k] = Lists[k]
       /\ DOMAIN Lists' = DOMAIN Lists \cup {last}
       /\ InCandidates \in DOMAIN Lists
  BY <1>1, <1>8, <1>10, <1>11, <1>12
<1>14. ASSUME NEW l \in DOMAIN Lists', NEW i \in Unreliables(Lists'[l])
       PROVE  \/ /\ l \in DOMAIN Lists /\ l # InCandidates
                 /\ i \in Unreliables(Lists[l]) /\ Lists'[l][i] = Lists[l][i]
              \/ /\ l = InCandidates /\ i \in Unreliables(rest)
                 /\ Lists'[l][i] = c[Place(out, i)]
              \/ /\ l = last /\ i \in Unreliables(packed)
                 /\ Lists'[l][i] = c[Place(is, i)]
  BY <1>4, <1>5, <1>12, <1>13, <1>14
<1>15. \A l \in DOMAIN Lists' : \A i \in Unreliables(Lists'[l]) :
          Lists'[l][i].id \in 0 .. (payloads' - 1)
  BY <1>1, <1>4, <1>5, <1>11, <1>13, <1>14 DEF UnreliableInv
<1>16. UnreliableOnce'
  <2> SUFFICES ASSUME NEW n \in 0 .. (payloads - 1)
               PROVE  \E p \in Places(Lists', n) : Places(Lists', n) = {p}
    BY <1>1 DEF UnreliableOnce
  <2>1. PICK l, i : /\ l \in DOMAIN Lists /\ i \in Unreliables(Lists[l])
                    /\ Lists[l][i].id = n
                    /\ \A k \in DOMAIN Lists : \A j \in Unreliables(Lists[k]) :
                         Lists[k][j].id = n => k = l /\ j = i
    BY OnePlace DEF UnreliableInv, UnreliableOnce
  <2>2. \A j \in Unreliables(c) : c[j].id = n => l = InCandidates /\ j = i
    BY <1>11, <1>13, <2>1
  <2>3. CASE l # InCandidates
    <3>1. i \in Unreliables(Lists'[l]) /\ Lists'[l][i].id = n /\ l \in DOMAIN Lists'
      BY <1>13, <2>1, <2>3
    <3>2. ASSUME NEW k \in DOMAIN Lists', NEW j \in Unreliables(Lists'[k]), Lists'[k][j].id = n
          PROVE  k = l /\ j = i
      BY <1>4, <1>5, <1>14, <2>1, <2>2, <2>3, <3>2
    <3> QED
      BY <3>1, <3>2, OnlyPlace
  <2>4. CASE l = InCandidates /\ i \in is
    <3>1. i \in Unreliables(c) \cap is /\ c[i].id = n
      BY <1>11, <2>1, <2>4
    <3>2. PICK m \in Unreliables(packed) : Place(is, m) = i
      BY <1>4, <3>1
    <3>3. m \in Unreliables(Lists'[last]) /\ Lists'[last][m].id = n
      BY <1>4, <1>13, <3>1, <3>2
    <3>4. ASSUME NEW k \in DOMAIN Lists', NEW j \in Unreliables(Lists'[k]), Lists'[k][j].id = n
          PROVE  k = last /\ j = m
      <4>1. CASE /\ k \in DOMAIN Lists /\ k # InCandidates
                 /\ j \in Unreliables(Lists[k]) /\ Lists'[k][j] = Lists[k][j]
        BY <2>1, <2>4, <3>4, <4>1
      <4>2. CASE /\ k = InCandidates /\ j \in Unreliables(rest)
                 /\ Lists'[k][j] = c[Place(out, j)]
        BY <1>3, <1>5, <2>2, <2>4, <3>4, <4>2
      <4>3. CASE /\ k = last /\ j \in Unreliables(packed)
                 /\ Lists'[k][j] = c[Place(is, j)]
        <5>1. Place(is, j) = i
          BY <1>4, <2>2, <3>4, <4>3
        <5> QED
          BY <1>4, <3>2, <4>3, <5>1
      <4> QED
        BY <1>14, <3>4, <4>1, <4>2, <4>3
    <3> QED
      BY <1>13, <3>3, <3>4, OnlyPlace
  <2>5. CASE l = InCandidates /\ i \in out
    <3>1. i \in Unreliables(c) \cap out /\ c[i].id = n
      BY <1>11, <2>1, <2>5
    <3>2. PICK m \in Unreliables(rest) : Place(out, m) = i
      BY <1>5, <3>1
    <3>3. m \in Unreliables(Lists'[InCandidates]) /\ Lists'[InCandidates][m].id = n
      BY <1>5, <1>12, <3>1, <3>2
    <3>4. ASSUME NEW k \in DOMAIN Lists', NEW j \in Unreliables(Lists'[k]), Lists'[k][j].id = n
          PROVE  k = InCandidates /\ j = m
      <4>1. CASE /\ k \in DOMAIN Lists /\ k # InCandidates
                 /\ j \in Unreliables(Lists[k]) /\ Lists'[k][j] = Lists[k][j]
        BY <2>1, <2>5, <3>4, <4>1
      <4>2. CASE /\ k = InCandidates /\ j \in Unreliables(rest)
                 /\ Lists'[k][j] = c[Place(out, j)]
        <5>1. Place(out, j) = i
          BY <1>5, <2>2, <3>4, <4>2
        <5> QED
          BY <1>5, <3>2, <4>2, <5>1
      <4>3. CASE /\ k = last /\ j \in Unreliables(packed)
                 /\ Lists'[k][j] = c[Place(is, j)]
        BY <1>3, <1>4, <2>2, <2>5, <3>4, <4>3
      <4> QED
        BY <1>14, <3>4, <4>1, <4>2, <4>3
    <3> QED
      BY <1>12, <3>3, <3>4, OnlyPlace
  <2> QED
    BY <1>3, <1>11, <2>1, <2>3, <2>4, <2>5
<1> QED
  BY <1>15, <1>16 DEF UnreliableInv

\* The candidates that were not sent are in front of the queue.
LEMMA EndPollUnreliable ==
    ASSUME SndTypeOK, UnreliableInv, EndPoll
    PROVE  UnreliableInv'
<1> DEFINE c == poll.candidates
           un == Unreliables(c)
           back == Subsequence(c, un)
           n0 == Len(back)
<1>1. /\ queue' = back \o queue
      /\ UNCHANGED <<payloads, wire>>
      /\ poll.running /\ ~ poll'.running
  BY DEF EndPoll, PutBack, NoPoll
<1>2. c \in Seq(Message) /\ queue \in Seq(Message)
  BY <1>1 DEF SndTypeOK, PollType
<1>3. un \in SUBSET DOMAIN c
  BY DEF Unreliables
<1>4. back \in Seq(Message)
  BY <1>2, <1>3, SubsequenceFacts
<1>5. /\ \A k \in Unreliables(back) : /\ Place(un, k) \in un
                                     /\ back[k] = c[Place(un, k)]
      /\ \A i \in un : \E k \in Unreliables(back) : Place(un, k) = i
      /\ \A k, l \in Unreliables(back) : Place(un, k) = Place(un, l) => k = l
  <2>1. TakesUnreliables(back, c, un)
    BY <1>2, <1>3, UnreliableSubsequence
  <2>2. Unreliables(c) \cap un = un
    BY <1>3
  <2> QED
    BY <2>1, <2>2 DEF TakesUnreliables
<1> HIDE DEF c, back, un
<1>6. /\ \A i \in DOMAIN back : i \in DOMAIN queue' /\ queue'[i] = back[i]
      /\ \A i \in DOMAIN queue : /\ n0 + i \in DOMAIN queue'
                                 /\ queue'[n0 + i] = queue[i]
      /\ \A i \in DOMAIN queue' : i \in DOMAIN back \/ i - n0 \in DOMAIN queue
      /\ queue' \in Seq(Message)
  BY <1>1, <1>2, <1>4, ConcatPlaces
<1>7. n0 \in Nat /\ \A i \in DOMAIN queue' : i \in Nat /\ n0 + (i - n0) = i
  BY <1>4, <1>6
<1>8. /\ \A i \in DOMAIN back : i \in Int /\ i <= n0
      /\ \A i \in DOMAIN queue : i \in Int /\ i > 0 /\ (n0 + i) - n0 = i
  BY <1>2, <1>4, <1>7
<1> HIDE DEF n0
<1>9. \A s : Unreliables(s) = {i \in DOMAIN s : ~ IsReliable(s[i])}
  BY DEF Unreliables, Reliables
<1>10. /\ \A i \in Unreliables(back) : i \in Unreliables(queue') /\ queue'[i] = back[i]
       /\ \A i \in Unreliables(queue) : /\ n0 + i \in Unreliables(queue')
                                       /\ queue'[n0 + i] = queue[i]
       /\ \A i \in Unreliables(queue') :
            \/ i \in Unreliables(back) /\ queue'[i] = back[i]
            \/ i - n0 \in Unreliables(queue) /\ queue'[i] = queue[i - n0]
  BY <1>6, <1>7, <1>9
<1>11. wire \in Seq(PacketType)
  BY DEF SndTypeOK
<1>12. /\ DOMAIN Lists = {InQueue, InCandidates} \cup DOMAIN wire
       /\ Lists[InQueue] = queue /\ Lists[InCandidates] = c
       /\ \A k \in DOMAIN wire : /\ Lists[k] = wire[k].messages
                               /\ k # InQueue /\ k # InCandidates
       /\ InQueue # InCandidates
  <2>1. Lists = ListsOf(queue, c, wire)
    BY <1>1 DEF Lists, c
  <2>2. AreLists(Lists, queue, c, wire)
    BY <1>11, <2>1, ListsAre
  <2> QED
    BY <2>2 DEF AreLists
<1>13. /\ DOMAIN Lists' = DOMAIN Lists
       /\ Lists'[InQueue] = queue' /\ Unreliables(Lists'[InCandidates]) = {}
       /\ \A k \in DOMAIN wire : Lists'[k] = Lists[k]
  <2>1. Lists' = ListsOf(queue', <<>>, wire)
    BY <1>1 DEF Lists
  <2>2. AreLists(Lists', queue', <<>>, wire)
    BY <1>11, <2>1, ListsAre
  <2>3. Unreliables(<<>>) = {}
    BY DEF Unreliables
  <2> QED
    BY <1>12, <2>2, <2>3 DEF AreLists
<1>14. ASSUME NEW l \in DOMAIN Lists', NEW i \in Unreliables(Lists'[l])
       PROVE  \/ /\ l \in DOMAIN wire /\ i \in Unreliables(Lists[l])
                 /\ Lists'[l][i] = Lists[l][i]
              \/ /\ l = InQueue /\ i \in Unreliables(back)
                 /\ Lists'[l][i] = c[Place(un, i)]
              \/ /\ l = InQueue /\ i - n0 \in Unreliables(queue)
                 /\ Lists'[l][i] = queue[i - n0] /\ n0 + (i - n0) = i
  <2>1. CASE l = InQueue
    <3>1. i \in Unreliables(queue') /\ i \in DOMAIN queue'
      BY <1>9, <1>13, <1>14, <2>1
    <3> QED
      BY <1>5, <1>7, <1>10, <1>13, <2>1, <3>1
  <2>2. CASE l \in DOMAIN wire
    BY <1>13, <1>14, <2>2
  <2> QED
    BY <1>12, <1>13, <1>14, <2>1, <2>2
<1>15. \A l \in DOMAIN Lists' : \A i \in Unreliables(Lists'[l]) :
          Lists'[l][i].id \in 0 .. (payloads' - 1)
  <2>1. /\ \A i \in un : c[i].id \in 0 .. (payloads - 1)
        /\ \A i \in Unreliables(queue) : queue[i].id \in 0 .. (payloads - 1)
        /\ \A l \in DOMAIN wire : \A i \in Unreliables(Lists[l]) :
             Lists[l][i].id \in 0 .. (payloads - 1)
    BY <1>12 DEF UnreliableInv, un
  <2> QED
    BY <1>1, <1>5, <1>14, <2>1
<1>16. UnreliableOnce'
  <2> SUFFICES ASSUME NEW n \in 0 .. (payloads - 1)
               PROVE  \E p \in Places(Lists', n) : Places(Lists', n) = {p}
    BY <1>1 DEF UnreliableOnce
  <2>1. PICK l, i : /\ l \in DOMAIN Lists /\ i \in Unreliables(Lists[l])
                    /\ Lists[l][i].id = n
                    /\ \A k \in DOMAIN Lists : \A j \in Unreliables(Lists[k]) :
                         Lists[k][j].id = n => k = l /\ j = i
    BY OnePlace DEF UnreliableInv, UnreliableOnce
  <2>2. /\ \A j \in un : c[j].id = n => l = InCandidates /\ j = i
        /\ \A j \in Unreliables(queue) : queue[j].id = n => l = InQueue /\ j = i
    BY <1>12, <2>1 DEF un
  <2>3. CASE l \in DOMAIN wire
    <3>1. i \in Unreliables(Lists'[l]) /\ Lists'[l][i].id = n /\ l \in DOMAIN Lists'
      BY <1>13, <2>1, <2>3
    <3>2. ASSUME NEW k \in DOMAIN Lists', NEW j \in Unreliables(Lists'[k]), Lists'[k][j].id = n
          PROVE  k = l /\ j = i
      BY <1>5, <1>12, <1>13, <1>14, <2>1, <2>2, <2>3, <3>2
    <3> QED
      BY <3>1, <3>2, OnlyPlace
  <2>4. CASE l = InCandidates
    <3>1. i \in un /\ c[i].id = n
      BY <1>12, <2>1, <2>4 DEF un
    <3>2. PICK m \in Unreliables(back) : Place(un, m) = i
      BY <1>5, <3>1
    <3>3. /\ m \in Unreliables(Lists'[InQueue]) /\ Lists'[InQueue][m].id = n
          /\ InQueue \in DOMAIN Lists'
      BY <1>5, <1>10, <1>12, <1>13, <3>1, <3>2
    <3>4. ASSUME NEW k \in DOMAIN Lists', NEW j \in Unreliables(Lists'[k]), Lists'[k][j].id = n
          PROVE  k = InQueue /\ j = m
      <4>1. CASE k \in DOMAIN wire /\ j \in Unreliables(Lists[k]) /\ Lists'[k][j] = Lists[k][j]
        BY <1>12, <2>1, <2>4, <3>4, <4>1
      <4>2. CASE k = InQueue /\ j \in Unreliables(back) /\ Lists'[k][j] = c[Place(un, j)]
        <5>1. Place(un, j) = i
          BY <1>5, <2>2, <3>4, <4>2
        <5> QED
          BY <1>5, <3>2, <4>2, <5>1
      <4>3. CASE k = InQueue /\ j - n0 \in Unreliables(queue) /\ Lists'[k][j] = queue[j - n0]
        BY <1>12, <2>2, <2>4, <3>4, <4>3
      <4> QED
        BY <1>14, <3>4, <4>1, <4>2, <4>3
    <3> QED
      BY <3>3, <3>4, OnlyPlace
  <2>5. CASE l = InQueue
    <3>1. i \in Unreliables(queue) /\ queue[i].id = n
      BY <1>12, <2>1, <2>5
    <3>2. /\ n0 + i \in Unreliables(Lists'[InQueue]) /\ Lists'[InQueue][n0 + i].id = n
          /\ InQueue \in DOMAIN Lists'
      BY <1>10, <1>12, <1>13, <3>1
    <3>3. ASSUME NEW k \in DOMAIN Lists', NEW j \in Unreliables(Lists'[k]), Lists'[k][j].id = n
          PROVE  k = InQueue /\ j = n0 + i
      <4>1. CASE k \in DOMAIN wire /\ j \in Unreliables(Lists[k]) /\ Lists'[k][j] = Lists[k][j]
        BY <1>12, <2>1, <2>5, <3>3, <4>1
      <4>2. CASE k = InQueue /\ j \in Unreliables(back) /\ Lists'[k][j] = c[Place(un, j)]
        BY <1>5, <1>12, <2>2, <2>5, <3>3, <4>2
      <4>3. CASE /\ k = InQueue /\ j - n0 \in Unreliables(queue)
                 /\ Lists'[k][j] = queue[j - n0] /\ n0 + (j - n0) = j
        BY <2>2, <3>3, <4>3
      <4> QED
        BY <1>14, <3>3, <4>1, <4>2, <4>3
    <3> QED
      BY <3>2, <3>3, OnlyPlace
  <2> QED
    BY <1>12, <2>1, <2>3, <2>4, <2>5
<1> QED
  BY <1>15, <1>16 DEF UnreliableInv

\* The handling of a report moves no message.
LEMMA OthersUnreliable ==
    ASSUME UnreliableInv, UNCHANGED <<queue, poll, wire, payloads>>
    PROVE  UnreliableInv'
<1>1. Lists' = Lists
  BY DEF Lists
<1> QED
  BY <1>1 DEF UnreliableInv, UnreliableOnce

-----------------------------------------------------------------------------
(* The sending half: the size of a crate *)

\* A running sum of the sizes of the first n messages.
Adds(f, ms, n) ==
    /\ f[0] = 0
    /\ \A i \in 1 .. n : f[i] = f[i - 1] + ms[i].size

IsSum(f, ms, n) == f \in [0 .. n -> Nat] /\ Adds(f, ms, n)

\* Sizes are numbers.
LEMMA SizesAreNat == ASSUME NEW m \in Message PROVE m.size \in Nat
<1>1. m.size \in Sizes
  BY DEF Message
<1>2. \A n \in 1 .. Capacity : n \in Nat
  OBVIOUS
<1> QED
  BY <1>1, <1>2, SenderAssumption

\* Every sequence has one: the shortest prefix without would have one.
LEMMA SumExists ==
    ASSUME NEW ms \in Seq(Message)
    PROVE  \A n \in 0 .. Len(ms) : \E f : IsSum(f, ms, n)
<1> DEFINE Bad == {n \in 0 .. Len(ms) : ~ \E f : IsSum(f, ms, n)}
<1> SUFFICES ASSUME Bad # {} PROVE FALSE
  OBVIOUS
<1>1. Bad \subseteq Nat /\ Len(ms) \in Nat
  OBVIOUS
<1>2. PICK n \in Bad : \A y \in Bad : n <= y
  <2> HIDE DEF Bad
  <2> QED
    BY <1>1, NatLeast
<1>3. n \in 0 .. Len(ms) /\ ~ \E f : IsSum(f, ms, n)
  OBVIOUS
<1>4. n # 0
  <2>1. IsSum([i \in 0 .. 0 |-> 0], ms, 0)
    BY DEF IsSum, Adds
  <2> QED
    BY <1>3, <2>1
<1>5. n - 1 \in 0 .. Len(ms) /\ n - 1 \notin Bad
  <2>1. n - 1 \in 0 .. Len(ms) /\ ~ (n <= n - 1)
    BY <1>3, <1>4
  <2> HIDE DEF Bad
  <2> QED
    BY <1>2, <2>1
<1>6. PICK f : IsSum(f, ms, n - 1)
  BY <1>5
<1>7. ms[n].size \in Nat
  <2>1. ms[n] \in Message
    BY <1>3, <1>4
  <2> QED
    BY <2>1, SizesAreNat
<1> DEFINE g == [i \in 0 .. n |-> IF i = n THEN f[n - 1] + ms[n].size ELSE f[i]]
<1>8. /\ f \in [0 .. (n - 1) -> Nat] /\ f[0] = 0
      /\ \A i \in 1 .. (n - 1) : f[i] = f[i - 1] + ms[i].size
  BY <1>6 DEF IsSum, Adds
<1>9. n \in Nat /\ n > 0
  BY <1>3, <1>4
<1>10. g \in [0 .. n -> Nat]
  BY <1>7, <1>8, <1>9
<1>11. g[0] = 0
  BY <1>8, <1>9
<1>12. ASSUME NEW i \in 1 .. n PROVE g[i] = g[i - 1] + ms[i].size
  <2>1. CASE i = n
    BY <1>9, <2>1
  <2>2. CASE i # n
    <3>1. i \in 1 .. (n - 1) /\ i - 1 # n /\ i - 1 \in 0 .. n /\ i \in 0 .. n
      BY <1>9, <2>2
    <3> QED
      BY <1>8, <2>2, <3>1
  <2> QED
    BY <2>1, <2>2
<1> HIDE DEF g
<1>13. IsSum(g, ms, n)
  BY <1>10, <1>11, <1>12 DEF IsSum, Adds
<1> QED
  BY <1>3, <1>13

\* Sums over sequences that agree are equal as far as they agree.
LEMMA SumsAgree ==
    ASSUME NEW ms, NEW ns, NEW n \in Nat, \A i \in 1 .. n : ms[i] = ns[i],
           NEW f, Adds(f, ms, n), NEW g, Adds(g, ns, n)
    PROVE  \A i \in 0 .. n : f[i] = g[i]
<1> DEFINE Bad == {i \in 0 .. n : f[i] # g[i]}
<1> SUFFICES ASSUME Bad # {} PROVE FALSE
  OBVIOUS
<1>1. PICK i \in Bad : \A j \in Bad : i <= j
  <2>1. Bad \subseteq Nat
    OBVIOUS
  <2> HIDE DEF Bad
  <2> QED
    BY <2>1, NatLeast
<1>2. i \in 0 .. n /\ f[i] # g[i]
  OBVIOUS
<1>3. i # 0
  BY <1>2 DEF Adds
<1>4. i - 1 \in 0 .. n /\ i \in 1 .. n /\ ~ (i <= i - 1)
  BY <1>2, <1>3
<1>5. f[i - 1] = g[i - 1]
  BY <1>1, <1>4
<1>6. f[i] = f[i - 1] + ms[i].size
  BY <1>4 DEF Adds
<1>7. g[i] = g[i - 1] + ns[i].size /\ ms[i] = ns[i]
  BY <1>4 DEF Adds
<1> QED
  BY <1>2, <1>5, <1>6, <1>7

\* The recursive function of Size is the running sum.
LEMMA SizeIsSum ==
    ASSUME NEW ms \in Seq(Message), NEW f, IsSum(f, ms, Len(ms))
    PROVE  Size(ms) = f[Len(ms)]
<1> DEFINE n == Len(ms)
           Body(g) == [i \in 0 .. n |->
                          IF i = 0 THEN 0 ELSE g[i - 1] + ms[i].size]
           h == CHOOSE g : g = Body(g)
<1>1. n \in Nat
  OBVIOUS
<1>2. f = Body(f)
  <2>1. \A i \in 0 .. n : f[i] = IF i = 0 THEN 0 ELSE f[i - 1] + ms[i].size
    <3>1. \A i \in 0 .. n : i = 0 \/ i \in 1 .. n
      BY <1>1
    <3> QED
      BY <3>1 DEF IsSum, Adds
  <2> QED
    BY <2>1 DEF IsSum, Adds
<1>3. h = Body(h)
  BY <1>2
<1>4. Size(ms) = h[n]
  BY DEF Size
<1> HIDE DEF h
<1>5. Adds(h, ms, n)
  <2>1. \A i \in 0 .. n : h[i] = IF i = 0 THEN 0 ELSE h[i - 1] + ms[i].size
    BY <1>3, Zenon
  <2>2. 0 \in 0 .. n /\ \A i \in 1 .. n : i \in 0 .. n /\ i # 0
    BY <1>1
  <2> QED
    BY <2>1, <2>2 DEF Adds
<1> HIDE DEF n
<1>6. \A i \in 0 .. n : f[i] = h[i]
  <2>1. Adds(f, ms, n)
    BY DEF IsSum, n
  <2> QED
    BY <1>1, <1>5, <2>1, SumsAgree
<1>7. n \in 0 .. n
  BY <1>1
<1> QED
  BY <1>4, <1>6, <1>7 DEF n

\* Nothing takes no room.
LEMMA SizeOfNothing == Size(<<>>) = 0
<1>1. Len(<<>>) = 0 /\ <<>> \in Seq(Message) /\ 0 \in 0 .. 0
  OBVIOUS
<1>2. PICK f : IsSum(f, <<>>, 0)
  BY <1>1, SumExists
<1>3. Size(<<>>) = f[0]
  BY <1>1, <1>2, SizeIsSum
<1> QED
  BY <1>2, <1>3 DEF IsSum, Adds

\* One message more takes its own.
LEMMA SizeFacts ==
    ASSUME NEW ms \in Seq(Message), NEW m \in Message
    PROVE  /\ Size(ms) \in Nat
           /\ Size(Append(ms, m)) = Size(ms) + m.size
<1> DEFINE ns == Append(ms, m)
           n == Len(ms)
<1>2. /\ ns \in Seq(Message) /\ Len(ns) = n + 1 /\ n \in Nat
      /\ \A i \in 1 .. n : ns[i] = ms[i]
      /\ ns[n + 1] = m
  OBVIOUS
<1> HIDE DEF ns
<1>3. PICK f : IsSum(f, ns, n + 1)
  <2>1. n + 1 \in 0 .. Len(ns)
    BY <1>2
  <2> QED
    BY <1>2, <2>1, SumExists
<1>4. PICK g : IsSum(g, ms, n)
  <2>1. n \in 0 .. Len(ms)
    BY <1>2
  <2> QED
    BY <2>1, SumExists
<1>5. f[n] = g[n]
  <2>1. Adds(g, ms, n)
    BY <1>4 DEF IsSum
  <2>2. Adds(f, ns, n)
    BY <1>2, <1>3 DEF IsSum, Adds
  <2>3. n \in 0 .. n
    BY <1>2
  <2> HIDE DEF n
  <2> QED
    BY <1>2, <2>1, <2>2, <2>3, SumsAgree
<1>6. f[n + 1] = f[n] + m.size
  <2>1. n + 1 \in 1 .. (n + 1) /\ (n + 1) - 1 = n
    BY <1>2
  <2> QED
    BY <1>2, <1>3, <2>1 DEF IsSum, Adds
<1>7. Size(ns) = f[n + 1] /\ Size(ms) = g[n]
  BY <1>2, <1>3, <1>4, SizeIsSum
<1>8. g[n] \in Nat
  BY <1>2, <1>4 DEF IsSum, Adds
<1> QED
  BY <1>5, <1>6, <1>7, <1>8 DEF ns

\* can_fit is asked before each message, so that the last one fits as well.
LEMMA PacksFits ==
    ASSUME NEW is \in SUBSET DOMAIN poll.candidates, Packs(is),
           poll.candidates \in Seq(Message)
    PROVE  Size(Subsequence(poll.candidates, is)) <= Capacity
<1> DEFINE c == poll.candidates
<1>1. c \in Seq(Message) /\ is \in SUBSET DOMAIN c
  OBVIOUS
<1>2. CASE is = {}
  <2>1. Subsequence(c, is) = <<>>
    <3>1. Cardinality(is) = 0
      BY <1>2, FS_EmptySet
    <3>2. 1 .. 0 = {}
      OBVIOUS
    <3> QED
      BY <3>1, <3>2 DEF Subsequence
  <2> QED
    BY <2>1, SizeOfNothing, SenderAssumption
<1>3. CASE is # {}
  <2>1. PICK l \in is :
          Subsequence(c, is) = Append(Subsequence(c, is \cap 1 .. (l - 1)), c[l])
    <3> HIDE DEF c
    <3> QED
      BY <1>1, <1>3, SubsequenceLast
  <2> DEFINE t == Subsequence(c, is \cap 1 .. (l - 1))
  <2>2. Size(t) + c[l].size <= Capacity
    BY DEF Packs, Load
  <2>3. t \in Seq(Message) /\ c[l] \in Message
    <3>1. is \cap 1 .. (l - 1) \in SUBSET DOMAIN c
      BY <1>1
    <3> HIDE DEF c
    <3> QED
      BY <1>1, <3>1, SubsequenceFacts
  <2> HIDE DEF t, c
  <2>4. Size(Append(t, c[l])) = Size(t) + c[l].size
    BY <2>3, SizeFacts
  <2>5. Size(Subsequence(c, is)) <= Capacity
    BY <2>1, <2>2, <2>4 DEF t
  <2> QED
    BY <2>5 DEF c
<1> QED
  BY <1>2, <1>3

-----------------------------------------------------------------------------
(* The sending half: the packets *)

\* What is known of the packets that were sent, beyond that they are sound:
\* their ids are below the counter, the entries are those of the last of them,
\* and their messages were queued in order.
EntriesAreRecent ==
    \A p \in DOMAIN sentPackets :
        p < packetCounter /\ p >= packetCounter - PacketWindowLen

PacketsInv ==
    /\ EntriesAreSent
    /\ EntriesAreRecent
    /\ PacketsAreSound
    /\ \A k \in DOMAIN wire :
         /\ wire[k].pid < packetCounter
         /\ InIdOrder(wire[k].messages)
         /\ Ids(wire[k].messages) \subseteq 0 .. (messageCounter - 1)

\* Nothing was sent at first.
LEMMA InitPackets == ASSUME SndInit PROVE PacketsInv
<1>1. wire = <<>> /\ sentPackets = <<>>
  BY DEF SndInit
<1>2. DOMAIN wire = {} /\ DOMAIN sentPackets = {}
  BY <1>1
<1> QED
  BY <1>2 DEF PacketsInv, EntriesAreSent, EntriesAreRecent, PacketsAreSound

\* A step that sends nothing can only take entries out.
LEMMA OthersPackets ==
    ASSUME SndTypeOK, PacketsInv, UNCHANGED <<wire, packetCounter>>,
           messageCounter' \in {messageCounter, messageCounter + 1},
           \A p \in DOMAIN sentPackets' :
               p \in DOMAIN sentPackets /\ sentPackets'[p] = sentPackets[p]
    PROVE  PacketsInv'
<1>1. wire' = wire /\ packetCounter' = packetCounter
  OBVIOUS
<1>2. EntriesAreSent' /\ EntriesAreRecent'
  BY <1>1 DEF PacketsInv, EntriesAreSent, EntriesAreRecent
<1>3. PacketsAreSound'
  BY <1>1 DEF PacketsInv, PacketsAreSound
<1>4. ASSUME NEW n \in 0 .. (messageCounter - 1) PROVE n \in 0 .. (messageCounter' - 1)
  <2>1. messageCounter \in Nat
    BY DEF SndTypeOK
  <2>2. CASE messageCounter' = messageCounter
    BY <2>2
  <2>3. CASE messageCounter' = messageCounter + 1
    BY <2>1, <2>3
  <2> QED
    BY <2>2, <2>3
<1>5. \A k \in DOMAIN wire' :
         /\ wire'[k].pid < packetCounter'
         /\ InIdOrder(wire'[k].messages)
         /\ Ids(wire'[k].messages) \subseteq 0 .. (messageCounter' - 1)
  BY <1>1, <1>4 DEF PacketsInv
<1> QED
  BY <1>2, <1>3, <1>5 DEF PacketsInv

\* An iteration of mark_sent_packet_received takes one out.
LEMMA MarkSentPacketReceivedPackets ==
    ASSUME SndTypeOK, PacketsInv, MarkSentPacketReceived
    PROVE  PacketsInv'
<1> DEFINE pid == Min(acking)
<1>1. sentPackets' = MarkSent(pid) \/ sentPackets' = sentPackets
  BY DEF MarkSentPacketReceived
<1>2. \A p \in DOMAIN sentPackets' :
         p \in DOMAIN sentPackets /\ sentPackets'[p] = sentPackets[p]
  BY <1>1 DEF MarkSent, Restrict
<1>3. UNCHANGED <<wire, packetCounter, messageCounter>>
  BY DEF MarkSentPacketReceived
<1> QED
  BY <1>2, <1>3, OthersPackets

\* A packet is sent under the next id, or without one if nothing in it is
\* reliable, and its entry is made under the same id.
LEMMA SendPacketPackets ==
    ASSUME SndTypeOK, QueueInv, PacketsInv, SendPacket
    PROVE  PacketsInv'
<1>1. PICK is \in SUBSET DOMAIN poll.candidates, pid \in Nat \cup {NoPid} :
             LET packed == Subsequence(poll.candidates, is) IN
             /\ Packs(is)
             /\ packed \in Seq(Message)
             /\ wire' = Append(wire, [pid |-> pid, messages |-> packed])
             /\ \/ /\ pid = NoPid /\ Ids(packed) = {}
                   /\ UNCHANGED <<packetCounter, sentPackets>>
                \/ /\ pid = packetCounter /\ packetCounter' = packetCounter + 1
                   /\ \E entry \in Seq(Nat) :
                        /\ ToSet(entry) = Ids(packed)
                        /\ sentPackets' = PushSent(pid, entry)
             /\ UNCHANGED messageCounter
  BY SendPacketEffect
<1> DEFINE packed == Subsequence(poll.candidates, is)
           packet == [pid |-> pid, messages |-> packed]
           new == Len(wire) + 1
<1>2. /\ poll.running /\ poll.candidates \in Seq(Message)
      /\ wire \in Seq(PacketType) /\ packetCounter \in Nat
      /\ DOMAIN sentPackets \subseteq Nat
  BY DEF SendPacket, SndTypeOK, PollType
<1>3. InIdOrder(packed)
  BY <1>2, SubsequenceInIdOrder DEF QueueInv
<1>4. Size(packed) <= Capacity
  BY <1>1, <1>2, PacksFits
<1>5. Ids(packed) \subseteq 0 .. (messageCounter - 1)
  <2>1. Ids(packed) \subseteq Ids(poll.candidates)
    <3>1. Ids(packed) = {poll.candidates[i].id : i \in is \cap Reliables(poll.candidates)}
      BY <1>2, SubsequenceIds
    <3> QED
      BY <3>1 DEF Ids
  <2> QED
    BY <1>2, <2>1 DEF QueueInv, NoneForgotten, CandidatesAreQueued
<1> HIDE DEF packed
<1>6. packed \in Seq(Message) /\ packet \in PacketType
  BY <1>1 DEF packed, PacketType
<1>7. /\ DOMAIN wire' = DOMAIN wire \cup {new}
      /\ \A k \in DOMAIN wire : k < new /\ wire'[k] = wire[k]
      /\ wire'[new] = packet
      /\ new \in Nat /\ \A k \in DOMAIN wire : k \in Nat
  <2>1. wire' = Append(wire, packet)
    BY <1>1 DEF packed
  <2> HIDE DEF packet
  <2> QED
    BY <1>2, <1>6, <2>1, AppendPlaces
<1>8. packet.pid = pid /\ packet.messages = packed
  OBVIOUS
<1> HIDE DEF packet, new
<1>9. \/ pid = NoPid /\ Ids(packed) = {} /\ UNCHANGED <<packetCounter, sentPackets>>
      \/ /\ pid = packetCounter /\ packetCounter' = packetCounter + 1
         /\ \E entry \in Seq(Nat) : ToSet(entry) = Ids(packed)
                                    /\ sentPackets' = PushSent(pid, entry)
  BY <1>1 DEF packed
<1>10. messageCounter' = messageCounter
  BY <1>1
<1>11. EntriesAreSent'
  <2> SUFFICES ASSUME NEW p \in DOMAIN sentPackets'
               PROVE  \E k \in DOMAIN wire' :
                        wire'[k].pid = p /\ ToSet(sentPackets'[p]) = Ids(wire'[k].messages)
    BY DEF EntriesAreSent
  <2>1. CASE p \in DOMAIN sentPackets /\ sentPackets'[p] = sentPackets[p]
    <3>1. PICK k \in DOMAIN wire :
             wire[k].pid = p /\ ToSet(sentPackets[p]) = Ids(wire[k].messages)
      BY <2>1 DEF PacketsInv, EntriesAreSent
    <3> QED
      BY <1>7, <2>1, <3>1
  <2>2. CASE p = pid /\ ToSet(sentPackets'[p]) = Ids(packed)
    BY <1>7, <1>8, <2>2
  <2>3. CASE UNCHANGED sentPackets
    BY <2>1, <2>3
  <2>4. CASE \E entry \in Seq(Nat) : ToSet(entry) = Ids(packed)
                                     /\ sentPackets' = PushSent(pid, entry)
    BY <2>1, <2>2, <2>4 DEF PushSent
  <2> QED
    BY <1>9, <2>3, <2>4
<1>12. pid < packetCounter' /\ packetCounter <= packetCounter' /\ packetCounter' \in Nat
  BY <1>2, <1>9 DEF NoPid
<1>13. \A k \in DOMAIN wire' :
         /\ wire'[k].pid < packetCounter'
         /\ InIdOrder(wire'[k].messages)
         /\ Ids(wire'[k].messages) \subseteq 0 .. (messageCounter' - 1)
  <2> SUFFICES ASSUME NEW k \in DOMAIN wire'
               PROVE  /\ wire'[k].pid < packetCounter'
                      /\ InIdOrder(wire'[k].messages)
                      /\ Ids(wire'[k].messages) \subseteq 0 .. (messageCounter' - 1)
    OBVIOUS
  <2>1. CASE k = new
    BY <1>3, <1>5, <1>7, <1>8, <1>10, <1>12, <2>1
  <2>2. CASE k \in DOMAIN wire
    <3>1. /\ wire[k].pid < packetCounter
          /\ InIdOrder(wire[k].messages)
          /\ Ids(wire[k].messages) \subseteq 0 .. (messageCounter - 1)
      BY <2>2 DEF PacketsInv
    <3>2. wire[k].pid \in Int
      <4>1. wire[k] \in PacketType
        BY <1>2, <2>2
      <4> QED
        BY <4>1 DEF PacketType, NoPid
    <3>3. wire[k].pid < packetCounter'
      BY <1>2, <1>12, <3>1, <3>2
    <3> QED
      BY <1>7, <1>10, <2>2, <3>1, <3>3
  <2> QED
    BY <1>7, <2>1, <2>2
<1>14. PacketsAreSound'
  <2>1. ASSUME NEW k \in DOMAIN wire'
        PROVE  IsValid(wire'[k]) /\ Size(wire'[k].messages) <= Capacity
    <3>1. CASE k = new
      <4>1. IsValid(packet)
        BY <1>8, <1>9, <1>2 DEF IsValid, NoPid
      <4> QED
        BY <1>4, <1>7, <1>8, <3>1, <4>1
    <3>2. CASE k \in DOMAIN wire
      BY <1>7, <3>2 DEF PacketsInv, PacketsAreSound
    <3> QED
      BY <1>7, <3>1, <3>2
  <2>2. ASSUME NEW k \in DOMAIN wire', NEW l \in DOMAIN wire', k < l,
               wire'[k].pid # NoPid, wire'[l].pid # NoPid
        PROVE  wire'[k].pid < wire'[l].pid
    <3>1. k \in DOMAIN wire
      BY <1>7, <2>2
    <3>2. CASE l \in DOMAIN wire
      BY <1>7, <2>2, <3>1, <3>2 DEF PacketsInv, PacketsAreSound
    <3>3. CASE l = new
      <4>1. pid = packetCounter
        BY <1>7, <1>8, <1>9, <2>2, <3>3
      <4> QED
        BY <1>7, <1>8, <3>1, <3>3, <4>1 DEF PacketsInv
    <3> QED
      BY <1>7, <3>2, <3>3
  <2> QED
    BY <2>1, <2>2 DEF PacketsAreSound
<1>15. EntriesAreRecent'
  <2>1. ASSUME NEW p \in DOMAIN sentPackets PROVE p \in Nat /\ p < packetCounter
                                            /\ p >= packetCounter - PacketWindowLen
    BY <1>2 DEF PacketsInv, EntriesAreRecent
  <2>2. CASE UNCHANGED <<packetCounter, sentPackets>>
    BY <2>1, <2>2 DEF EntriesAreRecent
  <2>3. CASE packetCounter' = packetCounter + 1
             /\ \E entry : sentPackets' = PushSent(packetCounter, entry)
    <3>1. DOMAIN sentPackets' =
            {q \in DOMAIN sentPackets : q > packetCounter - PacketWindowLen}
               \cup {packetCounter}
      BY <2>3 DEF PushSent
    <3> QED
      BY <1>2, <2>1, <2>3, <3>1, WindowAssumption DEF EntriesAreRecent
  <2> QED
    BY <1>9, <2>2, <2>3
<1> QED
  BY <1>11, <1>13, <1>14, <1>15 DEF PacketsInv

-----------------------------------------------------------------------------
(* The sending half as a whole *)

SndInv ==
    /\ SndTypeOK
    /\ QueueInv
    /\ UnreliableInv
    /\ PacketsInv

\* Nothing was queued at first.
LEMMA InitSnd == ASSUME SndInit PROVE SndInv
<1>1. /\ queue = <<>> /\ poll = NoPoll /\ wire = <<>> /\ marking = <<>>
      /\ messageCounter = 0 /\ payloads = 0 /\ sentMessages = NewSlidingWindow
  BY DEF SndInit
<1>2. SndTypeOK
  <2>1. sentMessages \in SlidingWindows
    BY <1>1, NewSlidingWindowFacts
  <2>2. ~ poll.running /\ DOMAIN sentPackets = {}
    BY DEF SndInit, NoPoll
  <2>3. /\ queue \in Seq(Message) /\ marking \in Seq(Nat) /\ wire \in Seq(PacketType)
        /\ acking \in SUBSET Nat /\ attempted \in SUBSET Nat
        /\ messageCounter \in Nat /\ payloads \in Nat /\ packetCounter \in Nat
    BY DEF SndInit
  <2> QED
    BY <1>1, <2>1, <2>2, <2>3 DEF SndTypeOK
<1>3. QueueInv
  <2>1. Reliables(queue) = {} /\ ~ poll.running /\ 0 .. (messageCounter - 1) = {}
    BY <1>1 DEF Reliables, NoPoll
  <2> QED
    BY <2>1 DEF QueueInv, NoneForgotten, CandidatesAreQueued, InIdOrder, Ids
<1>4. UnreliableInv
  <2>1. 0 .. (payloads - 1) = {} /\ ~ poll.running
    BY <1>1 DEF NoPoll
  <2>2. AreLists(Lists, <<>>, <<>>, <<>>)
    <3>1. AreLists(ListsOf(<<>>, <<>>, wire), <<>>, <<>>, wire)
      BY <1>2, ListsAre DEF SndTypeOK
    <3>2. Lists = ListsOf(<<>>, <<>>, wire)
      BY <1>1, <2>1 DEF Lists
    <3> QED
      BY <1>1, <3>1, <3>2
  <2>3. \A l \in DOMAIN Lists : Lists[l] = <<>>
    BY <2>2 DEF AreLists
  <2>4. Unreliables(<<>>) = {}
    BY DEF Unreliables
  <2> QED
    BY <2>1, <2>3, <2>4 DEF UnreliableInv, UnreliableOnce
<1> QED
  BY <1>2, <1>3, <1>4, InitPackets DEF SndInv

\* Each of its actions keeps it.
LEMMA QueueMsgSnd ==
    ASSUME SndInv, NEW kind \in Kinds, NEW size \in Sizes, QueueMsg(kind, size)
    PROVE  SndInv'
<1>1. SndTypeOK' /\ QueueInv' /\ UnreliableInv'
  BY QueueMsgTypes, QueueMsgQueue, QueueMsgUnreliable DEF SndInv
<1>2. /\ UNCHANGED <<wire, packetCounter, sentPackets>>
      /\ messageCounter' \in {messageCounter, messageCounter + 1}
  BY DEF QueueMsg
<1>3. PacketsInv'
  BY <1>2, OthersPackets DEF SndInv
<1> QED
  BY <1>1, <1>3 DEF SndInv

LEMMA ReceiveAcksSnd ==
    ASSUME SndInv, NEW pids \in SUBSET Nat, ReceiveAcks(pids)
    PROVE  SndInv'
<1>1. /\ UNCHANGED <<queue, poll, payloads, wire, packetCounter, sentPackets>>
      /\ messageCounter' \in {messageCounter, messageCounter + 1}
  BY DEF ReceiveAcks
<1>2. SndTypeOK' /\ QueueInv'
  BY ReceiveAcksTypes, ReceiveAcksQueue DEF SndInv
<1>3. UnreliableInv' /\ PacketsInv'
  BY <1>1, OthersUnreliable, OthersPackets DEF SndInv
<1> QED
  BY <1>2, <1>3 DEF SndInv

LEMMA BeginPollSnd ==
    ASSUME SndInv, NEW expired, NEW budget \in 1 .. MaxBudget,
           NEW score \in 0 .. PacketWindowLen, NEW due \in BOOLEAN,
           BeginPoll(expired, budget, score, due)
    PROVE  SndInv'
<1>1. SndTypeOK' /\ QueueInv' /\ UnreliableInv'
  BY BeginPollTypes, BeginPollQueue, BeginPollUnreliable DEF SndInv
<1>2. /\ UNCHANGED <<wire, packetCounter, sentPackets>>
      /\ messageCounter' \in {messageCounter, messageCounter + 1}
  BY DEF BeginPoll
<1>3. PacketsInv'
  BY <1>2, OthersPackets DEF SndInv
<1> QED
  BY <1>1, <1>3 DEF SndInv

LEMMA SndLoopSnd == ASSUME SndInv, SndLoop PROVE SndInv'
<1>1. CASE MarkSentPacketReceived
  <2>1. UNCHANGED <<queue, poll, wire, payloads>>
    BY <1>1 DEF MarkSentPacketReceived
  <2> QED
    BY <1>1, <2>1, MarkSentPacketReceivedTypes, MarkSentPacketReceivedQueue,
       OthersUnreliable, MarkSentPacketReceivedPackets DEF SndInv
<1>2. CASE MarkSentMessage
  <2>1. /\ UNCHANGED <<queue, poll, wire, payloads, packetCounter, sentPackets>>
        /\ messageCounter' \in {messageCounter, messageCounter + 1}
    BY <1>2 DEF MarkSentMessage
  <2> QED
    BY <1>2, <2>1, MarkSentMessageTypes, MarkSentMessageQueue, OthersUnreliable,
       OthersPackets DEF SndInv
<1>3. CASE SendPacket
  BY <1>3, SendPacketTypes, SendPacketQueue, SendPacketUnreliable,
     SendPacketPackets DEF SndInv
<1>4. CASE EndPoll
  <2>1. /\ UNCHANGED <<wire, packetCounter, sentPackets>>
        /\ messageCounter' \in {messageCounter, messageCounter + 1}
    BY <1>4 DEF EndPoll
  <2> QED
    BY <1>4, <2>1, EndPollTypes, EndPollQueue, EndPollUnreliable, OthersPackets
       DEF SndInv
<1> QED
  BY <1>1, <1>2, <1>3, <1>4 DEF SndLoop

\* It is about the sending half alone.
LEMMA StutterSnd == ASSUME SndInv, UNCHANGED sndVars PROVE SndInv'
<1>1. UNCHANGED <<queue, attempted, messageCounter, payloads, packetCounter,
                  sentMessages, sentPackets, poll, acking, marking, wire>>
  BY DEF sndVars
<1>2. SndTypeOK'
  BY <1>1 DEF SndInv, SndTypeOK
<1>3. QueueInv'
  BY <1>1 DEF SndInv, QueueInv, NoneForgotten, CandidatesAreQueued
<1>4. UnreliableInv'
  BY <1>1, OthersUnreliable DEF SndInv
<1>5. PacketsInv'
  BY <1>1, OthersPackets DEF SndInv
<1> QED
  BY <1>2, <1>3, <1>4, <1>5 DEF SndInv

\* No message that is known to be received is packed.
LEMMA PacksUncovered ==
    ASSUME SndInv, SndLoop \/ UNCHANGED wire, wire' # wire
    PROVE  Ids(wire'[Len(wire')].messages) \cap Covered(sentMessages) = {}
<1>1. SendPacket
  BY DEF SndLoop, MarkSentPacketReceived, MarkSentMessage, EndPoll
<1>2. PICK is \in SUBSET DOMAIN poll.candidates, pid \in Nat \cup {NoPid} :
             LET packed == Subsequence(poll.candidates, is) IN
             /\ packed \in Seq(Message)
             /\ wire' = Append(wire, [pid |-> pid, messages |-> packed])
  BY <1>1, SendPacketEffect DEF SndInv
<1> DEFINE packed == Subsequence(poll.candidates, is)
<1>3. poll.running /\ poll.candidates \in Seq(Message) /\ wire \in Seq(PacketType)
  BY <1>1 DEF SndInv, SendPacket, SndTypeOK, PollType
<1>4. Ids(packed) \subseteq Ids(poll.candidates)
  <2>1. Ids(packed) = {poll.candidates[i].id : i \in is \cap Reliables(poll.candidates)}
    BY <1>3, SubsequenceIds
  <2> QED
    BY <2>1 DEF Ids
<1>5. Ids(poll.candidates) \cap Covered(sentMessages) = {}
  BY <1>3 DEF SndInv, QueueInv
<1> HIDE DEF packed
<1>6. wire'[Len(wire')].messages = packed
  <2> DEFINE packet == [pid |-> pid, messages |-> packed]
  <2>1. wire' = Append(wire, packet) /\ packet.messages = packed
    BY <1>2 DEF packed
  <2> HIDE DEF packet
  <2>2. wire'[Len(wire')] = packet
    BY <1>3, <2>1
  <2> QED
    BY <2>1, <2>2
<1> QED
  BY <1>4, <1>5, <1>6
=============================================================================
