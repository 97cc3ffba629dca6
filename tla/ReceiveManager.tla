---------------------------- MODULE ReceiveManager ----------------------------
(***************************************************************************)
(* The receiving half of a connection: ReceiveManager                      *)
(* (src/socket/receiver.rs), the three channels it feeds                   *)
(* (src/socket/channels.rs), and the two places that drive it:             *)
(* SocketConnection::process_packet, for every packet of the peer, and     *)
(* Socket::poll_connections, which empties the channels into the queue the *)
(* application reads.                                                      *)
(*                                                                         *)
(* A loop of the program is one action per iteration; while one runs no    *)
(* other action of the connection can, since one thread uses it.           *)
(***************************************************************************)
EXTENDS AckWindow, Packet

VARIABLES
    recvMessages,   \* recv_message_window
    recvPackets,    \* recv_packet_window
    incoming,       \* what process_packet has still to pass to process_message
    unreliable,     \* UnreliableChannel::recv_buff
    unordered,      \* ReliableUnorderedChannel::recv_buff
    ordered,        \* ReliableChannel::recv_buff, a map keyed by message id
    draining,       \* poll_connections is in its recv_message loop
    delivered       \* every message pushed to Socket::message_queue, in order

rcvVars == <<recvMessages, recvPackets, incoming, unreliable, unordered,
             ordered, draining, delivered>>

chanVars == <<unreliable, unordered, ordered>>

RcvInit ==
    /\ recvMessages = NewSlidingWindow
    /\ recvPackets = NewLeadingWindow
    /\ incoming = <<>>
    /\ unreliable = <<>>
    /\ unordered = <<>>
    /\ ordered = {}
    /\ draining = FALSE
    /\ delivered = <<>>

RcvIdle == incoming = <<>> /\ ~draining

-----------------------------------------------------------------------------
(* SocketConnection::process_packet *)

\* The packet's id is marked first, whatever becomes of its messages below.
ProcessPacket(pid, messages) ==
    /\ RcvIdle
    /\ recvPackets' = IF pid = NoPid THEN recvPackets
                                     ELSE LeadingMark(recvPackets, pid)
    /\ incoming' = messages
    /\ UNCHANGED <<recvMessages, chanVars, draining, delivered>>

\* Faulty forms of Accepts: without the upper bound of the window, without
\* the check for duplicates, and with a window that is one id too short.
AcceptsBeyondWindow(m) == IsReliable(m) => m.id \notin Covered(recvMessages)

AcceptsMarked(m) == IsReliable(m) => m.id \in Reach(recvMessages)

AcceptsOffByOne(m) ==
    IsReliable(m) =>
        /\ m.id \in Reach(recvMessages) \ recvMessages.marked
        /\ m.id + 1 \in Reach(recvMessages)

\* A reliable message is taken if it is in the window and not yet marked.
Accepts(m) ==
    \/ ~ IsReliable(m)
    \/ m.id \in Reach(recvMessages) \ recvMessages.marked

\* ReceiveManager::process_message and the channel's process_message.
ProcessMessage ==
    /\ incoming # <<>>
    /\ incoming' = Tail(incoming)
    /\ LET m == Head(incoming) IN
         IF Accepts(m)
         THEN /\ recvMessages' = IF IsReliable(m)
                                  THEN SlidingMark(recvMessages, m.id)
                                  ELSE recvMessages
              /\ unreliable' = IF m.kind = "Unreliable"
                               THEN Append(unreliable, m) ELSE unreliable
              /\ unordered' = IF m.kind = "ReliableUnordered"
                              THEN Append(unordered, m) ELSE unordered
              /\ ordered' = IF m.kind = "Reliable"
                            THEN ordered \cup {m} ELSE ordered
         ELSE UNCHANGED <<recvMessages, chanVars>>
    /\ UNCHANGED <<recvPackets, draining, delivered>>

-----------------------------------------------------------------------------
(* The receiving part of Socket::poll_connections *)

BeginDrain ==
    /\ RcvIdle
    /\ draining' = TRUE
    /\ UNCHANGED <<recvMessages, recvPackets, incoming, chanVars, delivered>>

\* Faulty forms of OrderedReady: the window is not consulted, any message
\* below it is given out, and the comparison is off by one.
OrderedReadyAnyway == {m \in ordered : \A n \in ordered : m.id <= n.id}

OrderedReadyUnsorted == {m \in ordered : m.id < recvMessages.pos}

OrderedReadyOffByOne ==
    {m \in ordered : /\ \A n \in ordered : m.id <= n.id
                     /\ m.id + 1 < recvMessages.pos}

\* ReliableChannel::recv_message looks at the lowest id of its buffer only,
\* and gives it out once the window has moved past it.
OrderedReady ==
    {m \in ordered : /\ \A n \in ordered : m.id <= n.id
                     /\ m.id < recvMessages.pos}

Deliver(m) ==
    /\ delivered' = Append(delivered, m)
    /\ UNCHANGED <<recvMessages, recvPackets, incoming, draining>>

\* One call of recv_message: ChannelStorage tries its channels in this order.
RecvUnreliable ==
    /\ draining
    /\ unreliable # <<>>
    /\ Deliver(Head(unreliable))
    /\ unreliable' = Tail(unreliable)
    /\ UNCHANGED <<unordered, ordered>>

RecvUnordered ==
    /\ draining
    /\ unreliable = <<>> /\ unordered # <<>>
    /\ Deliver(Head(unordered))
    /\ unordered' = Tail(unordered)
    /\ UNCHANGED <<unreliable, ordered>>

RecvOrdered ==
    /\ draining
    /\ unreliable = <<>> /\ unordered = <<>>
    /\ \E m \in OrderedReady :
         /\ Deliver(m)
         /\ ordered' = ordered \ {m}
    /\ UNCHANGED <<unreliable, unordered>>

\* recv_message returned None.
EndDrain ==
    /\ draining
    /\ unreliable = <<>> /\ unordered = <<>> /\ OrderedReady = {}
    /\ draining' = FALSE
    /\ UNCHANGED <<recvMessages, recvPackets, incoming, chanVars, delivered>>

RcvLoop == \/ ProcessMessage
           \/ RecvUnreliable \/ RecvUnordered \/ RecvOrdered
           \/ EndDrain

-----------------------------------------------------------------------------
(* Properties *)

OfKind(messages, kind) == {m \in messages : m.kind = kind}

\* Every variable keeps its type, the windows keep their shape, and each
\* channel buffers messages of its own kind only.
RcvTypeOK(messages) ==
    /\ recvMessages \in SlidingWindows
    /\ recvPackets \in LeadingWindows
    /\ incoming \in Seq(messages)
    /\ unreliable \in Seq(OfKind(messages, "Unreliable"))
    /\ unordered \in Seq(OfKind(messages, "ReliableUnordered"))
    /\ ordered \in SUBSET OfKind(messages, "Reliable")
    /\ draining \in BOOLEAN
    /\ delivered \in Seq(messages)

OrderedIn == {m.id : m \in ordered}
AllIds(ms) == {ms[i].id : i \in DOMAIN ms}
UnorderedIn == AllIds(unordered)
DeliveredIds == Ids(delivered)

\* Nothing the receiver took is lost inside it and nothing is made up: the
\* message window covers exactly the ids that are buffered or delivered
\* (process_message marks an id and hands its message to a channel together).
NothingLost ==
    Covered(recvMessages) = OrderedIn \cup UnorderedIn \cup DeliveredIds

\* The application gets a reliable message once at most: no id is in two
\* places (a buffer, or the messages delivered), or in one of them twice.
AtMostOnce ==
    /\ \A i, j \in DOMAIN delivered :
         /\ IsReliable(delivered[i]) /\ IsReliable(delivered[j])
         /\ delivered[i].id = delivered[j].id
         => i = j
    /\ \A i, j \in DOMAIN unordered : unordered[i].id = unordered[j].id => i = j
    /\ \A m, n \in ordered : m.id = n.id => m = n
    /\ OrderedIn \cap UnorderedIn = {}
    /\ (OrderedIn \cup UnorderedIn) \cap DeliveredIds = {}

\* If ids are those of the Reliable messages, these are delivered in the order
\* of their ids and none is left out.
NoGap(ids) ==
    \A i \in DOMAIN delivered : delivered[i].kind = "Reliable" =>
        /\ \A j \in DOMAIN delivered :
             delivered[j].kind = "Reliable" /\ j < i
             => delivered[j].id < delivered[i].id
        /\ \A n \in ids : n < delivered[i].id =>
             \E j \in DOMAIN delivered :
                j < i /\ delivered[j].kind = "Reliable" /\ delivered[j].id = n

\* What an invariant with NoGap needs besides.  A channel holds ids of its own
\* kind only, so an ordered id that is covered and not buffered was delivered
\* as an ordered message; and all that is still in the ordered buffer comes
\* after every Reliable message that was delivered.
KindsKept(ids) ==
    /\ OrderedIn \subseteq ids
    /\ UnorderedIn \cap ids = {}
    /\ \A i \in DOMAIN delivered :
         delivered[i].kind = "ReliableUnordered" => delivered[i].id \notin ids

OrderedAbove ==
    \A i \in DOMAIN delivered : delivered[i].kind = "Reliable" =>
        /\ delivered[i].id < recvMessages.pos
        /\ \A m \in ordered : delivered[i].id < m.id
=============================================================================
