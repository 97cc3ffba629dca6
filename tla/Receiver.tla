------------------------------- MODULE Receiver -------------------------------
(***************************************************************************)
(* The receiving half of a connection on its own: its peer, and the        *)
(* network between, may hand it any sequence of valid packets, in any      *)
(* order, any number of times.  What is stated here therefore holds        *)
(* whatever the sender, the network and the timing do; what needs the      *)
(* sender's behaviour too is stated in module Link.                        *)
(***************************************************************************)
EXTENDS ReceiveManager

CONSTANTS
    Pids,           \* the packet ids the environment uses
    MsgIds,         \* the message ids the environment uses
    OrderedIds,     \* those of them the peer gave to Reliable messages
    MaxBatch,       \* bound: messages in one packet
    MaxPackets      \* bound: packets received in a behaviour

ASSUME ReceiverAssumption ==
    /\ Pids \subseteq Nat
    /\ MsgIds \subseteq Nat
    /\ OrderedIds \subseteq Nat
    /\ MaxBatch \in Nat
    /\ MaxPackets \in Nat

VARIABLES
    seen,           \* history: the packet ids that arrived
    packets         \* how many packets arrived, for the bound

vars == <<rcvVars, seen, packets>>

\* The kind of a message never changes: its sender gave it once, with the id.
KindOf(id) == IF id \in OrderedIds THEN "Reliable" ELSE "ReliableUnordered"

ReliableMessages == {[kind |-> KindOf(id), id |-> id] : id \in MsgIds}
UnreliableMessages == {[kind |-> "Unreliable", id |-> 0]}
Messages == ReliableMessages \cup UnreliableMessages

Batches(S) == UNION {[1..n -> S] : n \in 0..MaxBatch}

\* Socket::receive_messages drops a packet that is not valid.
ValidPackets ==
    {p \in [pid : Pids \cup {NoPid}, messages : Batches(Messages)] : IsValid(p)}

Receive ==
    /\ packets < MaxPackets
    /\ \E p \in ValidPackets :
         /\ ProcessPacket(p.pid, p.messages)
         /\ seen' = seen \cup ({p.pid} \ {NoPid})
    /\ packets' = packets + 1

Poll == BeginDrain /\ UNCHANGED <<seen, packets>>

Loop == RcvLoop /\ UNCHANGED <<seen, packets>>

Init == RcvInit /\ seen = {} /\ packets = 0

Next == Receive \/ Poll \/ Loop

Spec == Init /\ [][Next]_vars

\* The loops run to their end and the application keeps polling its socket.
FairSpec == Spec /\ WF_vars(Loop) /\ WF_vars(Poll)

-----------------------------------------------------------------------------
(* Properties *)

\* The receiver's variables keep their types.
TypeOK ==
    /\ RcvTypeOK(Messages)
    /\ seen \in SUBSET Nat
    /\ packets \in Nat

\* Reliable messages are delivered in the order of their ids without a gap:
\* when one is, every Reliable message with a lower id was delivered before.
\* The channel relies on ids that unordered messages use as well.
InOrderNoGap == NoGap(OrderedIds)

\* What the receiver acknowledges (build_ack_map of recv_packet_window) is
\* exactly what arrived among the last PacketWindowLen packet ids.
AcksAreExact ==
    /\ recvPackets.marked = {p \in seen : p >= LeadingBase(recvPackets)}
    /\ \A p \in seen : p < recvPackets.pos
    /\ recvPackets.pos > PacketWindowLen => recvPackets.pos - 1 \in seen

\* The inductive invariant behind the properties above.
IInv == /\ TypeOK
        /\ NothingLost /\ AtMostOnce
        /\ KindsKept(OrderedIds) /\ OrderedAbove /\ InOrderNoGap
        /\ AcksAreExact

\* The message window only moves forward and never forgets an id it took: a
\* message that was taken once can never be taken again.
NeverForgets ==
    [][/\ recvMessages.pos <= recvMessages'.pos
       /\ Covered(recvMessages) \subseteq Covered(recvMessages')]_vars

\* A poll takes every message that may be delivered out of the channels: what
\* stays are ordered messages with a hole below them.
PollDrains ==
    [][draining /\ ~draining' =>
         /\ unreliable' = <<>> /\ unordered' = <<>>
         /\ \A m \in ordered' : \E n \in 0 .. m.id :
               n \notin Covered(recvMessages')]_vars

\* A Reliable message that has no hole below it is delivered in the end.
DeliveredInTheEnd ==
    \A n \in OrderedIds : (n < recvMessages.pos) ~> (n \in DeliveredIds)
=============================================================================
