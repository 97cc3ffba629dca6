--------------------------------- MODULE Link ---------------------------------
(***************************************************************************)
(* One direction of a connection: the sending half of one peer             *)
(* (SendManager), the receiving half of the other (ReceiveManager), and    *)
(* the network between them.  The other direction is the same code with    *)
(* the roles exchanged; what it contributes here is that its packets carry *)
(* the acknowledgments (build_ack_map in prepare_and_send).                *)
(*                                                                         *)
(* The network loses, duplicates and delays.  A packet given to the socket *)
(* stays in wire for ever and may be received any number of times, or      *)
(* never; but not after a packet sent more than MaxReorder places later.   *)
(* With MaxReorder = 0 the order is kept.  Ack maps travel the other way   *)
(* and are lost, duplicated and reordered without a limit.                 *)
(*                                                                         *)
(* The peers share only the network, so a loop of one of them runs to its  *)
(* end before the other moves.                                             *)
(***************************************************************************)
EXTENDS SendManager, ReceiveManager

CONSTANTS
    SentKinds,      \* the kinds of messages the application sends
    Scores,         \* the effective scores a poll may start with
    MaxReorder,     \* how far behind a packet may be overtaken
    MaxMessages,    \* bound: messages queued in a behaviour
    MaxPackets      \* bound: packets sent in a behaviour

ASSUME LinkAssumption ==
    /\ SentKinds \subseteq Kinds
    /\ Scores \subseteq 0 .. PacketWindowLen
    /\ MaxReorder \in Nat
    /\ MaxMessages \in Nat
    /\ MaxPackets \in Nat

VARIABLES
    high,           \* the largest index of wire received so far
    acks            \* the ack maps the receiver has sent

vars == <<sndVars, rcvVars, high, acks>>

Quiet == SndIdle /\ RcvIdle

-----------------------------------------------------------------------------
(* The sending peer *)

Send ==
    /\ Quiet
    /\ messageCounter + payloads < MaxMessages
    /\ \E kind \in SentKinds, size \in Sizes : QueueMsg(kind, size)
    /\ UNCHANGED <<rcvVars, high, acks>>

SenderPoll ==
    /\ Quiet
    /\ \E expired \in SUBSET attempted, budget \in 1 .. MaxBudget,
          score \in Scores, due \in BOOLEAN :
         /\ Len(wire) + budget <= MaxPackets
         /\ BeginPoll(expired, budget, score, due)
    /\ UNCHANGED <<rcvVars, high, acks>>

AcksArrive ==
    /\ Quiet
    /\ \E pids \in acks : ReceiveAcks(pids)
    /\ UNCHANGED <<rcvVars, high, acks>>

SenderLoop == SndLoop /\ UNCHANGED <<rcvVars, high, acks>>

-----------------------------------------------------------------------------
(* The receiving peer *)

PacketArrives ==
    /\ Quiet
    /\ \E i \in DOMAIN wire :
         /\ i + MaxReorder >= high
         /\ high' = IF i > high THEN i ELSE high
         /\ IsValid(wire[i])
         /\ ProcessPacket(wire[i].pid, wire[i].messages)
    /\ UNCHANGED <<sndVars, acks>>

\* Its poll sends at least one packet, which carries the ack map of its packet
\* window, and then empties its channels.
ReceiverPoll ==
    /\ Quiet
    /\ BeginDrain
    /\ acks' = acks \cup {recvPackets.marked}
    /\ UNCHANGED <<sndVars, high>>

ReceiverLoop == RcvLoop /\ UNCHANGED <<sndVars, high, acks>>

-----------------------------------------------------------------------------

Init == SndInit /\ RcvInit /\ high = 0 /\ acks = {}

Next == \/ Send \/ SenderPoll \/ AcksArrive \/ SenderLoop
        \/ PacketArrives \/ ReceiverPoll \/ ReceiverLoop

Spec == Init /\ [][Next]_vars

-----------------------------------------------------------------------------
(* Properties *)

\* The sender believes a message received only if it was: an acknowledged
\* packet stands for its messages, so every message of an acknowledged packet
\* that the sender can mark must have been in the receiver's window too.
AckSound == Covered(sentMessages) \subseteq Covered(recvMessages)

\* "Reliable unordered (a packet is guaranteed to get received ...)" and
\* "Reliable ordered (a packet is guaranteed to get received ...)": a message
\* the receiver has not taken is still queued for another attempt.
ReliableNotLost ==
    0 .. (messageCounter - 1) \subseteq Ids(queue) \cup Covered(recvMessages)

-----------------------------------------------------------------------------
(* The link implements Delivery *)

\* The kinds of the reliable messages by id: each is queued or was packed.
Submitted ==
    LET known == ToSet(queue) \cup UNION {ToSet(wire[k].messages) : k \in DOMAIN wire}
        reliable == {m \in known : IsReliable(m)}
    IN  [n \in 1 .. messageCounter |->
            (CHOOSE m \in reliable : m.id = n - 1).kind]

\* The ids of the reliable messages pushed to the application's queue, one for
\* every time one was pushed.
Handed ==
    LET given == Subsequence(delivered, Reliables(delivered))
    IN  [i \in DOMAIN given |-> given[i].id]

Promise ==
    INSTANCE Delivery WITH
        submitted <- Submitted,
        taken     <- Covered(recvMessages),
        handed    <- Handed,
        confirmed <- Covered(sentMessages)

\* Every step of the windows, queues, channels and packets is a step of the
\* promise or changes nothing of it: a message is confirmed only after it was
\* taken, and is delivered at most once, the ordered ones in the order of
\* send_to.  Handed grows with every delivery, so that a second one of the same
\* message, which Delivery has no step for, is no stuttering step.
KeepsPromise == Promise!DSpec
=============================================================================
