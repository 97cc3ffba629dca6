-------------------------------- MODULE Sender --------------------------------
(***************************************************************************)
(* The sending half of a connection on its own: the application queues     *)
(* messages of any kind, polls come at any time, and the peer may report   *)
(* any packet ids as received, in any order and any number of times, ids   *)
(* that were never sent included.                                          *)
(***************************************************************************)
EXTENDS SendManager

CONSTANTS
    MaxMessages,    \* bound: messages queued in a behaviour
    MaxPackets,     \* bound: packets sent in a behaviour
    MaxAcks         \* bound: packet ids in one ack map

ASSUME EnvironmentAssumption ==
    /\ MaxMessages \in Nat
    /\ MaxPackets \in Nat
    /\ MaxAcks \in Nat

VARIABLE acked      \* history: the sent packet ids the peer has reported

vars == <<sndVars, acked>>

Queue ==
    /\ messageCounter + payloads < MaxMessages
    /\ \E kind \in Kinds, size \in Sizes : QueueMsg(kind, size)
    /\ UNCHANGED acked

AckMaps == {s \in SUBSET (0 .. packetCounter) : Cardinality(s) \in 1 .. MaxAcks}

Acks ==
    /\ \E pids \in AckMaps :
         /\ ReceiveAcks(pids)
         /\ acked' = acked \cup (pids \cap 0 .. (packetCounter - 1))

Poll ==
    /\ \E expired \in SUBSET attempted, budget \in 1 .. MaxBudget,
          score \in 0 .. PacketWindowLen, due \in BOOLEAN :
         /\ Len(wire) + budget <= MaxPackets
         /\ BeginPoll(expired, budget, score, due)
    /\ UNCHANGED acked

Loop == SndLoop /\ UNCHANGED acked

Init == SndInit /\ acked = {}

Next == Queue \/ Acks \/ Poll \/ Loop

Spec == Init /\ [][Next]_vars

-----------------------------------------------------------------------------
(* Properties *)

TypeOK == SndTypeOK /\ acked \in SUBSET Nat

\* The message window covers an id only if a packet that carried it was
\* reported by the peer, and what it knows of a packet is what it sent.
CoveredWasAcked ==
    /\ EntriesAreSent
    /\ \A n \in Covered(sentMessages) : \E k \in DOMAIN wire :
         wire[k].pid \in acked /\ n \in Ids(wire[k].messages)

\* What is in flight is exactly what was sent under the last PacketWindowLen
\* packet ids and has not been reported.  A report has its effect once, whenever
\* it comes and however often, and one that comes too late finds no entry.
InFlightIsExact ==
    acking = {} =>
        DOMAIN sentPackets =
            {p \in 0 .. (packetCounter - 1) : p >= packetCounter - PacketWindowLen}
                \ acked

\* A message that is known to be received is not sent again.
NeverResendsAcked ==
    [][wire' # wire =>
         Ids(wire'[Len(wire')].messages) \cap Covered(sentMessages) = {}]_vars

\* "Only one packet per frame can be ack-only. In any other case it's
\* wasteful" (the comment above available_ack_only_packet).
OneAckOnlyPacketPerFrame == poll.running => poll.bare <= 1
=============================================================================
