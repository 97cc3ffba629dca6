-------------------------------- MODULE Packet --------------------------------
(***************************************************************************)
(* Messages and packets (src/packet.rs).                                   *)
(*                                                                         *)
(* A message is a record with a kind and an id, and for the sender a size. *)
(* Only messages of a reliable kind have an id in the program; the id of   *)
(* an unreliable one stands for its payload, so that properties can tell   *)
(* payloads apart, and nothing that models code reads it.                  *)
(*                                                                         *)
(* A packet is a record with a pid (the seq_id of a PacketCrate) and the   *)
(* sequence of its messages.                                               *)
(***************************************************************************)
EXTENDS Integers, Sequences, Subsequences

ReliableKinds == {"Reliable", "ReliableUnordered"}
Kinds == ReliableKinds \cup {"Unreliable"}

\* is_reliable, and message_id() is not None: one and the same.
IsReliable(m) == m.kind # "Unreliable"

\* The places of the reliable messages of a sequence, those of the others, and
\* the ids of the reliable ones.
Reliables(ms) == {i \in DOMAIN ms : IsReliable(ms[i])}
Unreliables(ms) == DOMAIN ms \ Reliables(ms)
Ids(ms) == {ms[i].id : i \in Reliables(ms)}

\* The bytes they take in a crate.
Size(ms) ==
    LET upTo[i \in 0 .. Len(ms)] ==
            IF i = 0 THEN 0 ELSE upTo[i - 1] + ms[i].size
    IN  upTo[Len(ms)]

NoPid == -1     \* the seq_id is None

\* PacketCrate::is_valid: reliable messages travel in packets with an id.  It
\* also bounds the score, which the packets of these modules leave out.
IsValid(packet) == packet.pid = NoPid => Ids(packet.messages) = {}
=============================================================================
