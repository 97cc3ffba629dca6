------------------------------- MODULE Checksum -------------------------------
(***************************************************************************)
(* The signature of a datagram (src/crc32.rs): a cyclic redundancy check   *)
(* over the data and the protocol's signature, put behind the data.        *)
(*                                                                         *)
(* The program computes 32 bits with a table over bytes.  Here the two     *)
(* widths and the generator are parameters, since the algorithm does not   *)
(* depend on them: a chunk has ChunkBits bits, a checksum CrcBits.  A word *)
(* is the set of the positions of its ones, the lowest bit at 0.           *)
(***************************************************************************)
EXTENDS Integers, Sequences

CONSTANTS
    CrcBits,        \* 32
    ChunkBits,      \* 8
    Generator       \* the ones of 0xEDB88320, whose highest bit is one

ASSUME ChecksumAssumption ==
    /\ ChunkBits \in Nat \ {0}
    /\ CrcBits \in Nat \ {0}
    /\ CrcBits % ChunkBits = 0
    /\ Generator \subseteq 0 .. (CrcBits - 1)
    /\ CrcBits - 1 \in Generator

Chunks == SUBSET (0 .. (ChunkBits - 1))
CrcInit == 0 .. (CrcBits - 1)
SigLen == CrcBits \div ChunkBits    \* CRC32_SIG_LEN

\* The operators ^ and >> of machine words.
Xor(a, b) == (a \ b) \cup (b \ a)
ShiftDown(word, by) == {b - by : b \in {c \in word : c >= by}}

\* One bit of the division.
DivideBit(remainder) ==
    IF 0 \in remainder THEN Xor(ShiftDown(remainder, 1), Generator)
                       ELSE ShiftDown(remainder, 1)

\* crc32_table: what the division makes of each chunk.
DivideBits(word) ==
    LET after[bit \in 0 .. ChunkBits] ==
            IF bit = 0 THEN word ELSE DivideBit(after[bit - 1])
    IN  after[ChunkBits]

CrcTable == [i \in Chunks |-> DivideBits(i)]

\* Faulty form of CrcStep: the byte that is moved out does not select.
CrcStepBlind(remainder, chunk) ==
    Xor(ShiftDown(remainder, ChunkBits), CrcTable[chunk])

\* The loop body of crc32_multi.
CrcStep(remainder, chunk) ==
    Xor(ShiftDown(remainder, ChunkBits),
        CrcTable[Xor(remainder \cap 0 .. (ChunkBits - 1), chunk)])

\* crc32_multi.
Crc(data) ==
    LET after[n \in 0 .. Len(data)] ==
            IF n = 0 THEN CrcInit ELSE CrcStep(after[n - 1], data[n])
    IN  Xor(after[Len(data)], CrcInit)

\* to_be_bytes: the most significant chunk first.
BigEndian(crc) ==
    [i \in 1 .. SigLen |->
        {b \in 0 .. (ChunkBits - 1) : b + ChunkBits * (SigLen - i) \in crc}]

\* CRC32::sign, for data that leaves room for it.
Sign(data, signature) == data \o BigEndian(Crc(data \o signature))

Body(datagram) == SubSeq(datagram, 1, Len(datagram) - SigLen)

\* CRC32::validate.
Validates(datagram, signature) ==
    /\ Len(datagram) >= SigLen
    /\ datagram = Sign(Body(datagram), signature)
=============================================================================
