------------------------------ MODULE AckWindow ------------------------------
(***************************************************************************)
(* The two acknowledgment windows of src/window.rs, as the sets of ids     *)
(* their bits stand for.                                                   *)
(*                                                                         *)
(*  - SlidingAckWindow, used for message ids: its base is the lowest id    *)
(*    that was not marked; an id beyond base + length cannot be marked.    *)
(*  - LeadingAckWindow, used for packet ids: it follows the highest id     *)
(*    that was marked and forgets what falls out of its length.            *)
(*                                                                         *)
(* A window is a record: pos is the field window_pos, marked the ids whose *)
(* bit is set.  Each kind of window has one length in the whole program,   *)
(* so the lengths are constants.                                           *)
(***************************************************************************)
EXTENDS Integers, FiniteSets, FiniteSetsExt

CONSTANTS
    PacketWindowLen,    \* PACKET_WINDOW_LEN, 32 in lib.rs
    MessageWindowLen    \* MESSAGE_WINDOW_LEN, 64 in lib.rs

ASSUME WindowAssumption ==
    /\ PacketWindowLen \in Nat \ {0}
    /\ MessageWindowLen \in Nat \ {0}

-----------------------------------------------------------------------------
(* SlidingAckWindow *)

NewSlidingWindow == [pos |-> 0, marked |-> {}]

\* The ids that are neither Old nor OutOfReach.
Reach(w) == w.pos .. (w.pos + MessageWindowLen - 1)

\* The ids that are Old or Marked: those the window knows to be received.
Covered(w) == (0 .. (w.pos - 1)) \cup w.marked

\* Faulty form of SlidingMark: bits below the new base are not shifted out.
SlidingMarkKeepsOld(w, id) ==
    LET all  == w.marked \cup {id}
        base == Min((w.pos .. (w.pos + MessageWindowLen)) \ all)
    IN  IF id \in Reach(w) THEN [pos |-> base, marked |-> all] ELSE w

\* Faulty form of SlidingMark: the bits are cleared when the window slides.
SlidingMarkForgets(w, id) ==
    LET all  == w.marked \cup {id}
        base == Min((w.pos .. (w.pos + MessageWindowLen)) \ all)
    IN  IF id \notin Reach(w) THEN w
        ELSE [pos |-> base, marked |-> IF base = w.pos THEN all ELSE {}]

\* mark: an id out of the window is ignored; after a mark the window slides
\* over its marked low end and stops at the first id that is not marked.
SlidingMark(w, id) ==
    LET all  == w.marked \cup {id}
        base == Min((w.pos .. (w.pos + MessageWindowLen)) \ all)
    IN  IF id \in Reach(w)
        THEN [pos |-> base, marked |-> {i \in all : i > base}]
        ELSE w

SlidingWindows ==
    {w \in [pos : Nat, marked : SUBSET Nat] :
        w.marked \subseteq (w.pos + 1) .. (w.pos + MessageWindowLen - 1)}

-----------------------------------------------------------------------------
(* LeadingAckWindow *)

NewLeadingWindow == [pos |-> PacketWindowLen, marked |-> {}]

LeadingBase(w) == w.pos - PacketWindowLen

\* Faulty form of LeadingMark: the lowest id of the window is lost.
LeadingMarkOffByOne(w, id) ==
    LET pos == IF w.pos <= id THEN id + 1 ELSE w.pos
    IN  [pos |-> pos,
         marked |-> {i \in w.marked \cup {id} : i > pos - PacketWindowLen}]

\* mark: an id at or above the position moves the window so that it is the
\* highest one in it, and the ids that fall below the new base are forgotten.
LeadingMark(w, id) ==
    LET pos == IF w.pos <= id THEN id + 1 ELSE w.pos
    IN  [pos |-> pos,
         marked |-> {i \in w.marked \cup {id} : i >= pos - PacketWindowLen}]

LeadingWindows ==
    {w \in [pos : Nat, marked : SUBSET Nat] :
        /\ w.pos >= PacketWindowLen
        /\ w.marked \subseteq LeadingBase(w) .. (w.pos - 1)}
=============================================================================
