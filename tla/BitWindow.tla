------------------------------ MODULE BitWindow ------------------------------
(***************************************************************************)
(* The two acknowledgment windows as src/window.rs keeps them: a position  *)
(* and a BitSet whose last bit stands for the base of the window.  Module  *)
(* AckWindow has the same windows as sets of ids; SlidingSet and           *)
(* LeadingSet say which set the bits stand for.                            *)
(***************************************************************************)
EXTENDS AckWindow, BitSet

\* The index of an id in the frames of a window with this base.
BitIndex(frames, base, id) == (frames.len - 1) - (id - base)

InFrames(frames, base) ==
    {id \in base .. (base + frames.len - 1) : Get(frames, BitIndex(frames, base, id))}

-----------------------------------------------------------------------------
(* SlidingAckWindow *)

NewBitSliding == [pos |-> 0, frames |-> NewBits(MessageWindowLen)]

\* One pass of the loop: while the topmost bit is one, shift by one, and move
\* the position by one.
SlideOnce(w) ==
    IF Get(w.frames, w.frames.len - 1)
    THEN [pos |-> w.pos + 1, frames |-> Shr(w.frames, 1)]
    ELSE w

\* The loop ends after at most as many passes as there are bits: each puts a
\* zero at the other end.
Slide(w) ==
    LET after[n \in 0 .. w.frames.len] ==
            IF n = 0 THEN w ELSE SlideOnce(after[n - 1])
    IN  after[w.frames.len]

BitSlidingMark(w, id) ==
    IF id < w.pos \/ id - w.pos >= w.frames.len
    THEN w
    ELSE Slide([w EXCEPT !.frames = SetBit(@, BitIndex(@, w.pos, id), TRUE)])

\* get_marked: the ids that are Marked, above the Old ones.
SlidingSet(w) == [pos |-> w.pos, marked |-> InFrames(w.frames, w.pos)]

-----------------------------------------------------------------------------
(* LeadingAckWindow *)

NewBitLeading == [pos |-> PacketWindowLen, frames |-> NewBits(PacketWindowLen)]

BitLeadingBase(w) == w.pos - w.frames.len

\* Faulty form of Lead: the window stops short of the packet.
LeadShort(w, id) ==
    IF w.pos <= id
    THEN [pos |-> id + 1, frames |-> Shr(w.frames, id - w.pos)]
    ELSE w

\* A packet at or above the position moves the window up to it.
Lead(w, id) ==
    IF w.pos <= id
    THEN [pos |-> id + 1, frames |-> Shr(w.frames, 1 + id - w.pos)]
    ELSE w

BitLeadingMark(w, id) ==
    LET lead == Lead(w, id)
        base == BitLeadingBase(lead)
    IN  IF id >= base
        THEN [lead EXCEPT !.frames = SetBit(@, BitIndex(@, base, id), TRUE)]
        ELSE lead

\* What build_ack_map reads bit by bit.
LeadingSet(w) ==
    [pos |-> w.pos, marked |-> InFrames(w.frames, BitLeadingBase(w))]
=============================================================================
