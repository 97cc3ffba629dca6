------------------------------- MODULE BitSet -------------------------------
(***************************************************************************)
(* BitSet of src/window.rs: bits kept in pages of PageBits bits, with a    *)
(* shift to the right of the whole.  Bit 0 is the most significant bit of  *)
(* the first page.                                                         *)
(*                                                                         *)
(* A page is the set of the offsets of its ones; a bit set is a record of  *)
(* its length in bits and its pages.  The last page may hold bits beyond   *)
(* the length: shr moves them there and nothing reads them.                *)
(***************************************************************************)
EXTENDS Integers, Sequences

CONSTANT PageBits       \* PAGE_BITS, 64 in window.rs

ASSUME PageAssumption == PageBits \in Nat \ {0}

NewBits(len) ==
    [len |-> len,
     pages |-> [i \in 1 .. ((len + PageBits - 1) \div PageBits) |-> {}]]

Get(bits, ind) == ind % PageBits \in bits.pages[ind \div PageBits + 1]

SetBit(bits, ind, to) ==
    LET offset == ind % PageBits
    IN  [bits EXCEPT !.pages[ind \div PageBits + 1] =
            IF to THEN @ \cup {offset} ELSE @ \ {offset}]

Ones(bits) == {ind \in 0 .. (bits.len - 1) : Get(bits, ind)}

-----------------------------------------------------------------------------
(* shr *)

PageShr(page, by) == {o + by : o \in page} \cap 0 .. (PageBits - 1)

\* The shift of a machine word takes its distance modulo the word's length in
\* a release build; a debug build stops the program instead.
PageShl(page, by) ==
    LET distance == by % PageBits
    IN  {o - distance : o \in {p \in page : p >= distance}}

\* Whole pages move first, and zeros take the place of the first ones.
MovePages(pages, whole) ==
    [i \in DOMAIN pages |-> IF i > whole THEN pages[i - whole] ELSE {}]

\* Faulty form of MoveBits: a page is shifted before it is carried over.
MoveBitsLate(pages, rest) ==
    [i \in DOMAIN pages |->
        PageShr(pages[i], rest) \cup
        IF i = 1 THEN {}
        ELSE PageShl(PageShr(pages[i - 1], rest), PageBits - rest)]

\* Then each page is shifted by the rest, from the last one down, and what
\* falls out of it is put in front of the page to its right.
MoveBits(pages, rest) ==
    [i \in DOMAIN pages |->
        PageShr(pages[i], rest) \cup
        IF i = 1 THEN {} ELSE PageShl(pages[i - 1], PageBits - rest)]

Shr(bits, by) ==
    [bits EXCEPT !.pages = MoveBits(MovePages(@, by \div PageBits), by % PageBits)]

\* The distances shr is right for: with more than one page, a multiple of
\* PageBits makes it shift a page by PageBits.
CanShift(bits, by) == Len(bits.pages) = 1 \/ by % PageBits # 0
=============================================================================
