----------------------------- MODULE PacketQueue -----------------------------
(***************************************************************************)
(* PacketWindow of src/socket/sender/pwindow.rs as it is kept: a queue of  *)
(* optional entries, a position and a counter; and StackVec of             *)
(* src/utils.rs, in which an entry holds the ids of its messages.  Module  *)
(* SendManager has the same as a function from packet ids to ids.          *)
(*                                                                         *)
(* The averages of the packet loss are left out; which packets count as    *)
(* lost is kept.                                                           *)
(***************************************************************************)
EXTENDS Integers, Sequences, FiniteSets, FiniteSetsExt

CONSTANT Inline     \* the items a StackVec holds in place, 4 for a packet

ASSUME InlineAssumption == Inline \in Nat \ {0}

-----------------------------------------------------------------------------
(* StackVec *)

NewVec == [heap |-> FALSE, items |-> [i \in 1 .. Inline |-> 0], length |-> 0]

VecLen(v) == IF v.heap THEN Len(v.items) ELSE v.length

AsSlice(v) == IF v.heap THEN v.items ELSE SubSeq(v.items, 1, v.length)

\* A full vector moves its items to the heap before it takes another.
Reallocate(v) ==
    IF ~ v.heap /\ VecLen(v) = Inline
    THEN [heap |-> TRUE, items |-> AsSlice(v), length |-> 0]
    ELSE v

VecPush(v, item) ==
    LET r == Reallocate(v)
    IN  IF r.heap
        THEN [r EXCEPT !.items = Append(@, item)]
        ELSE [r EXCEPT !.items[r.length + 1] = item, !.length = @ + 1]

-----------------------------------------------------------------------------
(* PacketWindow *)

None == [taken |-> TRUE]

NewPacketWindow(capacity) ==
    [queue |-> <<>>, pos |-> capacity, next |-> 0, lost |-> 0,
     capacity |-> capacity]

WindowBase(w) == w.pos - w.capacity

\* pid_to_ind, from 1: where the entry of a packet is in the queue.
PidToInd(w, id) == id - WindowBase(w) + 1

InWindow(w, id) == id >= WindowBase(w) /\ id < w.pos

\* Faulty form of PushSentEntry: every packet that leaves the window is lost.
PushSentEntryAllLost(w, entry) ==
    LET full == Len(w.queue) = w.capacity
    IN  [w EXCEPT !.queue = Append(IF full THEN Tail(@) ELSE @, entry),
                  !.next = @ + 1,
                  !.pos = Max({@, w.next + 1}),
                  !.lost = @ + (IF full THEN 1 ELSE 0)]

\* push_sent: the oldest packet makes room, and is lost if it is still there.
PushSentEntry(w, entry) ==
    LET full == Len(w.queue) = w.capacity
    IN  [w EXCEPT !.queue = Append(IF full THEN Tail(@) ELSE @, entry),
                  !.next = @ + 1,
                  !.pos = Max({@, w.next + 1}),
                  !.lost = @ + (IF full /\ Head(w.queue) # None THEN 1 ELSE 0)]

\* mark_sent: the entry, if it is in the window and was not taken before.
Entry(w, id) == IF InWindow(w, id) THEN w.queue[PidToInd(w, id)] ELSE None

MarkSentEntry(w, id) ==
    IF InWindow(w, id) THEN [w EXCEPT !.queue[PidToInd(w, id)] = None] ELSE w

ResetImmediateStats(w) == [w EXCEPT !.lost = 0]

InFlight(w) == Cardinality({i \in DOMAIN w.queue : w.queue[i] # None})
=============================================================================
