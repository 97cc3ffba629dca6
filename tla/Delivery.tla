------------------------------- MODULE Delivery -------------------------------
(***************************************************************************)
(* What one direction of a connection promises for its reliable messages,  *)
(* without packets, windows, timers or queues.  PROTOCOL.md asks for two   *)
(* kinds: reliable unordered and reliable ordered.                         *)
(*                                                                         *)
(* A message is known by its number.  It is submitted by the application,  *)
(* taken once by the other peer, then delivered there once, and confirmed  *)
(* to its sender, which may forget it from then on.  An ordered message is *)
(* delivered after all the ordered messages submitted before it.           *)
(***************************************************************************)
EXTENDS Integers, Sequences, SequencesExt

VARIABLES
    submitted,      \* the kind of each message, by its number: a sequence
    taken,          \* the numbers the receiver has taken
    handed,         \* the numbers delivered to its application, in that order:
                    \* a sequence, in which a second delivery would show
    confirmed       \* the numbers the sender believes to be received

dvars == <<submitted, taken, handed, confirmed>>

DInit ==
    /\ submitted = <<>>
    /\ taken = {}
    /\ handed = <<>>
    /\ confirmed = {}

Submit(kind) ==
    /\ submitted' = Append(submitted, kind)
    /\ UNCHANGED <<taken, handed, confirmed>>

Take(n) ==
    /\ n \in 0 .. (Len(submitted) - 1) \ taken
    /\ taken' = taken \cup {n}
    /\ UNCHANGED <<submitted, handed, confirmed>>

Ordered(n) == submitted[n + 1] = "Reliable"

Hand(n) ==
    /\ n \in taken \ ToSet(handed)
    /\ Ordered(n) => \A k \in 0 .. (n - 1) : Ordered(k) => k \in ToSet(handed)
    /\ handed' = Append(handed, n)
    /\ UNCHANGED <<submitted, taken, confirmed>>

Confirm(n) ==
    /\ n \in taken \ confirmed
    /\ confirmed' = confirmed \cup {n}
    /\ UNCHANGED <<submitted, taken, handed>>

DNext ==
    \/ \E kind \in {"Reliable", "ReliableUnordered"} : Submit(kind)
    \/ \E n \in DOMAIN submitted :
         Take(n - 1) \/ Hand(n - 1) \/ Confirm(n - 1)

DSpec == DInit /\ [][DNext]_dvars
=============================================================================
