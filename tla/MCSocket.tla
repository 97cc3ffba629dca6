------------------------------- MODULE MCSocket -------------------------------
(***************************************************************************)
(* Module Socket for TLC: two peers that send one message of each kind,    *)
(* the ordered one with a hole below it until the other has come.          *)
(***************************************************************************)
EXTENDS Socket

CONSTANTS a1, a2

TwoPeers == {a1, a2}
OneOfEach ==
    {[kind |-> "Unreliable", id |-> 0],
     [kind |-> "ReliableUnordered", id |-> 0],
     [kind |-> "Reliable", id |-> 1]}
=============================================================================
