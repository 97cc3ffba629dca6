------------------------------ MODULE MCReceiver ------------------------------
(***************************************************************************)
(* Module Receiver for TLC: the sets its configurations name.              *)
(***************************************************************************)
EXTENDS Receiver

SmallPids == {0, 1, 3}
SmallIds == 0 .. 3

\* Unordered messages have ids between those of the ordered ones.
EvenIds == {0, 2}
=============================================================================
