----------------------------- MODULE Subsequences -----------------------------
(***************************************************************************)
(* Parts of a sequence: what Vec::retain, and loops that collect some of   *)
(* the elements of a queue, make of it.  The part is given by the places   *)
(* of its elements, so that two equal elements are told apart.             *)
(***************************************************************************)
EXTENDS Integers, Sequences, FiniteSets

\* The k-th of a set of places, from the lowest.
Place(is, k) == CHOOSE i \in is : Cardinality(is \cap 1 .. i) = k

\* The elements of a sequence at the places is, in their order.
Subsequence(s, is) == [k \in 1 .. Cardinality(is) |-> s[Place(is, k)]]
=============================================================================
