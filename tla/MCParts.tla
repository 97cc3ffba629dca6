------------------------------- MODULE MCParts -------------------------------
(***************************************************************************)
(* Module Parts for TLC: a signature of two chunks.                        *)
(***************************************************************************)
EXTENDS Parts

Divisor == {2, 3, 7}
OneVersion == <<{1}, {0, 2}>>
=============================================================================
