----------------------------- MODULE MCConsole -----------------------------
(***************************************************************************)
(* Console for TLC: a screen of three rows of two, a line of two           *)
(* characters, two processes.                                              *)
(***************************************************************************)
EXTENDS Console

CONSTANT MaxText   \* length of the longest string written

Strings == UNION {[1 .. n -> Char] : n \in 1 .. MaxText}
=============================================================================
