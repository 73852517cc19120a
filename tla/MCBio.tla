------------------------------- MODULE MCBio -------------------------------
(***************************************************************************)
(* Bio for TLC: two processes, one of which looks names up, three buffers  *)
(* (the least the assumption on NBUF allows), and one block number more    *)
(* than buffers, so that a buffer is recycled.                             *)
(***************************************************************************)
EXTENDS Bio, TLC

\* Block numbers are interchangeable; buffers are not, bget() takes the first
\* that will do.
Symmetry == Permutations(Blockno)
=============================================================================
