------------------------------ MODULE MCFiles ------------------------------
EXTENDS Files, TLC

\* Nothing tells the files of the disk apart.
Symmetry == Permutations(Inum)
=============================================================================
