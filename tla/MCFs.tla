------------------------------- MODULE MCFs --------------------------------
EXTENDS Fs, TLC

\* An empty file, and one that ends within a sector.
MCSizes == {0, 3}

\* Nothing tells processes, or entries of file[], apart.
Symmetry == Permutations(Proc) \cup Permutations(File)
=============================================================================
