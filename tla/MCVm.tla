-------------------------------- MODULE MCVm --------------------------------
(***************************************************************************)
(* Vm for TLC.  With N = 4 and pages of 2 bytes the kernel has one page    *)
(* table; the next entry of a directory is nobody's, as between MEMSIZE    *)
(* and KERNEND; a program has up to two tables of four pages each.         *)
(***************************************************************************)
EXTENDS Vm

Seg(vaddr, memsz) == [vaddr |-> vaddr, memsz |-> memsz]

\* A program of less than a page, with an empty second segment below its end;
\* one with a hole before its first segment, which needs pages of two tables,
\* and a second segment that is below its end and not aligned.
Images == {<<Seg(16, 1), Seg(16, 0)>>, <<Seg(18, 7), Seg(17, 2)>>}

\* Arguments that fit in the stack's page, that take the guard page too and all
\* of the smaller program, that take more, and more of them than _argv[] holds.
Args == {[argc |-> c, size |-> n] : c \in 0 .. NARGV, n \in {1, 6, 7}}
          \cup {[argc |-> NARGV + 1, size |-> 1]}
=============================================================================
