---------------------------- MODULE FilesProofs ----------------------------
(***************************************************************************)
(* Proofs about Files, for every number of processes, files, inodes and    *)
(* descriptors: the counts of files are exact, those of inodes until one   *)
(* wraps, a file of the disk has one inode, and until a wrap only close()  *)
(* of what is not open panics.                                             *)
(***************************************************************************)
EXTENDS Files, TLAPS, FiniteSetTheorems, WellFoundedInduction

(***************************************************************************)
(* The inductive invariant.  Beside the properties it says where a call    *)
(* is while it has an inode, a file or a child, what a process that does   *)
(* not run has, and that the shell keeps "/" in the table until a wrap.    *)
(***************************************************************************)
Forking(p) == call[p].pc \in {"copyuvm", "dup"}

CallShape ==
  \A p \in Proc :
    /\ call[p].pc \in {"user", "lookup", "copyuvm", "dup"} => call[p].ip = Null
    /\ call[p].pc \in {"dir", "load", "loadroot", "found", "fd"} => call[p].ip \in Inode
    /\ stat[p] # "RUN" => call[p].pc = "user"
    /\ call[p].pc = "fd" => call[p].f \in File /\ file[call[p].f].refcnt = 1

Children ==
  \A p \in Proc : Forking(p) =>
    /\ call[p].np \in Proc /\ stat[call[p].np] = "SET"
    /\ \A q \in Proc : Forking(q) /\ call[q].np = call[p].np => q = p

Tables ==
  \A p \in Proc :
    /\ stat[p] = "UNUSED" => \A fd \in Fd : ofile[p][fd] = Null
    /\ stat[p] \in {"UNUSED", "SET"} => cwd[p] = Null
    /\ stat[p] = "RUN" => cwd[p] \in Inode

Standard == drift[STDIN] >= 1 /\ drift[STDOUT] >= 1

Shell == /\ stat[1] = "RUN" /\ pproc[1] = 0 /\ cwd[1] = 2
         /\ ~wrapped => inode[2].valid /\ inode[2].num = RootDir

CountInv ==
  /\ TypeOK /\ CallShape /\ Children /\ Tables /\ Standard /\ Shell
  /\ FileCounts /\ InodeCounts /\ InodeUnique /\ Loading /\ OnlyClosePanics

CallT  == [op : {"none", "open", "execv", "fork"},
           pc : {"user", "dir", "lookup", "load", "loadroot", "found", "fd", "copyuvm", "dup"},
           num : Target, ip : Inode \cup {Null}, f : File \cup {Null},
           np : {0} \cup Proc, i : 0 .. NOFILE]
Num    == Inum \cup {Device, RootDir}
InodeT == [valid : BOOLEAN, num : Num, refcnt : 0 .. RefMod - 1, read : BOOLEAN]
FileT  == [refcnt : Nat, inode : Inode \cup {Null}]
ProcT  == /\ stat  \in [Proc -> {"UNUSED", "SET", "RUN", "ZOMB"}]
          /\ pproc \in [Proc -> {0} \cup Proc]
          /\ ofile \in [Proc -> [Fd -> File \cup {Null}]]
          /\ cwd   \in [Proc -> Inode \cup {Null}]

(***************************************************************************)
(* The operators of the model.                                             *)
(***************************************************************************)
LEMMA Constants ==
  /\ Proc \subseteq Nat \ {0} /\ 1 \in Proc
  /\ File \subseteq Nat /\ Inode \subseteq Nat /\ Fd \subseteq Nat
  /\ {0, 1} \subseteq File /\ {0, 1, 2} \subseteq Inode /\ {0, 1} \subseteq Fd
  /\ Null \notin Nat /\ Null = -1
  /\ STDIN = 0 /\ STDOUT = 1 /\ RootDir = 1 /\ Device = 0
  /\ RefMod \in Nat /\ RefMod >= 2
  BY FilesConstants DEF Proc, File, Inode, Fd, Null, STDIN, STDOUT, RootDir, Device

\* The tables are finite.
LEMMA Finite ==
  IsFiniteSet(Proc) /\ IsFiniteSet(File) /\ IsFiniteSet(Inode) /\ IsFiniteSet(Fd)
  BY FS_Interval, FilesConstants DEF Proc, File, Inode, Fd

\* A set of numbers that is not empty has a first one.
LEMMA FirstIn ==
  ASSUME NEW S \in SUBSET Nat
  PROVE  /\ S = {} => First(S) = Null
         /\ S # {} => First(S) \in S /\ First(S) # Null
<1>1. ASSUME S # {} PROVE \E x \in S : \A y \in S : x <= y
  <2> DEFINE R == {ss \in Nat \X Nat : ss[1] < ss[2]}
  <2>1. IsWellFoundedOn(R, Nat)
    BY NatLessThanWellFounded DEF OpToRel
  <2>2. PICK x \in S : \A y \in S : ~(<<y, x>> \in R)
    BY <1>1, <2>1, WFMin
  <2>3. \A y \in S : x \in Nat /\ y \in Nat /\ ~(y < x)
    BY <2>2
  <2>4. \A y \in S : x <= y
    BY <2>3
  <2> QED
    BY <2>4
<1> QED
  BY <1>1, Constants DEF First

\* Sets that differ in x at most.
Is(c) == IF c THEN 1 ELSE 0

\* Sets that differ at one point differ by at most one in size.
LEMMA OnePoint ==
  \A A, B, x : IsFiniteSet(A) /\ A \ {x} = B \ {x} =>
    /\ IsFiniteSet(B) /\ Cardinality(A) \in Nat /\ Cardinality(B) \in Nat
    /\ Cardinality(B) + Is(x \in A) = Cardinality(A) + Is(x \in B)
<1> SUFFICES ASSUME NEW A, NEW B, NEW x, IsFiniteSet(A), A \ {x} = B \ {x}
             PROVE  /\ IsFiniteSet(B) /\ Cardinality(A) \in Nat /\ Cardinality(B) \in Nat
                    /\ Cardinality(B) + Is(x \in A) = Cardinality(A) + Is(x \in B)
  OBVIOUS
<1>1. IsFiniteSet(A \ {x}) /\ Cardinality(A \ {x}) \in Nat
  BY FS_RemoveElement, FS_CardinalityType
<1>2. \A S : S \ {x} = A \ {x} => IsFiniteSet(S)
                                /\ Cardinality(S) = Cardinality(A \ {x}) + Is(x \in S)
  <2> SUFFICES ASSUME NEW S, S \ {x} = A \ {x}
               PROVE  IsFiniteSet(S) /\ Cardinality(S) = Cardinality(A \ {x}) + Is(x \in S)
    OBVIOUS
  <2>1. CASE x \in S
    <3>1. S = (A \ {x}) \cup {x}
      BY <2>1
    <3> QED
      BY <3>1, <2>1, <1>1, FS_AddElement DEF Is
  <2>2. CASE x \notin S
    <3>1. S = A \ {x}
      BY <2>2
    <3> QED
      BY <3>1, <2>2, <1>1 DEF Is
  <2> QED
    BY <2>1, <2>2
<1>3. Is(x \in A) \in Nat /\ Is(x \in B) \in Nat
  BY DEF Is
<1>4. /\ Cardinality(A) = Cardinality(A \ {x}) + Is(x \in A)
      /\ IsFiniteSet(B) /\ Cardinality(B) = Cardinality(A \ {x}) + Is(x \in B)
  BY <1>2
<1> QED
  BY <1>1, <1>3, <1>4

\* The sets that the counts count.
Fds(Q, f)  == {x \in Q \X Fd : ofile[x[1]][x[2]] = f}
Cwds(Q, i) == {q \in Q : cwd[q] = i}
Callers(i) == {p \in Proc : call[p].ip = i}
Reading(p) == call[p].pc \in {"load", "loadroot"}
Loaders(i) == {p \in Proc : Reading(p) /\ call[p].ip = i}
Users(i)   == CwdsTo(Proc, i) + Cardinality(FilesOf(i)) + Cardinality(Callers(i)) + leak[i]

\* The counts of descriptors and of directories are cardinalities.
LEMMA CountIs ==
  \A Q, x : FdsTo(Q, x) = Cardinality(Fds(Q, x)) /\ CwdsTo(Q, x) = Cardinality(Cwds(Q, x))
  BY DEF FdsTo, Fds, CwdsTo, Cwds

\* Every count is a natural number.
LEMMA CountsFinite ==
  /\ \A Q \in SUBSET Proc : \A f : IsFiniteSet(Fds(Q, f)) /\ FdsTo(Q, f) \in Nat
  /\ \A Q \in SUBSET Proc : \A i : IsFiniteSet(Cwds(Q, i)) /\ CwdsTo(Q, i) \in Nat
  /\ \A i : /\ IsFiniteSet(Callers(i)) /\ Cardinality(Callers(i)) \in Nat
            /\ IsFiniteSet(Loaders(i)) /\ Cardinality(Loaders(i)) \in Nat
            /\ IsFiniteSet(FilesOf(i)) /\ Cardinality(FilesOf(i)) \in Nat
  /\ \A f : IsFiniteSet(InFlight(f)) /\ Cardinality(InFlight(f)) \in Nat
<1>1. ASSUME NEW Q \in SUBSET Proc, NEW f PROVE IsFiniteSet(Fds(Q, f)) /\ FdsTo(Q, f) \in Nat
  <2>1. IsFiniteSet(Q \X Fd)
    BY Finite, FS_Subset, FS_Product
  <2> QED
    BY <2>1, FS_Subset, FS_CardinalityType DEF Fds, FdsTo
<1>2. ASSUME NEW Q \in SUBSET Proc, NEW i PROVE IsFiniteSet(Cwds(Q, i)) /\ CwdsTo(Q, i) \in Nat
  BY Finite, FS_Subset, FS_CardinalityType DEF Cwds, CwdsTo
<1>3. ASSUME NEW i PROVE /\ IsFiniteSet(Callers(i)) /\ Cardinality(Callers(i)) \in Nat
                         /\ IsFiniteSet(Loaders(i)) /\ Cardinality(Loaders(i)) \in Nat
                         /\ IsFiniteSet(FilesOf(i)) /\ Cardinality(FilesOf(i)) \in Nat
  <2>1. Callers(i) \subseteq Proc /\ Loaders(i) \subseteq Proc /\ FilesOf(i) \subseteq File
    BY DEF Callers, Loaders, FilesOf
  <2> QED
    BY <2>1, Finite, FS_Subset, FS_CardinalityType
<1>4. ASSUME NEW f PROVE IsFiniteSet(InFlight(f)) /\ Cardinality(InFlight(f)) \in Nat
  <2>1. InFlight(f) \subseteq Proc
    BY DEF InFlight
  <2> QED
    BY <2>1, Finite, FS_Subset, FS_CardinalityType
<1> QED
  BY <1>1, <1>2, <1>3, <1>4

\* Nothing is counted just when nobody is there.
LEMMA ZeroCard ==
  \A S : IsFiniteSet(S) => (Cardinality(S) = 0 <=> S = {})
  BY FS_EmptySet

\* A step that changes the call of p alone.
LEMMA CallStep ==
  ASSUME NEW p \in Proc, \A q \in Proc \ {p} : call'[q] = call[q]
  PROVE  \A x :
    /\ Cardinality(Callers(x))' + Is(call[p].ip = x)
         = Cardinality(Callers(x)) + Is(call'[p].ip = x)
    /\ Cardinality(Loaders(x))' + Is(Reading(p) /\ call[p].ip = x)
         = Cardinality(Loaders(x)) + Is(Reading(p)' /\ call'[p].ip = x)
    /\ Cardinality(InFlight(x))' + Is(call[p].pc = "fd" /\ call[p].f = x)
         = Cardinality(InFlight(x)) + Is(call'[p].pc = "fd" /\ call'[p].f = x)
    /\ Cardinality(Callers(x))' \in Nat /\ Cardinality(Loaders(x))' \in Nat
    /\ IsFiniteSet(InFlight(x)') /\ Cardinality(InFlight(x))' \in Nat
<1> TAKE x
<1> DEFINE C == Callers(x)'
           L == Loaders(x)'
           I == InFlight(x)'
<1>1. /\ IsFiniteSet(Callers(x)) /\ IsFiniteSet(Loaders(x)) /\ IsFiniteSet(InFlight(x))
  BY CountsFinite
<1>2. /\ Callers(x) \ {p} = C \ {p} /\ Loaders(x) \ {p} = L \ {p}
      /\ InFlight(x) \ {p} = I \ {p}
  BY DEF Callers, Loaders, InFlight, Reading
<1>3. /\ (p \in Callers(x)) = (call[p].ip = x) /\ (p \in C) = (call'[p].ip = x)
      /\ (p \in Loaders(x)) = (Reading(p) /\ call[p].ip = x)
      /\ (p \in L) = (Reading(p)' /\ call'[p].ip = x)
      /\ (p \in InFlight(x)) = (call[p].pc = "fd" /\ call[p].f = x)
      /\ (p \in I) = (call'[p].pc = "fd" /\ call'[p].f = x)
  BY DEF Callers, Loaders, InFlight
<1> HIDE DEF C, L, I
<1>4. /\ Cardinality(C) + Is(p \in Callers(x)) = Cardinality(Callers(x)) + Is(p \in C)
      /\ Cardinality(L) + Is(p \in Loaders(x)) = Cardinality(Loaders(x)) + Is(p \in L)
      /\ Cardinality(I) + Is(p \in InFlight(x)) = Cardinality(InFlight(x)) + Is(p \in I)
      /\ Cardinality(C) \in Nat /\ Cardinality(L) \in Nat
      /\ Cardinality(I) \in Nat /\ IsFiniteSet(I)
  BY <1>1, <1>2, OnePoint
<1> QED
  BY <1>3, <1>4 DEF C, L, I

\* A step that changes descriptor fd of p alone.
LEMMA OfileStep ==
  ASSUME NEW p \in Proc, NEW fd \in Fd,
         \A q \in Proc, d \in Fd : <<q, d>> # <<p, fd>> => ofile'[q][d] = ofile[q][d]
  PROVE  \A f : /\ FdsTo(Proc, f)' + Is(ofile[p][fd] = f)
                     = FdsTo(Proc, f) + Is(ofile'[p][fd] = f)
               /\ FdsTo(Proc, f)' \in Nat
<1> TAKE f
<1> DEFINE D == Fds(Proc, f)'
           x == <<p, fd>>
<1>1. IsFiniteSet(Fds(Proc, f)) /\ FdsTo(Proc, f) = Cardinality(Fds(Proc, f))
  BY CountsFinite, CountIs
<1>2. FdsTo(Proc, f)' = Cardinality(D)
  BY DEF FdsTo, Fds
<1>3. Fds(Proc, f) \ {x} = D \ {x}
  BY DEF Fds
<1>4. (x \in Fds(Proc, f)) = (ofile[p][fd] = f) /\ (x \in D) = (ofile'[p][fd] = f)
  BY DEF Fds
<1> HIDE DEF D, x
<1>5. /\ Cardinality(D) + Is(x \in Fds(Proc, f)) = Cardinality(Fds(Proc, f)) + Is(x \in D)
      /\ Cardinality(D) \in Nat
  BY <1>1, <1>3, OnePoint
<1> QED
  BY <1>1, <1>2, <1>4, <1>5

\* A step that changes the directory of p alone.
LEMMA CwdStep ==
  ASSUME NEW p \in Proc, \A q \in Proc \ {p} : cwd'[q] = cwd[q]
  PROVE  \A i : /\ CwdsTo(Proc, i)' + Is(cwd[p] = i) = CwdsTo(Proc, i) + Is(cwd'[p] = i)
               /\ CwdsTo(Proc, i)' \in Nat
<1> TAKE i
<1> DEFINE D == Cwds(Proc, i)'
<1>1. IsFiniteSet(Cwds(Proc, i)) /\ CwdsTo(Proc, i) = Cardinality(Cwds(Proc, i))
  BY CountsFinite, CountIs
<1>2. CwdsTo(Proc, i)' = Cardinality(D)
  BY DEF CwdsTo, Cwds
<1>3. Cwds(Proc, i) \ {p} = D \ {p}
  BY DEF Cwds
<1>4. (p \in Cwds(Proc, i)) = (cwd[p] = i) /\ (p \in D) = (cwd'[p] = i)
  BY DEF Cwds
<1> HIDE DEF D
<1>5. /\ Cardinality(D) + Is(p \in Cwds(Proc, i)) = Cardinality(Cwds(Proc, i)) + Is(p \in D)
      /\ Cardinality(D) \in Nat
  BY <1>1, <1>3, OnePoint
<1> QED
  BY <1>1, <1>2, <1>4, <1>5

(***************************************************************************)
(* What the invariant says of one entry.                                   *)
(***************************************************************************)
LEMMA Held ==
  ASSUME CountInv
  PROVE  /\ \A f \in File : /\ file[f].refcnt \in Nat /\ drift[f] \in Nat
                           /\ file[f].refcnt = FdsTo(Proc, f) + Cardinality(InFlight(f)) + drift[f]
         /\ \A p \in Proc, fd \in Fd : ofile[p][fd] \in File =>
              FdsTo(Proc, ofile[p][fd]) >= 1
         /\ \A p \in Proc : call[p].pc = "fd" =>
              /\ Cardinality(InFlight(call[p].f)) = 1 /\ FdsTo(Proc, call[p].f) = 0
              /\ drift[call[p].f] = 0
<1>1. ASSUME NEW f \in File
      PROVE  /\ file[f].refcnt \in Nat /\ drift[f] \in Nat
             /\ file[f].refcnt = FdsTo(Proc, f) + Cardinality(InFlight(f)) + drift[f]
  <2>1. file \in [File -> FileT] /\ drift \in [File -> Nat]
    BY DEF CountInv, TypeOK, FileT
  <2>2. file[f].refcnt \in Nat /\ drift[f] \in Nat
    BY <2>1 DEF FileT
  <2> QED
    BY <2>2 DEF CountInv, FileCounts
<1>2. ASSUME NEW p \in Proc, NEW fd \in Fd PROVE FdsTo(Proc, ofile[p][fd]) >= 1
  <2>1. <<p, fd>> \in Fds(Proc, ofile[p][fd])
    BY DEF Fds
  <2>2. Cardinality(Fds(Proc, ofile[p][fd])) # 0
    BY <2>1, ZeroCard, CountsFinite
  <2> QED
    BY <2>2, CountsFinite, CountIs
<1>3. ASSUME NEW p \in Proc, call[p].pc = "fd"
      PROVE  /\ Cardinality(InFlight(call[p].f)) = 1 /\ FdsTo(Proc, call[p].f) = 0
             /\ drift[call[p].f] = 0
  <2>1. call[p].f \in File /\ file[call[p].f].refcnt = 1
    BY <1>3 DEF CountInv, CallShape
  <2>2. p \in InFlight(call[p].f)
    BY <1>3 DEF InFlight
  <2>3. Cardinality(InFlight(call[p].f)) # 0
    BY <2>2, ZeroCard, CountsFinite
  <2> QED
    BY <2>1, <2>3, <1>1, CountsFinite
<1> QED
  BY <1>1, <1>2, <1>3

\* A file that some descriptor refers to is in nobody's call.
LEMMA HeldNotInFlight ==
  ASSUME CountInv, NEW p \in Proc, NEW fd \in Fd, ofile[p][fd] \in File
  PROVE  /\ InFlight(ofile[p][fd]) = {} /\ file[ofile[p][fd]].refcnt >= 1
         /\ \A q \in Proc : call[q].pc = "fd" => call[q].f # ofile[p][fd]
<1>1. ASSUME NEW q \in Proc, call[q].pc = "fd" PROVE call[q].f # ofile[p][fd]
  BY <1>1, Held, CountsFinite
<1>2. InFlight(ofile[p][fd]) = {}
  BY <1>1 DEF InFlight
<1>3. file[ofile[p][fd]].refcnt >= 1
  BY Held, CountsFinite
<1> QED
  BY <1>1, <1>2, <1>3

\* STDIN and STDOUT are never free, so no open() is about to store them.
LEMMA StandardNotInFlight ==
  ASSUME CountInv, NEW f \in {STDIN, STDOUT}
  PROVE  /\ f \in File /\ InFlight(f) = {} /\ file[f].refcnt >= 1
         /\ \A q \in Proc : call[q].pc = "fd" => call[q].f # f
<1>1. f \in File /\ drift[f] >= 1
  BY Constants DEF CountInv, Standard
<1>2. ASSUME NEW q \in Proc, call[q].pc = "fd" PROVE call[q].f # f
  BY <1>1, <1>2, Held
<1>3. InFlight(f) = {}
  BY <1>2 DEF InFlight
<1>4. file[f].refcnt >= 1
  BY <1>1, Held, CountsFinite
<1> QED
  BY <1>1, <1>2, <1>3, <1>4

\* Until a wrap, an inode that somebody has is in the table and its count is
\* positive.
LEMMA Used ==
  ASSUME CountInv, NEW i \in Inode
  PROVE  /\ inode[i].refcnt \in Nat /\ leak[i] \in Nat
         /\ ~wrapped /\ inode[i].valid => inode[i].refcnt = Users(i)
         /\ ~wrapped /\ ~inode[i].valid => Users(i) = 0
         /\ \A p \in Proc : ~wrapped /\ (call[p].ip = i \/ cwd[p] = i) =>
              inode[i].valid /\ inode[i].refcnt >= 1
<1>1. inode[i].refcnt \in Nat /\ leak[i] \in Nat
  <2>1. inode \in [Inode -> InodeT] /\ leak \in [Inode -> Nat]
    BY DEF CountInv, TypeOK, InodeT, Num
  <2>2. inode[i].refcnt \in 0 .. RefMod - 1
    BY <2>1 DEF InodeT
  <2> QED
    BY <2>1, <2>2, Constants
<1>2. ~wrapped => IF inode[i].valid THEN inode[i].refcnt = Users(i) ELSE Users(i) = 0
  BY DEF CountInv, InodeCounts, Users, Callers
<1>3. Users(i) \in Nat
  BY <1>1, CountsFinite DEF Users
<1>4. ASSUME NEW p \in Proc, call[p].ip = i PROVE Users(i) >= 1
  <2>1. p \in Callers(i)
    BY <1>4 DEF Callers
  <2>2. Cardinality(Callers(i)) # 0
    BY <2>1, ZeroCard, CountsFinite
  <2> QED
    BY <2>2, <1>1, CountsFinite DEF Users
<1>5. ASSUME NEW p \in Proc, cwd[p] = i PROVE Users(i) >= 1
  <2>1. p \in Cwds(Proc, i)
    BY <1>5 DEF Cwds
  <2>2. Cardinality(Cwds(Proc, i)) # 0
    BY <2>1, ZeroCard, CountsFinite
  <2>3. CwdsTo(Proc, i) # 0
    BY <2>2, CountIs
  <2> QED
    BY <2>3, <1>1, CountsFinite DEF Users
<1> QED
  BY <1>1, <1>2, <1>3, <1>4, <1>5

\* What iget()'s first loop finds.
LEMMA InTableIs ==
  ASSUME NEW num
  PROVE  \/ /\ InTable(num) = Null
            /\ \A i \in Inode : ~(inode[i].valid /\ inode[i].num = num)
         \/ /\ InTable(num) \in Inode /\ InTable(num) # Null
            /\ inode[InTable(num)].valid /\ inode[InTable(num)].num = num
<1>1. {i \in Inode : inode[i].valid /\ inode[i].num = num} \in SUBSET Nat
  BY Constants
<1> QED
  BY <1>1, FirstIn DEF InTable

\* What iget()'s second loop finds.
LEMMA FreeInodeIs ==
  FreeInode # Null => FreeInode \in Inode /\ ~inode[FreeInode].valid
<1>1. {i \in Inode : ~inode[i].valid} \in SUBSET Nat
  BY Constants
<1> QED
  BY <1>1, FirstIn DEF FreeInode

\* What falloc() finds.
LEMMA FreeFileIs ==
  FreeFile # Null => FreeFile \in File /\ file[FreeFile].refcnt = 0
<1>1. {f \in File : file[f].refcnt = 0} \in SUBSET Nat
  BY Constants
<1> QED
  BY <1>1, FirstIn DEF FreeFile

\* What fdalloc() finds.
LEMMA FreeFdIs ==
  \A p : FreeFd(p) # Null => FreeFd(p) \in Fd /\ ofile[p][FreeFd(p)] = Null
<1> TAKE p
<1>1. {fd \in Fd : ofile[p][fd] = Null} \in SUBSET Nat
  BY Constants
<1> QED
  BY <1>1, FirstIn DEF FreeFd

\* What palloc() finds.
LEMMA UnusedIs ==
  Unused # Null => Unused \in Proc /\ stat[Unused] = "UNUSED"
<1>1. {q \in Proc : stat[q] = "UNUSED"} \in SUBSET Nat
  BY Constants
<1> QED
  BY <1>1, FirstIn DEF Unused

(***************************************************************************)
(* Steps that leave part of the counted state alone.                       *)
(***************************************************************************)
LEMMA QuietCall ==
  ASSUME NEW p \in Proc, \A q \in Proc \ {p} : call'[q] = call[q],
         call[p].pc # "fd", call'[p].pc # "fd"
  PROVE  \A f : InFlight(f)' = InFlight(f)
  BY DEF InFlight

\* A step that leaves descriptors and files alone keeps their counts.
LEMMA QuietFiles ==
  ASSUME FileCounts, UNCHANGED <<file, ofile, drift>>,
         \A f : InFlight(f)' = InFlight(f)
  PROVE  FileCounts' /\ \A i : FilesOf(i)' = FilesOf(i)
  BY DEF FileCounts, FdsTo, FilesOf

\* A step that leaves the directories alone keeps their counts.
LEMMA QuietCwd ==
  ASSUME UNCHANGED cwd
  PROVE  \A Q, i : CwdsTo(Q, i)' = CwdsTo(Q, i)
  BY DEF CwdsTo

\* InodeCounts and Loading by the names of what they count.
LEMMA CountsAre ==
  /\ InodeCounts <=> (~wrapped =>
       \A i \in Inode : IF inode[i].valid THEN inode[i].refcnt = Users(i) ELSE Users(i) = 0)
  /\ Loading <=> (~wrapped =>
       \A i \in Inode : Cardinality(Loaders(i)) =
                          IF inode[i].valid /\ ~inode[i].read THEN 1 ELSE 0)
  BY DEF InodeCounts, Users, Callers, Loading, Loaders, Reading

\* Until a wrap the directory of the shell stays in the table.
LEMMA RootStays ==
  ~wrapped /\ cwd[1] = 2 /\ InodeCounts /\ leak \in [Inode -> Nat] => inode[2].valid
<1> SUFFICES ASSUME ~wrapped, cwd[1] = 2, InodeCounts, leak \in [Inode -> Nat]
             PROVE  inode[2].valid
  OBVIOUS
<1>1. 1 \in Cwds(Proc, 2)
  BY Constants DEF Cwds
<1>2. CwdsTo(Proc, 2) # 0
  BY <1>1, ZeroCard, CountsFinite, CountIs, Constants
<1>3. Users(2) # 0
  BY <1>2, CountsFinite, Constants DEF Users
<1> QED
  BY <1>3, CountsAre, Constants

\* The same of the next state.
LEMMA RootStaysNext ==
  (~wrapped /\ cwd[1] = 2 /\ InodeCounts /\ leak \in [Inode -> Nat] => inode[2].valid)'
  BY RootStays, PTL

\* What CountsAre says, of the next state.
LEMMA CountsAreNext ==
  (/\ InodeCounts <=> (~wrapped =>
        \A i \in Inode : IF inode[i].valid THEN inode[i].refcnt = Users(i) ELSE Users(i) = 0)
   /\ Loading <=> (~wrapped =>
        \A i \in Inode : Cardinality(Loaders(i)) =
                           IF inode[i].valid /\ ~inode[i].read THEN 1 ELSE 0))'
  BY CountsAre, PTL

(***************************************************************************)
(* Each action preserves the invariant.                                    *)
(***************************************************************************)
LEMMA Types ==
  TypeOK <=> /\ inode \in [Inode -> InodeT] /\ file \in [File -> FileT]
             /\ ProcT /\ call \in [Proc -> CallT]
             /\ leak \in [Inode -> Nat] /\ drift \in [File -> Nat]
             /\ wrapped \in BOOLEAN
             /\ halt \in {"no", "no rootdir", "ffree(1)", "ffree(2)", "fdup"}
  BY DEF TypeOK, Num, InodeT, FileT, ProcT, CallT

\* The same of the next state.
LEMMA TypesNext ==
  (TypeOK <=> /\ inode \in [Inode -> InodeT] /\ file \in [File -> FileT]
              /\ ProcT /\ call \in [Proc -> CallT]
              /\ leak \in [Inode -> Nat] /\ drift \in [File -> Nat]
              /\ wrapped \in BOOLEAN
              /\ halt \in {"no", "no rootdir", "ffree(1)", "ffree(2)", "fdup"})'
  BY Types, PTL

\* A process outside any call.
LEMMA UserT ==
  /\ User \in CallT /\ User.pc = "user" /\ User.ip = Null
  BY FilesConstants DEF CallT, User, Target

\* Until a wrap nobody reads an entry that is not in use.
LEMMA UnusedNotLoaded ==
  ~wrapped /\ InodeCounts /\ leak \in [Inode -> Nat] =>
    \A i \in Inode : ~inode[i].valid => Cardinality(Loaders(i)) = 0
<1> SUFFICES ASSUME ~wrapped, InodeCounts, leak \in [Inode -> Nat], NEW i \in Inode, ~inode[i].valid
             PROVE  Cardinality(Loaders(i)) = 0
  OBVIOUS
<1>1. Users(i) = 0
  BY CountsAre
<1>2. Cardinality(Callers(i)) = 0
  BY <1>1, CountsFinite DEF Users
<1>3. Callers(i) = {}
  BY <1>2, ZeroCard, CountsFinite
<1>4. Loaders(i) = {}
  BY <1>3 DEF Loaders, Callers
<1> QED
  BY <1>4, ZeroCard, CountsFinite

\* The same of the next state.
LEMMA UnusedNotLoadedNext ==
  (~wrapped /\ InodeCounts /\ leak \in [Inode -> Nat] =>
    \A i \in Inode : ~inode[i].valid => Cardinality(Loaders(i)) = 0)'
  BY UnusedNotLoaded, PTL

\* k calls of irelse(): exact for an inode with at least as many references.
LEMMA ReleasedIs ==
  ASSUME NEW r \in InodeT, NEW k \in Nat
  PROVE  /\ Released(r, k) \in InodeT
         /\ Released(r, k).num = r.num /\ Released(r, k).read = r.read
         /\ Released(r, k).valid => r.valid
         /\ k = 0 => Released(r, k) = r
         /\ k > 0 /\ k <= r.refcnt => (Released(r, k).valid <=> r.valid /\ r.refcnt > k)
         /\ k > 0 /\ r.refcnt > k => Released(r, k).refcnt = r.refcnt - k
<1>1. CASE k = 0
  BY <1>1 DEF Released
<1>2. CASE k > 0 /\ r.refcnt > k
  <2>1. Released(r, k) = [r EXCEPT !.refcnt = @ - k] /\ r.refcnt - k \in 0 .. RefMod - 1
    BY <1>2, Constants DEF Released, InodeT
  <2>2. /\ Released(r, k) \in InodeT
        /\ Released(r, k).num = r.num /\ Released(r, k).read = r.read
        /\ Released(r, k).valid = r.valid /\ Released(r, k).refcnt = r.refcnt - k
    BY <2>1 DEF InodeT
  <2> QED
    BY <1>2, <2>2
<1>3. CASE k > 0 /\ r.refcnt <= k
  <2>1. /\ ~(r.refcnt > k) /\ k # 0
        /\ 1 \in 0 .. RefMod - 1 /\ 0 \in 0 .. RefMod - 1
    BY <1>3, Constants DEF InodeT
  <2>2. Released(r, k) = [r EXCEPT !.refcnt = IF @ = 0 THEN 0 ELSE 1, !.valid = FALSE]
    BY <2>1 DEF Released
  <2>3. /\ Released(r, k) \in InodeT
        /\ Released(r, k).num = r.num /\ Released(r, k).read = r.read
        /\ Released(r, k).valid = FALSE
    BY <2>1, <2>2 DEF InodeT
  <2> QED
    BY <1>3, <2>1, <2>3
<1>4. r.refcnt \in Nat
  BY Constants DEF InodeT
<1> QED
  BY <1>1, <1>2, <1>3, <1>4

\* One reference more, in 16 bits.
LEMMA Wraps ==
  ASSUME NEW n \in 0 .. RefMod - 1
  PROVE  /\ (n + 1) % RefMod \in 0 .. RefMod - 1
         /\ n + 1 # RefMod => (n + 1) % RefMod = n + 1
<1>1. CASE n + 1 = RefMod
  <2>1. (n + 1) % RefMod = 0
    BY <1>1, Constants
  <2> QED
    BY <1>1, <2>1, Constants
<1>2. CASE n + 1 # RefMod
  <2>1. n + 1 \in 0 .. RefMod - 1
    BY <1>2, Constants
  <2>2. (n + 1) % RefMod = n + 1
    BY <2>1, Constants
  <2> QED
    BY <2>1, <2>2
<1> QED
  BY <1>1, <1>2

\* The same of an inode of the table.
LEMMA RefIs ==
  ASSUME inode \in [Inode -> InodeT], wrapped \in BOOLEAN, NEW i \in Inode, Ref(i)
  PROVE  /\ inode' \in [Inode -> InodeT] /\ wrapped' \in BOOLEAN
         /\ inode'[i].valid = inode[i].valid /\ inode'[i].num = inode[i].num
         /\ inode'[i].read = inode[i].read
         /\ ~wrapped' => ~wrapped /\ inode'[i].refcnt = inode[i].refcnt + 1
         /\ \A j \in Inode \ {i} : inode'[j] = inode[j]
<1> PICK n : n = (inode[i].refcnt + 1) % RefMod
  OBVIOUS
<1>1. /\ inode[i] \in InodeT /\ inode[i].refcnt \in 0 .. RefMod - 1
      /\ inode' = [inode EXCEPT ![i].refcnt = n]
      /\ wrapped' = (wrapped \/ inode[i].refcnt + 1 = RefMod)
  BY DEF Ref, InodeT
<1>2. /\ n \in 0 .. RefMod - 1
      /\ inode[i].refcnt + 1 # RefMod => n = inode[i].refcnt + 1
  BY <1>1, Wraps
<1>3. [inode[i] EXCEPT !.refcnt = n] \in InodeT
  BY <1>1, <1>2 DEF InodeT
<1>4. inode'[i] = [inode[i] EXCEPT !.refcnt = n] /\ \A j \in Inode \ {i} : inode'[j] = inode[j]
  BY <1>1
<1>5. inode' \in [Inode -> InodeT]
  BY <1>1, <1>3
<1>6. /\ inode'[i].valid = inode[i].valid /\ inode'[i].num = inode[i].num
      /\ inode'[i].read = inode[i].read /\ inode'[i].refcnt = n
  BY <1>1, <1>4 DEF InodeT
<1> QED
  BY <1>1, <1>2, <1>4, <1>5, <1>6

\* A call gets one more reference to an inode that is in the table.
LEMMA GetInode ==
  ASSUME CountInv, NEW p \in Proc, NEW i \in Inode, inode[i].valid,
         stat[p] = "RUN", call[p].pc \in {"user", "lookup"}, Ref(i),
         call' \in [Proc -> CallT], call'[p].ip = i, call'[p].pc \in {"found", "dir"},
         \A q \in Proc \ {p} : call'[q] = call[q],
         UNCHANGED <<file, stat, pproc, ofile, cwd, leak, drift, halt>>
  PROVE  CountInv'
<1>1. /\ call[p].ip = Null
      /\ inode \in [Inode -> InodeT] /\ leak \in [Inode -> Nat] /\ wrapped \in BOOLEAN
  BY Types DEF CountInv, CallShape
<1>3. /\ inode' \in [Inode -> InodeT] /\ wrapped' \in BOOLEAN
      /\ inode'[i].valid = inode[i].valid /\ inode'[i].num = inode[i].num
      /\ inode'[i].read = inode[i].read
      /\ ~wrapped' => ~wrapped /\ inode'[i].refcnt = inode[i].refcnt + 1
      /\ \A j \in Inode \ {i} : inode'[j] = inode[j]
  BY <1>1, RefIs
<1>2. TypeOK'
  BY <1>1, <1>3, Types, TypesNext DEF ProcT, CountInv
<1>4. CallShape' /\ Children' /\ Tables' /\ Standard' /\ Shell'
  <2>1. CallShape' /\ Children' /\ Tables' /\ Standard'
    BY DEF CountInv, CallShape, Children, Forking, Tables, Standard
  <2>2. Shell'
    BY <1>3, Constants DEF CountInv, Shell
  <2> QED
    BY <2>1, <2>2
<1>5. \A f : InFlight(f)' = InFlight(f)
  BY QuietCall
<1>6. FileCounts' /\ \A j : FilesOf(j)' = FilesOf(j)
  BY <1>5, QuietFiles DEF CountInv
<1>7. InodeCounts'
  <2>1. ASSUME NEW j \in Inode
        PROVE  Users(j)' = IF j = i THEN Users(j) + 1 ELSE Users(j)
    <3>1. /\ Cardinality(Callers(j))' + Is(call[p].ip = j)
               = Cardinality(Callers(j)) + Is(call'[p].ip = j)
          /\ Cardinality(Callers(j))' \in Nat
      BY CallStep
    <3>2. Is(call[p].ip = j) = 0 /\ Is(call'[p].ip = j) = IF j = i THEN 1 ELSE 0
      BY <1>1, Constants DEF Is
    <3>3. /\ CwdsTo(Proc, j)' = CwdsTo(Proc, j) /\ FilesOf(j)' = FilesOf(j)
          /\ leak'[j] = leak[j] /\ leak[j] \in Nat
      BY <1>1, <1>6, QuietCwd
    <3> QED
      BY <3>1, <3>2, <3>3, CountsFinite DEF Users
  <2>2. ASSUME ~wrapped', NEW j \in Inode
        PROVE  IF inode'[j].valid THEN inode'[j].refcnt = Users(j)' ELSE Users(j)' = 0
    <3>1. /\ ~wrapped /\ inode'[i].refcnt = inode[i].refcnt + 1 /\ inode'[i].valid
          /\ \A k \in Inode \ {i} : inode'[k] = inode[k]
      BY <1>3, <2>2
    <3>2. /\ inode[j].valid => inode[j].refcnt = Users(j)
          /\ ~inode[j].valid => Users(j) = 0
      BY <3>1, Used
    <3> QED
      BY <3>1, <3>2, <2>1
  <2> QED
    BY <2>2, CountsAreNext
<1>8. InodeUnique'
  BY <1>3 DEF CountInv, InodeUnique
<1>9. Loading'
  <2>1. \A j \in Inode : Cardinality(Loaders(j))' = Cardinality(Loaders(j))
    <3>1. ~Reading(p) /\ ~Reading(p)'
      BY DEF Reading
    <3> QED
      BY <3>1, CallStep, CountsFinite DEF Is
  <2>2. \A j \in Inode : inode'[j].valid = inode[j].valid /\ inode'[j].read = inode[j].read
    BY <1>3
  <2> QED
    BY <2>1, <2>2, <1>3, CountsAre, CountsAreNext DEF CountInv
<1> QED
  <2>1. OnlyClosePanics'
    BY DEF CountInv, OnlyClosePanics, Ref
  <2> QED
    BY <2>1, <1>2, <1>4, <1>6, <1>7, <1>8, <1>9 DEF CountInv

\* A call ends; the inode it has, if any, keeps its reference.
LEMMA EndCall ==
  ASSUME CountInv, NEW p \in Proc, call[p].pc \in {"lookup", "found"},
         call' = [call EXCEPT ![p] = User],
         \/ call[p].ip = Null /\ leak' = leak
         \/ Leak(call[p].ip),
         UNCHANGED <<file, inode, stat, pproc, ofile, cwd, drift, wrapped, halt>>
  PROVE  CountInv'
<1>1. /\ call[p].ip \in Inode \cup {Null}
      /\ call \in [Proc -> CallT] /\ leak \in [Inode -> Nat]
  BY Types, Constants DEF CountInv, CallShape
<1>2. call' \in [Proc -> CallT] /\ leak' \in [Inode -> Nat]
  BY <1>1, UserT DEF Leak
<1>3. TypeOK'
  BY <1>2, Types, TypesNext DEF ProcT, CountInv
<1>4. call'[p] = User /\ \A q \in Proc \ {p} : call'[q] = call[q]
  BY <1>1
<1>5. CallShape' /\ Children' /\ Tables' /\ Standard' /\ Shell'
  BY <1>4, UserT DEF CountInv, CallShape, Children, Forking, Tables, Standard, Shell
<1>6. \A f : InFlight(f)' = InFlight(f)
  BY <1>4, UserT, QuietCall
<1>7. FileCounts' /\ \A j : FilesOf(j)' = FilesOf(j)
  BY <1>6, QuietFiles DEF CountInv
<1>8. InodeCounts'
  <2>1. ASSUME NEW j \in Inode PROVE Users(j)' = Users(j)
    <3>1. /\ Cardinality(Callers(j))' + Is(call[p].ip = j)
               = Cardinality(Callers(j)) + Is(call'[p].ip = j)
          /\ Cardinality(Callers(j))' \in Nat
      BY <1>4, CallStep
    <3>2. Is(call'[p].ip = j) = 0 /\ leak'[j] = leak[j] + Is(call[p].ip = j)
      BY <1>1, <1>4, UserT, Constants DEF Is, Leak
    <3>3. CwdsTo(Proc, j)' = CwdsTo(Proc, j) /\ FilesOf(j)' = FilesOf(j) /\ leak[j] \in Nat
      BY <1>1, <1>7, QuietCwd
    <3>4. Is(call[p].ip = j) \in Nat
      BY DEF Is
    <3> QED
      BY <3>1, <3>2, <3>3, <3>4, CountsFinite DEF Users
  <2> QED
    BY <2>1, CountsAreNext, CountsAre DEF CountInv
<1>9. InodeUnique'
  BY DEF CountInv, InodeUnique
<1>10. Loading'
  BY <1>4, UserT, CallStep, CountsAre, CountsAreNext, CountsFinite DEF Is, CountInv, Reading
<1> QED
  BY <1>3, <1>5, <1>7, <1>8, <1>9, <1>10 DEF CountInv, OnlyClosePanics

\* namei() has read the directory.
LEMMA DirStep ==
  ASSUME CountInv, NEW p \in Proc, Dir(p)
  PROVE  CountInv'
<1> DEFINE i == call[p].ip
<1>1. /\ i \in Inode
      /\ inode \in [Inode -> InodeT] /\ call \in [Proc -> CallT] /\ leak \in [Inode -> Nat]
      /\ stat[p] = "RUN" /\ call[p].pc = "dir"
  BY Types DEF CountInv, CallShape, Dir, At
<1>2. /\ inode' = [inode EXCEPT ![i] = Released(@, 1)]
      /\ UNCHANGED <<file, stat, pproc, ofile, cwd, leak, drift, wrapped, halt>>
  BY DEF Dir, irelse, proc
<1>3. /\ call' \in [Proc -> CallT] /\ call'[p].ip = Null /\ call'[p].pc = "lookup"
      /\ \A q \in Proc \ {p} : call'[q] = call[q]
  BY <1>1 DEF Dir, CallT
<1> HIDE DEF i
<1>4. /\ inode' \in [Inode -> InodeT]
      /\ inode'[i].num = inode[i].num /\ inode'[i].read = inode[i].read
      /\ inode'[i].valid => inode[i].valid
      /\ ~wrapped => /\ inode[i].valid
                     /\ inode'[i].valid <=> inode[i].refcnt > 1
                     /\ inode'[i].valid => inode'[i].refcnt = inode[i].refcnt - 1
      /\ \A j \in Inode \ {i} : inode'[j] = inode[j]
  <2>1. /\ inode'[i] = Released(inode[i], 1) /\ inode[i] \in InodeT
        /\ \A j \in Inode \ {i} : inode'[j] = inode[j]
    BY <1>1, <1>2
  <2>2. /\ inode'[i] \in InodeT
        /\ inode'[i].num = inode[i].num /\ inode'[i].read = inode[i].read
        /\ inode'[i].valid => inode[i].valid
        /\ 1 <= inode[i].refcnt => (inode'[i].valid <=> inode[i].valid /\ inode[i].refcnt > 1)
        /\ inode[i].refcnt > 1 => inode'[i].refcnt = inode[i].refcnt - 1
    BY <2>1, ReleasedIs
  <2>3. ~wrapped => inode[i].valid /\ inode[i].refcnt >= 1 /\ inode[i].refcnt \in Nat
    BY <1>1, Used DEF i
  <2>4. inode' \in [Inode -> InodeT]
    BY <1>1, <1>2, <2>2
  <2> QED
    BY <2>1, <2>2, <2>3, <2>4
<1>5. TypeOK'
  BY <1>2, <1>3, <1>4, Types, TypesNext DEF ProcT, CountInv
<1>6. CallShape' /\ Children' /\ Tables' /\ Standard'
  BY <1>1, <1>2, <1>3 DEF CountInv, CallShape, Children, Forking, Tables, Standard
<1>7. \A f : InFlight(f)' = InFlight(f)
  BY <1>1, <1>3, QuietCall
<1>8. FileCounts' /\ \A j : FilesOf(j)' = FilesOf(j)
  BY <1>2, <1>7, QuietFiles DEF CountInv
<1>9. InodeCounts'
  <2>1. ASSUME NEW j \in Inode
        PROVE  Users(j)' = IF j = i THEN Users(j) - 1 ELSE Users(j)
    <3>1. /\ Cardinality(Callers(j))' + Is(call[p].ip = j)
               = Cardinality(Callers(j)) + Is(call'[p].ip = j)
          /\ Cardinality(Callers(j))' \in Nat
      BY <1>3, CallStep
    <3>2. Is(call'[p].ip = j) = 0 /\ Is(call[p].ip = j) = IF j = i THEN 1 ELSE 0
      BY <1>1, <1>3, Constants DEF Is, i
    <3>3. /\ CwdsTo(Proc, j)' = CwdsTo(Proc, j) /\ FilesOf(j)' = FilesOf(j)
          /\ leak'[j] = leak[j] /\ leak[j] \in Nat
      BY <1>1, <1>2, <1>8, QuietCwd
    <3> QED
      BY <3>1, <3>2, <3>3, CountsFinite DEF Users
  <2>2. ASSUME ~wrapped', NEW j \in Inode
        PROVE  IF inode'[j].valid THEN inode'[j].refcnt = Users(j)' ELSE Users(j)' = 0
    <3>1. /\ ~wrapped
          /\ inode[j].valid => inode[j].refcnt = Users(j)
          /\ ~inode[j].valid => Users(j) = 0
      BY <1>2, <2>2, Used
    <3>2. inode[i].valid /\ inode[i].refcnt = Users(i) /\ inode[i].refcnt \in Nat /\ inode[i].refcnt >= 1
      BY <3>1, <1>1, Used DEF i
    <3> QED
      BY <3>1, <3>2, <2>1, <1>4
  <2> QED
    BY <2>2, CountsAreNext
<1>10. Shell'
  <2>1. inode'[2].num = inode[2].num
    BY <1>4, Constants
  <2>2. ~wrapped' => inode'[2].valid
    BY <1>1, <1>2, <1>9, RootStaysNext DEF CountInv, Shell
  <2> QED
    BY <1>2, <2>1, <2>2 DEF CountInv, Shell
<1>11. InodeUnique'
  BY <1>1, <1>4 DEF CountInv, InodeUnique
<1>12. Loading'
  <2>1. \A j \in Inode : Cardinality(Loaders(j))' = Cardinality(Loaders(j))
    <3>1. ~Reading(p) /\ ~Reading(p)'
      BY <1>1, <1>3 DEF Reading
    <3> QED
      BY <1>3, <3>1, CallStep, CountsFinite DEF Is
  <2>2. ~wrapped' => \A j \in Inode : ~inode'[j].valid => Cardinality(Loaders(j))' = 0
    BY <1>1, <1>2, <1>9, UnusedNotLoadedNext
  <2> QED
    BY <2>1, <2>2, <1>1, <1>2, <1>4, CountsAre, CountsAreNext DEF CountInv
<1> QED
  BY <1>2, <1>5, <1>6, <1>8, <1>9, <1>10, <1>11, <1>12 DEF CountInv, OnlyClosePanics

\* iget() goes on at pc, with the inode i.
LEMMA GotoWith ==
  ASSUME call \in [Proc -> CallT], NEW p \in Proc, NEW c \in CallT, NEW i \in Inode,
         NEW pc \in {"found", "dir", "load", "loadroot"},
         call' = [call EXCEPT ![p] = [c EXCEPT !.pc = pc, !.ip = i]]
  PROVE  /\ call' \in [Proc -> CallT] /\ call'[p].ip = i /\ call'[p].pc = pc
         /\ \A q \in Proc \ {p} : call'[q] = call[q]
<1>1. [c EXCEPT !.pc = pc, !.ip = i] \in CallT
  BY DEF CallT
<1>2. call'[p] = [c EXCEPT !.pc = pc, !.ip = i] /\ \A q \in Proc \ {p} : call'[q] = call[q]
  OBVIOUS
<1>3. call'[p].ip = i /\ call'[p].pc = pc
  BY <1>2 DEF CallT
<1>4. call' \in [Proc -> CallT]
  BY <1>1
<1> QED
  BY <1>2, <1>3, <1>4

\* An inode that is new in the table, not read yet.
LEMMA PublishInode ==
  ASSUME CountInv, NEW p \in Proc, NEW i \in Inode, ~inode[i].valid, NEW num \in Num,
         \A j \in Inode : ~(inode[j].valid /\ inode[j].num = num),
         stat[p] = "RUN", call[p].pc \in {"user", "lookup"},
         inode' = [inode EXCEPT ![i] = [valid |-> TRUE, num |-> num, refcnt |-> 1, read |-> FALSE]],
         call' \in [Proc -> CallT], call'[p].ip = i, call'[p].pc \in {"load", "loadroot"},
         \A q \in Proc \ {p} : call'[q] = call[q],
         UNCHANGED <<file, stat, pproc, ofile, cwd, leak, drift, wrapped, halt>>
  PROVE  CountInv'
<1>1. /\ call[p].ip = Null
      /\ inode \in [Inode -> InodeT] /\ leak \in [Inode -> Nat] /\ call \in [Proc -> CallT]
  BY Types DEF CountInv, CallShape
<1>2. call'[p].ip = i /\ \A q \in Proc \ {p} : call'[q] = call[q]
  OBVIOUS
<1>3. /\ inode' \in [Inode -> InodeT]
      /\ inode'[i].valid /\ inode'[i].refcnt = 1 /\ inode'[i].num = num /\ ~inode'[i].read
      /\ \A j \in Inode \ {i} : inode'[j] = inode[j]
  <2>1. [valid |-> TRUE, num |-> num, refcnt |-> 1, read |-> FALSE] \in InodeT
    BY Constants DEF InodeT
  <2> QED
    BY <2>1, <1>1 DEF InodeT
<1>4. TypeOK'
  BY <1>2, <1>3, Types, TypesNext DEF ProcT, CountInv
<1>5. CallShape' /\ Children' /\ Tables' /\ Standard' /\ Shell'
  <2>1. CallShape' /\ Children' /\ Tables' /\ Standard'
    BY <1>2 DEF CountInv, CallShape, Children, Forking, Tables, Standard
  <2>2. Shell'
    BY <1>3, Constants DEF CountInv, Shell
  <2> QED
    BY <2>1, <2>2
<1>6. \A f : InFlight(f)' = InFlight(f)
  BY <1>2, QuietCall
<1>7. FileCounts' /\ \A j : FilesOf(j)' = FilesOf(j)
  BY <1>6, QuietFiles DEF CountInv
<1>8. InodeCounts'
  <2>1. ASSUME NEW j \in Inode
        PROVE  Users(j)' = IF j = i THEN Users(j) + 1 ELSE Users(j)
    <3>1. /\ Cardinality(Callers(j))' + Is(call[p].ip = j)
               = Cardinality(Callers(j)) + Is(call'[p].ip = j)
          /\ Cardinality(Callers(j))' \in Nat
      BY <1>2, CallStep
    <3>2. Is(call[p].ip = j) = 0 /\ Is(call'[p].ip = j) = IF j = i THEN 1 ELSE 0
      BY <1>1, <1>2, Constants DEF Is
    <3>3. /\ CwdsTo(Proc, j)' = CwdsTo(Proc, j) /\ FilesOf(j)' = FilesOf(j)
          /\ leak'[j] = leak[j] /\ leak[j] \in Nat
      BY <1>1, <1>7, QuietCwd
    <3> QED
      BY <3>1, <3>2, <3>3, CountsFinite DEF Users
  <2>2. ~wrapped => Users(i) = 0
    BY Used
  <2>3. ASSUME ~wrapped', NEW j \in Inode
        PROVE  IF inode'[j].valid THEN inode'[j].refcnt = Users(j)' ELSE Users(j)' = 0
    <3>1. /\ inode[j].valid => inode[j].refcnt = Users(j)
          /\ ~inode[j].valid => Users(j) = 0
      BY <2>3, Used
    <3> QED
      BY <3>1, <2>1, <2>2, <2>3, <1>3
  <2> QED
    BY <2>3, CountsAreNext
<1>9. InodeUnique'
  BY <1>3 DEF CountInv, InodeUnique
<1>10. Loading'
  <2>1. \A j \in Inode : Cardinality(Loaders(j))' =
          IF j = i THEN Cardinality(Loaders(j)) + 1 ELSE Cardinality(Loaders(j))
    <3>1. ~Reading(p) /\ Reading(p)'
      BY DEF Reading
    <3> QED
      BY <1>2, <3>1, CallStep, CountsFinite DEF Is
  <2>2. ~wrapped => Cardinality(Loaders(i)) = 0
    BY <1>1, UnusedNotLoaded DEF CountInv
  <2> QED
    BY <2>1, <2>2, <1>3, CountsAre, CountsAreNext DEF CountInv
<1> QED
  BY <1>4, <1>5, <1>7, <1>8, <1>9, <1>10 DEF CountInv, OnlyClosePanics

\* namei() begins: a reference to the directory.
LEMMA NameiStep ==
  ASSUME CountInv, NEW p \in Proc, NEW op \in {"open", "execv"}, NEW num \in Target,
         Namei(p, op, num)
  PROVE  CountInv'
<1> PICK i, n, pc, c : /\ i = InTable(RootDir) /\ n = FreeInode
                       /\ pc = (IF num = RootDir THEN "found" ELSE "dir")
                       /\ c = [User EXCEPT !.op = op, !.num = num]
  OBVIOUS
<1>1. /\ call \in [Proc -> CallT] /\ inode \in [Inode -> InodeT]
      /\ call[p].pc = "user" /\ stat[p] = "RUN" /\ halt = "no"
      /\ UNCHANGED <<file, stat, pproc, ofile, cwd, leak, drift>>
  BY Types DEF CountInv, Namei, At, proc
<1>2. c \in CallT /\ pc \in {"found", "dir"}
  BY UserT DEF CallT
<1>3. \/ /\ i # Null /\ Ref(i) /\ UNCHANGED halt
         /\ call' = [call EXCEPT ![p] = [c EXCEPT !.pc = pc, !.ip = i]]
      \/ /\ i = Null /\ n # Null /\ UNCHANGED <<wrapped, halt>>
         /\ inode' = [inode EXCEPT ![n] =
                        [valid |-> TRUE, num |-> RootDir, refcnt |-> 1, read |-> FALSE]]
         /\ call' = [call EXCEPT ![p] = [c EXCEPT !.pc = "loadroot", !.ip = n]]
      \/ /\ i = Null /\ halt' = "no rootdir" /\ UNCHANGED <<call, inode, wrapped>>
  BY DEF Namei, iget
<1>4. CASE i # Null /\ Ref(i) /\ UNCHANGED halt
           /\ call' = [call EXCEPT ![p] = [c EXCEPT !.pc = pc, !.ip = i]]
  <2>1. i \in Inode /\ inode[i].valid
    BY <1>4, InTableIs
  <2>2. /\ call' \in [Proc -> CallT] /\ call'[p].ip = i /\ call'[p].pc = pc
        /\ \A q \in Proc \ {p} : call'[q] = call[q]
    BY <1>1, <1>2, <1>4, <2>1, GotoWith
  <2> QED
    BY <1>1, <1>2, <1>4, <2>1, <2>2, GetInode
<1>5. CASE /\ i = Null /\ n # Null /\ UNCHANGED <<wrapped, halt>>
           /\ inode' = [inode EXCEPT ![n] =
                          [valid |-> TRUE, num |-> RootDir, refcnt |-> 1, read |-> FALSE]]
           /\ call' = [call EXCEPT ![p] = [c EXCEPT !.pc = "loadroot", !.ip = n]]
  <2>1. n \in Inode /\ ~inode[n].valid
    BY <1>5, FreeInodeIs
  <2>2. /\ call' \in [Proc -> CallT] /\ call'[p].ip = n /\ call'[p].pc = "loadroot"
        /\ \A q \in Proc \ {p} : call'[q] = call[q]
    BY <1>1, <1>2, <1>5, <2>1, GotoWith
  <2>3. \A j \in Inode : ~(inode[j].valid /\ inode[j].num = RootDir)
    BY <1>5, InTableIs, Constants
  <2>4. RootDir \in Num
    BY DEF Num
  <2> QED
    BY <1>1, <1>5, <2>1, <2>2, <2>3, <2>4, PublishInode
<1>6. CASE i = Null /\ halt' = "no rootdir" /\ UNCHANGED <<call, inode, wrapped>>
  <2>1. wrapped
    BY <1>6, InTableIs, Constants DEF CountInv, Shell
  <2>2. /\ UNCHANGED <<file, inode, stat, pproc, ofile, cwd, call, leak, drift, wrapped>>
        /\ halt' = "no rootdir"
    BY <1>1, <1>6
  <2>3. \A f : InFlight(f)' = InFlight(f)
    BY <2>2 DEF InFlight
  <2>4. TypeOK'
    BY <2>2, Types, TypesNext DEF ProcT, CountInv
  <2>5. CallShape' /\ Children' /\ Tables' /\ Standard' /\ Shell'
    BY <2>2 DEF CountInv, CallShape, Children, Forking, Tables, Standard, Shell
  <2>6. FileCounts'
    BY <2>2, <2>3 DEF CountInv, FileCounts, FdsTo
  <2>7. InodeCounts' /\ Loading'
    BY <2>1, <2>2 DEF InodeCounts, Loading
  <2>8. InodeUnique' /\ OnlyClosePanics'
    BY <2>1, <2>2 DEF CountInv, InodeUnique, OnlyClosePanics
  <2> QED
    BY <2>4, <2>5, <2>6, <2>7, <2>8 DEF CountInv
<1> QED
  BY <1>3, <1>4, <1>5, <1>6

\* iget() shares the inode in the table, or takes an entry for it.
LEMMA LookupStep ==
  ASSUME CountInv, NEW p \in Proc, Lookup(p)
  PROVE  CountInv'
<1> DEFINE num == call[p].num
<1>1. /\ call \in [Proc -> CallT] /\ call[p].pc = "lookup" /\ call[p].ip = Null
      /\ stat[p] = "RUN"
      /\ UNCHANGED <<file, stat, pproc, ofile, cwd, leak, drift>>
  BY Types DEF CountInv, CallShape, Lookup, At, proc
<1>2. CASE Return(p) /\ UNCHANGED <<inode, wrapped, halt>>
  BY <1>1, <1>2, EndCall DEF Return
<1>3. CASE /\ InTable(num) # Null /\ Ref(InTable(num)) /\ UNCHANGED halt
           /\ call'  = [call EXCEPT ![p] = [call[p] EXCEPT !.pc = "found", !.ip = InTable(num)]]
  <2> DEFINE i == InTable(num)
  <2>1. i \in Inode /\ inode[i].valid
    BY <1>3, InTableIs
  <2>2. call' = [call EXCEPT ![p] = [call[p] EXCEPT !.pc = "found", !.ip = i]]
    BY <1>3
  <2>3. Ref(i)
    BY <1>3
  <2> HIDE DEF i
  <2>4. /\ call' \in [Proc -> CallT] /\ call'[p].ip = i /\ call'[p].pc = "found"
        /\ \A q \in Proc \ {p} : call'[q] = call[q]
    BY <2>1, <2>2, <1>1, GotoWith
  <2> QED
    BY <1>1, <1>3, <2>1, <2>3, <2>4, GetInode
<1>4. CASE /\ num # Null /\ InTable(num) = Null /\ FreeInode # Null
           /\ UNCHANGED <<wrapped, halt>>
           /\ inode' = [inode EXCEPT ![FreeInode] =
                [valid |-> TRUE, num |-> num, refcnt |-> 1, read |-> FALSE]]
           /\ call'  = [call EXCEPT ![p] = [call[p] EXCEPT !.pc = "load", !.ip = FreeInode]]
  <2>1. FreeInode \in Inode /\ ~inode[FreeInode].valid
    BY <1>4, FreeInodeIs
  <2>2. \A j \in Inode : ~(inode[j].valid /\ inode[j].num = num)
    BY <1>4, InTableIs, Constants
  <2>3. num \in Num
    BY <1>1, <1>4, Constants DEF CallT, Target, Num
  <2>4. /\ call' \in [Proc -> CallT] /\ call'[p].ip = FreeInode /\ call'[p].pc = "load"
        /\ \A q \in Proc \ {p} : call'[q] = call[q]
    BY <2>1, <1>1, <1>4, GotoWith
  <2> QED
    BY <2>1, <2>2, <2>3, <2>4, <1>1, <1>4, PublishInode
<1> QED
  BY <1>2, <1>3, <1>4 DEF Lookup, iget

\* iget() has read the inode.
LEMMA LoadStep ==
  ASSUME CountInv, NEW p \in Proc, Load(p)
  PROVE  CountInv'
<1> DEFINE i == call[p].ip
<1>1. /\ i \in Inode /\ inode \in [Inode -> InodeT] /\ call \in [Proc -> CallT]
      /\ leak \in [Inode -> Nat] /\ stat[p] = "RUN" /\ call[p].pc \in {"load", "loadroot"}
  BY Types DEF CountInv, CallShape, Load, At
<1>2. /\ inode' = [inode EXCEPT ![i].read = TRUE]
      /\ UNCHANGED <<file, stat, pproc, ofile, cwd, leak, drift, wrapped, halt>>
  BY DEF Load, proc
<1>3. /\ call' \in [Proc -> CallT] /\ call'[p].ip = i /\ call'[p].pc \in {"found", "dir"}
      /\ \A q \in Proc \ {p} : call'[q] = call[q]
  <2>1. PICK pc \in {"found", "dir"} : call' = [call EXCEPT ![p].pc = pc]
    BY DEF Load, Goto
  <2>2. [call[p] EXCEPT !.pc = pc] \in CallT /\ [call[p] EXCEPT !.pc = pc].ip = i
    BY <1>1 DEF CallT
  <2> QED
    BY <1>1, <2>1, <2>2 DEF CallT
<1> HIDE DEF i
<1>4. /\ inode' \in [Inode -> InodeT]
      /\ inode'[i].num = inode[i].num /\ inode'[i].valid = inode[i].valid
      /\ inode'[i].refcnt = inode[i].refcnt /\ inode'[i].read
      /\ \A j \in Inode \ {i} : inode'[j] = inode[j]
  BY <1>1, <1>2 DEF InodeT
<1>5. TypeOK'
  BY <1>2, <1>3, <1>4, Types, TypesNext DEF ProcT, CountInv
<1>6. CallShape' /\ Children' /\ Tables' /\ Standard' /\ Shell'
  <2>1. CallShape' /\ Children' /\ Tables' /\ Standard'
    BY <1>1, <1>2, <1>3 DEF CountInv, CallShape, Children, Forking, Tables, Standard
  <2>2. Shell'
    BY <1>2, <1>4, Constants DEF CountInv, Shell
  <2> QED
    BY <2>1, <2>2
<1>7. \A f : InFlight(f)' = InFlight(f)
  BY <1>1, <1>3, QuietCall
<1>8. FileCounts' /\ \A j : FilesOf(j)' = FilesOf(j)
  BY <1>2, <1>7, QuietFiles DEF CountInv
<1>9. InodeCounts'
  <2>1. ASSUME NEW j \in Inode PROVE Users(j)' = Users(j)
    <3>1. /\ Cardinality(Callers(j))' + Is(call[p].ip = j)
               = Cardinality(Callers(j)) + Is(call'[p].ip = j)
          /\ Cardinality(Callers(j))' \in Nat
      BY <1>3, CallStep
    <3>2. Is(call'[p].ip = j) = Is(call[p].ip = j) /\ Is(call[p].ip = j) \in Nat
      BY <1>3 DEF Is, i
    <3>3. /\ CwdsTo(Proc, j)' = CwdsTo(Proc, j) /\ FilesOf(j)' = FilesOf(j)
          /\ leak'[j] = leak[j]
      BY <1>2, <1>8, QuietCwd
    <3> QED
      BY <3>1, <3>2, <3>3, CountsFinite DEF Users
  <2> QED
    BY <2>1, <1>2, <1>4, CountsAreNext, CountsAre DEF CountInv
<1>10. InodeUnique'
  BY <1>4 DEF CountInv, InodeUnique
<1>11. Loading'
  <2>1. \A j \in Inode : Cardinality(Loaders(j))' =
          IF j = i THEN Cardinality(Loaders(j)) - 1 ELSE Cardinality(Loaders(j))
    <3>1. Reading(p) /\ ~Reading(p)'
      BY <1>1, <1>3 DEF Reading
    <3> QED
      BY <1>3, <3>1, CallStep, CountsFinite DEF Is, i
  <2>2. p \in Loaders(i)
    BY <1>1 DEF Loaders, Reading, i
  <2>3. ~wrapped => Cardinality(Loaders(i)) = 1
    BY <2>2, <1>1, ZeroCard, CountsFinite, CountsAre DEF CountInv
  <2> QED
    BY <2>1, <2>3, <1>2, <1>4, CountsAre, CountsAreNext DEF CountInv
<1> QED
  BY <1>2, <1>5, <1>6, <1>8, <1>9, <1>10, <1>11 DEF CountInv, OnlyClosePanics

\* execv() forgets the inode it read.
LEMMA ExecStep ==
  ASSUME CountInv, NEW p \in Proc, Exec(p)
  PROVE  CountInv'
  BY EndCall DEF Exec, At, Return, proc

\* open() gets a file, or gives up.
LEMMA FallocStep ==
  ASSUME CountInv, NEW p \in Proc, Falloc(p)
  PROVE  CountInv'
<1> PICK f : f = FreeFile
  OBVIOUS
<1>1. /\ inode \in [Inode -> InodeT] /\ call \in [Proc -> CallT] /\ file \in [File -> FileT]
      /\ call[p].pc = "found" /\ stat[p] = "RUN" /\ call[p].ip \in Inode
      /\ UNCHANGED <<inode, stat, pproc, ofile, cwd, drift, wrapped, halt>>
  BY Types DEF CountInv, CallShape, Falloc, At, proc
<1>2. CASE f = Null
  BY <1>1, <1>2, EndCall DEF Falloc, Return
<1>3. CASE f # Null
  <2>1. f \in File /\ file[f].refcnt = 0
    BY <1>3, FreeFileIs
  <2>2. file' = [file EXCEPT ![f].refcnt = 1] /\ UNCHANGED leak
    BY <1>3 DEF Falloc
  <2>3. call' = [call EXCEPT ![p].f = f, ![p].pc = "fd"]
    BY <1>3 DEF Falloc
  <2>4. /\ file' \in [File -> FileT]
        /\ file'[f].refcnt = 1 /\ file'[f].inode = file[f].inode
        /\ \A g \in File \ {f} : file'[g] = file[g]
    BY <2>1, <2>2, <1>1 DEF FileT
  <2>5. /\ call' \in [Proc -> CallT]
        /\ call'[p].ip = call[p].ip /\ call'[p].f = f /\ call'[p].pc = "fd"
        /\ \A q \in Proc \ {p} : call'[q] = call[q]
    <3>0. call[p] \in CallT /\ f \in File \cup {Null}
      BY <1>1, <2>1
    <3>1. [call[p] EXCEPT !.f = f, !.pc = "fd"] \in CallT
      BY <3>0 DEF CallT
    <3>2. call' \in [Proc -> CallT]
      BY <3>1, <2>3, <1>1
    <3>3. call'[p].ip = call[p].ip /\ call'[p].f = f /\ call'[p].pc = "fd"
      BY <1>1, <2>3 DEF CallT
    <3> QED
      BY <3>2, <3>3, <2>3, <1>1
  <2>6. TypeOK'
    BY <1>1, <2>2, <2>4, <2>5, Types, TypesNext DEF ProcT, CountInv
  <2>7. Children' /\ Tables' /\ Standard' /\ Shell'
    BY <1>1, <2>5 DEF CountInv, Children, Forking, Tables, Standard, Shell
  <2>8. CallShape'
    BY <1>1, <2>1, <2>4, <2>5 DEF CountInv, CallShape
  <2>9. \A g \in File : Cardinality(InFlight(g))' =
           IF g = f THEN Cardinality(InFlight(g)) + 1 ELSE Cardinality(InFlight(g))
    BY <1>1, <2>5, CallStep, CountsFinite DEF Is
  <2>10. FileCounts'
    <3>1. \A g \in File : FdsTo(Proc, g)' = FdsTo(Proc, g)
      BY <1>1 DEF FdsTo
    <3>2. ASSUME NEW g \in File
          PROVE  file'[g].refcnt = FdsTo(Proc, g)' + Cardinality(InFlight(g))' + drift'[g]
      <4>1. /\ file[g].refcnt = FdsTo(Proc, g) + Cardinality(InFlight(g)) + drift[g]
            /\ FdsTo(Proc, g) \in Nat /\ Cardinality(InFlight(g)) \in Nat /\ drift[g] \in Nat
        BY Held, CountsFinite
      <4> QED
        BY <4>1, <3>1, <2>1, <2>4, <2>9, <1>1
    <3> QED
      BY <3>2 DEF FileCounts
  <2>11. \A j : FilesOf(j)' = FilesOf(j)
    <3>1. \A g \in File \ {f} : InFlight(g)' = InFlight(g)
      BY <1>1, <2>5 DEF InFlight
    <3>2. p \in InFlight(f)'
      BY <2>5 DEF InFlight
    <3>3. \A j : \A g \in File : g \in FilesOf(j)' <=> g \in FilesOf(j)
      BY <3>1, <3>2, <2>1, <2>4 DEF FilesOf
    <3> QED
      BY <3>3 DEF FilesOf
  <2>12. InodeCounts'
    <3>1. ASSUME NEW j \in Inode PROVE Users(j)' = Users(j)
      <4>1. /\ Cardinality(Callers(j))' + Is(call[p].ip = j)
                 = Cardinality(Callers(j)) + Is(call'[p].ip = j)
            /\ Cardinality(Callers(j))' \in Nat
        BY <2>5, CallStep
      <4>2. Is(call'[p].ip = j) = Is(call[p].ip = j) /\ Is(call[p].ip = j) \in Nat
        BY <2>5 DEF Is
      <4>3. /\ CwdsTo(Proc, j)' = CwdsTo(Proc, j) /\ FilesOf(j)' = FilesOf(j)
            /\ leak'[j] = leak[j]
        BY <1>1, <2>2, <2>11, QuietCwd
      <4> QED
        BY <4>1, <4>2, <4>3, CountsFinite DEF Users
    <3> QED
      BY <3>1, <1>1, CountsAreNext, CountsAre DEF CountInv
  <2>13. InodeUnique'
    BY <1>1 DEF CountInv, InodeUnique
  <2>14. Loading'
    BY <1>1, <2>5, CallStep, CountsAre, CountsAreNext, CountsFinite DEF Is, CountInv, Reading
  <2> QED
    BY <1>1, <2>6, <2>7, <2>8, <2>10, <2>12, <2>13, <2>14 DEF CountInv, OnlyClosePanics
<1> QED
  BY <1>2, <1>3

\* open() gets a descriptor, or gives the file back.
LEMMA FdallocStep ==
  ASSUME CountInv, NEW p \in Proc, Fdalloc(p)
  PROVE  CountInv'
<1> PICK f, i, fd : f = call[p].f /\ i = call[p].ip /\ fd = FreeFd(p)
  OBVIOUS
<1>1. /\ call \in [Proc -> CallT] /\ file \in [File -> FileT] /\ ProcT
      /\ leak \in [Inode -> Nat]
      /\ call[p].pc = "fd" /\ stat[p] = "RUN" /\ i \in Inode /\ f \in File
      /\ file[f].refcnt = 1
      /\ UNCHANGED <<inode, stat, pproc, cwd, drift, wrapped, halt>>
  BY Types DEF CountInv, CallShape, Fdalloc, At
<1>2. Cardinality(InFlight(f)) = 1 /\ FdsTo(Proc, f) = 0 /\ drift[f] = 0
  BY <1>1, Held
<1>3. /\ call' \in [Proc -> CallT] /\ call'[p] = User
      /\ \A q \in Proc \ {p} : call'[q] = call[q]
  BY <1>1, UserT DEF Fdalloc, Return
<1>4. fd # Null => fd \in Fd /\ ofile[p][fd] = Null
  BY FreeFdIs
<1>5. /\ fd = Null => /\ file' = [file EXCEPT ![f].refcnt = @ - 1]
                       /\ Leak(i) /\ UNCHANGED ofile
      /\ fd # Null => /\ file'  = [file EXCEPT ![f].inode = i]
                       /\ ofile' = [ofile EXCEPT ![p][fd] = f] /\ UNCHANGED leak
  BY DEF Fdalloc
<1>6. /\ InFlight(f)' = {}
      /\ \A g \in File \ {f} : InFlight(g)' = InFlight(g)
  <2>1. Cardinality(InFlight(f))' = 0 /\ IsFiniteSet(InFlight(f)')
    BY <1>1, <1>2, <1>3, UserT, CallStep DEF Is
  <2>2. InFlight(f)' = {}
    BY <2>1, ZeroCard
  <2> QED
    BY <2>2, <1>1, <1>3, UserT DEF InFlight
<1>7. \A q \in Proc \ {p} : call[q].pc = "fd" => call[q].f # f
  BY <1>3, <1>6 DEF InFlight
<1>8. Children' /\ Standard' /\ Shell'
  BY <1>1, <1>3, UserT DEF CountInv, Children, Forking, Standard, Shell
<1>9. /\ file' \in [File -> FileT]
      /\ \A g \in File \ {f} : file'[g] = file[g]
      /\ fd = Null => file'[f].refcnt = 0 /\ file'[f].inode = file[f].inode
      /\ fd # Null => file'[f].refcnt = 1 /\ file'[f].inode = i
  <2>1. CASE fd = Null
    BY <2>1, <1>1, <1>5 DEF FileT
  <2>2. CASE fd # Null
    BY <2>2, <1>1, <1>5 DEF FileT
  <2> QED
    BY <2>1, <2>2
<1>10. /\ ofile' \in [Proc -> [Fd -> File \cup {Null}]]
       /\ \A q \in Proc : stat[q] = "UNUSED" => ofile'[q] = ofile[q]
       /\ leak' \in [Inode -> Nat]
  <2>1. CASE fd = Null
    BY <2>1, <1>1, <1>5 DEF ProcT, Leak
  <2>2. CASE fd # Null
    <3>1. ofile' = [ofile EXCEPT ![p][fd] = f] /\ UNCHANGED leak
      BY <2>2, <1>5
    <3>2. ofile \in [Proc -> [Fd -> File \cup {Null}]]
      BY <1>1 DEF ProcT
    <3>3. [ofile[p] EXCEPT ![fd] = f] \in [Fd -> File \cup {Null}]
      BY <1>1, <3>2
    <3>4. ofile' = [ofile EXCEPT ![p] = [ofile[p] EXCEPT ![fd] = f]]
      BY <3>1, <3>2
    <3> QED
      BY <3>1, <3>2, <3>3, <3>4, <1>1
  <2> QED
    BY <2>1, <2>2
<1>11. TypeOK'
  BY <1>1, <1>3, <1>9, <1>10, Types, TypesNext DEF ProcT, CountInv
<1>12. CallShape' /\ Tables'
  BY <1>1, <1>3, <1>7, <1>9, <1>10, UserT DEF CountInv, CallShape, Tables
<1>13. \A g \in File : FdsTo(Proc, g)' = IF g = f /\ fd # Null THEN FdsTo(Proc, g) + 1
                                         ELSE FdsTo(Proc, g)
  <2>1. CASE fd = Null
    BY <2>1, <1>5 DEF FdsTo
  <2>2. CASE fd # Null
    <3>1. /\ \A q \in Proc, d \in Fd : <<q, d>> # <<p, fd>> => ofile'[q][d] = ofile[q][d]
          /\ ofile'[p][fd] = f
      BY <2>2, <1>1, <1>4, <1>5 DEF ProcT
    <3>2. \A g : /\ FdsTo(Proc, g)' + Is(ofile[p][fd] = g)
                     = FdsTo(Proc, g) + Is(ofile'[p][fd] = g)
                 /\ FdsTo(Proc, g)' \in Nat
      BY <2>2, <3>1, <1>4, OfileStep
    <3>3. \A g \in File : /\ Is(ofile[p][fd] = g) = 0
                          /\ Is(ofile'[p][fd] = g) = IF g = f THEN 1 ELSE 0
      BY <2>2, <3>1, <1>4, Constants DEF Is
    <3> QED
      BY <2>2, <3>2, <3>3, CountsFinite
  <2> QED
    BY <2>1, <2>2
<1>14. FileCounts'
  <2>1. ASSUME NEW g \in File
        PROVE  file'[g].refcnt = FdsTo(Proc, g)' + Cardinality(InFlight(g))' + drift'[g]
    <3>1. CASE g = f
      BY <3>1, <1>1, <1>2, <1>6, <1>9, <1>13, ZeroCard, CountsFinite, FS_EmptySet
    <3>2. CASE g # f
      BY <3>2, <1>1, <1>6, <1>9, <1>13, Held, CountsFinite
    <3> QED
      BY <3>1, <3>2
  <2> QED
    BY <2>1 DEF FileCounts
<1>15. /\ \A j \in Inode : j # i \/ fd = Null => FilesOf(j)' = FilesOf(j)
       /\ fd # Null => f \notin FilesOf(i) /\ FilesOf(i)' = FilesOf(i) \cup {f}
  <2>1. \A j : f \notin FilesOf(j)
    <3>1. p \in InFlight(f)
      BY <1>1 DEF InFlight
    <3> QED
      BY <3>1 DEF FilesOf
  <2>2. \A j \in Inode : \A g \in File \ {f} : g \in FilesOf(j)' <=> g \in FilesOf(j)
    BY <1>6, <1>9 DEF FilesOf
  <2>3. \A j \in Inode : f \in FilesOf(j)' <=> j = i /\ fd # Null
    BY <1>1, <1>6, <1>9 DEF FilesOf
  <2>4. \A j : FilesOf(j) \subseteq File /\ FilesOf(j)' \subseteq File
    BY DEF FilesOf
  <2>5. ASSUME NEW j \in Inode, ~(j = i /\ fd # Null) PROVE FilesOf(j)' = FilesOf(j)
    BY <2>1, <2>2, <2>3, <2>4, <2>5
  <2>6. ASSUME fd # Null PROVE FilesOf(i)' = FilesOf(i) \cup {f}
    BY <1>1, <2>1, <2>2, <2>3, <2>4, <2>6
  <2> QED
    BY <2>1, <2>5, <2>6
<1>16. \A j \in Inode : Cardinality(FilesOf(j))' =
          IF j = i /\ fd # Null THEN Cardinality(FilesOf(j)) + 1 ELSE Cardinality(FilesOf(j))
  BY <1>15, CountsFinite, FS_AddElement
<1>17. InodeCounts'
  <2>1. ASSUME NEW j \in Inode PROVE Users(j)' = Users(j)
    <3>1. /\ Cardinality(Callers(j))' + Is(call[p].ip = j)
               = Cardinality(Callers(j)) + Is(call'[p].ip = j)
          /\ Cardinality(Callers(j))' \in Nat
      BY <1>3, CallStep
    <3>2. Is(call'[p].ip = j) = 0 /\ Is(call[p].ip = j) = IF j = i THEN 1 ELSE 0
      BY <1>3, UserT, Constants DEF Is
    <3>3. CwdsTo(Proc, j)' = CwdsTo(Proc, j) /\ leak[j] \in Nat
      BY <1>1, QuietCwd
    <3>4. leak'[j] = IF j = i /\ fd = Null THEN leak[j] + 1 ELSE leak[j]
      BY <1>1, <1>5 DEF Leak
    <3> QED
      BY <3>1, <3>2, <3>3, <3>4, <1>16, CountsFinite DEF Users
  <2> QED
    BY <2>1, <1>1, CountsAreNext, CountsAre DEF CountInv
<1>18. InodeUnique'
  BY <1>1 DEF CountInv, InodeUnique
<1>19. Loading'
  BY <1>1, <1>3, UserT, CallStep, CountsAre, CountsAreNext, CountsFinite DEF Is, CountInv, Reading
<1> QED
  BY <1>1, <1>8, <1>11, <1>12, <1>14, <1>17, <1>18, <1>19 DEF CountInv, OnlyClosePanics

\* close() takes one from the file's count, or panics.
LEMMA CloseStep ==
  ASSUME CountInv, NEW p \in Proc, NEW fd \in 2 .. NOFILE - 1, Close(p, fd)
  PROVE  CountInv'
<1> PICK f : f = ofile[p][fd]
  OBVIOUS
<1>1. /\ file \in [File -> FileT] /\ ProcT /\ leak \in [Inode -> Nat]
      /\ call[p].pc = "user" /\ stat[p] = "RUN" /\ halt = "no" /\ fd \in Fd
      /\ UNCHANGED <<inode, stat, pproc, cwd, call, drift, wrapped>>
  BY Types, FilesConstants DEF CountInv, Close, At, Fd
<1>2. f \in File \cup {Null}
  BY <1>1 DEF ProcT
<1>3. CASE f = Null
  <2>1. halt' = "ffree(1)" /\ UNCHANGED <<file, ofile, leak>>
    BY <1>3 DEF Close
  <2>2. TypeOK'
    BY <1>1, <2>1, Types, TypesNext DEF ProcT, CountInv
  <2>3. CallShape' /\ Children' /\ Tables' /\ Standard' /\ Shell'
    BY <1>1, <2>1 DEF CountInv, CallShape, Children, Forking, Tables, Standard, Shell
  <2>4. \A g : InFlight(g)' = InFlight(g)
    BY <1>1 DEF InFlight
  <2>5. FileCounts' /\ \A j : FilesOf(j)' = FilesOf(j)
    BY <1>1, <2>1, <2>4, QuietFiles DEF CountInv
  <2>6. InodeCounts'
    BY <1>1, <2>1, <2>5 DEF CountInv, InodeCounts, CwdsTo
  <2>7. InodeUnique' /\ Loading'
    BY <1>1 DEF CountInv, InodeUnique, Loading
  <2> QED
    BY <2>1, <2>2, <2>3, <2>5, <2>6, <2>7 DEF CountInv, OnlyClosePanics
<1>4. CASE f # Null
  <2>1. f \in File
    BY <1>2, <1>4
  <2>2. /\ InFlight(f) = {} /\ file[f].refcnt >= 1 /\ file[f].refcnt \in Nat
        /\ \A q \in Proc : call[q].pc = "fd" => call[q].f # f
    BY <1>1, <2>1, HeldNotInFlight, Held
  <2>3. /\ halt' = halt
        /\ file' = [file EXCEPT ![f].refcnt = @ - 1]
        /\ ofile' = [ofile EXCEPT ![p][fd] = Null]
        /\ IF file[f].refcnt = 1 THEN Leak(file[f].inode) ELSE UNCHANGED leak
    BY <1>4, <2>2 DEF Close
  <2>4. /\ file' \in [File -> FileT]
        /\ file'[f].refcnt = file[f].refcnt - 1 /\ file'[f].inode = file[f].inode
        /\ \A g \in File \ {f} : file'[g] = file[g]
    BY <1>1, <2>1, <2>2, <2>3 DEF FileT
  <2>5. /\ ofile' \in [Proc -> [Fd -> File \cup {Null}]]
        /\ ofile'[p][fd] = Null
        /\ \A q \in Proc, d \in Fd : <<q, d>> # <<p, fd>> => ofile'[q][d] = ofile[q][d]
        /\ \A q \in Proc : stat[q] = "UNUSED" => ofile'[q] = ofile[q]
    <3>1. ofile \in [Proc -> [Fd -> File \cup {Null}]]
      BY <1>1 DEF ProcT
    <3>2. [ofile[p] EXCEPT ![fd] = Null] \in [Fd -> File \cup {Null}]
      BY <1>1, <3>1
    <3>3. ofile' = [ofile EXCEPT ![p] = [ofile[p] EXCEPT ![fd] = Null]]
      BY <2>3, <3>1
    <3> QED
      BY <1>1, <3>1, <3>2, <3>3
  <2>6. /\ leak' \in [Inode -> Nat]
        /\ \A j \in Inode : leak'[j] = IF file[f].refcnt = 1 /\ file[f].inode = j
                                      THEN leak[j] + 1 ELSE leak[j]
    BY <1>1, <2>3 DEF Leak
  <2>7. TypeOK'
    BY <1>1, <2>3, <2>4, <2>5, <2>6, Types, TypesNext DEF ProcT, CountInv
  <2>8. Children' /\ Standard' /\ Shell'
    BY <1>1 DEF CountInv, Children, Forking, Standard, Shell
  <2>9. CallShape' /\ Tables'
    BY <1>1, <2>2, <2>4, <2>5 DEF CountInv, CallShape, Tables
  <2>10. \A g : InFlight(g)' = InFlight(g)
    BY <1>1 DEF InFlight
  <2>11. FileCounts'
    <3>1. ASSUME NEW g \in File
          PROVE  file'[g].refcnt = FdsTo(Proc, g)' + Cardinality(InFlight(g))' + drift'[g]
      <4>1. /\ file[g].refcnt = FdsTo(Proc, g) + Cardinality(InFlight(g)) + drift[g]
            /\ FdsTo(Proc, g) \in Nat /\ Cardinality(InFlight(g)) \in Nat /\ drift[g] \in Nat
        BY Held, CountsFinite
      <4>2. /\ FdsTo(Proc, g)' + Is(ofile[p][fd] = g) = FdsTo(Proc, g) + Is(ofile'[p][fd] = g)
            /\ FdsTo(Proc, g)' \in Nat
        BY <1>1, <2>5, OfileStep
      <4>3. Is(ofile'[p][fd] = g) = 0 /\ Is(ofile[p][fd] = g) = IF g = f THEN 1 ELSE 0
        BY <2>5, Constants DEF Is
      <4> QED
        BY <4>1, <4>2, <4>3, <1>1, <2>4, <2>10
    <3> QED
      BY <3>1 DEF FileCounts
  <2>12. \A j \in Inode : Cardinality(FilesOf(j))' + leak'[j] = Cardinality(FilesOf(j)) + leak[j]
    <3> SUFFICES ASSUME NEW j \in Inode
                 PROVE  Cardinality(FilesOf(j))' + leak'[j] = Cardinality(FilesOf(j)) + leak[j]
      OBVIOUS
    <3>1. FilesOf(j) \subseteq File /\ FilesOf(j)' \subseteq File
      BY DEF FilesOf
    <3>2. \A g \in File \ {f} : g \in FilesOf(j)' <=> g \in FilesOf(j)
      BY <2>4, <2>10 DEF FilesOf
    <3>3. /\ f \in FilesOf(j) <=> file[f].inode = j
          /\ f \in FilesOf(j)' <=> file[f].inode = j /\ file[f].refcnt # 1
      BY <2>1, <2>2, <2>4, <2>10 DEF FilesOf
    <3>4. CASE file[f].inode = j /\ file[f].refcnt = 1
      <4>1. FilesOf(j)' = FilesOf(j) \ {f} /\ f \in FilesOf(j)
        BY <3>1, <3>2, <3>3, <3>4
      <4>2. Cardinality(FilesOf(j)') = Cardinality(FilesOf(j)) - 1
        BY <4>1, CountsFinite, FS_RemoveElement
      <4>3. leak'[j] = leak[j] + 1
        BY <3>4, <2>6
      <4> QED
        BY <4>2, <4>3, <1>1, CountsFinite
    <3>5. CASE ~(file[f].inode = j /\ file[f].refcnt = 1)
      <4>1. FilesOf(j)' = FilesOf(j)
        BY <2>1, <3>1, <3>2, <3>3, <3>5
      <4>2. leak'[j] = leak[j]
        BY <3>5, <2>6
      <4> QED
        BY <4>1, <4>2
    <3> QED
      BY <3>4, <3>5
  <2>13. InodeCounts'
    <3>1. ASSUME NEW j \in Inode PROVE Users(j)' = Users(j)
      <4>1. /\ CwdsTo(Proc, j)' = CwdsTo(Proc, j) /\ Callers(j)' = Callers(j)
        BY <1>1, QuietCwd DEF Callers
      <4>2. /\ Cardinality(FilesOf(j))' + leak'[j] = Cardinality(FilesOf(j)) + leak[j]
            /\ leak'[j] \in Nat /\ leak[j] \in Nat /\ Cardinality(FilesOf(j))' \in Nat
        <5>1. Cardinality(FilesOf(j)') \in Nat
          <6>1. FilesOf(j)' \subseteq File
            BY DEF FilesOf
          <6> QED
            BY <6>1, Finite, FS_Subset, FS_CardinalityType
        <5> QED
          BY <5>1, <1>1, <2>6, <2>12
      <4> QED
        BY <4>1, <4>2, CountsFinite DEF Users
    <3> QED
      BY <3>1, <1>1, CountsAreNext, CountsAre DEF CountInv
  <2>14. InodeUnique' /\ Loading'
    BY <1>1 DEF CountInv, InodeUnique, Loading
  <2> QED
    BY <1>1, <2>3, <2>7, <2>8, <2>9, <2>11, <2>13, <2>14 DEF CountInv, OnlyClosePanics
<1> QED
  BY <1>3, <1>4

\* exit() keeps everything for the parent to free.
LEMMA ExitStep ==
  ASSUME CountInv, NEW p \in Proc, Exit(p)
  PROVE  CountInv'
<1>1. /\ call[p].pc = "user" /\ stat[p] = "RUN" /\ p # 1 /\ ProcT
      /\ stat' = [stat EXCEPT ![p] = "ZOMB"]
      /\ UNCHANGED <<file, inode, pproc, ofile, cwd, call, leak, drift, wrapped, halt>>
  BY Types DEF Exit, At, CountInv, Shell
<1>2. /\ stat' \in [Proc -> {"UNUSED", "SET", "RUN", "ZOMB"}] /\ stat'[p] = "ZOMB"
      /\ \A q \in Proc \ {p} : stat'[q] = stat[q]
  BY <1>1 DEF ProcT
<1>3. TypeOK'
  BY <1>1, <1>2, Types, TypesNext DEF ProcT, CountInv
<1>4. CallShape' /\ Tables' /\ Standard'
  BY <1>1, <1>2 DEF CountInv, CallShape, Tables, Standard
<1>5. Shell'
  BY <1>1, <1>2, Constants DEF CountInv, Shell
<1>6. Children'
  BY <1>1, <1>2 DEF CountInv, Children, Forking
<1>7. FileCounts' /\ InodeCounts' /\ InodeUnique' /\ Loading' /\ OnlyClosePanics'
  BY <1>1 DEF CountInv, FileCounts, FdsTo, InFlight, InodeCounts, CwdsTo, FilesOf, InodeUnique,
              Loading, OnlyClosePanics
<1> QED
  BY <1>3, <1>4, <1>5, <1>6, <1>7 DEF CountInv

\* palloc() gives the child STDIN and STDOUT.
LEMMA ForkStep ==
  ASSUME CountInv, NEW p \in Proc, Fork(p)
  PROVE  CountInv'
<1> PICK u : u = Unused
  OBVIOUS
<1>1. /\ file \in [File -> FileT] /\ call \in [Proc -> CallT] /\ ProcT
      /\ call[p].pc = "user" /\ stat[p] = "RUN"
      /\ UNCHANGED <<inode, leak, drift, wrapped, halt>>
  BY Types DEF CountInv, Fork, At
<1>2. u \in Proc /\ stat[u] = "UNUSED" /\ u # p /\ u # 1 /\ p \in Proc
  BY <1>1, UnusedIs DEF Fork, CountInv, Shell
<1>3. /\ call[u].pc = "user" /\ call[u].ip = Null /\ call[p].ip = Null /\ cwd[u] = Null
      /\ \A fd \in Fd : ofile[u][fd] = Null
  BY <1>1, <1>2 DEF CountInv, CallShape, Tables
<1>4. /\ stat' = [stat EXCEPT ![u] = "SET"] /\ pproc' = [pproc EXCEPT ![u] = 0]
      /\ cwd' = [cwd EXCEPT ![u] = Null]
      /\ ofile' = [ofile EXCEPT ![u] = [fd \in Fd |-> IF fd \in {STDIN, STDOUT} THEN fd ELSE Null]]
      /\ file' = [file EXCEPT ![STDIN].refcnt = @ + 1, ![STDOUT].refcnt = @ + 1]
      /\ call' = [call EXCEPT ![p] = [User EXCEPT !.op = "fork", !.pc = "copyuvm", !.np = u],
                              ![u] = User]
  BY DEF Fork
<1>5. /\ call' \in [Proc -> CallT] /\ call'[u] = User
      /\ call'[p].pc = "copyuvm" /\ call'[p].ip = Null /\ call'[p].np = u
      /\ \A q \in Proc \ {p, u} : call'[q] = call[q]
  <2> DEFINE c == [User EXCEPT !.op = "fork", !.pc = "copyuvm", !.np = u]
  <2>1. c \in CallT
    BY <1>2, UserT DEF CallT
  <2>2. c.pc = "copyuvm" /\ c.ip = Null /\ c.np = u
    BY UserT DEF CallT
  <2>3. call' = [call EXCEPT ![p] = c, ![u] = User]
    BY <1>4
  <2> HIDE DEF c
  <2> QED
    BY <2>1, <2>2, <2>3, <1>1, <1>2, UserT
<1>6. /\ ProcT'
      /\ stat'[u] = "SET" /\ \A q \in Proc \ {u} : stat'[q] = stat[q]
      /\ cwd'[u] = Null /\ \A q \in Proc : cwd'[q] = cwd[q]
      /\ \A q \in Proc \ {u} : pproc'[q] = pproc[q] /\ ofile'[q] = ofile[q]
      /\ \A fd \in Fd : ofile'[u][fd] = IF fd \in {STDIN, STDOUT} THEN fd ELSE Null
  BY <1>1, <1>2, <1>3, <1>4, Constants DEF ProcT
<1>7. /\ file' \in [File -> FileT]
      /\ \A f \in File : /\ file'[f].inode = file[f].inode
                         /\ file'[f].refcnt = file[f].refcnt + Is(f \in {STDIN, STDOUT})
  <2>1. /\ file'[STDIN] = [file[STDIN] EXCEPT !.refcnt = @ + 1]
        /\ file'[STDOUT] = [file[STDOUT] EXCEPT !.refcnt = @ + 1]
        /\ \A f \in File \ {STDIN, STDOUT} : file'[f] = file[f]
        /\ file' = [f \in File |-> file'[f]]
    BY <1>1, <1>4, Constants
  <2>2. \A f \in File : file[f] \in FileT /\ file'[f] \in FileT
    BY <1>1, <2>1 DEF FileT
  <2>3. /\ file'[STDIN].inode = file[STDIN].inode
        /\ file'[STDIN].refcnt = file[STDIN].refcnt + 1
        /\ file'[STDOUT].inode = file[STDOUT].inode
        /\ file'[STDOUT].refcnt = file[STDOUT].refcnt + 1
    <3>1. file[STDIN] \in FileT /\ file[STDOUT] \in FileT
      BY <2>2, Constants
    <3> QED
      BY <2>1, <3>1 DEF FileT
  <2>4. \A f \in File : file[f].refcnt \in Nat
    BY <1>1 DEF FileT
  <2>5. file' \in [File -> FileT]
    BY <2>1, <2>2
  <2>6. ASSUME NEW f \in File
        PROVE  /\ file'[f].inode = file[f].inode
               /\ file'[f].refcnt = file[f].refcnt + Is(f \in {STDIN, STDOUT})
    <3>1. CASE f = STDIN \/ f = STDOUT
      BY <3>1, <2>3 DEF Is
    <3>2. CASE f \notin {STDIN, STDOUT}
      BY <3>2, <2>1, <2>4 DEF Is
    <3> QED
      BY <3>1, <3>2
  <2> QED
    BY <2>5, <2>6
<1>8. TypeOK'
  BY <1>1, <1>5, <1>6, <1>7, Types, TypesNext DEF CountInv
<1>9. /\ Tables' /\ Standard' /\ Shell'
  BY <1>1, <1>2, <1>3, <1>4, <1>6 DEF CountInv, Tables, Standard, Shell
<1>10. Children'
  BY <1>1, <1>2, <1>3, <1>5, <1>6, UserT DEF CountInv, Children, Forking
<1>11. CallShape'
  <2>1. \A q \in Proc : call'[q].pc = "fd" =>
          call'[q] = call[q] /\ file'[call[q].f].refcnt = file[call[q].f].refcnt
    <3>1. \A q \in Proc : call[q].pc = "fd" =>
            call[q].f \in File /\ call[q].f \notin {STDIN, STDOUT}
      BY StandardNotInFlight DEF CountInv, CallShape
    <3> QED
      BY <3>1, <1>1, <1>5, <1>7, UserT DEF Is, FileT
  <2> QED
    BY <2>1, <1>1, <1>2, <1>5, <1>6, UserT DEF CountInv, CallShape
<1>12. /\ \A f : InFlight(f)' = InFlight(f)
       /\ \A i \in Inode : Callers(i)' = Callers(i) /\ Loaders(i)' = Loaders(i)
       /\ \A i : CwdsTo(Proc, i)' = CwdsTo(Proc, i)
  <2>1. \A f : InFlight(f)' = InFlight(f)
    BY <1>1, <1>2, <1>3, <1>5, UserT DEF InFlight
  <2>2. \A q \in Proc : call'[q].ip = call[q].ip
    BY <1>1, <1>2, <1>3, <1>5, UserT
  <2>3. \A q \in Proc : Reading(q)' = Reading(q)
    BY <1>1, <1>2, <1>3, <1>5, UserT DEF Reading
  <2>4. ASSUME NEW i \in Inode PROVE Callers(i)' = Callers(i) /\ Loaders(i)' = Loaders(i)
    <3>1. Callers(i)' = Callers(i)
      BY <2>2 DEF Callers
    <3>2. Loaders(i)' = Loaders(i)
      BY <2>2, <2>3 DEF Loaders
    <3> QED
      BY <3>1, <3>2
  <2>5. \A i : CwdsTo(Proc, i)' = CwdsTo(Proc, i)
    BY <1>6 DEF CwdsTo
  <2> QED
    BY <2>1, <2>4, <2>5
<1>13. FileCounts'
  <2>1. ASSUME NEW f \in File
        PROVE  FdsTo(Proc, f)' = FdsTo(Proc, f) + Is(f \in {STDIN, STDOUT})
    <3>1. CASE f \in {STDIN, STDOUT}
      <4>1. f \in Fd /\ f # Null
        BY <3>1, Constants
      <4>2. Fds(Proc, f)' = Fds(Proc, f) \cup {<<u, f>>} /\ <<u, f>> \notin Fds(Proc, f)
        BY <4>1, <3>1, <1>2, <1>3, <1>6 DEF Fds
      <4>3. FdsTo(Proc, f)' = Cardinality(Fds(Proc, f)')
        BY DEF FdsTo, Fds
      <4> QED
        BY <4>2, <4>3, <3>1, CountsFinite, CountIs, FS_AddElement DEF Is
    <3>2. CASE f \notin {STDIN, STDOUT}
      <4>1. f # Null
        BY Constants
      <4>2. Fds(Proc, f)' = Fds(Proc, f)
        BY <4>1, <3>2, <1>2, <1>3, <1>6 DEF Fds
      <4>3. FdsTo(Proc, f)' = Cardinality(Fds(Proc, f)')
        BY DEF FdsTo, Fds
      <4> QED
        BY <4>2, <4>3, <3>2, CountsFinite, CountIs DEF Is
    <3> QED
      BY <3>1, <3>2
  <2>2. ASSUME NEW f \in File
        PROVE  file'[f].refcnt = FdsTo(Proc, f)' + Cardinality(InFlight(f))' + drift'[f]
    <3>1. /\ file[f].refcnt = FdsTo(Proc, f) + Cardinality(InFlight(f)) + drift[f]
          /\ FdsTo(Proc, f) \in Nat /\ Cardinality(InFlight(f)) \in Nat /\ drift[f] \in Nat
      BY Held, CountsFinite
    <3>2. Is(f \in {STDIN, STDOUT}) \in Nat
      BY DEF Is
    <3> QED
      BY <3>1, <3>2, <2>1, <1>1, <1>7, <1>12
  <2> QED
    BY <2>2 DEF FileCounts
<1>14. \A j : FilesOf(j)' = FilesOf(j)
  <2>1. \A f \in File : file'[f].refcnt > 0 <=> file[f].refcnt > 0
    <3>1. \A f \in File : file[f].refcnt \in Nat
      BY <1>1 DEF FileT
    <3> QED
      BY <3>1, <1>7, StandardNotInFlight DEF Is
  <2> QED
    BY <2>1, <1>7, <1>12 DEF FilesOf
<1>15. InodeCounts'
  <2>1. \A j \in Inode : Users(j)' = Users(j)
    BY <1>1, <1>12, <1>14 DEF Users
  <2> QED
    BY <2>1, <1>1, CountsAreNext, CountsAre DEF CountInv
<1>16. InodeUnique' /\ Loading'
  BY <1>1, <1>12, CountsAre, CountsAreNext DEF CountInv, InodeUnique
<1> QED
  BY <1>1, <1>8, <1>9, <1>10, <1>11, <1>13, <1>15, <1>16 DEF CountInv, OnlyClosePanics

\* One turn of fork()'s loop over the descriptors.
LEMMA DupStep ==
  ASSUME CountInv, NEW p \in Proc, Dup(p)
  PROVE  CountInv'
<1> PICK fd, f, np : fd = call[p].i /\ f = ofile[p][fd] /\ np = call[p].np
  OBVIOUS
<1>1. /\ file \in [File -> FileT] /\ call \in [Proc -> CallT] /\ ProcT
      /\ drift \in [File -> Nat]
      /\ call[p].pc = "dup" /\ stat[p] = "RUN" /\ halt = "no"
      /\ UNCHANGED <<inode, stat, pproc, cwd, leak, wrapped>>
  BY Types DEF CountInv, Dup, At
<1>2. /\ fd \in Fd /\ fd + 1 \in 0 .. NOFILE /\ np \in Proc /\ stat[np] = "SET"
      /\ f \in File \cup {Null}
  <2>1. fd \in 0 .. NOFILE /\ fd < NOFILE
    BY <1>1 DEF Dup, CallT
  <2>2. fd \in Fd /\ fd + 1 \in 0 .. NOFILE
    BY <2>1, FilesConstants DEF Fd
  <2>3. np \in Proc /\ stat[np] = "SET"
    BY <1>1 DEF CountInv, Children, Forking
  <2> QED
    BY <1>1, <2>2, <2>3 DEF ProcT
<1>3. /\ call' \in [Proc -> CallT]
      /\ call'[p].pc = "dup" /\ call'[p].ip = call[p].ip /\ call'[p].np = np
      /\ \A q \in Proc \ {p} : call'[q] = call[q]
  <2>1. call' = [call EXCEPT ![p].i = @ + 1]
    BY DEF Dup
  <2>2. [call[p] EXCEPT !.i = @ + 1] \in CallT
    BY <1>1, <1>2 DEF CallT
  <2> QED
    BY <2>1, <2>2, <1>1 DEF CallT
<1>4. /\ \A g : InFlight(g)' = InFlight(g)
      /\ \A i : Callers(i)' = Callers(i) /\ Loaders(i)' = Loaders(i)
      /\ \A i : CwdsTo(Proc, i)' = CwdsTo(Proc, i)
  <2>1. \A q \in Proc : call'[q].ip = call[q].ip
    BY <1>3
  <2>2. \A q \in Proc : Reading(q)' = Reading(q)
    BY <1>1, <1>3 DEF Reading
  <2>3. \A g : InFlight(g)' = InFlight(g)
    BY <1>1, <1>3, QuietCall
  <2>4. ASSUME NEW i PROVE Callers(i)' = Callers(i) /\ Loaders(i)' = Loaders(i)
    <3>1. Callers(i)' = Callers(i)
      BY <2>1 DEF Callers
    <3>2. Loaders(i)' = Loaders(i)
      BY <2>1, <2>2 DEF Loaders
    <3> QED
      BY <3>1, <3>2
  <2> QED
    BY <1>1, <2>3, <2>4, QuietCwd
<1>5. Children'
  BY <1>1, <1>3 DEF CountInv, Children, Forking
<1>6. CASE f = Null
  <2>1. UNCHANGED <<file, ofile, drift, wrapped, halt>>
    BY <1>6 DEF Dup
  <2>2. TypeOK'
    BY <1>1, <1>3, <2>1, Types, TypesNext DEF ProcT, CountInv
  <2>3. CallShape' /\ Tables' /\ Standard' /\ Shell'
    BY <1>1, <1>3, <2>1 DEF CountInv, CallShape, Tables, Standard, Shell
  <2>4. FileCounts' /\ \A j : FilesOf(j)' = FilesOf(j)
    BY <1>4, <2>1, QuietFiles DEF CountInv
  <2>5. \A j \in Inode : Users(j)' = Users(j)
    BY <1>1, <1>4, <2>4 DEF Users
  <2>6. InodeCounts' /\ InodeUnique' /\ Loading'
    BY <1>1, <1>4, <2>5, CountsAre, CountsAreNext DEF CountInv, InodeUnique
  <2> QED
    BY <1>5, <2>1, <2>2, <2>3, <2>4, <2>6 DEF CountInv, OnlyClosePanics
<1>7. CASE f # Null
  <2>1. /\ f \in File /\ InFlight(f) = {} /\ file[f].refcnt >= 1 /\ file[f].refcnt \in Nat
        /\ \A q \in Proc : call[q].pc = "fd" => call[q].f # f
    BY <1>2, <1>7, HeldNotInFlight, Held
  <2>2. /\ halt' = halt
        /\ file' = [file EXCEPT ![f].refcnt = @ + 1]
        /\ ofile' = [ofile EXCEPT ![np][fd] = f]
        /\ drift' = IF ofile[np][fd] = Null THEN drift
                    ELSE [drift EXCEPT ![ofile[np][fd]] = @ + 1]
    BY <1>7, <2>1 DEF Dup, fdup
  <2>3. /\ file' \in [File -> FileT]
        /\ file'[f].refcnt = file[f].refcnt + 1 /\ file'[f].inode = file[f].inode
        /\ \A g \in File \ {f} : file'[g] = file[g]
    BY <1>1, <2>1, <2>2 DEF FileT
  <2>4. /\ ofile' \in [Proc -> [Fd -> File \cup {Null}]]
        /\ ofile'[np][fd] = f
        /\ \A q \in Proc, d \in Fd : <<q, d>> # <<np, fd>> => ofile'[q][d] = ofile[q][d]
        /\ \A q \in Proc \ {np} : ofile'[q] = ofile[q]
    <3>1. ofile \in [Proc -> [Fd -> File \cup {Null}]]
      BY <1>1 DEF ProcT
    <3>2. [ofile[np] EXCEPT ![fd] = f] \in [Fd -> File \cup {Null}]
      BY <1>2, <3>1
    <3>3. ofile' = [ofile EXCEPT ![np] = [ofile[np] EXCEPT ![fd] = f]]
      BY <2>2, <3>1
    <3> QED
      BY <1>2, <3>1, <3>2, <3>3
  <2>5. ofile[np][fd] \in File \cup {Null}
    BY <1>1, <1>2 DEF ProcT
  <2>6. /\ drift' \in [File -> Nat]
        /\ \A g \in File : drift'[g] = drift[g] + Is(ofile[np][fd] = g)
    <3>1. CASE ofile[np][fd] = Null
      BY <3>1, <1>1, <2>2, Constants DEF Is
    <3>2. CASE ofile[np][fd] # Null
      BY <3>2, <1>1, <2>2, <2>5 DEF Is
    <3> QED
      BY <3>1, <3>2
  <2>7. TypeOK'
    BY <1>1, <1>3, <2>2, <2>3, <2>4, <2>6, Types, TypesNext DEF ProcT, CountInv
  <2>8. Standard'
    <3>1. \A g \in File : Is(ofile[np][fd] = g) \in Nat
      BY DEF Is
    <3> QED
      BY <1>1, <2>6, <3>1, Constants DEF CountInv, Standard
  <2>9. Shell'
    BY <1>1 DEF CountInv, Shell
  <2>10. CallShape' /\ Tables'
    BY <1>1, <1>2, <1>3, <2>1, <2>3, <2>4 DEF CountInv, CallShape, Tables
  <2>11. FileCounts'
    <3>1. ASSUME NEW g \in File
          PROVE  file'[g].refcnt = FdsTo(Proc, g)' + Cardinality(InFlight(g))' + drift'[g]
      <4>1. /\ file[g].refcnt = FdsTo(Proc, g) + Cardinality(InFlight(g)) + drift[g]
            /\ FdsTo(Proc, g) \in Nat /\ Cardinality(InFlight(g)) \in Nat /\ drift[g] \in Nat
        BY Held, CountsFinite
      <4>2. /\ FdsTo(Proc, g)' + Is(ofile[np][fd] = g) = FdsTo(Proc, g) + Is(ofile'[np][fd] = g)
            /\ FdsTo(Proc, g)' \in Nat
        BY <1>2, <2>4, OfileStep
      <4>3. Is(ofile'[np][fd] = g) = IF g = f THEN 1 ELSE 0
        BY <2>4 DEF Is
      <4>4. Is(ofile[np][fd] = g) \in Nat
        BY DEF Is
      <4>5. file'[g].refcnt = file[g].refcnt + IF g = f THEN 1 ELSE 0
        BY <2>3, <4>1
      <4> QED
        BY <4>1, <4>2, <4>3, <4>4, <4>5, <1>4, <2>6
    <3> QED
      BY <3>1 DEF FileCounts
  <2>12. \A j : FilesOf(j)' = FilesOf(j)
    <3>1. \A g \in File : /\ file'[g].inode = file[g].inode
                         /\ (file'[g].refcnt > 0) = (file[g].refcnt > 0)
      BY <2>1, <2>3
    <3> QED
      BY <3>1, <1>4 DEF FilesOf
  <2>13. \A j \in Inode : Users(j)' = Users(j)
    BY <1>1, <1>4, <2>12 DEF Users
  <2>14. InodeCounts' /\ InodeUnique' /\ Loading'
    BY <1>1, <1>4, <2>13, CountsAre, CountsAreNext DEF CountInv, InodeUnique
  <2> QED
    BY <1>1, <1>5, <2>2, <2>7, <2>8, <2>9, <2>10, <2>11, <2>14 DEF CountInv, OnlyClosePanics
<1> QED
  BY <1>6, <1>7

\* The child has its files and its directory.
LEMMA ForkedStep ==
  ASSUME CountInv, NEW p \in Proc, Forked(p)
  PROVE  CountInv'
<1> PICK i, np : i = cwd[p] /\ np = call[p].np
  OBVIOUS
<1>1. /\ inode \in [Inode -> InodeT] /\ call \in [Proc -> CallT] /\ ProcT
      /\ leak \in [Inode -> Nat] /\ wrapped \in BOOLEAN
      /\ call[p].pc = "dup" /\ call[p].ip = Null /\ stat[p] = "RUN"
      /\ UNCHANGED <<file, ofile, leak, drift, halt>>
  BY Types DEF CountInv, CallShape, Forked, At
<1>2. /\ i \in Inode /\ np \in Proc /\ stat[np] = "SET" /\ np # 1 /\ np # p
      /\ cwd[np] = Null
  BY <1>1 DEF CountInv, Children, Forking, Tables, Shell
<1>3. /\ Ref(i)
      /\ cwd' = [cwd EXCEPT ![np] = i] /\ pproc' = [pproc EXCEPT ![np] = p]
      /\ stat' = [stat EXCEPT ![np] = "RUN"] /\ call' = [call EXCEPT ![p] = User]
  BY DEF Forked, Return
<1>4. ~wrapped => inode[i].valid
  BY <1>2, Used
<1>5. /\ inode' \in [Inode -> InodeT] /\ wrapped' \in BOOLEAN
      /\ inode'[i].valid = inode[i].valid /\ inode'[i].num = inode[i].num
      /\ inode'[i].read = inode[i].read
      /\ ~wrapped' => ~wrapped /\ inode'[i].refcnt = inode[i].refcnt + 1
      /\ \A j \in Inode \ {i} : inode'[j] = inode[j]
  BY <1>1, <1>2, <1>3, RefIs
<1>6. /\ call' \in [Proc -> CallT] /\ call'[p] = User
      /\ \A q \in Proc \ {p} : call'[q] = call[q]
  BY <1>1, <1>3, UserT
<1>7. /\ ProcT'
      /\ cwd'[np] = i /\ \A q \in Proc \ {np} : cwd'[q] = cwd[q]
      /\ stat'[np] = "RUN" /\ \A q \in Proc \ {np} : stat'[q] = stat[q] /\ pproc'[q] = pproc[q]
  BY <1>1, <1>2, <1>3 DEF ProcT
<1>8. TypeOK'
  BY <1>1, <1>5, <1>6, <1>7, Types, TypesNext DEF CountInv
<1>9. CallShape' /\ Tables' /\ Standard'
  BY <1>1, <1>2, <1>6, <1>7, UserT DEF CountInv, CallShape, Tables, Standard
<1>10. Children'
  BY <1>1, <1>2, <1>6, <1>7, UserT DEF CountInv, Children, Forking
<1>11. Shell'
  BY <1>1, <1>2, <1>5, <1>7, Constants DEF CountInv, Shell
<1>12. \A f : InFlight(f)' = InFlight(f)
  BY <1>1, <1>6, UserT, QuietCall
<1>13. FileCounts' /\ \A j : FilesOf(j)' = FilesOf(j)
  BY <1>1, <1>12, QuietFiles DEF CountInv
<1>14. InodeCounts'
  <2>1. ASSUME NEW j \in Inode
        PROVE  Users(j)' = IF j = i THEN Users(j) + 1 ELSE Users(j)
    <3>1. /\ Cardinality(Callers(j))' + Is(call[p].ip = j)
               = Cardinality(Callers(j)) + Is(call'[p].ip = j)
          /\ Cardinality(Callers(j))' \in Nat
      BY <1>6, CallStep
    <3>2. Is(call[p].ip = j) = 0 /\ Is(call'[p].ip = j) = 0
      BY <1>1, <1>6, UserT, Constants DEF Is
    <3>3. /\ CwdsTo(Proc, j)' + Is(cwd[np] = j) = CwdsTo(Proc, j) + Is(cwd'[np] = j)
          /\ CwdsTo(Proc, j)' \in Nat
      BY <1>2, <1>7, CwdStep
    <3>4. Is(cwd[np] = j) = 0 /\ Is(cwd'[np] = j) = IF j = i THEN 1 ELSE 0
      BY <1>2, <1>7, Constants DEF Is
    <3>5. FilesOf(j)' = FilesOf(j) /\ leak'[j] = leak[j] /\ leak[j] \in Nat
      BY <1>1, <1>13
    <3> QED
      BY <3>1, <3>2, <3>3, <3>4, <3>5, CountsFinite DEF Users
  <2>2. ASSUME ~wrapped', NEW j \in Inode
        PROVE  IF inode'[j].valid THEN inode'[j].refcnt = Users(j)' ELSE Users(j)' = 0
    <3>1. /\ ~wrapped /\ inode'[i].refcnt = inode[i].refcnt + 1 /\ inode'[i].valid
          /\ \A k \in Inode \ {i} : inode'[k] = inode[k]
      BY <1>4, <1>5, <2>2
    <3>2. /\ inode[j].valid => inode[j].refcnt = Users(j)
          /\ ~inode[j].valid => Users(j) = 0
      BY <3>1, Used
    <3> QED
      BY <3>1, <3>2, <2>1, <1>4
  <2> QED
    BY <2>2, CountsAreNext
<1>15. InodeUnique'
  BY <1>2, <1>5 DEF CountInv, InodeUnique
<1>16. Loading'
  <2>1. \A j \in Inode : Cardinality(Loaders(j))' = Cardinality(Loaders(j))
    <3>1. ~Reading(p) /\ ~Reading(p)'
      BY <1>1, <1>6, UserT DEF Reading
    <3> QED
      BY <1>6, <3>1, CallStep, CountsFinite DEF Is
  <2>2. \A j \in Inode : inode'[j].valid = inode[j].valid /\ inode'[j].read = inode[j].read
    BY <1>2, <1>5
  <2> QED
    BY <2>1, <2>2, <1>5, CountsAre, CountsAreNext DEF CountInv
<1>17. OnlyClosePanics'
  BY <1>1, <1>3 DEF CountInv, OnlyClosePanics, Ref
<1> QED
  BY <1>8, <1>9, <1>10, <1>11, <1>13, <1>14, <1>15, <1>16, <1>17 DEF CountInv

(***************************************************************************)
(* pfree() of several processes.                                           *)
(***************************************************************************)
LEMMA SplitCounts ==
  ASSUME NEW Q \in SUBSET Proc
  PROVE  \A x : /\ FdsTo(Proc, x) = FdsTo(Q, x) + FdsTo(Proc \ Q, x)
               /\ CwdsTo(Proc, x) = CwdsTo(Q, x) + CwdsTo(Proc \ Q, x)
<1> TAKE x
<1>1. \A A, B : IsFiniteSet(A) /\ IsFiniteSet(B) /\ A \cap B = {} =>
        Cardinality(A \cup B) = Cardinality(A) + Cardinality(B)
  <2> SUFFICES ASSUME NEW A, NEW B, IsFiniteSet(A), IsFiniteSet(B), A \cap B = {}
               PROVE  Cardinality(A \cup B) = Cardinality(A) + Cardinality(B)
    OBVIOUS
  <2>1. Cardinality(A \cup B) = Cardinality(A) + Cardinality(B) - Cardinality(A \cap B)
    BY FS_Union
  <2>2. Cardinality(A \cap B) = 0 /\ Cardinality(A) \in Nat /\ Cardinality(B) \in Nat
    BY FS_EmptySet, FS_CardinalityType
  <2> QED
    BY <2>1, <2>2
<1>2. /\ Fds(Proc, x) = Fds(Q, x) \cup Fds(Proc \ Q, x) /\ Fds(Q, x) \cap Fds(Proc \ Q, x) = {}
  BY DEF Fds
<1>3. /\ Cwds(Proc, x) = Cwds(Q, x) \cup Cwds(Proc \ Q, x) /\ Cwds(Q, x) \cap Cwds(Proc \ Q, x) = {}
  BY DEF Cwds
<1>4. /\ IsFiniteSet(Fds(Q, x)) /\ IsFiniteSet(Fds(Proc \ Q, x))
      /\ IsFiniteSet(Cwds(Q, x)) /\ IsFiniteSet(Cwds(Proc \ Q, x))
  BY CountsFinite
<1> QED
  BY <1>1, <1>2, <1>3, <1>4, CountIs

\* pfree() of several slots takes back every reference they have.
LEMMA PfreeStep ==
  ASSUME CountInv, NEW Q \in SUBSET Proc, pfree(Q), halt = "no",
         \A q \in Q : stat[q] \in {"SET", "ZOMB"},
         call' \in [Proc -> CallT],
         \A q \in Proc : \/ call'[q] = call[q] /\ (Forking(q) => call[q].np \notin Q)
                         \/ call'[q] = User /\ Forking(q),
         UNCHANGED <<pproc, drift, wrapped>>
  PROVE  CountInv'
<1> DEFINE Gone(j) == {f \in File : file[f].inode = j /\ FdsTo(Q, f) > 0
                                                   /\ file[f].refcnt = FdsTo(Q, f)}
<1>1. /\ inode \in [Inode -> InodeT] /\ call \in [Proc -> CallT] /\ file \in [File -> FileT]
      /\ ProcT /\ leak \in [Inode -> Nat] /\ drift \in [File -> Nat]
  BY Types DEF CountInv
<1>2. \A f \in File : /\ FdsTo(Q, f) \in Nat /\ FdsTo(Proc \ Q, f) \in Nat
                     /\ Cardinality(InFlight(f)) \in Nat /\ drift[f] \in Nat
                     /\ file[f].refcnt = FdsTo(Q, f) + FdsTo(Proc \ Q, f)
                                          + Cardinality(InFlight(f)) + drift[f]
  BY Held, SplitCounts, CountsFinite
<1>3. \A j \in Inode : /\ CwdsTo(Q, j) \in Nat /\ CwdsTo(Proc \ Q, j) \in Nat
                      /\ CwdsTo(Proc, j) = CwdsTo(Q, j) + CwdsTo(Proc \ Q, j)
  BY SplitCounts, CountsFinite
<1>4. halt' = halt
  BY <1>2 DEF pfree
<1>5. /\ \A q \in Q : call'[q] = call[q] /\ call[q].pc = "user"
      /\ 1 \in Proc \ Q
      /\ \A q \in Proc : Forking(q) => call[q].ip = Null /\ call[q].pc # "fd" /\ ~Reading(q)
      /\ \A q \in Proc : call'[q].ip = call[q].ip
      /\ \A q \in Proc : call'[q].pc = "fd" \/ call[q].pc = "fd" => call'[q] = call[q]
      /\ \A q \in Proc : Reading(q)' = Reading(q)
  <2>1. \A q \in Q : call[q].pc = "user"
    BY DEF CountInv, CallShape
  <2>2. \A q \in Q : call'[q] = call[q]
    BY <2>1 DEF Forking
  <2>3. 1 \in Proc \ Q
    BY Constants DEF CountInv, Shell
  <2>4. \A q \in Proc : Forking(q) => call[q].ip = Null /\ call[q].pc # "fd" /\ ~Reading(q)
    BY DEF CountInv, CallShape, Forking, Reading
  <2> QED
    BY <2>1, <2>2, <2>3, <2>4, UserT DEF Reading
<1>6. /\ file' \in [File -> FileT]
      /\ \A f \in File : /\ file'[f].inode = file[f].inode
                         /\ file'[f].refcnt = file[f].refcnt - FdsTo(Q, f)
  <2>1. file' = [f \in File |-> [file[f] EXCEPT !.refcnt = @ - FdsTo(Q, f)]]
    BY DEF pfree
  <2>2. ASSUME NEW f \in File
        PROVE  /\ file'[f] \in FileT /\ file'[f].inode = file[f].inode
               /\ file'[f].refcnt = file[f].refcnt - FdsTo(Q, f)
    <3>1. file[f] \in FileT /\ file'[f] = [file[f] EXCEPT !.refcnt = @ - FdsTo(Q, f)]
      BY <1>1, <2>1
    <3>2. file[f].refcnt - FdsTo(Q, f) \in Nat
      BY <1>2
    <3> QED
      BY <3>1, <3>2 DEF FileT
  <2> QED
    BY <2>1, <2>2
<1>7. /\ ProcT'
      /\ \A q \in Q : /\ stat'[q] = "UNUSED" /\ cwd'[q] = Null
                      /\ \A fd \in Fd : ofile'[q][fd] = Null
      /\ \A q \in Proc \ Q : stat'[q] = stat[q] /\ cwd'[q] = cwd[q] /\ ofile'[q] = ofile[q]
  BY <1>1 DEF pfree, ProcT
<1>8. /\ leak' \in [Inode -> Nat]
      /\ \A j \in Inode : /\ IsFiniteSet(Gone(j)) /\ Cardinality(Gone(j)) \in Nat
                          /\ leak'[j] = leak[j] + Cardinality(Gone(j))
  <2>1. \A j \in Inode : IsFiniteSet(Gone(j)) /\ Cardinality(Gone(j)) \in Nat
    <3>1. \A j \in Inode : Gone(j) \subseteq File
      OBVIOUS
    <3> HIDE DEF Gone
    <3> QED
      BY <3>1, Finite, FS_Subset, FS_CardinalityType
  <2>2. leak' = [j \in Inode |-> leak[j] + Cardinality(Gone(j))]
    BY DEF pfree
  <2> HIDE DEF Gone
  <2> QED
    BY <1>1, <2>1, <2>2
<1>9. \A f : InFlight(f)' = InFlight(f)
  BY <1>5 DEF InFlight
<1>10. \A j : Callers(j)' = Callers(j) /\ Loaders(j)' = Loaders(j)
  <2> SUFFICES ASSUME NEW j PROVE Callers(j)' = Callers(j) /\ Loaders(j)' = Loaders(j)
    OBVIOUS
  <2>1. Callers(j)' = Callers(j)
    BY <1>5 DEF Callers
  <2>2. Loaders(j)' = Loaders(j)
    BY <1>5 DEF Loaders
  <2> QED
    BY <2>1, <2>2
<1>11. /\ \A f \in File : FdsTo(Proc, f)' = FdsTo(Proc \ Q, f)
       /\ \A j \in Inode : CwdsTo(Proc, j)' = CwdsTo(Proc \ Q, j)
  <2>1. ASSUME NEW f \in File PROVE FdsTo(Proc, f)' = FdsTo(Proc \ Q, f)
    <3>1. \A q \in Proc, fd \in Fd : (ofile'[q][fd] = f) = (q \notin Q /\ ofile[q][fd] = f)
      BY <1>7, Constants
    <3>2. Fds(Proc, f)' = Fds(Proc \ Q, f)
      BY <3>1 DEF Fds
    <3> QED
      BY <3>2 DEF FdsTo, Fds
  <2>2. ASSUME NEW j \in Inode PROVE CwdsTo(Proc, j)' = CwdsTo(Proc \ Q, j)
    <3>1. \A q \in Proc : (cwd'[q] = j) = (q \notin Q /\ cwd[q] = j)
      BY <1>7, Constants
    <3>2. Cwds(Proc, j)' = Cwds(Proc \ Q, j)
      BY <3>1 DEF Cwds
    <3> QED
      BY <3>2 DEF CwdsTo, Cwds
  <2> QED
    BY <2>1, <2>2
<1>12. FileCounts'
  <2>1. ASSUME NEW f \in File
        PROVE  file'[f].refcnt = FdsTo(Proc, f)' + Cardinality(InFlight(f))' + drift'[f]
    <3>1. Cardinality(InFlight(f))' = Cardinality(InFlight(f))
      BY <1>9
    <3>2. /\ FdsTo(Q, f) \in Nat /\ FdsTo(Proc \ Q, f) \in Nat
          /\ Cardinality(InFlight(f)) \in Nat /\ drift[f] \in Nat
          /\ file[f].refcnt = FdsTo(Q, f) + FdsTo(Proc \ Q, f)
                               + Cardinality(InFlight(f)) + drift[f]
      BY <1>2
    <3>3. file'[f].refcnt = file[f].refcnt - FdsTo(Q, f) /\ FdsTo(Proc, f)' = FdsTo(Proc \ Q, f)
      BY <1>6, <1>11
    <3> QED
      BY <3>1, <3>2, <3>3
  <2> QED
    BY <2>1 DEF FileCounts
<1>13. \A j \in Inode :
         Cardinality(FilesOf(j))' + leak'[j] = Cardinality(FilesOf(j)) + leak[j]
  <2> SUFFICES ASSUME NEW j \in Inode
               PROVE  Cardinality(FilesOf(j))' + leak'[j] = Cardinality(FilesOf(j)) + leak[j]
    OBVIOUS
  <2>1. ASSUME NEW f \in Gone(j) PROVE f \in FilesOf(j)
    <3>1. f \in File /\ Cardinality(InFlight(f)) = 0 /\ file[f].refcnt > 0
      BY <1>2
    <3>2. InFlight(f) = {}
      BY <3>1, ZeroCard, CountsFinite
    <3> QED
      BY <3>1, <3>2 DEF FilesOf
  <2>2. \A f \in File : f \in FilesOf(j)' <=> f \in FilesOf(j) \ Gone(j)
    <3> SUFFICES ASSUME NEW f \in File PROVE f \in FilesOf(j)' <=> f \in FilesOf(j) \ Gone(j)
      OBVIOUS
    <3>1. (file'[f].refcnt > 0) = (file[f].refcnt > FdsTo(Q, f))
      BY <1>2, <1>6
    <3>2. f \in FilesOf(j)' <=> file[f].inode = j /\ file[f].refcnt > FdsTo(Q, f) /\ InFlight(f) = {}
      BY <3>1, <1>6, <1>9 DEF FilesOf
    <3>3. f \in Gone(j) <=> file[f].inode = j /\ FdsTo(Q, f) > 0 /\ file[f].refcnt = FdsTo(Q, f)
      OBVIOUS
    <3>4. FdsTo(Q, f) \in Nat /\ file[f].refcnt \in Nat /\ FdsTo(Q, f) <= file[f].refcnt
      BY <1>2
    <3>5. f \in FilesOf(j) <=> file[f].inode = j /\ file[f].refcnt > 0 /\ InFlight(f) = {}
      BY DEF FilesOf
    <3>6. file[f].refcnt > FdsTo(Q, f)
            <=> file[f].refcnt > 0 /\ ~(FdsTo(Q, f) > 0 /\ file[f].refcnt = FdsTo(Q, f))
      BY <3>4
    <3> HIDE DEF Gone
    <3> QED
      BY <3>2, <3>3, <3>5, <3>6
  <2>3. FilesOf(j)' = FilesOf(j) \ Gone(j) /\ FilesOf(j) \cap Gone(j) = Gone(j)
    BY <2>1, <2>2 DEF FilesOf
  <2> HIDE DEF Gone
  <2>4. Cardinality(FilesOf(j)') = Cardinality(FilesOf(j)) - Cardinality(Gone(j))
    BY <2>3, CountsFinite, FS_Difference
  <2> QED
    BY <2>4, <1>1, <1>8, CountsFinite
<1>14. \A j \in Inode : /\ Users(j)' = Users(j) - CwdsTo(Q, j)
                       /\ Users(j) \in Nat /\ CwdsTo(Q, j) <= Users(j)
  <2> SUFFICES ASSUME NEW j \in Inode
               PROVE  /\ Users(j)' = Users(j) - CwdsTo(Q, j)
                      /\ Users(j) \in Nat /\ CwdsTo(Q, j) <= Users(j)
    OBVIOUS
  <2>1. Cardinality(FilesOf(j)') \in Nat
    <3>1. FilesOf(j)' \subseteq File
      BY DEF FilesOf
    <3> QED
      BY <3>1, Finite, FS_Subset, FS_CardinalityType
  <2> HIDE DEF Gone
  <2>2. leak[j] \in Nat /\ leak'[j] \in Nat
    BY <1>1, <1>8
  <2>3. Cardinality(Callers(j))' = Cardinality(Callers(j))
    BY <1>10
  <2>4. Cardinality(FilesOf(j)) \in Nat /\ Cardinality(Callers(j)) \in Nat
    BY CountsFinite
  <2>5. Cardinality(FilesOf(j))' + leak'[j] = Cardinality(FilesOf(j)) + leak[j]
    BY <1>13
  <2>6. /\ Users(j)  = CwdsTo(Proc, j) + Cardinality(FilesOf(j)) + Cardinality(Callers(j)) + leak[j]
        /\ Users(j)' = CwdsTo(Proc \ Q, j) + Cardinality(FilesOf(j))' + Cardinality(Callers(j)) + leak'[j]
    BY <2>3, <1>11 DEF Users
  <2>7. /\ CwdsTo(Q, j) \in Nat /\ CwdsTo(Proc \ Q, j) \in Nat
        /\ CwdsTo(Proc, j) = CwdsTo(Q, j) + CwdsTo(Proc \ Q, j)
    BY <1>3
  <2>8. Users(j)' = Users(j) - CwdsTo(Q, j)
    BY <2>1, <2>2, <2>4, <2>5, <2>6, <2>7
  <2>9. Users(j) \in Nat /\ CwdsTo(Q, j) <= Users(j)
    BY <2>2, <2>4, <2>6, <2>7
  <2> QED
    BY <2>8, <2>9
<1>15. \A j \in Inode : inode'[j] = Released(inode[j], CwdsTo(Q, j))
  BY DEF pfree
<1>16. ASSUME NEW j \in Inode
       PROVE  /\ inode'[j] \in InodeT
              /\ inode'[j].num = inode[j].num /\ inode'[j].read = inode[j].read
              /\ inode'[j].valid => inode[j].valid
              /\ ~wrapped => IF inode'[j].valid THEN inode'[j].refcnt = Users(j)'
                             ELSE Users(j)' = 0
  <2>1. inode[j] \in InodeT /\ inode[j].refcnt \in Nat
    BY <1>1 DEF InodeT
  <2>2. CwdsTo(Q, j) \in Nat
    BY <1>3
  <2>3. /\ inode'[j] \in InodeT
        /\ inode'[j].num = inode[j].num /\ inode'[j].read = inode[j].read
        /\ inode'[j].valid => inode[j].valid
    BY <2>1, <2>2, <1>15, ReleasedIs
  <2>4. CASE CwdsTo(Q, j) = 0
    <3>1. inode'[j] = inode[j]
      BY <2>4, <1>15 DEF Released
    <3>2. Users(j)' = Users(j) - CwdsTo(Q, j) /\ Users(j) \in Nat
      BY <1>14
    <3>3. Users(j)' = Users(j)
      BY <2>4, <3>2
    <3> QED
      BY <2>3, <3>1, <3>3, Used
  <2>5. CASE CwdsTo(Q, j) # 0
    <3>1. ~wrapped => inode[j].valid /\ inode[j].refcnt = Users(j) /\ CwdsTo(Q, j) <= inode[j].refcnt
      BY <2>2, <2>5, <1>14, Used
    <3>2. CwdsTo(Q, j) > 0
      BY <2>2, <2>5
    <3>3. ~wrapped => IF inode'[j].valid THEN inode'[j].refcnt = inode[j].refcnt - CwdsTo(Q, j)
                      ELSE inode[j].refcnt = CwdsTo(Q, j)
      BY <2>1, <2>2, <3>1, <3>2, <1>15, ReleasedIs
    <3> QED
      BY <2>1, <2>2, <2>3, <3>1, <3>3, <1>14
  <2> QED
    BY <2>4, <2>5
<1>17. TypeOK'
  <2>1. inode' \in [Inode -> InodeT]
    BY <1>16 DEF pfree
  <2> HIDE DEF Gone
  <2> QED
    BY <2>1, <1>1, <1>4, <1>6, <1>7, <1>8, Types, TypesNext DEF CountInv
<1>18. InodeCounts'
  <2> HIDE DEF Gone
  <2>1. ASSUME ~wrapped', NEW j \in Inode
        PROVE  IF inode'[j].valid THEN inode'[j].refcnt = Users(j)' ELSE Users(j)' = 0
    BY <2>1, <1>16
  <2> QED
    BY <2>1, CountsAreNext
<1>19. /\ Tables' /\ Standard'
  BY <1>7 DEF CountInv, Tables, Standard
<1>20. Shell'
  <2>1. cwd'[1] = 2 /\ stat'[1] = "RUN" /\ pproc'[1] = 0
    BY <1>5, <1>7 DEF CountInv, Shell
  <2>2. ~wrapped' => inode'[2].valid
    BY <2>1, <1>8, <1>18, RootStaysNext
  <2>3. ~wrapped' => inode'[2].num = RootDir
    BY <1>16, Constants DEF CountInv, Shell
  <2> QED
    BY <2>1, <2>2, <2>3 DEF Shell
<1>21. CallShape'
  <2>1. \A q \in Proc : call[q].pc = "fd" => file'[call[q].f].refcnt = file[call[q].f].refcnt
    <3> SUFFICES ASSUME NEW q \in Proc, call[q].pc = "fd"
                 PROVE  file'[call[q].f].refcnt = file[call[q].f].refcnt
      OBVIOUS
    <3>1. call[q].f \in File /\ FdsTo(Proc, call[q].f) = 0 /\ file[call[q].f].refcnt = 1
      BY Held DEF CountInv, CallShape
    <3>2. FdsTo(Q, call[q].f) = 0
      BY <3>1, <1>2, SplitCounts
    <3> QED
      BY <3>1, <3>2, <1>6
  <2> QED
    BY <2>1, <1>5, <1>7, UserT DEF CountInv, CallShape
<1>22. Children'
  <2>1. \A q \in Proc : Forking(q)' => Forking(q) /\ call'[q] = call[q] /\ call[q].np \notin Q
    BY UserT DEF Forking
  <2> QED
    BY <2>1, <1>7 DEF CountInv, Children
<1>23. InodeUnique'
  BY <1>16 DEF CountInv, InodeUnique
<1>24. Loading'
  <2>1. ~wrapped' => \A j \in Inode : ~inode'[j].valid => Cardinality(Loaders(j))' = 0
    BY <1>8, <1>18, UnusedNotLoadedNext
  <2> QED
    BY <2>1, <1>10, <1>16, CountsAre, CountsAreNext DEF CountInv
<1> QED
  BY <1>4, <1>12, <1>17, <1>18, <1>19, <1>20, <1>21, <1>22, <1>23, <1>24 DEF CountInv, OnlyClosePanics

\* copyuvm() fails, and fork() frees the child, or it does not.
LEMMA CopyuvmStep ==
  ASSUME CountInv, NEW p \in Proc, Copyuvm(p)
  PROVE  CountInv'
<1>1. /\ call \in [Proc -> CallT] /\ ProcT
      /\ At(p, "copyuvm") /\ Forking(p) /\ UNCHANGED <<drift, wrapped>>
  BY Types DEF CountInv, Copyuvm, At, Forking
<1>2. CASE Goto(p, "dup") /\ UNCHANGED <<file, inode, proc, leak, halt>>
  <2>1. /\ call[p] \in CallT
        /\ call' = [call EXCEPT ![p] = [call[p] EXCEPT !.pc = "dup"]]
    BY <1>1, <1>2 DEF Goto
  <2>2. [call[p] EXCEPT !.pc = "dup"] \in CallT
    BY <2>1 DEF CallT
  <2>3. call' \in [Proc -> CallT]
    BY <1>1, <2>1, <2>2
  <2>4. /\ \A q \in Proc : q # p => call'[q] = call[q]
        /\ call'[p].pc = "dup" /\ call'[p].ip = call[p].ip /\ call'[p].np = call[p].np
    BY <1>1, <2>1 DEF CallT
  <2>5. /\ UNCHANGED <<file, inode, stat, pproc, ofile, cwd, leak, drift, wrapped, halt>>
        /\ call[p].pc = "copyuvm"
    BY <1>1, <1>2 DEF At, proc
  <2>6. /\ \A f : InFlight(f)' = InFlight(f)
        /\ \A j : Callers(j)' = Callers(j) /\ Loaders(j)' = Loaders(j)
    <3>1. \A f : InFlight(f)' = InFlight(f)
      BY <2>4, <2>5 DEF InFlight
    <3>2. \A j : Callers(j)' = Callers(j)
      BY <2>4 DEF Callers
    <3>3. \A j : Loaders(j)' = Loaders(j)
      BY <2>4, <2>5 DEF Loaders, Reading
    <3> QED
      BY <3>1, <3>2, <3>3
  <2>7. /\ \A Q, f : FdsTo(Q, f)' = FdsTo(Q, f)
        /\ \A Q, j : CwdsTo(Q, j)' = CwdsTo(Q, j)
        /\ \A j : FilesOf(j)' = FilesOf(j)
    BY <2>5, <2>6 DEF FdsTo, CwdsTo, FilesOf
  <2>8. TypeOK'
    BY <1>1, <2>3, <2>5, Types, TypesNext DEF CountInv, ProcT
  <2>9. FileCounts'
    BY <2>5, <2>6, <2>7 DEF CountInv, FileCounts
  <2>10. InodeCounts' /\ Loading'
    <3>1. \A j : Users(j)' = Users(j)
      BY <2>5, <2>6, <2>7 DEF Users
    <3> QED
      BY <3>1, <2>5, <2>6, CountsAre, CountsAreNext DEF CountInv
  <2>11. CallShape'
    BY <2>4, <2>5, <1>1 DEF CountInv, CallShape, At
  <2>12. Children'
    <3>1. \A q \in Proc : Forking(q)' = Forking(q) /\ call'[q].np = call[q].np
      BY <2>4, <2>5 DEF Forking
    <3> QED
      BY <3>1, <2>5 DEF CountInv, Children
  <2>13. Tables' /\ Standard' /\ Shell' /\ InodeUnique' /\ OnlyClosePanics'
    BY <2>5 DEF CountInv, Tables, Standard, Shell, InodeUnique, OnlyClosePanics
  <2> QED
    BY <2>8, <2>9, <2>10, <2>11, <2>12, <2>13 DEF CountInv
<1>3. CASE pfree({call[p].np}) /\ Return(p) /\ UNCHANGED pproc
  <2>1. /\ call[p].np \in Proc /\ stat[call[p].np] = "SET"
        /\ \A q \in Proc : Forking(q) /\ call[q].np = call[p].np => q = p
    BY <1>1 DEF CountInv, Children
  <2>2. /\ call' \in [Proc -> CallT] /\ call'[p] = User
        /\ \A q \in Proc : q # p => call'[q] = call[q]
    BY <1>1, <1>3, UserT DEF Return
  <2>3. \A q \in Proc : \/ call'[q] = call[q] /\ (Forking(q) => call[q].np \notin {call[p].np})
                        \/ call'[q] = User /\ Forking(q)
    BY <1>1, <2>1, <2>2
  <2>4. PICK Q : Q = {call[p].np}
    OBVIOUS
  <2>5. /\ Q \in SUBSET Proc /\ pfree(Q) /\ halt = "no"
        /\ \A q \in Q : stat[q] \in {"SET", "ZOMB"}
    BY <1>1, <1>3, <2>1, <2>4 DEF At
  <2>6. \A q \in Proc : \/ call'[q] = call[q] /\ (Forking(q) => call[q].np \notin Q)
                        \/ call'[q] = User /\ Forking(q)
    BY <2>3, <2>4
  <2> QED
    BY <1>1, <1>3, <2>2, <2>5, <2>6, PfreeStep
<1> QED
  BY <1>2, <1>3 DEF Copyuvm

\* collect_zombies() frees the dead children.
LEMMA WaitStep ==
  ASSUME CountInv, NEW p \in Proc, Wait(p)
  PROVE  CountInv'
<1>1. /\ Zombies(p) \in SUBSET Proc /\ pfree(Zombies(p)) /\ halt = "no"
      /\ \A q \in Zombies(p) : stat[q] = "ZOMB"
      /\ UNCHANGED <<pproc, call, drift, wrapped>>
  BY DEF Wait, Zombies, At
<1>2. call' \in [Proc -> CallT]
  BY <1>1, Types DEF CountInv
<1>3. \A q \in Proc : Forking(q) => call[q].np \notin Zombies(p)
  BY <1>1 DEF CountInv, Children
<1> QED
  BY <1>1, <1>2, <1>3, PfreeStep

\* A step that changes nothing.
LEMMA StutterStep ==
  ASSUME CountInv, UNCHANGED vars
  PROVE  CountInv'
<1>1. UNCHANGED <<file, inode, stat, pproc, ofile, cwd, call, leak, drift, wrapped, halt>>
  BY DEF vars, proc
<1>2. \A f : InFlight(f)' = InFlight(f)
  BY <1>1 DEF InFlight
<1>3. TypeOK'
  BY <1>1 DEF CountInv, TypeOK
<1>4. CallShape' /\ Children' /\ Tables' /\ Standard' /\ Shell'
  BY <1>1 DEF CountInv, CallShape, Children, Forking, Tables, Standard, Shell
<1>5. FileCounts'
  BY <1>1, <1>2 DEF CountInv, FileCounts, FdsTo
<1>6. InodeCounts'
  BY <1>1, <1>2 DEF CountInv, InodeCounts, CwdsTo, FilesOf
<1>7. InodeUnique' /\ Loading' /\ OnlyClosePanics'
  BY <1>1 DEF CountInv, InodeUnique, Loading, OnlyClosePanics
<1> QED
  BY <1>3, <1>4, <1>5, <1>6, <1>7 DEF CountInv

(***************************************************************************)
(* The theorems.                                                           *)
(***************************************************************************)
\* Once fsinit() and uinit() are through, the counts are those of the tables.
LEMMA CountInvInit == Init => CountInv
<1> SUFFICES ASSUME Init PROVE CountInv
  OBVIOUS
<1>1. /\ \A p \in Proc : call[p] = User
      /\ \A f \in File : /\ file[f].refcnt = IF Console(f) THEN 2 ELSE 0
                         /\ file[f].inode = IF Console(f) THEN f ELSE Null
                         /\ drift[f] = IF Console(f) THEN 1 ELSE 0
      /\ \A i \in Inode : /\ inode[i].valid = (i <= 2) /\ inode[i].read = (i <= 2)
                          /\ inode[i].refcnt = IF i <= 2 THEN 1 ELSE 0
                          /\ inode[i].num = IF i = 2 THEN RootDir ELSE Device
                          /\ leak[i] = 0
      /\ \A p \in Proc : /\ cwd[p] = IF p = 1 THEN 2 ELSE Null
                         /\ stat[p] = IF p = 1 THEN "RUN" ELSE "UNUSED"
                         /\ pproc[p] = 0
                         /\ \A fd \in Fd : ofile[p][fd] = IF p = 1 /\ Console(fd) THEN fd ELSE Null
      /\ wrapped = FALSE /\ halt = "no"
  BY DEF Init
<1>2. /\ 0 \in File /\ 1 \in File /\ 0 \in Fd /\ 1 \in Fd
      /\ 0 \in Inode /\ 1 \in Inode /\ 2 \in Inode /\ 1 \in Proc
  BY FilesConstants DEF File, Fd, Inode, Proc
<1>3. Null \notin File /\ Null \notin Inode
  BY Constants DEF Null
<1>4. \A p \in Proc, fd \in Fd : ofile[p][fd] = IF p = 1 /\ Console(fd) THEN fd ELSE Null
  BY <1>1
<1>5. \A p \in Proc : cwd[p] = IF p = 1 THEN 2 ELSE Null
  BY <1>1
<1>6. \A p \in Proc : call[p] = User
  BY <1>1
<1>7. TypeOK
  <2>1. /\ inode \in [Inode -> InodeT]
    BY <1>1, Constants DEF Init, InodeT, Num
  <2>2. file \in [File -> FileT]
    BY <1>2 DEF Init, FileT, Console, STDIN, STDOUT
  <2>3. call \in [Proc -> CallT]
    BY UserT DEF Init
  <2>4. ProcT
    <3>1. ofile \in [Proc -> [Fd -> File \cup {Null}]]
      BY <1>2 DEF Init, Console, STDIN, STDOUT
    <3>2. cwd \in [Proc -> Inode \cup {Null}]
      BY <1>2 DEF Init
    <3> QED
      BY <3>1, <3>2 DEF Init, ProcT
  <2>5. leak \in [Inode -> Nat] /\ drift \in [File -> Nat] /\ wrapped = FALSE /\ halt = "no"
    BY DEF Init
  <2> QED
    BY <2>1, <2>2, <2>3, <2>4, <2>5, Types
<1>8. \A f : InFlight(f) = {}
  BY <1>6 DEF InFlight, User
<1>9. \A j \in Inode : Callers(j) = {} /\ Loaders(j) = {}
  <2>1. \A j \in Inode : Callers(j) = {}
    BY <1>3, <1>6 DEF Callers, User
  <2>2. \A j \in Inode : Loaders(j) = {}
    BY <1>1 DEF Loaders, Reading, User
  <2> QED
    BY <2>1, <2>2
<1>10. \A f \in File : FdsTo(Proc, f) = IF Console(f) THEN 1 ELSE 0
  <2> SUFFICES ASSUME NEW f \in File PROVE FdsTo(Proc, f) = IF Console(f) THEN 1 ELSE 0
    OBVIOUS
  <2>1. CASE Console(f)
    <3>1. f \in Fd
      BY <2>1, <1>2 DEF Console, STDIN, STDOUT
    <3>2. \A q \in Proc, fd \in Fd : ofile[q][fd] = f => q = 1 /\ fd = f
      BY <1>3, <1>4
    <3>3. ofile[1][f] = f
      BY <1>1, <1>2, <2>1, <3>1
    <3>4. Fds(Proc, f) = {<<1, f>>}
      <4>1. ASSUME NEW x \in Proc \X Fd, ofile[x[1]][x[2]] = f PROVE x = <<1, f>>
        <5>1. x[1] \in Proc /\ x[2] \in Fd /\ x = <<x[1], x[2]>>
          OBVIOUS
        <5> QED
          BY <4>1, <5>1, <3>2
      <4>2. <<1, f>> \in Fds(Proc, f)
        BY <3>1, <3>3, <1>2 DEF Fds
      <4> QED
        BY <4>1, <4>2 DEF Fds
    <3> QED
      BY <2>1, <3>4, FS_Singleton DEF FdsTo, Fds
  <2>2. CASE ~Console(f)
    <3>1. \A q \in Proc, fd \in Fd : ofile[q][fd] # f
      BY <2>2, <1>3, <1>4
    <3>2. Fds(Proc, f) = {}
      BY <3>1 DEF Fds
    <3> QED
      BY <2>2, <3>2, FS_EmptySet DEF FdsTo, Fds
  <2> QED
    BY <2>1, <2>2
<1>11. \A j \in Inode : CwdsTo(Proc, j) = IF j = 2 THEN 1 ELSE 0
  <2> SUFFICES ASSUME NEW j \in Inode PROVE CwdsTo(Proc, j) = IF j = 2 THEN 1 ELSE 0
    OBVIOUS
  <2>1. CASE j = 2
    <3>1. {q \in Proc : cwd[q] = j} = {1}
      BY <2>1, <1>2, <1>3, <1>5
    <3> QED
      BY <2>1, <3>1, FS_Singleton DEF CwdsTo
  <2>2. CASE j # 2
    <3>1. {q \in Proc : cwd[q] = j} = {}
      BY <2>2, <1>3, <1>5
    <3> QED
      BY <2>2, <3>1, FS_EmptySet DEF CwdsTo
  <2> QED
    BY <2>1, <2>2
<1>12. \A j \in Inode : Cardinality(FilesOf(j)) = IF Console(j) THEN 1 ELSE 0
  <2> SUFFICES ASSUME NEW j \in Inode PROVE Cardinality(FilesOf(j)) = IF Console(j) THEN 1 ELSE 0
    OBVIOUS
  <2>1. \A f \in File : f \in FilesOf(j) <=> Console(f) /\ f = j
    BY <1>1, <1>8, Constants DEF FilesOf, Null
  <2>2. CASE Console(j)
    <3>1. j \in File
      BY <2>2, <1>2 DEF Console, STDIN, STDOUT
    <3>2. FilesOf(j) = {j}
      BY <2>1, <2>2, <3>1 DEF FilesOf
    <3> QED
      BY <2>2, <3>2, FS_Singleton
  <2>3. CASE ~Console(j)
    <3>1. FilesOf(j) = {}
      BY <2>1, <2>3 DEF FilesOf
    <3> QED
      BY <2>3, <3>1, FS_EmptySet
  <2> QED
    BY <2>2, <2>3
<1>13. FileCounts
  <2>1. ASSUME NEW f \in File
        PROVE  file[f].refcnt = FdsTo(Proc, f) + Cardinality(InFlight(f)) + drift[f]
    <3>1. Cardinality(InFlight(f)) = 0
      BY <1>8, FS_EmptySet
    <3> QED
      BY <3>1, <1>1, <1>10
  <2> QED
    BY <2>1 DEF FileCounts
<1>14. \A j \in Inode : Cardinality(Callers(j)) = 0 /\ Cardinality(Loaders(j)) = 0
  BY <1>9, FS_EmptySet
<1>15. InodeCounts /\ Loading
  <2>1. ASSUME NEW j \in Inode
        PROVE  Users(j) = IF j <= 2 THEN 1 ELSE 0
    <3>1. /\ Cardinality(Callers(j)) = 0 /\ leak[j] = 0
          /\ CwdsTo(Proc, j) = IF j = 2 THEN 1 ELSE 0
          /\ Cardinality(FilesOf(j)) = IF Console(j) THEN 1 ELSE 0
      BY <1>1, <1>11, <1>12, <1>14
    <3>2. Users(j) = (IF j = 2 THEN 1 ELSE 0) + (IF j \in {0, 1} THEN 1 ELSE 0)
      BY <3>1 DEF Users, Console, STDIN, STDOUT
    <3> QED
      BY <3>2, Constants
  <2> QED
    BY <2>1, <1>1, <1>14, CountsAre
<1>16. CallShape /\ Children
  BY <1>1 DEF CallShape, Children, Forking, User
<1>17. Tables /\ Standard /\ Shell
  <2>1. Tables
    <3>1. \A q \in Proc : q # 1 => cwd[q] = Null /\ \A fd \in Fd : ofile[q][fd] = Null
      BY <1>4, <1>5
    <3>2. cwd[1] \in Inode
      BY <1>2, <1>5
    <3>3. \A q \in Proc : stat[q] = IF q = 1 THEN "RUN" ELSE "UNUSED"
      BY <1>1
    <3> QED
      BY <3>1, <3>2, <3>3 DEF Tables
  <2>2. Standard
    <3>1. \A f \in File : drift[f] = IF Console(f) THEN 1 ELSE 0
      BY <1>1
    <3> QED
      BY <3>1, <1>2 DEF Standard, Console, STDIN, STDOUT
  <2>3. Shell
    <3>1. cwd[1] = 2 /\ stat[1] = "RUN" /\ pproc[1] = 0
      BY <1>1, <1>2
    <3>2. inode[2].valid
      <4>1. inode[2].valid = (2 <= 2)
        BY <1>1, <1>2, Zenon
      <4>2. 2 <= 2
        OBVIOUS
      <4> QED
        BY <4>1, <4>2, Zenon
    <3>3. inode[2].num = RootDir
      BY <1>1, <1>2
    <3> QED
      BY <3>1, <3>2, <3>3 DEF Shell
  <2> QED
    BY <2>1, <2>2, <2>3
<1>18. InodeUnique /\ OnlyClosePanics
  BY <1>1 DEF InodeUnique, OnlyClosePanics, Device, RootDir
<1> QED
  BY <1>7, <1>13, <1>15, <1>16, <1>17, <1>18 DEF CountInv

\* Every step keeps the invariant.
LEMMA CountInvNext ==
  ASSUME CountInv, [Next]_vars
  PROVE  CountInv'
<1>1. ASSUME NEW p \in Proc, NEW op \in {"open", "execv"}, NEW num \in Target, Namei(p, op, num)
      PROVE  CountInv'
  BY <1>1, NameiStep
<1>2. ASSUME NEW p \in Proc, Dir(p) \/ Lookup(p) \/ Load(p) \/ Exec(p)
      PROVE  CountInv'
  BY <1>2, DirStep, LookupStep, LoadStep, ExecStep
<1>3. ASSUME NEW p \in Proc, Falloc(p) \/ Fdalloc(p)
      PROVE  CountInv'
  BY <1>3, FallocStep, FdallocStep
<1>4. ASSUME NEW p \in Proc, NEW fd \in 2 .. NOFILE - 1, Close(p, fd)
      PROVE  CountInv'
  BY <1>4, CloseStep
<1>5. ASSUME NEW p \in Proc, Fork(p) \/ Copyuvm(p) \/ Dup(p) \/ Forked(p)
      PROVE  CountInv'
  BY <1>5, ForkStep, CopyuvmStep, DupStep, ForkedStep
<1>6. ASSUME NEW p \in Proc, Exit(p) \/ Wait(p)
      PROVE  CountInv'
  BY <1>6, ExitStep, WaitStep
<1>7. CASE UNCHANGED vars
  BY <1>7, StutterStep
<1> QED
  BY <1>1, <1>2, <1>3, <1>4, <1>5, <1>6, <1>7 DEF Next

\* The inductive invariant holds of open(), close(), execv(), fork(), exit() and
\* wait(), however the processes take turns.
THEOREM Counted == Spec => []CountInv
<1>1. CountInv /\ [Next]_vars => CountInv'
  BY CountInvNext
<1> QED
  BY <1>1, CountInvInit, PTL DEF Spec

\* The tables of files, inodes and processes keep their types, and what leads
\* from one to another leads to an entry that exists.
THEOREM FilesTypeOK == Spec => []TypeOK
<1>1. CountInv => TypeOK
  BY DEF CountInv
<1> QED
  BY <1>1, Counted, PTL

\* falloc(), fdup() and ffree() keep the count of a file at the number of
\* descriptors that refer to it, so that falloc() takes no file that is open.
THEOREM FileCountsExact == Spec => []FileCounts
<1>1. CountInv => FileCounts
  BY DEF CountInv
<1> QED
  BY <1>1, Counted, PTL

\* Until the 16 bits of a count wrap, iget(), idup() and irelse() keep the count
\* of an inode at the number of its users, so that no inode in use leaves the
\* table.
THEOREM InodeCountsExact == Spec => []InodeCounts
<1>1. CountInv => InodeCounts
  BY DEF CountInv
<1> QED
  BY <1>1, Counted, PTL

\* iget() looks the number up and publishes the inode with interrupts off: a
\* file of the disk has one inode, however many processes look it up together.
THEOREM OneInode == Spec => []InodeUnique
<1>1. CountInv => InodeUnique
  BY DEF CountInv
<1> QED
  BY <1>1, Counted, PTL

\* Until a count wraps, the one call of iget() that published an inode reads it.
THEOREM LoadedOnce == Spec => []Loading
<1>1. CountInv => Loading
  BY DEF CountInv
<1> QED
  BY <1>1, Counted, PTL

\* Neither fdup() nor the ffree() of exit and fork meets a file whose count is
\* zero, and until the count of an inode wraps getrootdir() always finds "/":
\* only close() of a descriptor that is not open panics.
THEOREM OnlyCloseHalts == Spec => []OnlyClosePanics
<1>1. CountInv => OnlyClosePanics
  BY DEF CountInv
<1> QED
  BY <1>1, Counted, PTL
=============================================================================
