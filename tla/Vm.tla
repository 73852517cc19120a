--------------------------------- MODULE Vm ---------------------------------
(***************************************************************************)
(* The memory of mixv6: the free list (kernel/mm/kalloc.c), page           *)
(* directories and tables (kernel/mm/vm.c), and the calls that build,      *)
(* replace and free an address space: fork, execv, exit and wait.          *)
(*                                                                         *)
(* System calls run with interrupts enabled and any kalloc() may find no   *)
(* page, so a call is a step per page it asks for, and another process may *)
(* run between two steps (Switch).  What is between pushcli() and popcli() *)
(* is one step.                                                            *)
(*                                                                         *)
(* Memory is what the hardware sees: a page used as a directory or a table *)
(* is an array of N entries (NPDENT and NPTENT in the code).  Kernel       *)
(* tables map memory onto itself and are never walked by these calls;      *)
(* their entries are left out.                                             *)
(***************************************************************************)
EXTENDS Integers, FiniteSets, Sequences

CONSTANTS
  NPROC,      \* slots of proc[] without slot 0, the boot thread's, which has no memory
  NPAGE,      \* pages that kinit() puts on the free list
  PAGESIZE, N,
  KTABS,      \* page tables setupkvm() fills: one for each entry below MEMSIZE
  KERNEND, USEREND,
  Image,      \* programs: sequences of loadable segments
  Argv,       \* what execv() is called with: how many arguments, and the bytes
              \* that they and the pointers to them take on the stack
  NARGV       \* 16, room in execv()'s _argv[]

Proc == 1 .. NPROC
Page == 1 .. NPAGE
Idx  == 0 .. N - 1
Boot == 1     \* the slot of the first process

\* A program's segments are linked at or above KERNEND (usr/Makefile), and
\* MEMSIZE, where the kernel's tables end, is below it.
ASSUME VmConstants ==
  /\ NPROC \in Nat \ {0}
  /\ NPAGE \in Nat /\ PAGESIZE \in Nat \ {0} /\ N \in Nat \ {0}
  /\ KTABS \in 1 .. N - 1 /\ NPAGE >= 4 + KTABS
  /\ KERNEND % (N * PAGESIZE) = 0 /\ KERNEND \in KTABS * N * PAGESIZE .. N * N * PAGESIZE - 1
  /\ KERNEND > KTABS * N * PAGESIZE
  /\ USEREND % PAGESIZE = 0 /\ USEREND \in KERNEND + PAGESIZE .. N * N * PAGESIZE
  /\ Image \subseteq Seq([vaddr : KERNEND .. USEREND, memsz : Nat])
  /\ Argv \subseteq [argc : Nat, size : Nat] /\ NARGV \in Nat

VARIABLES
  free,             \* coremap, as a set
  mem,              \* the entries of each page used as a directory or table
  stat, pproc, kstack, pgdir, size,   \* fields of proc[]
  procp, cr3,       \* user.procp, the directory the CPU uses
  call,             \* the call a process is in, and its locals
  lost,             \* history: pages that nothing will ever free
  halt              \* a panic, or why execution is undefined

proc   == <<stat, pproc, kstack, pgdir, size>>
memory == <<free, mem, proc, procp, cr3, call, lost>>
vars   == <<memory, halt>>

\* Locals: the directory being built (pgdir, new), the one execv() replaces,
\* the page not yet mapped (mem, pa), allocuvm()'s old, its loop variable and
\* its new, the segments to load, fork()'s np.
User == [op |-> "none", pc |-> "user", new |-> 0, old |-> 0, page |-> 0,
         lo |-> 0, va |-> 0, end |-> 0, img |-> << >>, np |-> 0]

None == [pa |-> 0, u |-> FALSE]    \* an entry without PTE_P
Zero == [i \in Idx |-> None]       \* memset(page, 0, PAGESIZE)
-----------------------------------------------------------------------------
(***************************************************************************)
(* Walking and changing page tables.                                       *)
(***************************************************************************)

PDX(va) == va \div (N * PAGESIZE)
PTX(va) == (va \div PAGESIZE) % N

\* Also a mutant of PGROUNDUP.
PGROUNDDOWN(a) == (a \div PAGESIZE) * PAGESIZE

PGROUNDUP(a) == ((a + PAGESIZE - 1) \div PAGESIZE) * PAGESIZE

\* The pages of [lo, hi) that begin in it: the loops over PGROUNDUP(lo).
Pages(lo, hi) == {va \in lo .. hi - 1 : va % PAGESIZE = 0}

Table(d, va)    == mem[d][PDX(va)].pa            \* walkpgdir(), 0 if there is none
Pte(d, va)      == mem[Table(d, va)][PTX(va)]
Mapped(d, va)   == Table(d, va) # 0 /\ Pte(d, va).pa # 0
KernTables(d)   == {mem[d][i].pa : i \in 0 .. PDX(KERNEND) - 1} \ {0}
UserTables(d)   == {mem[d][i].pa : i \in PDX(KERNEND) .. N - 1} \ {0}
UserPages(d)    == {Pte(d, va).pa : va \in {w \in Pages(KERNEND, USEREND) : Mapped(d, w)}}

kalloc == CHOOSE r \in free : TRUE     \* nothing depends on a page's address

\* kfree() of the pages of S, which clears them.
kfree(S) ==
  /\ free' = free \cup S
  /\ mem'  = [g \in Page |-> IF g \in S THEN Zero ELSE mem[g]]

\* Mutant: the loop over the tables begins one entry late.
FreedLate(d) == {d} \cup UserPages(d) \cup ({mem[d][i].pa : i \in PDX(KERNEND) + 1 .. N - 1} \ {0})

\* What freevm() frees: the tables from the entry of KERNEND on, not those
\* of the kernel.
Freed(d) == {d} \cup UserPages(d) \cup UserTables(d)

\* freevm() of the directories of D, kfree() of the other pages of S.
freevm(D, S) ==
  /\ kfree(S \cup UNION {Freed(d) : d \in D})
  /\ lost' = lost \cup UNION {KernTables(d) : d \in D}

\* Mutant: the entries stay.
deallocuvmKeep(d, old, new, S) ==
  /\ kfree({Pte(d, va).pa : va \in {w \in Pages(new, old) : Mapped(d, w)}} \cup S)
  /\ UNCHANGED lost

\* deallocuvm(d, old, new), and kfree() of the other pages of S.
deallocuvm(d, old, new, S) ==
  LET gone == {va \in Pages(new, old) : Mapped(d, va)}
      G    == {Pte(d, va).pa : va \in gone} \cup S
  IN /\ free' = free \cup G
     /\ mem'  = [g \in Page |->
          IF g \in G THEN Zero
          ELSE [i \in Idx |-> IF \E va \in gone : g = Table(d, va) /\ i = PTX(va)
                              THEN None ELSE mem[g][i]]]
     /\ UNCHANGED lost
-----------------------------------------------------------------------------
(***************************************************************************)
(* Scheduling.                                                             *)
(***************************************************************************)

Running(p) == procp = p /\ stat[p] = "RUN"
At(p, pc)  == Running(p) /\ call[p].pc = pc
Goto(p, pc) == call' = [call EXCEPT ![p].pc = pc]
Return(p)   == call' = [call EXCEPT ![p] = User]

\* sched(), from the timer, a sleep or an exit: to a process that can run,
\* or, from a zombie, to a sleeping one (Sched has how it is chosen).
Switch(q) ==
  /\ q # procp
  /\ \/ stat[q] = "RUN"
     \/ stat[procp] = "ZOMB" /\ stat[q] = "SLEEP" /\ \A r \in Proc : stat[r] # "RUN"
  /\ procp' = q
  /\ cr3'   = pgdir[q]        \* switchuvm()
  /\ UNCHANGED <<free, mem, proc, call, lost>>
-----------------------------------------------------------------------------
(***************************************************************************)
(* Building an address space: setupkvm(), then a page at a time.           *)
(***************************************************************************)

\* setupkvm(): the directory.
NewDir(p) ==
  /\ At(p, "dir")
  /\ IF free = {}
     THEN Goto(p, "bad") /\ UNCHANGED <<free, mem>>
     ELSE /\ free' = free \ {kalloc}
          /\ mem'  = [mem EXCEPT ![kalloc] = Zero]
          /\ call' = [call EXCEPT ![p].new = kalloc, ![p].pc = "ktab"]
  /\ UNCHANGED <<proc, procp, cr3, lost>>

\* The first page of what follows setupkvm(): copyuvm()'s loop or execv()'s.
AfterSetup(p) ==
  IF call[p].op = "fork"
  THEN [pc |-> "page", end |-> KERNEND + size[p]]
  ELSE [pc |-> "seg", end |-> KERNEND]

\* mappages() of the kernel: the next table that walkpgdir() has to add.
NewKernTable(p) ==
  /\ At(p, "ktab")
  /\ LET d == call[p].new
         i == Cardinality(KernTables(d))
     IN IF free = {}
        THEN Goto(p, "bad") /\ UNCHANGED <<free, mem>>
        ELSE /\ free' = free \ {kalloc}
             /\ mem'  = [mem EXCEPT ![kalloc] = Zero, ![d][i] = [pa |-> kalloc, u |-> TRUE]]
             /\ call' = IF i + 1 < KTABS THEN call
                        ELSE [call EXCEPT ![p].pc = AfterSetup(p).pc, ![p].lo = KERNEND,
                                          ![p].va = KERNEND, ![p].end = AfterSetup(p).end]
  /\ UNCHANGED <<proc, procp, cr3, lost>>

\* allocuvm() undoes what it did; copyuvm() leaves that to freevm().
Undo(p, S) ==
  /\ IF call[p].op = "fork"
     THEN kfree(S) /\ UNCHANGED lost
     ELSE deallocuvm(call[p].new, call[p].end, call[p].lo, S)
  /\ call' = [call EXCEPT ![p].pc = "bad", ![p].page = 0]

\* The loop of copyuvm() and of allocuvm(): kalloc().
GetPage(p) ==
  /\ At(p, "page") /\ call[p].va < call[p].end
  /\ IF free = {}
     THEN Undo(p, {})
     ELSE /\ free' = free \ {kalloc}
          /\ mem'  = [mem EXCEPT ![kalloc] = Zero]
          /\ call' = [call EXCEPT ![p].page = kalloc, ![p].pc = "map"]
          /\ UNCHANGED lost
  /\ UNCHANGED <<proc, procp, cr3>>

\* Mutant: copyuvm() maps every page as allocuvm() does.
FlagsAll(p) == TRUE

\* PTE_U: copied by copyuvm(), set by allocuvm().
Flags(p) == call[p].op = "fork" => Pte(pgdir[p], call[p].va).u

\* mappages() of that page.
MapPage(p) ==
  /\ At(p, "map")
  /\ LET d  == call[p].new
         va == call[p].va
         t  == Table(d, va)
         e  == [pa |-> call[p].page, u |-> Flags(p)]
     IN IF t = 0 /\ free = {}
        THEN Undo(p, {call[p].page})
        ELSE /\ IF t # 0
                THEN mem' = [mem EXCEPT ![t][PTX(va)] = e] /\ UNCHANGED free
                ELSE /\ mem'  = [mem EXCEPT ![kalloc] = [Zero EXCEPT ![PTX(va)] = e],
                                            ![d][PDX(va)] = [pa |-> kalloc, u |-> TRUE]]
                     /\ free' = free \ {kalloc}
             /\ call' = [call EXCEPT ![p].page = 0, ![p].va = va + PAGESIZE, ![p].pc = "page"]
             /\ UNCHANGED lost
  /\ UNCHANGED <<proc, procp, cr3>>
-----------------------------------------------------------------------------
(***************************************************************************)
(* Freeing a process.                                                      *)
(***************************************************************************)

Kstacks(Q)  == {kstack[q] : q \in Q} \ {0}
Pgdirs(Q)   == {pgdir[q] : q \in Q} \ {0}

\* Mutant: the kernel stack stays.
pfreeKeep(Q) ==
  /\ freevm(Pgdirs(Q), {})
  /\ stat'   = [q \in Proc |-> IF q \in Q THEN "UNUSED" ELSE stat[q]]
  /\ pgdir'  = [q \in Proc |-> IF q \in Q THEN 0 ELSE pgdir[q]]
  /\ kstack' = [q \in Proc |-> IF q \in Q THEN 0 ELSE kstack[q]]

\* pfree() of the slots of Q.
pfree(Q) ==
  /\ freevm(Pgdirs(Q), Kstacks(Q))
  /\ stat'   = [q \in Proc |-> IF q \in Q THEN "UNUSED" ELSE stat[q]]
  /\ pgdir'  = [q \in Proc |-> IF q \in Q THEN 0 ELSE pgdir[q]]
  /\ kstack' = [q \in Proc |-> IF q \in Q THEN 0 ELSE kstack[q]]

\* The end of a call that fails: "bad:" of setupkvm(), copyuvm() and execv(),
\* which free the new directory, then that of fork(), which frees the child.
Bad(p) ==
  /\ At(p, "bad")
  /\ freevm({call[p].new} \ {0}, {})
  /\ IF call[p].op = "fork"
     THEN call' = [call EXCEPT ![p].pc = "unfork", ![p].new = 0]
     ELSE Return(p)
  /\ UNCHANGED <<proc, procp, cr3>>

Unfork(p) ==
  /\ At(p, "unfork")
  /\ pfree({call[p].np})
  /\ Return(p)
  /\ UNCHANGED <<pproc, size, procp, cr3>>
-----------------------------------------------------------------------------
(***************************************************************************)
(* fork(), exit(), wait()                                                  *)
(***************************************************************************)

Unused == {q \in Proc : stat[q] = "UNUSED"}

\* Mutant: a process without memory may be chosen to run.
NewStatRun == "RUN"

NewStat == "SET"

\* palloc(): the first unused slot and a kernel stack.  When there is none
\* fork() returns -1 and nothing has changed.
Fork(p) ==
  /\ At(p, "user")
  /\ Unused # {} /\ free # {}
  /\ LET np == CHOOSE q \in Unused : \A r \in Unused : q <= r
     IN /\ stat'   = [stat EXCEPT ![np] = NewStat]
        /\ kstack' = [kstack EXCEPT ![np] = kalloc]
        /\ pproc'  = [pproc EXCEPT ![np] = 0]
        /\ size'   = [size EXCEPT ![np] = 0]
        /\ call'   = [call EXCEPT ![p] = [User EXCEPT !.op = "fork", !.pc = "dir", !.np = np],
                                  ![np] = User]
  /\ free' = free \ {kalloc}
  /\ UNCHANGED <<mem, pgdir, procp, cr3, lost>>

\* copyuvm() has returned: the child's fields, and RUN.
Forked(p) ==
  /\ At(p, "page") /\ call[p].op = "fork" /\ call[p].va >= call[p].end
  /\ LET np == call[p].np
     IN /\ pgdir' = [pgdir EXCEPT ![np] = call[p].new]
        /\ size'  = [size EXCEPT ![np] = size[p]]
        /\ pproc' = [pproc EXCEPT ![np] = p]
        /\ stat'  = [stat EXCEPT ![np] = "RUN"]
  /\ Return(p)
  /\ UNCHANGED <<free, mem, kstack, procp, cr3, lost>>

\* The first process, the shell, does not exit.
Exit(p) ==
  /\ At(p, "user") /\ pproc[p] # 0
  /\ stat' = [stat EXCEPT ![p] = "ZOMB",
                          ![pproc[p]] = IF @ = "SLEEP" THEN "RUN" ELSE @]
  /\ UNCHANGED <<free, mem, pproc, kstack, pgdir, size, procp, cr3, call, lost>>

Wait(p) ==
  /\ At(p, "user")
  /\ stat' = [stat EXCEPT ![p] = "SLEEP"]
  /\ Goto(p, "wait")
  /\ UNCHANGED <<free, mem, pproc, kstack, pgdir, size, procp, cr3, lost>>

\* A child's exit() has ended the sleep: collect_zombies().
Collect(p) ==
  /\ At(p, "wait")
  /\ pfree({q \in Proc : pproc[q] = p /\ stat[q] = "ZOMB"})
  /\ Return(p)
  /\ UNCHANGED <<pproc, size, procp, cr3>>
-----------------------------------------------------------------------------
(***************************************************************************)
(* execv()                                                                 *)
(***************************************************************************)

\* The file is there and has the ELF magic; otherwise nothing happens here.
Execv(p, img) ==
  /\ At(p, "user")
  /\ call' = [call EXCEPT ![p] = [User EXCEPT !.op = "execv", !.pc = "dir", !.img = img]]
  /\ UNCHANGED <<free, mem, proc, procp, cr3, lost>>

\* allocuvm(pgdir, old, new) begins; after is where execv() goes when there
\* is nothing to do.
allocuvm(p, old, new, after) ==
  call' = IF new >= USEREND THEN [call EXCEPT ![p].pc = "bad"]
          ELSE IF new < old THEN [call EXCEPT ![p].pc = after]
          ELSE [call EXCEPT ![p].pc = "page", ![p].lo = old,
                            ![p].va = PGROUNDUP(old), ![p].end = new]

\* A program header: unreadable or nonsense, or room for it, or, after the
\* last, ustack().
Segment(p) ==
  /\ At(p, "seg")
  /\ LET img == call[p].img
         va  == PGROUNDUP(call[p].lo)
     IN \/ img # << >> /\ Goto(p, "bad")
        \/ img # << >> /\ allocuvm(p, call[p].lo, img[1].vaddr + img[1].memsz, "load")
        \/ img = << >> /\ allocuvm(p, va, va + 2 * PAGESIZE, "bad")
  /\ UNCHANGED <<free, mem, proc, procp, cr3, lost>>

\* allocuvm() returns what becomes execv()'s va, kept in lo.  After the
\* stack, ustack() clears PTE_U of the lower page.
Grown(p) ==
  /\ At(p, "page") /\ call[p].op = "execv" /\ call[p].va >= call[p].end
  /\ IF call[p].img # << >>
     THEN /\ call' = [call EXCEPT ![p].pc = "load", ![p].lo = call[p].end]
          /\ UNCHANGED mem
     ELSE /\ call' = [call EXCEPT ![p].pc = "commit", ![p].lo = call[p].end]
          /\ mem' = [mem EXCEPT ![Table(call[p].new, call[p].lo)][PTX(call[p].lo)].u = FALSE]
  /\ UNCHANGED <<free, proc, procp, cr3, lost>>

\* loaduvm() and copyout() of a segment, or a bad address, or a short read.
Load(p) ==
  /\ At(p, "load")
  /\ \/ Goto(p, "bad")
     \/ /\ call[p].img[1].vaddr % PAGESIZE = 0
        /\ call' = [call EXCEPT ![p].pc = "seg", ![p].img = Tail(@)]
  /\ UNCHANGED <<free, mem, proc, procp, cr3, lost>>

\* copyout() of the arguments finds its pages from the top of the stack down to
\* where they begin.  Nothing bounds that: below the stack it finds the guard
\* page and the program, and below KERNEND no page.
Fits(p, a) ==
  LET sp == call[p].lo - a.size
  IN /\ sp >= KERNEND
     /\ \A va \in Pages(PGROUNDDOWN(sp), call[p].lo) : Mapped(call[p].new, va)

\* The arguments are copied: the new directory replaces the old.
Commit(p) ==
  /\ At(p, "commit")
  /\ \E a \in Argv : a.argc <= NARGV /\ Fits(p, a)
  /\ pgdir' = [pgdir EXCEPT ![p] = call[p].new]
  /\ call'  = [call EXCEPT ![p].new = 0, ![p].old = pgdir[p], ![p].pc = "switch"]
  /\ UNCHANGED <<free, mem, stat, pproc, kstack, size, procp, cr3, lost>>

\* There are too many: copyout() panics, or _argv[] is written past its end.
TooManyArgs(p) ==
  /\ At(p, "commit")
  /\ \E a \in Argv : \/ ~Fits(p, a) /\ halt' = "copyout"
                     \/ a.argc > NARGV /\ halt' = "wild _argv"
  /\ UNCHANGED memory

\* Mutant: the CPU stays on the old directory.
switchuvmLate(p) == cr3

switchuvm(p) == pgdir[p]

LoadCr3(p) ==
  /\ At(p, "switch")
  /\ cr3' = switchuvm(p)
  /\ Goto(p, "freeold")
  /\ UNCHANGED <<free, mem, proc, procp, lost>>

\* Mutant: the size before ustack().
NewSizeEarly(p) == call[p].lo - 2 * PAGESIZE - KERNEND

NewSize(p) == call[p].lo - KERNEND

\* freevm(oldpgdir), and the size of the new program.
FreeOld(p) ==
  /\ At(p, "freeold")
  /\ freevm({call[p].old}, {})
  /\ size' = [size EXCEPT ![p] = NewSize(p)]
  /\ Return(p)
  /\ UNCHANGED <<stat, pproc, kstack, pgdir, procp, cr3>>
-----------------------------------------------------------------------------
\* What uinit() leaves: one process, one page of initcode at KERNEND.
Init ==
  LET utab == 3 + KTABS
      top  == 4 + KTABS
  IN /\ free = Page \ 1 .. top
     /\ mem = [g \in Page |->
          [i \in Idx |->
             IF g = 2 /\ i < KTABS THEN [pa |-> 3 + i, u |-> TRUE]
             ELSE IF g = 2 /\ i = PDX(KERNEND) THEN [pa |-> utab, u |-> TRUE]
             ELSE IF g = utab /\ i = 0 THEN [pa |-> top, u |-> TRUE]
             ELSE None]]
     /\ stat   = [p \in Proc |-> IF p = Boot THEN "RUN" ELSE "UNUSED"]
     /\ pproc  = [p \in Proc |-> 0]
     /\ kstack = [p \in Proc |-> IF p = Boot THEN 1 ELSE 0]
     /\ pgdir  = [p \in Proc |-> IF p = Boot THEN 2 ELSE 0]
     /\ size   = [p \in Proc |-> IF p = Boot THEN 1 ELSE 0]
     /\ procp = Boot /\ cr3 = 2
     /\ call = [p \in Proc |-> User]
     /\ lost = {} /\ halt = "no"

Build(p) == NewDir(p) \/ NewKernTable(p) \/ GetPage(p) \/ MapPage(p)
Process(p) == Fork(p) \/ Forked(p) \/ Exit(p) \/ Wait(p) \/ Collect(p) \/ Bad(p) \/ Unfork(p)
Exec(p) == \/ \E img \in Image : Execv(p, img)
           \/ Segment(p) \/ Grown(p) \/ Load(p) \/ Commit(p) \/ LoadCr3(p) \/ FreeOld(p)

Next ==
  /\ halt = "no"
  /\ \/ UNCHANGED halt /\ \E p \in Proc : Build(p) \/ Process(p) \/ Exec(p) \/ Switch(p)
     \/ \E p \in Proc : TooManyArgs(p)

Spec == Init /\ [][Next]_vars
-----------------------------------------------------------------------------
(***************************************************************************)
(* Properties.                                                             *)
(***************************************************************************)

Call == [op : {"none", "fork", "execv"},
         pc : {"user", "wait", "dir", "ktab", "page", "map", "seg", "load", "commit",
               "switch", "freeold", "bad", "unfork"},
         new : Page \cup {0}, old : Page \cup {0}, page : Page \cup {0},
         lo : Nat, va : Nat, end : Nat, img : Seq([vaddr : Nat, memsz : Nat]), np : Proc \cup {0}]

Types ==
  /\ free \subseteq Page /\ lost \subseteq Page
  /\ mem \in [Page -> [Idx -> [pa : Page \cup {0}, u : BOOLEAN]]]
  /\ stat \in [Proc -> {"UNUSED", "SET", "RUN", "SLEEP", "ZOMB"}]
  /\ pproc \in [Proc -> Proc \cup {0}]
  /\ kstack \in [Proc -> Page \cup {0}] /\ pgdir \in [Proc -> Page \cup {0}]
  /\ size \in [Proc -> Nat]
  /\ procp \in Proc /\ cr3 \in Page
  /\ call \in [Proc -> Call]

\* The types of the process table, of the page tables and of each call's locals.
TypeOK == Types /\ halt \in {"no", "copyout", "wild _argv"}

\* What hangs on a directory.  Nothing hangs on the null pointer.
Tree(d) ==
  LET T == {mem[d][i].pa : i \in Idx} \ {0}
  IN IF d = 0 THEN {} ELSE {d} \cup T \cup ({mem[t][i].pa : t \in T, i \in Idx} \ {0})

\* Pages held by a process: its stack and address space, and what the call it
\* is in has allocated.
Held(p) == ({kstack[p], call[p].page} \ {0})
             \cup Tree(pgdir[p]) \cup Tree(call[p].new) \cup Tree(call[p].old)

\* Every reference to a page: an entry of a table or directory, or a variable.
Refs ==
  {<<"entry", g, mem[g[1]][g[2]].pa>> : g \in {h \in Page \X Idx : mem[h[1]][h[2]].pa # 0}}
    \cup {r \in {<<"kstack", p, kstack[p]>> : p \in Proc} \cup {<<"pgdir", p, pgdir[p]>> : p \in Proc}
            \cup {<<"new", p, call[p].new>> : p \in Proc} \cup {<<"old", p, call[p].old>> : p \in Proc}
            \cup {<<"page", p, call[p].page>> : p \in Proc} : r[3] # 0}

\* A page has one use: no two page tables, stacks or calls refer to it, and
\* none refers to a page of the free list, whatever allocation failed and
\* whoever ran in between (kalloc.c:26-53, vm.c:143-149, 155-182, 261-273).
OneUse ==
  LET T == {r[3] : r \in Refs}
  IN T \cap (free \cup lost) = {} /\ Cardinality(T) = Cardinality(Refs)

\* No page gets lost but the kernel's page tables of a directory that
\* freevm() freed, which it does not look at (vm.c:267): every other page is
\* free or held.
Conserved == Page \ (free \cup lost) = UNION {Held(p) : p \in Proc}

\* A process in user mode has every page of [KERNEND, KERNEND + size), and no
\* other: what copyuvm() relies on, and what an execv() that failed half way
\* has to leave (vm.c:124-131, execv.c:102-118).
ImageWhole ==
  \A p \in Proc : pgdir[p] # 0 /\ call[p].old = 0 =>
    {va \in Pages(KERNEND, USEREND) : Mapped(pgdir[p], va)}
       = Pages(KERNEND, KERNEND + size[p])

\* The page below the stack, and no other, is out of reach for the program;
\* fork() hands this on (vm.c:249-259, 133-137).
GuardPage ==
  \A p \in Proc : pgdir[p] # 0 /\ call[p].old = 0 /\ size[p] >= 2 * PAGESIZE =>
    {va \in Pages(KERNEND, KERNEND + size[p]) : ~Pte(pgdir[p], va).u}
       = {KERNEND + size[p] - 2 * PAGESIZE}

\* The CPU runs on a directory that is the running process's and still has
\* the kernel in it: nobody has freed it (execv.c:104-105, proc.c:232).
Cr3Live ==
  /\ cr3 \in {pgdir[procp], call[procp].old} \ free
  /\ Cardinality(KernTables(cr3)) = KTABS

\* One panic of vm.c is reached, that of copyout() for arguments that take more
\* than the stack, the guard page and the program together.  The others are
\* not: copyuvm() finds the parent's page, mappages() no page, loaduvm() and
\* copyout() every page of the segments and from KERNEND to the top of the
\* stack, and switchuvm() a stack and a directory.
OnlyArgsPanic ==
  \A p \in Proc :
    LET c == call[p] IN
    /\ c.op = "fork" /\ c.pc \in {"page", "map"} /\ c.va < c.end => Mapped(pgdir[p], c.va)
    /\ c.pc = "map" => ~Mapped(c.new, c.va)
    /\ c.pc = "load" => \A va \in Pages(c.img[1].vaddr, c.img[1].vaddr + c.img[1].memsz) :
                          Mapped(c.new, va)
    /\ c.pc = "commit" => \A va \in Pages(KERNEND, c.lo) : Mapped(c.new, va)
    /\ stat[p] \in {"RUN", "SLEEP"} => kstack[p] # 0 /\ pgdir[p] # 0

Ledger == INSTANCE PageLedger WITH
  Waste <- KTABS,
  held  <- UNION {{<<p, x>> : x \in Held(p)} : p \in Proc}

\* Fork, execv, exit and wait, taken apart at every allocation, keep the
\* ledger: a page that a process holds stays its own whatever the others do,
\* a call that fails returns what it took, and a reaped process leaves
\* nothing but the tables that freevm() forgets.
LedgerSpec == Ledger!Spec
=============================================================================
