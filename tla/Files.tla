------------------------------- MODULE Files -------------------------------
(***************************************************************************)
(* The tables of open files and of inodes in mixv6 (fs/file.c,             *)
(* fs/inode.c) and the calls that count references to their entries: open, *)
(* close, execv, fork, exit, wait.                                         *)
(*                                                                         *)
(* What is between pushcli() and popcli() is one step; any process that    *)
(* can run may take the next (Sched has how it is chosen).                 *)
(***************************************************************************)
EXTENDS Integers, FiniteSets

CONSTANTS
  NPROC, NFILE, NINODE, NOFILE,
  RefMod,        \* 65536: inode.refcnt is a uint16_t
  Inum,          \* i-numbers of files on the disk
  MaxLeak,       \* bound on the references to an inode that get lost
  MaxFork        \* bound on the forks, each of which loses one to STDIN and STDOUT

Proc  == 1 .. NPROC
File  == 0 .. NFILE - 1
Inode == 0 .. NINODE - 1
Fd    == 0 .. NOFILE - 1
Null  == -1                  \* the null pointer, into any table

STDIN   == 0
STDOUT  == 1
RootDir == 1                 \* sysfs.rootdir
Device  == 0                 \* num of the inodes that ialloc() made

\* What a path leads to: a file, the root directory ("/"), nothing, or, for the
\* empty name, an unused entry of the directory, whose i-number is 0.
Target == Inum \cup {RootDir, Null, 0}

ASSUME FilesConstants ==
  /\ NPROC \in Nat \ {0} /\ NFILE \in Nat /\ NFILE >= 2
  /\ NINODE \in Nat /\ NINODE >= 3 /\ NOFILE \in Nat /\ NOFILE >= 2
  /\ RefMod \in Nat /\ RefMod >= 2
  /\ IsFiniteSet(Inum) /\ Inum \cap {-1, 0, 1} = {}
  /\ MaxLeak \in Nat /\ MaxFork \in Nat

VARIABLES
  file,                     \* file[]: refcnt, inode
  inode,                    \* inode[]: valid, num, refcnt, and whether it is read
  stat, pproc, ofile, cwd,  \* fields of proc[]
  call,                     \* the call a process is in, and its locals
  leak, drift,              \* history: references to inodes, files, nobody has
  wrapped,                  \* history: the count of an inode has wrapped
  halt

proc == <<stat, pproc, ofile, cwd>>
vars == <<file, inode, proc, call, leak, drift, wrapped, halt>>

\* Locals: the path, the inode and the file found, fork()'s np and i.
User == [op |-> "none", pc |-> "user", num |-> Null, ip |-> Null, f |-> Null,
         np |-> 0, i |-> 0]

At(p, pc)     == halt = "no" /\ stat[p] = "RUN" /\ call[p].pc = pc
Goto(p, pc)   == call' = [call EXCEPT ![p].pc = pc]
Return(p)     == call' = [call EXCEPT ![p] = User]

\* The first of the entries in S, or the null pointer.
First(S) == IF S = {} THEN Null ELSE CHOOSE x \in S : \A y \in S : x <= y
-----------------------------------------------------------------------------
(***************************************************************************)
(* Inodes.                                                                 *)
(***************************************************************************)

\* Mutants: an inode that is not read yet is passed over; or is free.
InTableRead(num) ==
  First({i \in Inode : inode[i].valid /\ inode[i].read /\ inode[i].num = num})
FreeInodeUnread == First({i \in Inode : ~inode[i].valid \/ ~inode[i].read})

InTable(num) == First({i \in Inode : inode[i].valid /\ inode[i].num = num})
FreeInode    == First({i \in Inode : ~inode[i].valid})

\* One reference more to i.
Ref(i) ==
  /\ inode' = [inode EXCEPT ![i].refcnt = (@ + 1) % RefMod]
  /\ wrapped' = (wrapped \/ inode[i].refcnt + 1 = RefMod)

\* iget(num) as far as popcli(), by p whose locals are c.  An inode taken from
\* the table may not be read yet; one that is new is published and then read,
\* at program point load.  With a full table the result is null.
iget(p, num, c, hit, load, full) ==
  LET i == InTable(num)
      n == FreeInode
  IN IF i # Null
     THEN /\ Ref(i)
          /\ call'  = [call EXCEPT ![p] = [c EXCEPT !.pc = hit, !.ip = i]]
          /\ UNCHANGED halt
     ELSE IF n # Null
     THEN /\ inode' = [inode EXCEPT ![n] = [valid |-> TRUE, num |-> num, refcnt |-> 1, read |-> FALSE]]
          /\ call'  = [call EXCEPT ![p] = [c EXCEPT !.pc = load, !.ip = n]]
          /\ UNCHANGED <<wrapped, halt>>
     ELSE full /\ UNCHANGED <<inode, wrapped>>

\* k calls of irelse(ip) for the inode r: a count of one, or of zero after a
\* wrap, stays and the inode leaves the table.
Released(r, k) ==
  IF k = 0 THEN r
  ELSE IF r.refcnt > k THEN [r EXCEPT !.refcnt = @ - k]
  ELSE [r EXCEPT !.refcnt = IF @ = 0 THEN 0 ELSE 1, !.valid = FALSE]

\* Mutant: a second release.
irelseTwice(i) == inode' = [inode EXCEPT ![i] = Released(@, 2)]

irelse(i) == inode' = [inode EXCEPT ![i] = Released(@, 1)]

\* A reference to i that no call will release.
Leak(i) == leak' = [leak EXCEPT ![i] = @ + 1]
-----------------------------------------------------------------------------
(***************************************************************************)
(* namei(), for open() and execv().                                        *)
(***************************************************************************)

Bounded == Cardinality({x \in Inode \X (1 .. MaxLeak) : x[2] <= leak[x[1]]}) < MaxLeak

\* getrootdir().
Namei(p, op, num) ==
  /\ At(p, "user") /\ Bounded
  /\ iget(p, RootDir, [User EXCEPT !.op = op, !.num = num],
          IF num = RootDir THEN "found" ELSE "dir", "loadroot",
          halt' = "no rootdir" /\ UNCHANGED call)
  /\ UNCHANGED <<file, proc, leak, drift>>

\* The directory's block is read, its inode released.
Dir(p) ==
  /\ At(p, "dir")
  /\ irelse(call[p].ip)
  /\ call' = [call EXCEPT ![p].ip = Null, ![p].pc = "lookup"]
  /\ UNCHANGED <<file, proc, leak, drift, wrapped, halt>>

\* dirlookup().
Lookup(p) ==
  /\ At(p, "lookup")
  /\ IF call[p].num = Null
     THEN Return(p) /\ UNCHANGED <<inode, wrapped, halt>>
     ELSE iget(p, call[p].num, call[p], "found", "load", Return(p) /\ UNCHANGED halt)
  /\ UNCHANGED <<file, proc, leak, drift>>

\* The rest of iget(): the inode's sector is copied.
Load(p) ==
  /\ At(p, "load") \/ At(p, "loadroot")
  /\ inode' = [inode EXCEPT ![call[p].ip].read = TRUE]
  /\ Goto(p, IF call[p].pc = "load" \/ call[p].num = RootDir THEN "found" ELSE "dir")
  /\ UNCHANGED <<file, proc, leak, drift, wrapped, halt>>

\* execv() returns, or fails, and does not release the inode.
Exec(p) ==
  /\ At(p, "found") /\ call[p].op = "execv"
  /\ Leak(call[p].ip)
  /\ Return(p)
  /\ UNCHANGED <<file, inode, proc, drift, wrapped, halt>>
-----------------------------------------------------------------------------
(***************************************************************************)
(* open() and close().                                                     *)
(***************************************************************************)

\* Mutants: an entry whose count is one will do; the end of the table is not seen.
FreeFileLow  == First({f \in File : file[f].refcnt <= 1})
FreeFilePast == LET f == First({g \in File : file[g].refcnt = 0})
                IN IF f = Null THEN NFILE ELSE f

FreeFile == First({f \in File : file[f].refcnt = 0})

\* falloc().  Without a file, open() returns, and the inode stays.
Falloc(p) ==
  /\ At(p, "found") /\ call[p].op = "open"
  /\ LET f == FreeFile
     IN IF f = Null
        THEN Leak(call[p].ip) /\ Return(p) /\ UNCHANGED file
        ELSE /\ file' = [file EXCEPT ![f].refcnt = 1]
             /\ call' = [call EXCEPT ![p].f = f, ![p].pc = "fd"]
             /\ UNCHANGED leak
  /\ UNCHANGED <<inode, proc, drift, wrapped, halt>>

FreeFd(p) == First({fd \in Fd : ofile[p][fd] = Null})

\* fdalloc(); without a descriptor ffree() of the file.
Fdalloc(p) ==
  /\ At(p, "fd")
  /\ LET fd == FreeFd(p)
         f  == call[p].f
     IN IF fd = Null
        THEN /\ file' = [file EXCEPT ![f].refcnt = @ - 1]
             /\ Leak(call[p].ip)
             /\ UNCHANGED ofile
        ELSE /\ file'  = [file EXCEPT ![f].inode = call[p].ip]
             /\ ofile' = [ofile EXCEPT ![p][fd] = f]
             /\ UNCHANGED leak
  /\ Return(p)
  /\ UNCHANGED <<inode, stat, pproc, cwd, drift, wrapped, halt>>

\* close() of a descriptor that is not open panics.  The inode of a file that
\* nobody has any more is not released.
Close(p, fd) ==
  /\ At(p, "user") /\ Bounded
  /\ LET f == ofile[p][fd]
     IN IF f = Null
        THEN halt' = "ffree(1)" /\ UNCHANGED <<file, ofile, leak>>
        ELSE /\ halt' = IF file[f].refcnt < 1 THEN "ffree(2)" ELSE halt
             /\ file' = [file EXCEPT ![f].refcnt = @ - 1]
             /\ ofile' = [ofile EXCEPT ![p][fd] = Null]
             /\ IF file[f].refcnt = 1 THEN Leak(file[f].inode) ELSE UNCHANGED leak
  /\ UNCHANGED <<inode, stat, pproc, cwd, call, drift, wrapped>>
-----------------------------------------------------------------------------
(***************************************************************************)
(* Processes.                                                              *)
(***************************************************************************)

Unused == First({q \in Proc : stat[q] = "UNUSED"})

\* palloc(), with the fget() of both standard files.
Fork(p) ==
  /\ At(p, "user") /\ drift[STDIN] <= MaxFork
  /\ Unused # Null
  /\ stat'  = [stat EXCEPT ![Unused] = "SET"]
  /\ pproc' = [pproc EXCEPT ![Unused] = 0]
  /\ ofile' = [ofile EXCEPT ![Unused] =
                 [fd \in Fd |-> IF fd \in {STDIN, STDOUT} THEN fd ELSE Null]]
  /\ cwd'   = [cwd EXCEPT ![Unused] = Null]
  /\ file'  = [file EXCEPT ![STDIN].refcnt = @ + 1, ![STDOUT].refcnt = @ + 1]
  /\ call'  = [call EXCEPT ![p] = [User EXCEPT !.op = "fork", !.pc = "copyuvm", !.np = Unused],
                           ![Unused] = User]
  /\ UNCHANGED <<inode, leak, drift, wrapped, halt>>

\* How many descriptors of the processes of Q refer to f, and directories to i.
FdsTo(Q, f)  == Cardinality({x \in Q \X Fd : ofile[x[1]][x[2]] = f})
CwdsTo(Q, i) == Cardinality({q \in Q : cwd[q] = i})

\* pfree() of the processes of Q.
pfree(Q) ==
  /\ halt' = IF \E f \in File : file[f].refcnt < FdsTo(Q, f) THEN "ffree(2)" ELSE halt
  /\ file' = [f \in File |-> [file[f] EXCEPT !.refcnt = @ - FdsTo(Q, f)]]
  /\ leak' = [i \in Inode |-> leak[i] + Cardinality(
        {f \in File : file[f].inode = i /\ FdsTo(Q, f) > 0 /\ file[f].refcnt = FdsTo(Q, f)})]
  /\ inode' = [i \in Inode |-> Released(inode[i], CwdsTo(Q, i))]
  /\ ofile' = [q \in Proc |-> IF q \in Q THEN [fd \in Fd |-> Null] ELSE ofile[q]]
  /\ cwd'   = [q \in Proc |-> IF q \in Q THEN Null ELSE cwd[q]]
  /\ stat'  = [q \in Proc |-> IF q \in Q THEN "UNUSED" ELSE stat[q]]

\* copyuvm() succeeds, or fork() fails and frees what palloc() gave it.
Copyuvm(p) ==
  /\ At(p, "copyuvm")
  /\ \/ Goto(p, "dup") /\ UNCHANGED <<file, inode, proc, leak, halt>>
     \/ pfree({call[p].np}) /\ Return(p) /\ UNCHANGED pproc
  /\ UNCHANGED <<drift, wrapped>>

\* Mutant: the child shares the file without being counted.
fdupNot(f) == UNCHANGED file

fdup(f) == file' = [file EXCEPT ![f].refcnt = @ + 1]

\* fork()'s loop: the child's descriptor i.  Those palloc() had filled are
\* overwritten, and their references lost.
Dup(p) ==
  /\ At(p, "dup") /\ call[p].i < NOFILE
  /\ LET fd == call[p].i
         f  == ofile[p][fd]
         np == call[p].np
     IN IF f = Null
        THEN UNCHANGED <<file, ofile, drift, halt>>
        ELSE /\ halt' = IF file[f].refcnt < 1 THEN "fdup" ELSE halt
             /\ fdup(f)
             /\ ofile' = [ofile EXCEPT ![np][fd] = f]
             /\ drift' = IF ofile[np][fd] = Null THEN drift
                         ELSE [drift EXCEPT ![ofile[np][fd]] = @ + 1]
  /\ call' = [call EXCEPT ![p].i = @ + 1]
  /\ UNCHANGED <<inode, stat, pproc, cwd, leak, wrapped>>

\* idup() of the directory, and the child may run.
Forked(p) ==
  /\ At(p, "dup") /\ call[p].i = NOFILE
  /\ Ref(cwd[p])
  /\ cwd'   = [cwd EXCEPT ![call[p].np] = cwd[p]]
  /\ pproc' = [pproc EXCEPT ![call[p].np] = p]
  /\ stat'  = [stat EXCEPT ![call[p].np] = "RUN"]
  /\ Return(p)
  /\ UNCHANGED <<file, ofile, leak, drift, halt>>

\* The first process, the shell, does not exit.  Files stay open.
Exit(p) ==
  /\ At(p, "user") /\ pproc[p] # 0
  /\ stat' = [stat EXCEPT ![p] = "ZOMB"]
  /\ UNCHANGED <<file, inode, pproc, ofile, cwd, call, leak, drift, wrapped, halt>>

Zombies(p) == {q \in Proc : pproc[q] = p /\ stat[q] = "ZOMB"}

\* wait(): collect_zombies(), once the sleep is over (Sched has what ends it).
Wait(p) ==
  /\ At(p, "user") /\ Zombies(p) # {}
  /\ pfree(Zombies(p))
  /\ UNCHANGED <<pproc, call, drift, wrapped>>
-----------------------------------------------------------------------------
(***************************************************************************)
(* fsinit() gives the first two inodes to the console, for STDIN and       *)
(* STDOUT; uinit() makes the shell, whose directory is "/", read when init *)
(* opens it.                                                               *)
(***************************************************************************)

Console(i) == i \in {STDIN, STDOUT}

Init ==
  /\ inode = [i \in Inode |->
       [valid |-> i <= 2, num |-> IF i = 2 THEN RootDir ELSE Device,
        refcnt |-> IF i <= 2 THEN 1 ELSE 0, read |-> i <= 2]]
  /\ file  = [f \in File |-> IF Console(f) THEN [refcnt |-> 2, inode |-> f]
                                           ELSE [refcnt |-> 0, inode |-> Null]]
  /\ stat  = [p \in Proc |-> IF p = 1 THEN "RUN" ELSE "UNUSED"]
  /\ pproc = [p \in Proc |-> 0]
  /\ ofile = [p \in Proc |-> [fd \in Fd |-> IF p = 1 /\ Console(fd) THEN fd ELSE Null]]
  /\ cwd   = [p \in Proc |-> IF p = 1 THEN 2 ELSE Null]
  /\ call  = [p \in Proc |-> User]
  /\ leak  = [i \in Inode |-> 0]
  /\ drift = [f \in File |-> IF Console(f) THEN 1 ELSE 0]
  /\ wrapped = FALSE /\ halt = "no"

Next ==
  \E p \in Proc :
    \/ \E op \in {"open", "execv"}, num \in Target : Namei(p, op, num)
    \/ Dir(p) \/ Lookup(p) \/ Load(p) \/ Exec(p)
    \/ Falloc(p) \/ Fdalloc(p)
    \/ \E fd \in 2 .. NOFILE - 1 : Close(p, fd)
    \/ Fork(p) \/ Copyuvm(p) \/ Dup(p) \/ Forked(p)
    \/ Exit(p) \/ Wait(p)

Spec == Init /\ [][Next]_vars
-----------------------------------------------------------------------------
(***************************************************************************)
(* Properties.                                                             *)
(***************************************************************************)

\* The fields have their types, and what is in the table of a process or in an
\* entry of the table of files leads to an entry that exists.
TypeOK ==
  /\ inode \in [Inode -> [valid : BOOLEAN, num : Inum \cup {Device, RootDir},
                          refcnt : 0 .. RefMod - 1, read : BOOLEAN]]
  /\ file  \in [File -> [refcnt : Nat, inode : Inode \cup {Null}]]
  /\ stat  \in [Proc -> {"UNUSED", "SET", "RUN", "ZOMB"}]
  /\ pproc \in [Proc -> {0} \cup Proc]
  /\ ofile \in [Proc -> [Fd -> File \cup {Null}]]
  /\ cwd   \in [Proc -> Inode \cup {Null}]
  /\ call  \in [Proc -> [op : {"none", "open", "execv", "fork"},
                         pc : {"user", "dir", "lookup", "load", "loadroot", "found", "fd", "copyuvm", "dup"},
                         num : Target, ip : Inode \cup {Null}, f : File \cup {Null},
                         np : {0} \cup Proc, i : 0 .. NOFILE]]
  /\ leak  \in [Inode -> Nat]
  /\ drift \in [File -> Nat]
  /\ wrapped \in BOOLEAN
  /\ halt \in {"no", "no rootdir", "ffree(1)", "ffree(2)", "fdup"}

\* Files that open() has and no descriptor refers to yet.
InFlight(f) == {p \in Proc : call[p].pc = "fd" /\ call[p].f = f}

\* The count of a file is the number of descriptors that refer to it: an open
\* file is never taken by falloc(), and one that was closed as often as it was
\* opened, inherited and dropped can be.  STDIN and STDOUT, which nobody can
\* close, have in addition fsinit()'s reference, and one for each fork(): what
\* close, exit and wait can take back never brings them to zero.
FileCounts ==
  \A f \in File :
    file[f].refcnt = FdsTo(Proc, f) + Cardinality(InFlight(f))
                     + drift[f]

FilesOf(i) == {f \in File : file[f].inode = i /\ file[f].refcnt > 0 /\ InFlight(f) = {}}

\* Until a count wraps, the count of an inode in the table is the number of
\* directories, files and calls that use it, and of the references that open(),
\* close(), execv() and pfree() drop without irelse(): no inode in use leaves the
\* table.  Those references are never taken back, so that calls enough bring
\* refcnt to 65536, which is 0, and irelse() then drops an inode that is in use.
InodeCounts ==
  \A i \in Inode :
    LET users == CwdsTo(Proc, i) + Cardinality(FilesOf(i))
                 + Cardinality({p \in Proc : call[p].ip = i}) + leak[i]
    IN ~wrapped => IF inode[i].valid THEN inode[i].refcnt = users ELSE users = 0

\* A file of the disk has at most one inode, one lock, in the table, however
\* many processes look it up together.
InodeUnique ==
  \A i, j \in Inode :
    inode[i].valid /\ inode[j].valid /\ inode[i].num = inode[j].num /\ inode[i].num # Device
      => i = j

\* Until a count wraps, an inode is read by the one call that put it into the
\* table, and by the time that call is past iget(); others may have it before.
Loading ==
  \A i \in Inode :
    LET loaders == {p \in Proc : call[p].pc \in {"load", "loadroot"} /\ call[p].ip = i}
    IN ~wrapped => Cardinality(loaders) = IF inode[i].valid /\ ~inode[i].read THEN 1 ELSE 0

\* However processes open, close, fork, exit and wait, the only panic is that of
\* close() of a descriptor that is not open, and, once a count has wrapped, that
\* of getrootdir() when "/" has left the table and the table is full.
OnlyClosePanics == halt \in {"no", "ffree(1)"} \/ (wrapped /\ halt = "no rootdir")
=============================================================================
