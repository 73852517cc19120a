# mixv6: a TLA+ model of the kernel

mixv6 is a small uniprocessor operating system for x86 in the style of Unix V6
and xv6. This directory holds TLA+ modules that model its kernel, TLC
configurations that check them on small instances, and theorems about them that
TLAPS checks for every instance. Paths below are relative to `src/`.

## The system

| Component | Files | State | Operations |
|---|---|---|---|
| Process table, scheduler | `kernel/proc.c`, `kernel/swtch.S` | `proc[64]` (stat, wchan, pproc, context, kstack), `user.procp`, `user.sched` | `palloc`, `pfree`, `sched`, `swtch`, `sleep`, `wakeup`, `collect_zombies` |
| Interrupt-disable nesting | `kernel/lock.c` | `user.ncli`, `user.intena`, the CPU's interrupt flag | `pushcli`, `popcli` |
| Sleeping locks | `kernel/lock.c` | `locked`, `procp` of each lock | `acquire`, `release`, `holding` |
| Traps | `kernel/trap.c`, `kernel/trapasm.S` | the tick count, the frame on the kernel stack | timer, keyboard, disk, system call |
| Process calls | `kernel/syscall/{fork,exit,wait}.c` | the process table | `fork`, `exit`, `wait` |
| Buffer cache | `fs/bio.c` | `blocks[256]` (blockno, flags, refcnt, lock, data) | `bget`, `bread`, `bwrite`, `brelse` |
| IDE driver | `dev/ide.c` | `idelock`, one outstanding request | `iderw`, `sendreq`, `ideintr` |
| Inodes | `fs/inode.c` | `inode[64]` (valid, num, refcnt, lock, copy of the dinode) | `iget`, `idup`, `irelse`, `readi`, `writei`, `dirlookup`, `namei` |
| Files | `fs/file.c`, `kernel/syscall/{open,close,read,write}.c` | `file[64]` (refcnt, inode, offset), `proc.ofile` | `falloc`, `ffree`, `fdup`, `fget`, `fdalloc` |
| Console | `dev/console.c`, `dev/kbd.c` | the input line and its index, the cursor | `consoleintr`, `consoleread`, `consolewrite`, `putchar` |
| Physical memory | `kernel/mm/kalloc.c` | the free list | `kalloc`, `kfree` |
| Virtual memory | `kernel/mm/vm.c`, `kernel/syscall/execv.c` | page directories and tables | `setupkvm`, `copyuvm`, `allocuvm`, `deallocuvm`, `freevm`, `execv` |
| Boot, tools, user programs | `boot/`, `mkfs.c`, `usr/`, `lib/` | | |

How they interact. Everything is a call on the current kernel stack, except:
interrupts, which run their handler on top of whatever the CPU was doing;
`sleep`/`wakeup`, which connect a process to a handler or to another process
through an address; and `sched`/`swtch`, which leave one kernel stack in the
middle and continue another. System calls run with interrupts enabled (the gate
of `int 0x40` is a trap gate), so the timer, every hundredth tick, can call
`sched()` between any two instructions of the kernel that are not between
`pushcli()` and `popcli()`. There is one CPU: `pushcli()` is the only mutual
exclusion below the sleeping locks.

What is hard, and what makes each part correct:

* Scheduler: `sched()` changes `user.procp`, the address space and the stack one
  after the other; its scan moves the index it scans from; zombies run it on a
  stack about to be freed. Correct: table and machine agree about who runs, what
  is chosen can be continued, zombies go away through their parent only, a
  runnable process gets an idle CPU.
* `sleep`/`wakeup`: a wakeup between the test and the sleep is lost. Correct:
  stat and wchan agree, every sleeper has somebody who will wake it.
* Sleeping locks: `acquire()` and `release()` are several steps, none protected.
  Correct: one process inside at a time, and it is the lock's `procp`.
* Buffer cache: many processes find, share and recycle buffers. Correct: a block
  in one buffer, counts exact, no recycling under a user, flags that tell the
  truth, no exhaustion.
* Disk: the handler finds the buffer through the sleeping process. Correct: it
  is the buffer the request was for.
* Inodes, files: reference counts shared by open, close, fork, exit and execv.
  Correct: nothing is freed in use, nothing is kept for ever.
* Console: an index into a line, moved by an interrupt and a reader. Correct: the
  index stays inside or has wrapped, and until it wraps no character is read
  twice or out of order.
* Memory: a page belongs to the free list or to one address space, also after an
  allocation failed half way.

The hazards are listed one by one, at their lines, in `PROJECT.json`.

## Plan

1. `Sched` (done): process table, context switch, interrupt flag, fork/exit/wait.
2. `Bio` (done): buffer cache, disk, sleeping locks.
3. `Console` (done): line editing against the reader and the interrupt, the cursor.
4. `Vm` and `PageLedger` (done): the free list, page tables and the ownership of
   pages, with allocation failing anywhere; the ledger is the abstract
   specification that `Vm` implements.
5. `Files` (done): reference counts of files and inodes over the system calls.
6. `Mkfs` and `Fs` (done): the layout of the disk; offsets, blocks and bytes in
   `read`, `write`, `readi` and `writei`, and what `open` reads without a lock.

How the modules compose. `Sched` and `Bio` meet in `sleep`, `wakeup` and
`sched`: `Sched` has every blocking call as a sleep on a channel, `Bio` has
`sched()` as the choice of another runnable process. `fork`, `exit` and `wait`
are in three modules, each with the state the others leave out: the process table
and the CPU in `Sched`, memory in `Vm`, files and directories in `Files`. `Fs`
extends `Mkfs`: the disk the kernel reads is the one mkfs wrote. `Console` and
`Fs` take mutual exclusion on an inode from `Bio`.

Every safety property that the passing runs check is proved too, for every value
of the constants, and so is the refinement of `PageLedger` by `Vm`.

## Modules

| Module | What it is |
|---|---|
| `Sched` | processes, kernel stacks, interrupts, `sched`/`swtch`, fork, exit, wait |
| `MCSched` | `Sched` for TLC |
| `SchedProofs` | theorems about `Sched` |
| `Bio` | buffers, locks, disk |
| `MCBio` | `Bio` for TLC |
| `BioProofs` | theorems about `Bio`: buffers and their counts |
| `BioLockProofs` | theorems about `Bio`: locks, flags, the disk's interrupt |
| `Console` | input line, keyboard interrupt, readers, cursor |
| `MCConsole` | `Console` for TLC |
| `ConsoleProofs` | theorems about `Console` |
| `Vm` | the free list, page directories and tables, fork, execv, exit, wait |
| `PageLedger` | what `Vm` implements: who holds which page |
| `MCVm` | `Vm` for TLC |
| `VmProofs` | theorems about `Vm`, that it implements `PageLedger` among them |
| `Files` | the tables of files and inodes; open, close, execv, fork, exit, wait |
| `MCFiles` | `Files` for TLC |
| `FilesProofs` | theorems about `Files` |
| `Mkfs` | the layout of the disk |
| `Fs` | open, read and write on that disk |
| `MCFs` | `Fs` for TLC |
| `MkfsProofs` | lemmas about `Mkfs` |
| `FsProofs` | theorems about `Fs` and `Mkfs` |

Definitions named "Mutant" are variants of the definition after them with a
plausible bug, kept to show that each checked property can fail; no
specification uses them.

### Sched

A kernel stack is a sequence of activations, innermost first, each with the
program point and the locals that matter (`Frame`); an empty stack is user mode.
`cpu` names the stack the CPU is on, `procp` is `user.procp`; they differ only
at the end of `sched()`. `swtch` leaves the stack in `ctx[old]` and records in
`parked` in whose context each stack was left; loading a context that no stack
was left in sets `halt = "wild"`. `halt` also names panics, after which nothing
happens.

A step is what happens between two points where an interrupt can be taken.
`sleep`, `wakeup`, `palloc`, `collect_zombies` and `sys_exit`'s first half run
between `pushcli` and `popcli`, so each is one step; `sched()`, which is the
subject, is a step per iteration of its scan, then `SchedStay`, `SchedZombie`,
`NoProc` or `SchedCommit` (up to its `popcli`), then `SchedLoad` and `swtch`. Its
`pushcli` and `popcli` are the code's, on `ncli`, `intena` and `FL_IF`. `Timer`
is the tick on which `trap()` calls `sched()`; `DevIntr` is a keyboard or disk
interrupt. A blocking system call (`SysIo`) is a process that sleeps on its
device or lock any number of times (`IoAgain`), may give a lock back
(`IoRelease`), and returns. `Init` is what `uinit()` leaves: slot 0 is the boot
thread's zombie, slot 1 runs.

`torn` is a history variable: it becomes true when a timer reschedule lands
between `popcli()` and `swtch()` in `sched()`. From there on the table and the
machine disagree (run `sched_wild`), so the invariants about them say "until
then"; `TypeOK` and `CliDiscipline` hold regardless. The disk answering before
the process that asked has stored its `wchan` makes `ideintr()` wake every slot
with a null `wchan` (`EarlyIdeIntr`); the model ends there.

Abstracted: contents of memory and trap frames, files and directories of a
process (`palloc` and `pfree` touch them), `pid`, which system call blocks and
why. `palloc()` fails for want of memory at any time (`PallocFail`), and so does
`copyuvm()` (`ForkFail`).

### Bio

One process has the CPU (`procp`) and moves through `bread`, `bwrite`, `brelse`,
`acquire`, `release` and `iderw` by program points (`pc`); `Reschedule` is
`sched()`, possible between any two steps and, for a sleeping process, the only
way on. `bget` is one step (between `pushcli` and `popcli`); `bread`'s test of
`refcnt`, after the `popcli`, is another (`breadShared`). `acquire` is three
steps (test; sleep, or set), `release` three (`locked`, `procp`, `wakeup`).
A process holds one buffer (`cur`), and in `namei()` a second (`outer`) while
`iget()` reads an inode; whole-sector writes take a buffer without reading it.
`req` is the disk's one request. `ideintr` looks for the buffer where the code
does, in the `wchan` of the process that has `idelock`; when there is none
(`StrayIntr`) the code stores through a bad pointer and the model ends. `data`
says whether a buffer's bytes are what the disk has for its block. `bwrite` has
no caller in the kernel at this commit; it is modelled as the interface it is,
and the violation runs do not use it.

`torn` becomes true when a reschedule splits `acquire()` after its test or
`release()` after it cleared `locked`. What is said of locks holds until then;
what is said of buffers, counts and exhaustion holds always.

`Lookers` and `Writers` are the processes that call `namei()` and that write.
In the kernel that is every process; TLC's instance has one of each.

### Console

The keyboard interrupt (`consoleintr`, with `kbdgetc` as the four kinds of key
it can return) edits the line `buf`, `index`; `index` is unsigned and wraps
modulo `WORD`. A character is the number of the key press that typed it, so that
a character read twice or out of order shows. `sys_read` takes the lock of one
of the two console inodes and sleeps; `consoleread` is what follows the wakeup.
`wchan` says who sleeps on `&input`. Mutual exclusion on an inode is taken from
`Bio`. `keys` and `seen` are history.

`putchar` moves `cursor`. In the interrupt handler and in `consolewrite` it runs
with interrupts off, and is an operator; `printf` in the kernel has them on, and
is a process that takes `putchar` in the steps `PutLoad`, `PutStore`, `PutTest`,
`PutScroll` and `PutClear`, between which keys are echoed and others write.
`cursor` is not volatile and the access is a data race, so `PutTest` may look at
what it stored or at what is there now. `split` becomes true when one
`putchar()` comes in the middle of another. The contents of the screen are not
modelled. Locals of a finished call are reset, which merges states that no step
tells apart.

A line that is full, or whose index has wrapped, refuses every key, the newline
included, until a reader that is already awake empties it: `ReaderReturns` says
"unless", and the hazards in `PROJECT.json` record it.

### Vm and PageLedger

A page is a number; a page that is used as a directory or table is an array of
`N` entries in `mem`, so that a wrong index, a shared table or a stale entry is
what it is for the hardware. `fork` and `execv` are a step per page they ask for
(`NewDir`, `NewKernTable`, `GetPage`, `MapPage`, `Segment`, `Grown`), each of
which finds the free list empty or not; `Switch` lets another process run
between any two. `Bad` and `Unfork` are the error paths: what `allocuvm` undoes
itself (`Undo`), what `setupkvm`, `copyuvm` and `execv` free, and what `fork`'s
`pfree` frees. `Commit`, `LoadCr3` and `FreeOld` are the last three statements
of `execv` that matter: a timer tick may come between them, and `cr3` is what the
CPU uses. A program is a sequence of segments; one that is badly aligned, cannot
be read or ends too high fails where the code gives it up.

The arguments of `execv` are their number and the bytes they take on the stack
(`Argv`), which the code does not bound. `Fits` is `copyout()` from the top of the
stack down: it goes through the guard page, which it does not look at the flags
of, and through the program, which it overwrites, and panics below `KERNEND`
(`TooManyArgs`). The other end is the seventeenth argument, stored past
`_argv[16]` on the kernel stack; what that does depends on the frame, and the model
ends (`halt`).

The freeing loops of `vm.c` (`deallocuvm`, `freevm`) are one step each. They are
preemptible, but work on a directory that only the running call refers to, so that
another process between two turns sees pages that are free a little later; what
is not shown is the directory in the middle of such a loop (`kfree()` at line 207
before the entry is cleared at 208).

`lost` is a history variable: `freevm` looks at the entries from that of
`KERNEND` on, so the page tables of the kernel's part (`KTABS` of them, 128 in
the real layout) are never freed. Every `exit` and `execv` loses them; the
properties say that nothing else is lost.

Abstracted: the contents of pages, the entries of the kernel's tables (they map
memory onto itself; these calls never walk them), and which free page `kalloc`
returns: `CHOOSE` takes one, and since nothing looks at a page's number the
others behave alike. Segments are linked at or above `KERNEND` (`usr/user.ls`);
that is an assumption on the programs, not a check of the code.

`PageLedger` says the same without page tables: a set of free pages and a set of
pairs of a process and a page. A step takes one free page, returns pages, gives
a child its address space, or reaps processes; a returned address space leaves at
most `Waste` pages behind. `Vm` implements it (`LedgerSpec`) with `held` as what
hangs on the directories, stacks and calls of each process and `Waste` as
`KTABS`: no step moves a page between processes but `fork`'s last, no failing
call keeps a page, and the leak per address space is bounded.

### Files

`file` and `inode` are the two tables; `ofile` and `cwd` are what processes have
of them. `namei` is four steps: `Namei` (`getrootdir`), `Dir`, `Lookup`
(`dirlookup` and `iget` up to its `popcli`), `Load` (the rest of `iget`, after
the disk has answered); between them other processes look up the same names. A
path is what it leads to: a file, the directory, nothing, or an unused entry of
the directory, which the empty name finds, and whose i-number 0 is that of the
console's inodes. `Falloc`, `Fdalloc` finish `open`; `Dup` is one turn of
`fork`'s loop. `pfree` is the part of it that concerns files, for all the zombies
that a `collect_zombies` finds.

`leak` counts, for each inode, references that no call will ever release:
`close`, `pfree` and a failing `open` give back the file without its inode, and
`execv` forgets the inode it read. `drift` counts the references to `STDIN` and
`STDOUT` that nobody has: `fsinit`'s, and those `palloc` took and `fork`
overwrote. Both are history; `FileCounts` and `InodeCounts` say that the counts
are otherwise exact. `close` of a descriptor that is not open panics, and the
model ends there.

`inode.refcnt` has 16 bits: `RefMod` is 65536 in the code. Since leaked references
are never taken back, calls enough bring the count to it. `wrapped` is true from
then on, and the model goes on: `irelse` drops an inode that is in use from the
table, its entry may become another file's, and `getrootdir` may find no room for
the directory and panic. `InodeCounts` and `Loading` say "until a count wraps";
`FileCounts` and `InodeUnique` hold after it too. `file.refcnt` has 32 bits, and
is taken as a natural number.

The inode of a file that was once opened is never released, so the table fills
up with the names used; `Lookup` with a full table is in the model.

### Mkfs and Fs

`Mkfs` is the host program as a sequence of steps, the files' sizes chosen by
TLC. A byte is the file and the position it belongs to, so that a byte in the
wrong place shows. The lists of free inodes and blocks are given by where each
entry goes (`ListBlock`, `ListIndex`), not as bytes on the disk.

`Fs` continues on that disk. A call is `Call` (from `acquire` to the loop, with
`bget` of the first buffer), for each block `Iderw` and `Disk` if the buffer has to
be read, then `Readi` or `Writei`, and `Return`; the inode's lock is held from
`Call` to `Return`. `Having` are the processes that have a buffer. `Bread` is what
`bread` returns: a buffer that is valid, or one that another process has too and
may still be reading (`fs/bio.c:40`). `Recycle` is `bget` using a buffer for another
block, which loses what `writei` had put into it.

`Open` is `namei`: it has the directory's buffer without the directory's lock
(`fs/inode.c:194`), and keeps it while `iget` reads the inode (`Dirlookup`,
`Load`). So a `read` of "/" and an `open` may find each other's unread buffer:
`unread` is then "used", and `ReadsOwn` no longer says what a read of "/" copied.
For the other files, whose blocks are only ever read under their lock, it says it
always. An `open` that looks a name up in such a buffer, and a call that takes the
size and the addresses of an inode that is published and not read
(`fs/inode.c:56`), go on with values that nothing determines: `unread` is
"believed", and the model ends.

Two more things the code does are in the model and in the hazards: a whole sector
written to a buffer that is not valid is overwritten by the next `bread`, and a
write past the last block of a file goes to the buffer of the boot block.
Left out: `write` to "/", which would put a directory of a program's making in place
of mkfs's; the empty name; `execv`'s `readi`; `close` (an entry of `file[]` stays);
the counts of inodes, which are in `Files`.
A write stores the bytes of its own file and position, since what it writes
matters only where it does not belong. The split of `acquire` by a timer tick,
after which two processes are inside, is left to `Bio`.

## Runs

| Run | Instance | Shows |
|---|---|---|
| `sched` | 4 slots (the boot zombie, 3 processes), 1 channel that is also a disk buffer, stacks of up to 4 activations | all properties of `Sched` below hold; 1.26 million states |
| `sched_wild` | as above, stacks of up to 5 | `SwitchToSaved` fails: `swtch()` loads a context nobody left |
| `sched_onlyone` | as above | `OnlyOneRunning` fails: the early return of `sched()` is taken with another process runnable |
| `sched_waitzomb` | 3 slots | `WaitKillsZombies` fails: a parent sleeps for ever beside its zombie |
| `bio` | 2 processes, 3 buffers, 4 blocks | all properties of `Bio` below hold; 1.6 million states |
| `bio_lock` | the same, without writers | `LockProcp` fails: two processes inside `idelock` |
| `bio_valid` | the same, without writers | `BreadValid` fails: `bread()` returns an unread buffer |
| `console` | 2 processes, 1 of which the kernel prints for, a screen of 3 rows of 2, a line of 2 characters, 3 keys that type one | all properties of `Console` below hold; 190 thousand states |
| `console_cursor` | the same | `NoCursorPanic` fails: the cursor leaves the screen |
| `vm` | 3 processes, 15 pages of size 2, 4 entries to a table, 1 kernel table, a gap of one entry above it, user space from 16 to 28, two programs, arguments of 1, 6 or 7 bytes, room for 1 in `_argv` | all properties of `Vm` below hold, and it implements `PageLedger`; 821 thousand states |
| `files` | 2 processes, 4 files, 4 inodes, 3 descriptors, 2 names, counts of inodes modulo 5; 2 forks, and no more open or close once 2 references to inodes are lost | all properties of `Files` below hold; 1.5 million states |
| `fs` | up to 2 files of 0 or 3 bytes in sectors of 2, 2 addresses to an inode, 2 processes, 2 open files, calls of up to 3 bytes | all properties of `Fs` below hold; 364 thousand states |

Checked of `Sched`: `TypeOK` (with `user.sched` an index of `proc[]`);
`CliDiscipline`, that no stack is left or interrupted inside a pushcli section
and that `ncli`, `intena` and `FL_IF` say so; `SleepConsistent`; `ContextSound`;
`KstackLive`; `ZombieNeverReturns`; the action property `ZombieReaped`; and the
liveness property `WorkConserving`. Of `Bio`: `TypeOK`, `BlockUnique`,
`RefcntExact`, `NoRecycle`, `NoPanic`, `LockExclusive`, `IntrTarget`,
`SleeperHasWaker`, `NoDeadlock`, `FlagsSound`. Of `Console`: `TypeOK` (with the
index within the line or wrapped), `LineFresh`, `CursorSound` and the liveness
property `ReaderReturns`. Of `Vm`: `TypeOK`, `OneUse`, `Conserved`, `ImageWhole`,
`GuardPage`, `Cr3Live`, `OnlyArgsPanic` and the refinement `LedgerSpec`. Of `Files`:
`TypeOK`, `FileCounts`, `InodeCounts`, `InodeUnique`, `Loading`,
`OnlyClosePanics`. Of `Fs`: `TypeOK`, `Layout`, `ReadsOwn`, `OffsetExact`. Each
is explained where it is defined.

Why the bounds are enough. Three user processes are a parent, a child and one
more to switch to; with them every branch of `sched()`, a wakeup of a parent, an
orphan, a full table and reuse of a slot occur. A second channel would only
multiply states: which channel a process sleeps on matters only to the process
that wakes it. A stack of 4 activations holds a sleeping system call interrupted
by the timer inside `sched()`; 5 are needed to interrupt the inner `sched()`
again. In `Bio`, three buffers are the fewest the assumption allows for the
processes of the instance, so exhaustion is as near as it gets, and four blocks
force recycling. TLC explores the states after a split lock too. In `Console`
the smallest screen that scrolls with a row to spare has every case of
`putchar`; three characters fill the line and start another; two readers are
what one newline can wake.

In `Vm` fifteen pages are enough for two address spaces and part of a third, so
that every allocation fails in some behaviour and succeeds in another; three
processes are a parent, a child and one to run in between. User space has more
than one table, a program that needs a new table and one that does not, one that
begins above `KERNEND`, and one that fails after it has loaded a segment. The
directory's entry between the kernel's table and that of `KERNEND` is nobody's, as
in the real layout. The arguments fit the stack, or take the guard page and all of
the smaller program, or one byte more, or one entry more than `_argv` has. In
`Files` there are two free files for more opens, one free descriptor, and one
free inode for two names besides the directory's, so each table is full in some
behaviour; a slot is used by two children one after the other. A count of `RefMod`
is reached by the leaks and the references in use together, so that the states
after a wrap are explored. `MaxLeak` and `MaxFork` bound counters
that the code lets grow. In `Fs` sectors of two bytes and files of one and a half
have every kind of chunk: whole, at either end, past the last byte and past the
last block; the offset reaches what `NADDR` addresses reach. Two
processes are an `open` and a `read` of "/", or two `open`s of one name. Up to
eight data blocks are in use, and both lists go on in a second block.

`CHECK_DEADLOCK FALSE`: after a panic, or when execution is no longer defined,
the machine does stop; so does `Vm` when the only process sleeps in `wait` with
no child, and `Files` and `Fs` stop at their bounds. In `Files` the names, and in
`Fs` the processes and the files, are symmetric. Block numbers are symmetric in `Bio` (buffers are not:
`bget` takes the first that will do); `Sched` uses no symmetry.

Fairness. `Sched`: `WF_vars(Kernel)`, the CPU keeps executing the kernel code it
is in; user code, interrupts and the timer owe nothing. `Console` assumes none:
`ReaderReturns` carries what it needs as hypotheses. `Scheduled(p)`, that
`sched()` comes to a reader that may run, is not promised by the code, whose scan
can pass over a runnable slot for ever (run `sched_onlyone`); `EnterPressed`, that
the user presses enter as long as the line takes it and the interrupt is taken,
is not either (a process resumed with interrupts off may keep them off, see the
hazard at `kernel/proc.c:235`).

## Proofs

`SchedProofs` proves, for every table size, set of channels and stack bound:
`SchedTypeOK`, `SchedCliDiscipline`, `SchedContextSound`,
`SchedSleepConsistent`, `SchedKstackLive`, `SchedZombieNeverReturns` and
`SchedZombieReaped`, from `SchedConstants` alone. The argument is in two layers.
`CliInv` (types and `CliDiscipline`) is inductive by itself. `SafeInv` is
inductive relative to it and says, until `torn`: where the CPU is when it is
inside `sched()` (`OnCpu`), that everything `sched()` may choose is saved
(`Saved`), that sleepers are inside `sleep()` (`InSleep`) and zombies on their
way out (`Exiting`), that the boot slot is no one's child (`Boot`), that a slot
fork fills is its own (`Forking`), what the scan has found so far (`Scanning`),
and that no stack but the CPU's is between `popcli` and `swtch` (`Untorn`). Each
is needed by another: `ContextSound` after `swtch` needs `Saved` of the process
switched to, which needs that its `stat` was not changed by a fork or a free,
and so on.

`BioProofs` proves what holds of `Bio` whether or not a lock was ever split, for
every number of processes, blocks and buffers that `BioConstants` admits:
`BioTypeOK`, `BioBlockUnique`, `BioRefcntExact` and the action property
`BioNoRecycle`. They are one inductive invariant, `RefInv`: the three state
properties and `CurHeld`, which ties the program point of a process to the
buffers it refers to. `CurHeld` is what makes `brelse()` safe (the buffer it
gives back is one that was counted); `BlockUnique` is inductive only with the
types, since `bget()` recycles just when its search found nothing; `NoRecycle`
follows from `RefcntExact`, since what `bget()` recycles has a zero count. The
counting is `CountUpdate`: a function that changes at one process changes the
cardinality of what it maps to a buffer by what that process contributes.

`BioLockProofs` builds on it and proves the rest of `Bio`: `BioNoPanic`,
`LocksExclude`, `InterruptFindsBuffer`, `SleepersHaveWakers`,
`DiskBreaksDeadlock` and `FlagsAreSound`. The inductive invariant, `BioInv`, has
a part that holds always, `CacheInv` (`RefInv`; at which lock a process is and
what it may sleep on at each program point, `Shape`; who writes a buffer,
`Written`), and a part that holds until `torn`, `LockInv`: nobody but the running
process is between the test and the store of `acquire()` or the two stores of
`release()` (`Untorn`), a lock has at most the one process inside (`Exclusive`),
a sleeper's lock is locked or about to be given back by somebody (`Wakers`), the
request is that of the process that has `idelock` (`Transfer`), a valid buffer is
not junk (`Sound`). `Untorn` carries the others: it says that what `acquire()`
tested is still so when it stores. That `bget()` finds a buffer needs no lock: a
process refers to at most two buffers, to two only in `namei()`, and
`BioConstants` has as many (`NotFull`). `NoDeadlock` follows from `Wakers` and
from the order of the locks: who waits for a block may have one, who waits for
`idelock` has what it transfers, and who has `idelock` waits for the disk.

`ConsoleProofs` proves `ConsoleTypeOK`, `LineIsFresh` (of an index that has not
wrapped; at a wrapped one `consoleread` delivers old characters again) and
`CursorIsSound`, for every screen of at least two rows, length of line, `WORD` and set of strings.
The line's part (`Typed`, `LineFresh`) is inductive whatever happens to the
cursor: what has been typed is at most `keys`, so the next character is newer
than all of the line and all that was read. The cursor's part is `Whole`: until
`split`, the cursor is above the last row, and while a `printf` is inside
`putchar()` its program point says how far the cursor has come. That a string
of any length keeps the cursor there is induction over the string. The library's
induction theorems cannot be used with the provers at hand, since they take an
operator as parameter; `Induction` is the same for one set of numbers, and is
proved from the cardinality of finite sets.

`FilesProofs` proves `FilesTypeOK`, `FileCountsExact`, `InodeCountsExact`,
`OneInode`, `LoadedOnce` and `OnlyCloseHalts`, from `FilesConstants`, for every
number of processes, files, inodes and descriptors. They are one inductive
invariant, `CountInv`, and each is needed by the others (`InodeCountsExact` and
`LoadedOnce` until `wrapped`): a count can be taken back
without a panic because it is exact; it is exact only if no slot that a call or a
fork still uses is handed out (`CallShape`, `Children`, `Tables`); and an inode
is unique because `iget()` shares an entry before it is read, which is safe since
one call reads it (`Loading`). `pfree()` of several slots at once is summed up in
one lemma, `PfreeStep`. The counts are cardinalities, and a step changes them at
one process, file or descriptor (`OnePoint`). The bounds of TLC's instance on
forks and leaks are guards of the model; the types in `TypeOK` are the natural
numbers and do not use them.

`MkfsProofs` and `FsProofs` prove `FsTypeOK`, `LayoutKept`, `ReadsTheFile` and
`OffsetMoves`, from the assumptions on the disk in `Mkfs` and `FsConstants` in
`Fs` (no process is the mark of a free lock; the size of a call is bounded by a
natural number). `MkfsConstants` asks for room on the disk: the blocks of the kernel,
the 512 each that `balloc(512)` takes for the directory and for the list, and 16
of the largest files. The real disk has it, for any kernel of up to 3136 blocks
(8192 - 2048 - 1024 - 124 * 16), 1.6 MB. `MkInv` says how far `ialloc()` and `balloc()` have come
(`Given`), that a block below that mark has one owner, and that it holds the
owner's bytes. `FsInv` adds that a valid buffer of an allocated block holds what
the disk has there (`Buffers`), and for each process where it is in its call and
that this lies within the file, or for `writei()` within what `NADDR` addresses
reach (`Place`), that a process in the loop of `readi()` or `writei()` has its
inode's lock and its offset (`Holder`), and what it has copied (`Right`). That a
buffer which `bread()` returns unread is never one of a file's is `Alone`: of the
processes that have a buffer, those in a loop hold the lock of the inode whose
block it is, an `open` has the directory's, and blocks belong to one file each.

`VmProofs` proves `VmTypeOK`, `VmOneUse`, `VmConserved`, `VmCr3Live`,
`VmImageWhole`, `VmGuardPage`, `OnlyArgsPanics` and `VmLedger`, from `VmConstants`,
for every number of processes and pages, every size of page and table, every
program and all arguments. The invariant, `VmInv`, has two layers. `Control` says what each point
of a call has at hand (`Shape`), how far its loop is and where it ends (`Bounds`), that no two forks fill one slot, and which directory the CPU
uses; it is inductive with the types. On top of it, `Own` takes every entry of
every page and every variable of every process as a slot: outside the free and
the lost pages each page is in exactly one slot (`Owned`), and only directories
and tables of the user part have entries (`Blank`). `Trees` says that a directory
has its first tables of the kernel, all of them from the end of `setupkvm()` on,
and no page at or above the point that its call has reached (`Below`). `Own`
needs `Trees`: `freevm()` looks for pages below `USEREND` and for tables from the
entry of `KERNEND` on, so that what it frees and what it forgets together are the
directory's whole tree (`WithinIs`). `Trees` needs `Own`: an entry that a step
sets is in no other directory's tree, because no two directories have a table in
common (`OtherKept`). Each kind of step is one lemma about slots: a free page is
taken (`TakeVar`, `TakeEntry`, `PassTable`), a page passes from one slot to
another (`PassVar`, `PassEntry`), pages are dropped (`DropPages`). The address
arithmetic is `Decode` and `Encode`: an address and its pair of indexes determine
each other. `Images` goes over `VmInv` and says the other half of `Below`: a
directory maps every page up to the point its call has reached (`Full`), with
the flag that tells the guard page from the rest (`Usable`). A call builds the
new image from the old one entry by entry, so its own part (`NImage`) compares
the two while `fork` copies and has the guard two pages below `lo` once
`execv`'s loop has ended. That a step leaves all other images alone is `Fixed`: nobody else has a table
of theirs, by `Own`.

`VmLedger` is that `Vm` implements `PageLedger`, with what hangs on the stacks,
directories and calls of a process as what it holds. `Shares` says of a state
that every page is free, lost or held by one process, and follows from `Own`
(`HeldOnce`). A step writes only to pages that its process holds or takes from
the free list, so what others hold stays theirs (`ApartIs`). With that, a step
is a step of the ledger by what it does to the sets alone: `LedgerTake` for a
page taken, `LedgerReturn` for pages given back, `LedgerEndow` for the address
space `fork` gives its child, `LedgerReap` for what `wait` collects. That a
directory loses at most `KTABS` pages, and several directories at most that many
each, is counted in `KernCount` and `KernTotal`. The steps that neither take nor
give stutter (`LedgerQuiet`).

Model-checked only: `WorkConserving` and `ReaderReturns`, since liveness is beyond
TLAPS.

## Not modelled

Boot code, `vectors.S` (generated), descriptor, interrupt-controller and timer
set-up, formatting and string helpers, system call dispatch and user programs:
they have no state of their own that an interleaving can break. `creat`, `link`,
`unlink`, `reboot` and `kill` return -1. Of the components that are modelled: names as
characters, the contents of a new program's arguments and of user pages,
and errors of the host's files in `mkfs`.
