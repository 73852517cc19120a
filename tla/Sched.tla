------------------------------- MODULE Sched -------------------------------
(***************************************************************************)
(* The process table and the context switch of mixv6: kernel/proc.c        *)
(* (palloc, pfree, sched, sleep, wakeup, collect_zombies), kernel/swtch.S, *)
(* the interrupt-disable nesting of kernel/lock.c, the timer and device    *)
(* interrupts of kernel/trap.c, and the fork, exit and wait system calls.  *)
(*                                                                         *)
(* One CPU executes on one kernel stack at a time.  A stack is a sequence  *)
(* of activations, the innermost first; an empty stack is user mode.  A    *)
(* step of the model is what the CPU does between two points at which an   *)
(* interrupt can be taken: code between pushcli() and popcli() cannot be   *)
(* interrupted and is one step, except in sched(), whose scan of the       *)
(* process table is a step per iteration.                                  *)
(***************************************************************************)
EXTENDS Integers, Sequences

CONSTANTS
  NPROC,      \* size of the process table
  Chan,       \* wait channels of devices and locks (addresses such as &input)
  Disk,       \* those that are disk buffers
  MaxStack    \* bound: activations on a kernel stack when the timer fires

Proc == 0 .. NPROC - 1
Nil  == -1                  \* a null pointer

ASSUME SchedConstants ==
  /\ NPROC \in Nat /\ NPROC >= 2
  /\ MaxStack \in Nat
  /\ Chan \subseteq Int /\ \A c \in Chan : c \notin Proc \cup {Nil}
  /\ Disk \subseteq Chan

VARIABLES
  stat,       \* proc[i].stat
  wchan,      \* proc[i].wchan: Nil, a device channel, or a process (wait)
  pproc,      \* proc[i].pproc
  ctx,        \* proc[i].context: the kernel stack it points into
  procp,      \* user.procp
  rover,      \* user.sched
  ncli,       \* user.ncli
  intena,     \* user.intena
  FL_IF,      \* the CPU's interrupt flag
  cpu,        \* the kernel stack (named by its process) the CPU is on
  stack,      \* the activations on each kernel stack, innermost first
  parked,     \* the process in whose context the stack was left by swtch
  halt,       \* "no", a panic message, or why execution is no longer defined
  torn        \* history: a reschedule hit sched() between popcli and swtch

procvars == <<stat, wchan, pproc>>
clivars  == <<ncli, intena, FL_IF>>
swvars   == <<ctx, cpu, parked>>
vars     == <<procvars, swvars, clivars, procp, rover, stack, halt, torn>>

Stat == {"UNUSED", "SET", "RUN", "SLEEP", "ZOMB"}
PC   == {"sleeping", "wait", "io", "exit", "trap", "trapret", "sched"}

\* An activation: where it is and the locals that matter there.  arg is sleep's
\* wchan, fork's np or the context swtch loads; i, old and new are sched's.
Frame ==
  [pc : PC, arg : {Nil}, i : {0}, old : {Nil}, new : {Nil}]
  \cup [pc : {"sleep"}, arg : Proc \cup Chan, i : {0}, old : {Nil}, new : {Nil}]
  \cup [pc : {"fork"}, arg : Proc, i : {0}, old : {Nil}, new : {Nil}]
  \cup [pc : {"scan", "idle"}, arg : {Nil}, i : 0 .. NPROC, old : {Nil},
        new : Proc \cup {Nil}]
  \cup [pc : {"switch", "swtch"}, arg : Proc \cup {Nil}, i : {0},
        old : Proc, new : Proc]

F(pc, arg) == [pc |-> pc, arg |-> arg, i |-> 0, old |-> Nil, new |-> Nil]

\* The frames of sched(): in its loops, and on its way into swtch().
ScanF(pc, i, new)        == [pc |-> pc, arg |-> Nil, i |-> i, old |-> Nil, new |-> new]
SwitchF(pc, k, old, new) == [pc |-> pc, arg |-> k, i |-> 0, old |-> old, new |-> new]

(***************************************************************************)
(* The CPU and its stack.                                                  *)
(***************************************************************************)
Frames(s) == {s[k] : k \in 1 .. Len(s)}

Top      == Head(stack[cpu])
At(pc)   == halt = "no" /\ stack[cpu] # <<>> /\ Top.pc = pc
UserMode == halt = "no" /\ stack[cpu] = <<>>

Call(f)     == stack' = [stack EXCEPT ![cpu] = <<f>> \o @]
Call2(f, g) == stack' = [stack EXCEPT ![cpu] = <<f>> \o (<<g>> \o @)]
Become(f)   == stack' = [stack EXCEPT ![cpu] = <<f>> \o Tail(@)]
Return      == stack' = [stack EXCEPT ![cpu] = Tail(@)]

\* iret to the interrupted code: every frame iret pops was pushed with FL_IF
\* set (an interrupt is only taken with it set, user mode always runs with it).
Iret == Return /\ FL_IF' = TRUE /\ UNCHANGED <<ncli, intena>>

pushcli ==
  /\ ncli'   = ncli + 1
  /\ intena' = IF ncli = 0 THEN FL_IF ELSE intena
  /\ FL_IF'  = FALSE

\* popcli() after its two panic checks (CliDiscipline: they hold).
popcli ==
  /\ ncli'   = ncli - 1
  /\ intena' = IF ncli = 1 THEN FALSE ELSE intena
  /\ FL_IF'  = IF ncli = 1 /\ intena THEN TRUE ELSE FL_IF

(***************************************************************************)
(* sleep, wakeup and the system calls that use them.                       *)
(***************************************************************************)
Woken(c)  == {p \in Proc : wchan[p] = c}
\* Mutant: wakeup leaves wchan set.
wakeupKeepsWchan(c) ==
  /\ stat'  = [p \in Proc |-> IF p \in Woken(c) THEN "RUN" ELSE stat[p]]
  /\ UNCHANGED wchan

wakeup(c) ==
  /\ stat'  = [p \in Proc |-> IF p \in Woken(c) THEN "RUN" ELSE stat[p]]
  /\ wchan' = [p \in Proc |-> IF p \in Woken(c) THEN Nil ELSE wchan[p]]

\* sys_wait: sleep(user.procp), then collect_zombies().
SysWait ==
  /\ UserMode
  /\ Call2(F("sleep", procp), F("wait", Nil))
  /\ UNCHANGED <<procvars, swvars, clivars, procp, rover, halt, torn>>

\* A system call that blocks on a device: consoleread, iderw.
SysIo(c) ==
  /\ UserMode
  /\ Call2(F("sleep", c), F("io", Nil))
  /\ UNCHANGED <<procvars, swvars, clivars, procp, rover, halt, torn>>

Sleep ==
  /\ At("sleep")
  /\ wchan' = [wchan EXCEPT ![procp] = Top.arg]
  /\ stat'  = [stat EXCEPT ![procp] = "SLEEP"]
  /\ Become(F("sleeping", Nil))
  /\ UNCHANGED <<pproc, swvars, clivars, procp, rover, halt, torn>>

\* while (user.procp->wchan) sched();
SleepLoop ==
  /\ At("sleeping")
  /\ IF wchan[procp] # Nil THEN Call(F("sched", Nil)) ELSE Return
  /\ UNCHANGED <<procvars, swvars, clivars, procp, rover, halt, torn>>

\* The caller of sleep() has more to wait for: acquire's or iderw's loop, the
\* next lock, readi's next block.
IoAgain(c) ==
  /\ At("io")
  /\ Call(F("sleep", c))
  /\ UNCHANGED <<procvars, swvars, clivars, procp, rover, halt, torn>>

\* It gives a lock back: release().
IoRelease(c) ==
  /\ At("io")
  /\ wakeup(c)
  /\ UNCHANGED <<pproc, swvars, clivars, procp, rover, stack, halt, torn>>

IoReturn ==
  /\ At("io")
  /\ Iret
  /\ UNCHANGED <<procvars, swvars, procp, rover, halt, torn>>

\* pfree(z) for a set of slots: the kernel stack is freed, the slot is UNUSED.
pfree(Z) ==
  /\ stat'   = [p \in Proc |-> IF p \in Z THEN "UNUSED" ELSE stat[p]]
  /\ parked' = [p \in Proc |-> IF p \in Z THEN Nil ELSE parked[p]]
  /\ stack'  = [p \in Proc |-> IF p \in Z THEN <<>>
                               ELSE IF p = cpu THEN Tail(stack[p]) ELSE stack[p]]

\* Mutant: no check of pproc.
collect_all_zombies ==
  /\ At("wait")
  /\ pfree({z \in Proc : stat[z] = "ZOMB"})
  /\ FL_IF' = TRUE
  /\ UNCHANGED <<wchan, pproc, ctx, cpu, ncli, intena, procp, rover, halt, torn>>

collect_zombies ==
  /\ At("wait")
  /\ pfree({z \in Proc : pproc[z] = procp /\ stat[z] = "ZOMB"})
  /\ FL_IF' = TRUE
  /\ UNCHANGED <<wchan, pproc, ctx, cpu, ncli, intena, procp, rover, halt, torn>>

\* sys_exit up to its call of sched().
SysExit ==
  /\ UserMode
  /\ LET parent == pproc[procp]
         woken  == IF parent = Nil THEN {} ELSE Woken(parent)
     IN /\ stat'  = [p \in Proc |-> IF p \in woken THEN "RUN"
                                    ELSE IF p = procp THEN "ZOMB" ELSE stat[p]]
        /\ wchan' = [p \in Proc |-> IF p \in woken THEN Nil ELSE wchan[p]]
  /\ Call2(F("sched", Nil), F("exit", Nil))
  /\ UNCHANGED <<pproc, swvars, clivars, procp, rover, halt, torn>>

\* sched() came back to sys_exit.
ZombieExit == At("exit")

\* Mutant: the new slot is RUN at once.
pallocRun ==
  /\ UserMode
  /\ \E np \in Proc :
       /\ stat[np] = "UNUSED"
       /\ stat'   = [stat EXCEPT ![np] = "RUN"]
       /\ wchan'  = [wchan EXCEPT ![np] = Nil]
       /\ pproc'  = [pproc EXCEPT ![np] = Nil]
       /\ ctx'    = [ctx EXCEPT ![np] = np]
       /\ parked' = [parked EXCEPT ![np] = np]
       /\ stack'  = [stack EXCEPT ![np]  = <<F("trapret", Nil)>>,
                                  ![cpu] = <<F("fork", np)>>]
  /\ UNCHANGED <<cpu, clivars, procp, rover, halt, torn>>

\* sys_fork, palloc(): the first unused slot, with a handmade stack that
\* returns to trapret.  With the table full nothing happens.
palloc ==
  /\ UserMode
  /\ \E np \in Proc :
       /\ stat[np] = "UNUSED"
       /\ \A q \in 0 .. np - 1 : stat[q] # "UNUSED"
       /\ stat'   = [stat EXCEPT ![np] = "SET"]
       /\ wchan'  = [wchan EXCEPT ![np] = Nil]
       /\ pproc'  = [pproc EXCEPT ![np] = Nil]
       /\ ctx'    = [ctx EXCEPT ![np] = np]
       /\ parked' = [parked EXCEPT ![np] = np]
       /\ stack'  = [stack EXCEPT ![np]  = <<F("trapret", Nil)>>,
                                  ![cpu] = <<F("fork", np)>>]
  /\ UNCHANGED <<cpu, clivars, procp, rover, halt, torn>>

\* palloc() with no memory for a stack: the slot is cleared and stays unused.
PallocFail ==
  /\ UserMode
  /\ \E np \in Proc :
       /\ stat[np] = "UNUSED"
       /\ \A q \in 0 .. np - 1 : stat[q] # "UNUSED"
       /\ wchan' = [wchan EXCEPT ![np] = Nil]
       /\ pproc' = [pproc EXCEPT ![np] = Nil]
       /\ ctx'   = [ctx EXCEPT ![np] = Nil]
  /\ UNCHANGED <<stat, cpu, parked, clivars, procp, rover, stack, halt, torn>>

\* The rest of sys_fork once copyuvm() has succeeded.
ForkDone ==
  /\ At("fork")
  /\ pproc' = [pproc EXCEPT ![Top.arg] = procp]
  /\ stat'  = [stat EXCEPT ![Top.arg] = "RUN"]
  /\ Iret
  /\ UNCHANGED <<wchan, swvars, procp, rover, halt, torn>>

\* copyuvm() found no memory: pfree(np).
ForkFail ==
  /\ At("fork")
  /\ pfree({Top.arg})
  /\ FL_IF' = TRUE
  /\ UNCHANGED <<wchan, pproc, ctx, cpu, ncli, intena, procp, rover, halt, torn>>
-----------------------------------------------------------------------------
(***************************************************************************)
(* sched() and swtch().                                                    *)
(***************************************************************************)
\* Mutant: the scan starts one slot late.
SchedEnterLate ==
  /\ At("sched")
  /\ pushcli
  /\ Become(ScanF("scan", 1, Nil))
  /\ UNCHANGED <<procvars, swvars, procp, rover, halt, torn>>

SchedEnter ==
  /\ At("sched")
  /\ pushcli
  /\ Become(ScanF("scan", 0, Nil))
  /\ UNCHANGED <<procvars, swvars, procp, rover, halt, torn>>

\* Mutant: user.sched is advanced without the modulus.
ScanNoMod(pc, st) ==
  /\ At(pc)
  /\ Top.i < NPROC
  /\ LET j == (rover + Top.i) % NPROC
     IN /\ rover' = IF stat[j] = st THEN rover + Top.i ELSE rover
        /\ Become(ScanF(pc, Top.i + 1, IF stat[j] = st THEN j ELSE Top.new))
  /\ UNCHANGED <<procvars, swvars, clivars, procp, halt, torn>>

\* One iteration of a loop over the table for a process in state st.  The loop
\* has no break, and moves user.sched, from which it indexes, when it matches.
Scan(pc, st) ==
  /\ At(pc)
  /\ Top.i < NPROC
  /\ LET j == (rover + Top.i) % NPROC
     IN /\ rover' = IF stat[j] = st THEN Top.i ELSE rover
        /\ Become(ScanF(pc, Top.i + 1, IF stat[j] = st THEN j ELSE Top.new))
  /\ UNCHANGED <<procvars, swvars, clivars, procp, halt, torn>>

SchedScan == Scan("scan", "RUN")
SchedIdle == Scan("idle", "SLEEP")

Scanned(pc) == At(pc) /\ Top.i = NPROC

\* Mutant: a zombie too may find nothing to switch to.
SchedStayZombie ==
  /\ Scanned("scan")
  /\ Top.new \in {procp, Nil}
  /\ popcli
  /\ Return
  /\ UNCHANGED <<procvars, swvars, procp, rover, halt, torn>>

\* Nothing to switch to, or the scan ended on the running process.
SchedStay ==
  /\ Scanned("scan")
  /\ \/ Top.new = procp
     \/ Top.new = Nil /\ stat[procp] # "ZOMB"
  /\ popcli
  /\ Return
  /\ UNCHANGED <<procvars, swvars, procp, rover, halt, torn>>

\* A zombie cannot go on: look for a sleeping process to idle in.
SchedZombie ==
  /\ Scanned("scan")
  /\ Top.new = Nil
  /\ stat[procp] = "ZOMB"
  /\ Become(ScanF("idle", 0, Nil))
  /\ UNCHANGED <<procvars, swvars, clivars, procp, rover, halt, torn>>

\* A zombie found no process to run.
NoProc == Scanned("idle") /\ Top.new = Nil

Panic ==
  /\ ZombieExit \/ NoProc
  /\ halt' = IF ZombieExit THEN "zombie exit" ELSE "no proc."
  /\ UNCHANGED <<procvars, swvars, clivars, procp, rover, stack, torn>>

\* Mutant: popcli() is forgotten before swtch().
SchedCommitNoPopcli ==
  /\ Scanned("scan") \/ Scanned("idle")
  /\ Top.new \notin {Nil, procp}
  /\ procp' = Top.new
  /\ Become(SwitchF("switch", Nil, procp, Top.new))
  /\ UNCHANGED <<procvars, swvars, clivars, rover, halt, torn>>

\* Mutant: oldproc is read after user.procp was assigned.
SchedCommitSwapped ==
  /\ Scanned("scan") \/ Scanned("idle")
  /\ Top.new \notin {Nil, procp}
  /\ procp' = Top.new
  /\ popcli
  /\ Become(SwitchF("switch", Nil, Top.new, Top.new))
  /\ UNCHANGED <<procvars, swvars, rover, halt, torn>>

\* user.procp = newproc; switchuvm(newproc); popcli();
SchedCommit ==
  /\ Scanned("scan") \/ Scanned("idle")
  /\ Top.new \notin {Nil, procp}
  /\ procp' = Top.new
  /\ popcli
  /\ Become(SwitchF("switch", Nil, procp, Top.new))
  /\ UNCHANGED <<procvars, swvars, rover, halt, torn>>

\* The arguments of swtch(&oldproc->context, newproc->context).
SchedLoad ==
  /\ At("switch")
  /\ Become(SwitchF("swtch", ctx[Top.new], Top.old, Top.new))
  /\ UNCHANGED <<procvars, swvars, clivars, procp, rover, halt, torn>>

\* swtch: leave this stack in oldproc's context, continue on the loaded one.
\* Loading a context that no stack was left in runs on garbage.
swtch ==
  /\ At("swtch")
  /\ Return
  /\ ctx' = [ctx EXCEPT ![Top.old] = cpu]
  /\ LET k == Top.arg
     IN IF k \in Proc /\ parked[k] = Top.new
          THEN /\ cpu'    = k
               /\ parked' = [parked EXCEPT ![cpu] = Top.old, ![k] = Nil]
               /\ UNCHANGED halt
          ELSE /\ halt'   = "wild"
               /\ parked' = [parked EXCEPT ![cpu] = Top.old]
               /\ UNCHANGED cpu
  /\ UNCHANGED <<procvars, clivars, procp, rover, torn>>
-----------------------------------------------------------------------------
(***************************************************************************)
(* Interrupts.                                                             *)
(***************************************************************************)

\* A timer tick with tick % 100 == 0: the gate clears FL_IF, trap() calls
\* sched().  Other ticks only count.
Timer ==
  /\ halt = "no"
  /\ FL_IF
  /\ Len(stack[cpu]) + 2 <= MaxStack
  /\ FL_IF' = FALSE
  /\ Call2(F("sched", Nil), F("trap", Nil))
  /\ torn' = (torn \/ At("switch") \/ At("swtch"))
  /\ UNCHANGED <<procvars, swvars, ncli, intena, procp, rover, halt>>

\* Return from trap() to alltraps, or from a handmade stack to trapret.
TrapReturn ==
  /\ At("trap") \/ At("trapret")
  /\ Iret
  /\ UNCHANGED <<procvars, swvars, procp, rover, halt, torn>>

\* A keyboard or disk interrupt, whole: its handler only wakes its channel.
DevIntr(c) ==
  /\ halt = "no"
  /\ FL_IF
  /\ wakeup(c)
  /\ UNCHANGED <<pproc, swvars, clivars, procp, rover, stack, halt, torn>>

\* The disk answers before the process that asked has stored its wchan: ideintr
\* reads a null wchan and wakes every slot that waits for nothing, free slots
\* and zombies included.  What runs from then on has no context to run in.
EarlyIdeIntr ==
  /\ halt = "no"
  /\ FL_IF
  /\ \E p \in Proc : \E f \in Frames(stack[p]) :
       f.pc = "sleep" /\ f.arg \in Disk
  /\ wakeup(Nil)
  /\ halt' = "null wakeup"
  /\ UNCHANGED <<pproc, swvars, clivars, procp, rover, stack, torn>>
-----------------------------------------------------------------------------
\* The state uinit() leaves: slot 0 is a zombie for good (the boot thread's
\* "dummy"), slot 1 runs initcode in user mode.  sched() may have been called
\* while uinit() slept for the root directory, and moved user.sched.
Init ==
  /\ stat   = [p \in Proc |-> CASE p = 0 -> "ZOMB" [] p = 1 -> "RUN"
                                [] OTHER -> "UNUSED"]
  /\ wchan  = [p \in Proc |-> Nil]
  /\ pproc  = [p \in Proc |-> Nil]
  /\ ctx    = [p \in Proc |-> IF p = 1 THEN 1 ELSE Nil]
  /\ parked = [p \in Proc |-> Nil]
  /\ stack  = [p \in Proc |-> <<>>]
  /\ procp = 1 /\ cpu = 1
  /\ rover \in {0, 1}
  /\ ncli = 0 /\ intena = FALSE /\ FL_IF = TRUE
  /\ halt = "no" /\ torn = FALSE

\* What the CPU does next in the kernel.
Kernel ==
  \/ Sleep \/ SleepLoop \/ IoReturn \/ collect_zombies
  \/ \E c \in Chan : IoAgain(c) \/ IoRelease(c)
  \/ ForkDone \/ ForkFail
  \/ SchedEnter \/ SchedScan \/ SchedStay \/ SchedZombie \/ SchedIdle
  \/ Panic \/ SchedCommit \/ SchedLoad \/ swtch \/ TrapReturn

User  == SysWait \/ SysExit \/ palloc \/ PallocFail \/ \E c \in Chan : SysIo(c)
Intr  == Timer \/ EarlyIdeIntr \/ \E c \in Chan : DevIntr(c)
Next  == Kernel \/ User \/ Intr

Spec     == Init /\ [][Next]_vars

\* The CPU never stops executing kernel code; user code owes nothing.
FairSpec == Spec /\ WF_vars(Kernel)
-----------------------------------------------------------------------------
(***************************************************************************)
(* Properties.                                                             *)
(***************************************************************************)

\* Every variable has its type, and user.sched stays an index of proc[].
TypeOK ==
  /\ stat   \in [Proc -> Stat]
  /\ wchan  \in [Proc -> Proc \cup Chan \cup {Nil}]
  /\ pproc  \in [Proc -> Proc \cup {Nil}]
  /\ ctx    \in [Proc -> Proc \cup {Nil}]
  /\ parked \in [Proc -> Proc \cup {Nil}]
  /\ stack  \in [Proc -> Seq(Frame)]
  /\ procp \in Proc /\ cpu \in Proc /\ rover \in 0 .. NPROC - 1
  /\ ncli \in Nat /\ intena \in BOOLEAN /\ FL_IF \in BOOLEAN
  /\ halt \in {"no", "zombie exit", "no proc.", "wild",
               "null wakeup"} /\ torn \in BOOLEAN

\* Code that sched() runs between its pushcli() and its popcli().
InCli(f)   == f.pc \in {"scan", "idle"}
CliFree(s) == \A f \in Frames(s) : ~InCli(f)

\* user.ncli and user.intena are one per machine, not one per process: they are
\* right only if no kernel stack is ever left, by swtch or by an interrupt, in
\* the middle of a pushcli/popcli section.  It is also what popcli() checks.
CliDiscipline ==
  /\ \A p \in Proc \ {cpu} : CliFree(stack[p])
  /\ stack[cpu] # <<>> => CliFree(Tail(stack[cpu]))
  /\ ncli = IF stack[cpu] # <<>> /\ InCli(Top) THEN 1 ELSE 0
  /\ FL_IF => ncli = 0
  /\ ncli = 0 => ~intena

\* sleep() waits on wchan, sched() selects on stat: a process the one says is
\* asleep and the other not would spin or never run.  (Until a reschedule lands
\* in sched() between popcli() and swtch().)
SleepConsistent ==
  ~torn => \A p \in Proc : stat[p] = "SLEEP" <=> wchan[p] # Nil

\* Between user.procp = newproc and swtch the CPU is still on oldproc's stack.
Switching == stack[cpu] # <<>> /\ Top.pc \in {"switch", "swtch"}

\* The process table describes the machine: the CPU is on the stack of
\* user.procp, but for the end of sched(), and everything sched() may choose
\* has a context that swtch() can load.
ContextSound ==
  ~torn /\ halt = "no" =>
    /\ IF Switching THEN Top.old = cpu /\ Top.new = procp /\ cpu # procp
                    ELSE cpu = procp
    /\ \A p \in Proc \ {cpu} : stat[p] \in {"SET", "RUN", "SLEEP"} =>
         ctx[p] = p /\ parked[p] = p

\* The CPU is never on the stack of a freed slot, and the slot a fork is filling
\* is that fork's alone: not run, not freed and not handed out again while
\* copyuvm() works, although the parent can be preempted there.
KstackLive ==
  ~torn /\ halt = "no" =>
    /\ stat[cpu] # "UNUSED"
    /\ \A p, q \in Proc : \A f \in Frames(stack[p]), g \in Frames(stack[q]) :
         /\ f.pc = "fork" => stat[f.arg] = "SET"
         /\ p # q /\ f.pc = "fork" /\ g.pc = "fork" => f.arg # g.arg

\* sched() called by sys_exit never comes back (panic "zombie exit").
ZombieNeverReturns == ~torn => halt # "zombie exit"

\* A zombie is only ever freed, and only by a process it names as its parent.
ZombieReaped ==
  [][~torn /\ halt' = "no" =>
       \A p \in Proc : stat[p] = "ZOMB" /\ stat'[p] # "ZOMB" =>
         stat'[p] = "UNUSED" /\ p # 0 /\ pproc[p] = procp]_vars

\* A RUN process never waits for an idle CPU: the CPU gets to run one, for a
\* sleeping process idles by calling sched() again and an exiting one leaves.
WorkConserving ==
  (\E p \in Proc : stat[p] = "RUN") ~>
     stat[procp] = "RUN" \/ (\A p \in Proc : stat[p] # "RUN")
       \/ torn \/ halt # "no"
-----------------------------------------------------------------------------
(***************************************************************************)
(* What comments in the code say, and the code does not do.                *)
(***************************************************************************)

\* swtch.S: the registers are saved in a context whose address is stored "in
\* *old", and "Switch stacks to new" finds "previously-saved registers" there.
SwitchToSaved == halt # "wild"

\* proc.c: when the scan ends on user.procp there is "only one running process".
OnlyOneRunning ==
  Scanned("scan") /\ Top.new = procp =>
    \A q \in Proc : stat[q] = "RUN" => q = procp

\* wait.c: a process in wait() will "kill zombies child".
WaitKillsZombies ==
  \A p, z \in Proc :
    stat[p] = "SLEEP" /\ wchan[p] = p /\ pproc[z] = p /\ stat[z] = "ZOMB"
      ~> stat[p] # "SLEEP" \/ stat[z] # "ZOMB" \/ torn \/ halt # "no"
=============================================================================
