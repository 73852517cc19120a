-------------------------------- MODULE Bio --------------------------------
(***************************************************************************)
(* The buffer cache of mixv6 and the disk under it: fs/bio.c (bget, bread, *)
(* bwrite, brelse), dev/ide.c (iderw, sendreq, ideintr) and the sleeping   *)
(* locks of kernel/lock.c (acquire, release, holding).                     *)
(*                                                                         *)
(* One process, procp, has the CPU; it takes one step at a time between    *)
(* points where an interrupt can be taken.  Reschedule is sched(): called  *)
(* by the timer anywhere, and by sleep() as long as the process sleeps.    *)
(* What sched() itself does is the subject of module Sched.                *)
(***************************************************************************)
EXTENDS Integers, FiniteSets

CONSTANTS
  Proc,       \* processes
  Lookers,    \* those that look names up, and those that write: all of them,
  Writers,    \* or fewer to bound a model
  Blockno,    \* numbers of the disk blocks the file system asks for
  NBUF        \* NELEM(blocks)

Buf     == 1 .. NBUF
NoBlock == 0                \* blocks[] starts zeroed
Nil     == -1               \* a null pointer
IDE     == 0                \* idelock; the lock of buffer b is b
Lock    == {IDE} \cup Buf
BufChan(b) == NBUF + b      \* the wait channel b; a lock is its own channel

\* A process holds one buffer at a time, two in namei(), which keeps one while
\* iget() reads another; NELEM(blocks) is 256 and NPROC 64.
ASSUME BioConstants ==
  /\ IsFiniteSet(Proc) /\ Nil \notin Proc
  /\ NoBlock \notin Blockno
  /\ Lookers \subseteq Proc /\ Writers \subseteq Proc
  /\ NBUF \in Nat /\ NBUF >= Cardinality(Proc) + Cardinality(Lookers)

VARIABLES
  blockno, refcnt,  \* blocks[i].blockno, .refcnt
  valid, dirty,     \* the flags B_VALID and B_DIRTY of blocks[i]
  data,             \* blocks[i].data: its "own" block's as on disk, or "junk"
  locked, owner,    \* a lock's locked and procp
  wchan,            \* a process's wchan
  procp,            \* user.procp
  pc, op, lk,       \* where a process is, in which call, at which lock
  cur, outer,       \* the buffer it works on, and the one namei() keeps
  req,              \* the buffer of the request the disk works on
  halt,             \* "no", a panic message, or why execution is undefined
  torn              \* history: a reschedule split acquire() or release()

bufvars  == <<blockno, refcnt, valid, dirty, data>>
lockvars == <<locked, owner>>
locals   == <<op, lk, cur, outer>>
vars     == <<bufvars, lockvars, wchan, procp, pc, locals, req, halt, torn>>

\* The running process is at program point l.
At(l)   == halt = "no" /\ wchan[procp] = Nil /\ pc[procp] = l
Goto(l) == pc' = [pc EXCEPT ![procp] = l]
Mine    == cur[procp]

\* Points at which acquire() has tested, or release() cleared, locked and has
\* yet to do what that was for.
Window == {"acqset", "acqsleep", "rel2"}
-----------------------------------------------------------------------------
(***************************************************************************)
(* The buffers.  bget() runs between pushcli() and popcli(): one step.     *)
(***************************************************************************)
Cached(n) == {b \in Buf : blockno[b] = n}
\* Mutant: a buffer in use may be recycled.
FreeUsed == {b \in Buf : ~dirty[b]}
Free == {b \in Buf : refcnt[b] = 0 /\ ~dirty[b]}
First(S, b) == b \in S /\ \A a \in S : b <= a

\* Mutant: the cache is searched for valid buffers only.
bgetValid(n, b) ==
  \/ /\ First({a \in Cached(n) : valid[a]}, b)
     /\ refcnt' = [refcnt EXCEPT ![b] = @ + 1]
     /\ UNCHANGED <<blockno, valid, dirty, data>>
  \/ /\ {a \in Cached(n) : valid[a]} = {}
     /\ First(Free, b)
     /\ blockno' = [blockno EXCEPT ![b] = n]
     /\ valid'   = [valid EXCEPT ![b] = FALSE]
     /\ dirty'   = [dirty EXCEPT ![b] = FALSE]
     /\ refcnt'  = [refcnt EXCEPT ![b] = 1]
     /\ data'    = [data EXCEPT ![b] = "junk"]

\* Mutant: a recycled buffer keeps its flags.
bgetStale(n, b) ==
  \/ /\ First(Cached(n), b)
     /\ refcnt' = [refcnt EXCEPT ![b] = @ + 1]
     /\ UNCHANGED <<blockno, valid, dirty, data>>
  \/ /\ Cached(n) = {}
     /\ First(Free, b)
     /\ blockno' = [blockno EXCEPT ![b] = n]
     /\ refcnt'  = [refcnt EXCEPT ![b] = 1]
     /\ data'    = [data EXCEPT ![b] = "junk"]
     /\ UNCHANGED <<valid, dirty>>

\* Mutant: a hit is not counted.
bgetUncounted(n, b) ==
  \/ /\ First(Cached(n), b)
     /\ refcnt' = [refcnt EXCEPT ![b] = IF @ = 0 THEN 1 ELSE @]
     /\ UNCHANGED <<blockno, valid, dirty, data>>
  \/ /\ Cached(n) = {}
     /\ First(Free, b)
     /\ blockno' = [blockno EXCEPT ![b] = n]
     /\ valid'   = [valid EXCEPT ![b] = FALSE]
     /\ dirty'   = [dirty EXCEPT ![b] = FALSE]
     /\ refcnt'  = [refcnt EXCEPT ![b] = 1]
     /\ data'    = [data EXCEPT ![b] = "junk"]

bget(n, b) ==
  \/ /\ First(Cached(n), b)
     /\ refcnt' = [refcnt EXCEPT ![b] = @ + 1]
     /\ UNCHANGED <<blockno, valid, dirty, data>>
  \/ /\ Cached(n) = {}
     /\ First(Free, b)
     /\ blockno' = [blockno EXCEPT ![b] = n]
     /\ valid'   = [valid EXCEPT ![b] = FALSE]
     /\ dirty'   = [dirty EXCEPT ![b] = FALSE]
     /\ refcnt'  = [refcnt EXCEPT ![b] = 1]
     /\ data'    = [data EXCEPT ![b] = "junk"]

\* bget() finds neither the block nor a buffer to put it in, and panics.
Full(n) == Cached(n) = {} /\ Free = {}
NoBuffers == halt' = "bget: no buffers" /\ UNCHANGED <<bufvars, pc, locals>>

\* Where a process may ask for a block: holding none, or as iget() under
\* namei(), which keeps the directory's block.
MayGet ==
  \/ At("user")
  \/ At("hold") /\ op[procp] = "bread" /\ outer[procp] = Nil /\ procp \in Lookers

\* bread() as far as bget() returns.
bread(n) ==
  /\ MayGet
  /\ IF Full(n) THEN NoBuffers
     ELSE /\ \E b \in Buf :
               /\ bget(n, b)
               /\ cur'   = [cur EXCEPT ![procp] = b]
               /\ outer' = [outer EXCEPT ![procp] = Mine]
               /\ op'    = [op EXCEPT ![procp] = "bread"]
          /\ Goto("bread")
          /\ UNCHANGED <<lk, halt>>
  /\ UNCHANGED <<lockvars, wchan, procp, req, torn>>

\* bread()'s test of refcnt, with interrupts enabled: it returns the buffer as
\* it is when others use it, else goes to acquire().
breadShared ==
  /\ At("bread")
  /\ IF refcnt[Mine] > 1 THEN Goto("hold") /\ UNCHANGED lk
                         ELSE Goto("acq") /\ lk' = [lk EXCEPT ![procp] = Mine]
  /\ UNCHANGED <<bufvars, lockvars, wchan, procp, op, cur, outer, req, halt, torn>>

\* writei() of a whole sector gets the buffer without reading it.  (What it
\* then puts there is not modelled: data follows the disk's transfers.)
WriteSector(n) ==
  /\ At("user") /\ procp \in Writers
  /\ IF Full(n) THEN NoBuffers
     ELSE /\ \E b \in Buf :
               /\ bget(n, b)
               /\ cur' = [cur EXCEPT ![procp] = b]
               /\ op'  = [op EXCEPT ![procp] = "bget"]
          /\ Goto("hold")
          /\ UNCHANGED <<lk, outer, halt>>
  /\ UNCHANGED <<lockvars, wchan, procp, req, torn>>

\* bwrite() up to its acquire().
bwrite ==
  /\ At("hold") /\ procp \in Writers
  /\ op' = [op EXCEPT ![procp] = "bwrite"]
  /\ lk' = [lk EXCEPT ![procp] = Mine]
  /\ Goto("acq")
  /\ UNCHANGED <<bufvars, lockvars, wchan, procp, cur, outer, req, halt, torn>>

\* Mutant: the block namei() kept is not given back.
brelseLeak ==
  /\ At("hold")
  /\ refcnt' = [refcnt EXCEPT ![Mine] = IF outer[procp] = Nil THEN @ - 1 ELSE @]
  /\ cur'    = [cur EXCEPT ![procp] = Nil]
  /\ outer'  = [outer EXCEPT ![procp] = Nil]
  /\ op'     = [op EXCEPT ![procp] = "bread"]
  /\ Goto("user")
  /\ UNCHANGED <<blockno, valid, dirty, data, lockvars, wchan, procp, lk, req, halt, torn>>

\* Mutant: the reference is given back twice.
brelseTwice ==
  /\ At("hold")
  /\ refcnt' = [refcnt EXCEPT ![Mine] = @ - 2]
  /\ cur'    = [cur EXCEPT ![procp] = outer[procp]]
  /\ outer'  = [outer EXCEPT ![procp] = Nil]
  /\ op'     = [op EXCEPT ![procp] = "bread"]
  /\ Goto(IF outer[procp] = Nil THEN "user" ELSE "hold")
  /\ UNCHANGED <<blockno, valid, dirty, data, lockvars, wchan, procp, lk, req, halt, torn>>

\* brelse(): one instruction.  The buffer namei() kept is current again.
brelse ==
  /\ At("hold")
  /\ refcnt' = [refcnt EXCEPT ![Mine] = @ - 1]
  /\ cur'    = [cur EXCEPT ![procp] = outer[procp]]
  /\ outer'  = [outer EXCEPT ![procp] = Nil]
  /\ op'     = [op EXCEPT ![procp] = "bread"]
  /\ Goto(IF outer[procp] = Nil THEN "user" ELSE "hold")
  /\ UNCHANGED <<blockno, valid, dirty, data, lockvars, wchan, procp, lk, req, halt, torn>>
-----------------------------------------------------------------------------
(***************************************************************************)
(* acquire(), release(), sleep() and wakeup().                             *)
(***************************************************************************)
Holding(p, l) == locked[l] /\ owner[l] = p

wakeup(c) == wchan' = [p \in Proc |-> IF wchan[p] = c THEN Nil ELSE wchan[p]]

\* Mutant: acquire() sleeps once and does not test again.
AcqSleepOnce ==
  /\ At("acqsleep")
  /\ wchan' = [wchan EXCEPT ![procp] = lk[procp]]
  /\ Goto("acqset")
  /\ UNCHANGED <<bufvars, lockvars, procp, locals, req, halt, torn>>

AcqTest ==
  /\ At("acq")
  /\ Goto(IF locked[lk[procp]] THEN "acqsleep" ELSE "acqset")
  /\ UNCHANGED <<bufvars, lockvars, wchan, procp, locals, req, halt, torn>>

\* sleep(lock): the process goes on, and tests again, once its wchan is cleared.
AcqSleep ==
  /\ At("acqsleep")
  /\ wchan' = [wchan EXCEPT ![procp] = lk[procp]]
  /\ Goto("acq")
  /\ UNCHANGED <<bufvars, lockvars, procp, locals, req, halt, torn>>

\* The two stores of acquire(); whoever runs between them finds the lock taken.
AcqSet ==
  /\ At("acqset")
  /\ locked' = [locked EXCEPT ![lk[procp]] = TRUE]
  /\ owner'  = [owner EXCEPT ![lk[procp]] = procp]
  /\ Goto(IF lk[procp] = IDE THEN "send" ELSE "got")
  /\ UNCHANGED <<bufvars, wchan, procp, locals, req, halt, torn>>

Rel ==
  /\ At("rel")
  /\ locked' = [locked EXCEPT ![lk[procp]] = FALSE]
  /\ Goto("rel2")
  /\ UNCHANGED <<bufvars, owner, wchan, procp, locals, req, halt, torn>>

RelOwner ==
  /\ At("rel2")
  /\ owner' = [owner EXCEPT ![lk[procp]] = Nil]
  /\ Goto("rel3")
  /\ UNCHANGED <<bufvars, locked, wchan, procp, locals, req, halt, torn>>

\* Mutant: release() of idelock wakes nobody.
RelWakeBuf ==
  /\ At("rel3")
  /\ IF lk[procp] = IDE THEN UNCHANGED wchan ELSE wakeup(lk[procp])
  /\ IF lk[procp] = IDE
       THEN Goto("rel") /\ lk' = [lk EXCEPT ![procp] = Mine]
       ELSE Goto("hold") /\ lk' = [lk EXCEPT ![procp] = IDE]
  /\ UNCHANGED <<bufvars, lockvars, procp, op, cur, outer, req, halt, torn>>

\* The wakeup() of release(); iderw() returns to release the buffer's lock.
RelWake ==
  /\ At("rel3")
  /\ wakeup(lk[procp])
  /\ IF lk[procp] = IDE
       THEN Goto("rel") /\ lk' = [lk EXCEPT ![procp] = Mine]
       ELSE Goto("hold") /\ lk' = [lk EXCEPT ![procp] = IDE]
  /\ UNCHANGED <<bufvars, lockvars, procp, op, cur, outer, req, halt, torn>>
-----------------------------------------------------------------------------
(***************************************************************************)
(* The disk.                                                               *)
(***************************************************************************)

\* bread() has the lock and the buffer is valid: nothing to read.
GotValid ==
  /\ At("got")
  /\ op[procp] = "bread" /\ valid[Mine]
  /\ Goto("rel")
  /\ UNCHANGED <<bufvars, lockvars, wchan, procp, locals, req, halt, torn>>

\* bread() or bwrite() enters iderw(), as far as its acquire(&idelock).
iderw ==
  /\ At("got")
  /\ op[procp] = "bwrite" \/ ~valid[Mine]
  /\ Holding(procp, Mine)
  /\ dirty' = [dirty EXCEPT ![Mine] = @ \/ op[procp] = "bwrite"]
  /\ lk' = [lk EXCEPT ![procp] = IDE]
  /\ Goto("acq")
  /\ UNCHANGED <<blockno, refcnt, valid, data, lockvars, wchan, procp, op, cur, outer,
                 req, halt, torn>>

\* The panics of bwrite() and iderw(): the lock is not held.  (iderw()'s other
\* panic, "nothing to do", would need a valid clean buffer here.)
LockPanic ==
  /\ At("got")
  /\ op[procp] = "bwrite" \/ ~valid[Mine]
  /\ ~Holding(procp, Mine)
  /\ halt' = "block not locked"
  /\ UNCHANGED <<bufvars, lockvars, wchan, procp, pc, locals, req, torn>>

\* sendreq(), after idewait(), for a block the disk has.
sendreq ==
  /\ At("send")
  /\ req = Nil
  /\ req' = Mine
  /\ Goto("iowait")
  /\ UNCHANGED <<bufvars, lockvars, wchan, procp, locals, halt, torn>>

\* Mutant: a valid buffer need not be clean.
IoTestValid ==
  /\ At("iowait")
  /\ Goto(IF valid[Mine] THEN "rel" ELSE "iosleep")
  /\ UNCHANGED <<bufvars, lockvars, wchan, procp, locals, req, halt, torn>>

\* while ((b->flags & (B_VALID | B_DIRTY)) != B_VALID) sleep(b);
IoTest ==
  /\ At("iowait")
  /\ Goto(IF valid[Mine] /\ ~dirty[Mine] THEN "rel" ELSE "iosleep")
  /\ UNCHANGED <<bufvars, lockvars, wchan, procp, locals, req, halt, torn>>

IoSleep ==
  /\ At("iosleep")
  /\ wchan' = [wchan EXCEPT ![procp] = BufChan(Mine)]
  /\ Goto("iowait")
  /\ UNCHANGED <<bufvars, lockvars, procp, locals, req, halt, torn>>

\* The buffer ideintr() finds: the wchan of the process that has idelock.
IntrBuf == {b \in Buf : owner[IDE] # Nil /\ wchan[owner[IDE]] = BufChan(b)}

ideintr ==
  /\ halt = "no"
  /\ req # Nil
  /\ \E b \in IntrBuf :
       /\ data'  = [data EXCEPT ![b] = IF b = req THEN "own" ELSE IF dirty[b] THEN @ ELSE "junk"]
       /\ valid' = [valid EXCEPT ![b] = TRUE]
       /\ dirty' = [dirty EXCEPT ![b] = FALSE]
       /\ wakeup(BufChan(b))
  /\ req' = Nil
  /\ UNCHANGED <<blockno, refcnt, lockvars, procp, pc, locals, halt, torn>>

\* The disk answers when that wchan is no buffer: before the process that sent
\* the request is asleep, or with idelock in disorder.  ideintr() then stores
\* through a null or a wrong pointer.
StrayIntr ==
  /\ halt = "no"
  /\ req # Nil
  /\ IntrBuf = {}
  /\ halt' = "stray interrupt"
  /\ UNCHANGED <<bufvars, lockvars, wchan, procp, pc, locals, req, torn>>

\* sched(), from the timer or from sleep().
Reschedule(q) ==
  /\ halt = "no"
  /\ q # procp /\ wchan[q] = Nil
  /\ procp' = q
  /\ torn' = (torn \/ (wchan[procp] = Nil /\ pc[procp] \in Window))
  /\ UNCHANGED <<bufvars, lockvars, wchan, pc, locals, req, halt>>
-----------------------------------------------------------------------------
Init ==
  /\ blockno = [b \in Buf |-> NoBlock]
  /\ refcnt  = [b \in Buf |-> 0]
  /\ valid   = [b \in Buf |-> FALSE]
  /\ dirty   = [b \in Buf |-> FALSE]
  /\ data    = [b \in Buf |-> "junk"]
  /\ locked  = [l \in Lock |-> FALSE]
  /\ owner   = [l \in Lock |-> Nil]
  /\ wchan   = [p \in Proc |-> Nil]
  /\ pc      = [p \in Proc |-> "user"]
  /\ op      = [p \in Proc |-> "bread"]
  /\ lk      = [p \in Proc |-> IDE]
  /\ cur     = [p \in Proc |-> Nil]
  /\ outer   = [p \in Proc |-> Nil]
  /\ procp \in Proc
  /\ req = Nil /\ halt = "no" /\ torn = FALSE

Buffers == \/ \E n \in Blockno : bread(n) \/ WriteSector(n)
           \/ breadShared \/ bwrite \/ brelse
Locks   == AcqTest \/ AcqSleep \/ AcqSet \/ Rel \/ RelOwner \/ RelWake
Disk    == GotValid \/ iderw \/ LockPanic \/ sendreq \/ IoTest \/ IoSleep
Next    == Buffers \/ Locks \/ Disk \/ ideintr \/ StrayIntr
             \/ \E q \in Proc : Reschedule(q)

Spec == Init /\ [][Next]_vars
-----------------------------------------------------------------------------
(***************************************************************************)
(* Properties.                                                             *)
(***************************************************************************)
PC == {"user", "bread", "hold", "acq", "acqset", "acqsleep", "got", "send", "iowait", "iosleep",
       "rel", "rel2", "rel3"}

\* Every variable has its type; a reference count stays within what the
\* processes can hold, so brelse() never takes it below zero.
TypeOK ==
  /\ blockno \in [Buf -> Blockno \cup {NoBlock}]
  /\ refcnt \in [Buf -> Nat]
  /\ valid \in [Buf -> BOOLEAN] /\ dirty \in [Buf -> BOOLEAN]
  /\ data \in [Buf -> {"junk", "own"}]
  /\ locked \in [Lock -> BOOLEAN] /\ owner \in [Lock -> Proc \cup {Nil}]
  /\ wchan \in [Proc -> 0 .. 2 * NBUF \cup {Nil}]
  /\ procp \in Proc
  /\ pc \in [Proc -> PC] /\ op \in [Proc -> {"bread", "bget", "bwrite"}]
  /\ lk \in [Proc -> Lock]
  /\ cur \in [Proc -> Buf \cup {Nil}] /\ outer \in [Proc -> Buf \cup {Nil}]
  /\ req \in Buf \cup {Nil}
  /\ halt \in {"no", "bget: no buffers", "block not locked", "stray interrupt"}
  /\ torn \in BOOLEAN

\* A block is in one buffer at most: two processes that read and write the same
\* block share it.
BlockUnique ==
  \A a, b \in Buf : blockno[a] = blockno[b] /\ blockno[a] # NoBlock => a = b

\* refcnt counts the references that processes have, whatever is interrupted,
\* asleep or half way through bread().
RefcntExact ==
  \A b \in Buf : refcnt[b] = Cardinality({p \in Proc : cur[p] = b})
                             + Cardinality({p \in Proc : outer[p] = b})

\* A buffer never gets another block's number while a process refers to it.
NoRecycle ==
  [][\A b \in Buf : (\E p \in Proc : cur[p] = b \/ outer[p] = b) =>
       blockno'[b] = blockno[b]]_vars

\* bget() always finds a buffer, and outside a split acquire() or release()
\* bwrite() and iderw() always have the lock they check.
NoPanic ==
  /\ halt # "bget: no buffers"
  /\ ~torn => halt # "block not locked"

\* The locks a process is inside of.
Inside(p) ==
  {l \in Lock :
     \/ l = IDE /\ \/ pc[p] \in {"send", "iowait", "iosleep"}
                   \/ pc[p] = "rel" /\ lk[p] = IDE
     \/ l = cur[p] /\ \/ pc[p] \in {"got", "send", "iowait", "iosleep", "rel"}
                      \/ pc[p] \in {"acq", "acqset", "acqsleep", "rel2", "rel3"} /\ lk[p] = IDE}

\* Until a reschedule splits acquire() or release(), a lock is locked exactly
\* while one process is inside it, and that process is its procp.
LockExclusive ==
  ~torn => \A l \in Lock :
    /\ \A p \in Proc : l \in Inside(p) => locked[l] /\ owner[l] = p
    /\ locked[l] => \E p \in Proc : l \in Inside(p)

\* ideintr() finds its buffer through idelock: the process that has idelock is
\* the one that sent the request, it still waits for it, and it still has the
\* buffer and the buffer's lock.
IntrTarget ==
  ~torn /\ req # Nil => \E p \in Proc :
    /\ owner[IDE] = p /\ owner[req] = p /\ cur[p] = req
    /\ pc[p] \in {"iowait", "iosleep"} /\ wchan[p] \in {Nil, BufChan(req)}
    /\ ~(valid[req] /\ ~dirty[req])

\* Somebody will wake every sleeper: the process inside the lock or on its way
\* out of it, or the disk.
SleeperHasWaker ==
  ~torn => \A p \in Proc :
    /\ wchan[p] \in Lock => \/ locked[wchan[p]]
                            \/ \E q \in Proc : pc[q] \in {"rel2", "rel3"} /\ lk[q] = wchan[p]
    /\ wchan[p] # Nil /\ wchan[p] \notin Lock => req # Nil /\ wchan[p] = BufChan(req)

\* The machine never waits for itself: when every process sleeps in the block
\* layer, the disk is at work.
NoDeadlock ==
  ~torn /\ (\A p \in Proc : wchan[p] # Nil) => req # Nil

\* A buffer flagged B_VALID holds its block, not the block it held before; one
\* flagged B_DIRTY is being written by the process that has its lock.
FlagsSound ==
  ~torn => \A b \in Buf :
    /\ valid[b] => data[b] # "junk"
    /\ dirty[b] => \E p \in Proc : b \in Inside(p) /\ op[p] = "bwrite"
-----------------------------------------------------------------------------
(***************************************************************************)
(* What comments in the code say, and the code does not do.                *)
(***************************************************************************)

\* lock.h: a lock's procp is the "Process holding lock".
LockProcp == \A p \in Proc : \A l \in Inside(p) : locked[l] /\ owner[l] = p

\* block.h: B_VALID says "buffer is valid"; what bread() returns should be.
BreadValid ==
  \A p \in Proc : pc[p] = "hold" /\ op[p] = "bread" => valid[cur[p]]
=============================================================================
