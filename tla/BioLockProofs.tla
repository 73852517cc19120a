--------------------------- MODULE BioLockProofs ---------------------------
(***************************************************************************)
(* Proofs about Bio, for every set of processes and blocks and every NBUF: *)
(* the sleeping locks, the flags and the disk's interrupt.  What the locks *)
(* promise holds until a reschedule splits acquire() or release(), as torn *)
(* records; that bget() finds a buffer holds whatever happens.             *)
(***************************************************************************)
EXTENDS BioProofs

(***************************************************************************)
(* The inductive invariant.                                                *)
(***************************************************************************)

\* The buffer is not yet as iderw() waits for it to be.
Pending(b) == ~(valid[b] /\ ~dirty[b])

Entering(p)   == pc[p] \in {"acq", "acqset", "acqsleep"}
Leaving(p)    == pc[p] \in {"rel", "rel2", "rel3"}
Waiting(p)    == pc[p] \in {"iowait", "iosleep"}
Requesting(p) == \/ Entering(p) /\ lk[p] = IDE
                 \/ pc[p] = "send"

\* Which lock a process is at, and what it may sleep on, wherever it is.
ShapeOf(p) ==
  /\ Entering(p) \/ Leaving(p) => lk[p] = IDE \/ lk[p] = cur[p]
  /\ pc[p] = "got" => lk[p] = cur[p]
  /\ pc[p] = "send" \/ Waiting(p) => lk[p] = IDE
  /\ wchan[p] \in Lock => pc[p] = "acq" /\ lk[p] = wchan[p]
  /\ wchan[p] # Nil /\ wchan[p] \notin Lock =>
       pc[p] = "iowait" /\ wchan[p] = BufChan(cur[p])
  /\ outer[p] # Nil => p \in Lookers

Shape == \A p \in Proc : ShapeOf(p)

\* A dirty buffer is on its way to the disk.
Writes(p, b) == cur[p] = b /\ op[p] = "bwrite" /\ (Requesting(p) \/ Waiting(p))
Written      == \A b \in Buf : dirty[b] => \E p \in Proc : Writes(p, b)

CacheInv == RefInv /\ Shape /\ Written /\ halt # "bget: no buffers"

\* Only the running process is between a test and its store, and what it has
\* tested or stored still holds.
Untorn ==
  /\ \A p \in Proc : p # procp => pc[p] \notin Window
  /\ pc[procp] \in {"acqset", "rel2"} => ~locked[lk[procp]]
  /\ pc[procp] = "acqsleep" => locked[lk[procp]]

Exclusive ==
  \A l \in Lock :
    /\ \A p \in Proc : l \in Inside(p) => locked[l] /\ owner[l] = p
    /\ locked[l] => \E p \in Proc : l \in Inside(p)

Wakers ==
  \A p \in Proc : wchan[p] \in Lock =>
    \/ locked[wchan[p]]
    \/ \E q \in Proc : pc[q] \in {"rel2", "rel3"} /\ lk[q] = wchan[p]

\* Between iderw()'s acquire() and its return: what a process that asks the
\* disk, or waits for it, knows of its buffer and of the request.
TransferOf(p) ==
  /\ Requesting(p) => Pending(cur[p])
  /\ pc[p] = "iosleep" => req = cur[p] /\ Pending(cur[p])
  /\ pc[p] = "iowait" /\ req # Nil => req = cur[p] /\ Pending(cur[p])
  /\ pc[p] = "iowait" /\ req = Nil => ~Pending(cur[p]) /\ wchan[p] = Nil

Transfer ==
  /\ \A p \in Proc : TransferOf(p)
  /\ req # Nil => \E p \in Proc : Waiting(p) /\ cur[p] = req

Sound == \A b \in Buf : valid[b] => data[b] # "junk"

LockInv == Untorn /\ Exclusive /\ Wakers /\ Transfer /\ Sound /\ halt # "block not locked"

BioInv == CacheInv /\ (~torn => LockInv)

(***************************************************************************)
(* There is always a buffer to recycle: a process refers to one, a process *)
(* in namei() to two.                                                      *)
(***************************************************************************)
LEMMA ImageBound ==
  ASSUME NEW S, IsFiniteSet(S), NEW f
  PROVE  /\ IsFiniteSet({f[x] : x \in S})
         /\ Cardinality({f[x] : x \in S}) <= Cardinality(S)
<1> PICK g, T : g = [x \in S |-> f[x]] /\ T = {f[x] : x \in S}
  OBVIOUS
<1>1. g \in Surjection(S, T)
  BY DEF Surjection
<1> QED
  BY <1>1, FS_Surjection

\* A union has at most as many members as its parts together.
LEMMA UnionBound ==
  ASSUME NEW S, NEW T, IsFiniteSet(S), IsFiniteSet(T)
  PROVE  /\ IsFiniteSet(S \cup T)
         /\ Cardinality(S \cup T) <= Cardinality(S) + Cardinality(T)
<1>1. IsFiniteSet(S \cap T)
  BY FS_Subset
<1>2. /\ Cardinality(S) \in Nat /\ Cardinality(T) \in Nat
      /\ Cardinality(S \cap T) \in Nat
  BY <1>1, FS_CardinalityType
<1>3. /\ IsFiniteSet(S \cup T)
      /\ Cardinality(S \cup T) = Cardinality(S) + Cardinality(T) - Cardinality(S \cap T)
  BY FS_Union
<1> QED
  BY <1>2, <1>3

\* When every buffer is somebody's, there are no more of them than references.
LEMMA BuffersCovered ==
  ASSUME NEW S \in SUBSET Proc, NEW T \in SUBSET Proc,
         \A b \in Buf : (\E p \in S : cur[p] = b) \/ (\E p \in T : outer[p] = b)
  PROVE  NBUF <= Cardinality(S) + Cardinality(T)
<1> PICK C, D : C = {cur[p] : p \in S} /\ D = {outer[p] : p \in T}
  OBVIOUS
<1>1. IsFiniteSet(S) /\ IsFiniteSet(T)
  BY BioConstants, FS_Subset
<1>2. /\ IsFiniteSet(C) /\ Cardinality(C) <= Cardinality(S)
      /\ IsFiniteSet(D) /\ Cardinality(D) <= Cardinality(T)
  BY <1>1, ImageBound
<1>3. IsFiniteSet(C \cup D) /\ Cardinality(C \cup D) <= Cardinality(C) + Cardinality(D)
  BY <1>2, UnionBound
<1>4. Buf \subseteq C \cup D
  OBVIOUS
<1>5. Cardinality(Buf) <= Cardinality(C \cup D)
  BY <1>3, <1>4, FS_Subset
<1>6. Cardinality(Buf) = NBUF
  BY Constants, FS_Interval DEF Buf
<1>7. /\ Cardinality(S) \in Nat /\ Cardinality(T) \in Nat
      /\ Cardinality(C) \in Nat /\ Cardinality(D) \in Nat /\ Cardinality(C \cup D) \in Nat
  BY <1>1, <1>2, <1>3, FS_CardinalityType
<1> QED
  BY <1>2, <1>3, <1>5, <1>6, <1>7, Constants

\* NBUF is large enough for what the processes can hold: bget() finds one.
LEMMA NotFull ==
  ASSUME CacheInv, MayGet \/ At("user"), NEW n, Full(n)
  PROVE  FALSE
<1> PICK p : p = procp
  OBVIOUS
<1>1. RefInv /\ Shape /\ Written /\ p \in Proc /\ RefcntExact /\ CurHeld
  BY DEF CacheInv, RefInv, TypeOK
<1>2. ASSUME NEW b \in Buf PROVE \E q \in Proc : cur[q] = b \/ outer[q] = b
  <2>1. CASE dirty[b]
    BY <2>1, <1>1 DEF Written, Writes
  <2>2. CASE refcnt[b] # 0
    <3>1. Count(cur, b) # 0 \/ Count(outer, b) # 0
      BY <2>2, <1>1, RefcntCount, CountNat
    <3>2. Holders(cur, b) # {} \/ Holders(outer, b) # {}
      BY <3>1, FS_EmptySet DEF Count
    <3> QED
      BY <3>2 DEF Holders
  <2> QED
    BY <2>1, <2>2 DEF Full, Free
<1>3. \A q \in Proc : outer[q] # Nil => q \in Lookers
  BY <1>1 DEF Shape, ShapeOf
<1>4. Nil \notin Buf
  BY Constants
<1>5. /\ IsFiniteSet(Proc) /\ IsFiniteSet(Lookers) /\ Lookers \subseteq Proc
      /\ Cardinality(Proc) \in Nat /\ Cardinality(Lookers) \in Nat
      /\ NBUF \in Nat /\ NBUF >= Cardinality(Proc) + Cardinality(Lookers)
  BY BioConstants, FS_Subset, FS_CardinalityType
<1>6. CASE cur[p] = Nil /\ outer[p] = Nil
  <2>1. NBUF <= Cardinality(Proc \ {p}) + Cardinality(Lookers)
    BY <1>2, <1>3, <1>4, <1>5, <1>6, BuffersCovered
  <2>2. Cardinality(Proc \ {p}) = Cardinality(Proc) - 1
    BY <1>1, <1>5, FS_RemoveElement
  <2> QED
    BY <2>1, <2>2, <1>5
<1>7. CASE outer[p] = Nil /\ p \in Lookers
  <2>1. NBUF <= Cardinality(Proc) + Cardinality(Lookers \ {p})
    BY <1>2, <1>3, <1>4, <1>5, <1>7, BuffersCovered
  <2>2. Cardinality(Lookers \ {p}) = Cardinality(Lookers) - 1
    BY <1>5, <1>7, FS_RemoveElement
  <2> QED
    BY <2>1, <2>2, <1>5
<1> QED
  BY <1>1, <1>6, <1>7 DEF MayGet, At, CurHeld

(***************************************************************************)
(* A step of the process p leaves the others where they are, but may wake  *)
(* them.                                                                   *)
(***************************************************************************)
Frame(p) ==
  \A q \in Proc \ {p} :
    /\ pc'[q] = pc[q] /\ op'[q] = op[q] /\ lk'[q] = lk[q]
    /\ cur'[q] = cur[q] /\ outer'[q] = outer[q]
    /\ wchan'[q] \in {wchan[q], Nil}

\* A step of one process keeps the shape of the others.
LEMMA ShapeFrame ==
  ASSUME Shape, NEW p \in Proc, Frame(p), ShapeOf(p)'
  PROVE  Shape'
<1>1. ASSUME NEW q \in Proc \ {p} PROVE ShapeOf(q)'
  <2>1. ShapeOf(q)
    BY DEF Shape
  <2> QED
    BY <2>1, Constants DEF Frame, ShapeOf, Entering, Leaving, Waiting
<1> QED
  BY <1>1 DEF Shape

\* A step of one process keeps who writes what.
LEMMA WrittenFrame ==
  ASSUME Written, NEW p \in Proc, Frame(p),
         \A b \in Buf : dirty'[b] => dirty[b] \/ Writes(p, b)',
         \A b \in Buf : dirty'[b] /\ Writes(p, b) => Writes(p, b)'
  PROVE  Written'
<1>1. \A q \in Proc \ {p}, b \in Buf : Writes(q, b) => Writes(q, b)'
  BY DEF Frame, Writes, Requesting, Entering, Waiting
<1>2. ASSUME NEW b \in Buf, dirty'[b] PROVE \E q \in Proc : Writes(q, b)'
  <2>1. CASE dirty[b]
    <3>1. PICK q \in Proc : Writes(q, b)
      BY <2>1 DEF Written
    <3> QED
      BY <3>1, <1>1, <1>2
  <2> QED
    BY <2>1, <1>2
<1> QED
  BY <1>2 DEF Written

\* A step that does not touch the dirty flags, of a process that is not about to
\* ask the disk or waiting for it.
LEMMA WrittenSame ==
  ASSUME Written, NEW p \in Proc, Frame(p), dirty' = dirty,
         ~Requesting(p) /\ ~Waiting(p)
  PROVE  Written'
<1>1. \A b \in Buf : ~Writes(p, b)
  BY DEF Writes
<1> QED
  BY <1>1, WrittenFrame

\* A step that leaves these variables alone keeps both.
LEMMA CacheSame ==
  ASSUME Shape, Written, UNCHANGED <<dirty, wchan, pc, op, lk, cur, outer>>
  PROVE  Shape' /\ Written'
<1>1. Shape'
  BY DEF Shape, ShapeOf, Entering, Leaving, Waiting
<1>2. Written'
  BY DEF Written, Writes, Requesting, Entering, Waiting
<1> QED
  BY <1>1, <1>2

\* Where one process is, in the terms that TypeOK and CurHeld give.
LEMMA ProcFacts ==
  ASSUME RefInv
  PROVE  /\ procp \in Proc
         /\ pc \in [Proc -> PC] /\ op \in [Proc -> {"bread", "bget", "bwrite"}]
         /\ lk \in [Proc -> Lock] /\ wchan \in [Proc -> 0 .. 2 * NBUF \cup {Nil}]
         /\ cur \in [Proc -> Buf \cup {Nil}] /\ outer \in [Proc -> Buf \cup {Nil}]
         /\ \A p \in Proc : pc[p] # "user" => cur[p] \in Buf
  BY DEF RefInv, TypeOK, CurHeld

\* What bget() does to the flags and to the data.
LEMMA BgetFlags ==
  ASSUME TypeOK, NEW n, NEW b \in Buf, bget(n, b)
  PROVE  /\ \A a \in Buf : refcnt[a] # 0 \/ a # b =>
              valid'[a] = valid[a] /\ dirty'[a] = dirty[a] /\ data'[a] = data[a]
         /\ \/ valid'[b] = valid[b] /\ dirty'[b] = dirty[b] /\ data'[b] = data[b]
            \/ ~valid'[b] /\ ~dirty'[b]
<1>1. CASE First(Cached(n), b) /\ UNCHANGED <<blockno, valid, dirty, data>>
  BY <1>1
<1>2. CASE /\ First(Free, b)
           /\ valid' = [valid EXCEPT ![b] = FALSE]
           /\ dirty' = [dirty EXCEPT ![b] = FALSE]
           /\ data'  = [data EXCEPT ![b] = "junk"]
  <2>1. refcnt[b] = 0
    BY <1>2 DEF First, Free
  <2>2. ~valid'[b] /\ ~dirty'[b]
    BY <1>2 DEF TypeOK
  <2>3. \A a \in Buf \ {b} : valid'[a] = valid[a] /\ dirty'[a] = dirty[a] /\ data'[a] = data[a]
    BY <1>2 DEF TypeOK
  <2> QED
    BY <2>1, <2>2, <2>3
<1> QED
  BY <1>1, <1>2 DEF bget

(***************************************************************************)
(* What the parts of LockInv need of a step of p.                          *)
(***************************************************************************)
LEMMA InsideFrame ==
  ASSUME NEW p, Frame(p)
  PROVE  \A q \in Proc \ {p} : Inside(q)' = Inside(q)
  BY DEF Frame, Inside

\* A step of the running process splits no lock.
LEMMA UntornFrame ==
  ASSUME Untorn, NEW p \in Proc, p = procp, procp' = procp, Frame(p),
         pc'[p] \in {"acqset", "rel2"} => ~locked'[lk'[p]],
         pc'[p] = "acqsleep" => locked'[lk'[p]]
  PROVE  Untorn'
  BY DEF Untorn, Frame

\* A step that neither takes nor gives a lock keeps exclusion.
LEMMA ExclusiveFrame ==
  ASSUME Exclusive, NEW p \in Proc, Frame(p), UNCHANGED lockvars, Inside(p)' = Inside(p)
  PROVE  Exclusive'
<1>1. \A q \in Proc : Inside(q)' = Inside(q)
  BY InsideFrame
<1> QED
  BY <1>1 DEF Exclusive, lockvars

\* A step that gives no lock away keeps every sleeper's waker.
LEMMA WakersFrame ==
  ASSUME Wakers, NEW p \in Proc, Frame(p), pc[p] \notin {"rel2", "rel3"},
         \A l \in Lock : locked[l] => locked'[l],
         wchan'[p] \in Lock => locked'[wchan'[p]]
  PROVE  Wakers'
<1>1. ASSUME NEW q \in Proc, wchan'[q] \in Lock, q # p
      PROVE  \/ locked'[wchan'[q]]
             \/ \E r \in Proc : pc'[r] \in {"rel2", "rel3"} /\ lk'[r] = wchan'[q]
  <2>1. wchan'[q] = wchan[q]
    BY <1>1, Constants DEF Frame
  <2>2. CASE locked[wchan[q]]
    BY <1>1, <2>1, <2>2
  <2>3. CASE \E r \in Proc : pc[r] \in {"rel2", "rel3"} /\ lk[r] = wchan[q]
    <3>1. PICK r \in Proc : pc[r] \in {"rel2", "rel3"} /\ lk[r] = wchan[q]
      BY <2>3
    <3>2. r # p
      BY <3>1
    <3> QED
      BY <2>1, <3>1, <3>2 DEF Frame
  <2> QED
    BY <1>1, <2>1, <2>2, <2>3 DEF Wakers
<1> QED
  BY <1>1 DEF Wakers

\* A step of one process keeps the transfers of the others.
LEMMA TransferFrame ==
  ASSUME Transfer, NEW p \in Proc, Frame(p), TransferOf(p)',
         \A q \in Proc \ {p} : Requesting(q) \/ Waiting(q) =>
           valid'[cur[q]] = valid[cur[q]] /\ dirty'[cur[q]] = dirty[cur[q]],
         req' = req \/ \A q \in Proc \ {p} : ~Waiting(q),
         req' # Nil => \/ Waiting(p)' /\ cur'[p] = req'
                       \/ req' = req /\ ~(Waiting(p) /\ cur[p] = req)
  PROVE  Transfer'
<1>1. ASSUME NEW q \in Proc, q # p PROVE TransferOf(q)'
  <2>1. /\ pc'[q] = pc[q] /\ lk'[q] = lk[q] /\ cur'[q] = cur[q]
        /\ wchan'[q] \in {wchan[q], Nil}
    BY <1>1 DEF Frame
  <2>2. TransferOf(q)
    BY DEF Transfer
  <2>3. CASE Requesting(q) \/ Waiting(q)
    <3>1. Pending(cur[q])' <=> Pending(cur[q])
      BY <1>1, <2>1, <2>3 DEF Pending
    <3>2. Requesting(q)' => Pending(cur[q])'
      BY <2>1, <2>2, <3>1 DEF TransferOf, Requesting, Entering
    <3>3. CASE req' = req
      BY <2>1, <2>2, <3>1, <3>2, <3>3 DEF TransferOf
    <3>4. CASE ~Waiting(q)
      BY <2>1, <3>2, <3>4 DEF TransferOf, Waiting
    <3> QED
      BY <1>1, <3>3, <3>4
  <2>4. CASE ~Requesting(q) /\ ~Waiting(q)
    BY <2>1, <2>4 DEF TransferOf, Requesting, Waiting, Entering
  <2> QED
    BY <2>3, <2>4
<1>2. ASSUME req' # Nil PROVE \E q \in Proc : Waiting(q)' /\ cur'[q] = req'
  <2>1. CASE req' = req /\ ~(Waiting(p) /\ cur[p] = req)
    <3>1. PICK q \in Proc : Waiting(q) /\ cur[q] = req
      BY <1>2, <2>1 DEF Transfer
    <3>2. q # p
      BY <2>1, <3>1
    <3> QED
      BY <2>1, <3>1, <3>2 DEF Frame, Waiting
  <2> QED
    BY <1>2, <2>1
<1> QED
  BY <1>1, <1>2 DEF Transfer

\* A process is inside its buffer's lock from its first to its last touch of the
\* disk, and inside idelock with a request of its own.
LEMMA InsideHas ==
  ASSUME Shape, RefInv, NEW p \in Proc
  PROVE  /\ Requesting(p) \/ Waiting(p) \/ pc[p] = "got" => cur[p] \in Buf /\ cur[p] \in Inside(p)
         /\ Waiting(p) \/ pc[p] = "send" => IDE \in Inside(p)
<1>1. pc[p] # "user" => cur[p] \in Buf /\ cur[p] \in Lock /\ IDE \in Lock
  BY ProcFacts, Constants
<1> QED
  BY <1>1 DEF Inside, Requesting, Waiting, Entering

\* Two processes are never inside one lock.
LEMMA OneInside ==
  ASSUME Exclusive, NEW p \in Proc, NEW q \in Proc, NEW l \in Lock,
         l \in Inside(p), l \in Inside(q)
  PROVE  p = q
  BY DEF Exclusive

(***************************************************************************)
(* acquire() and release(), step by step.                                  *)
(***************************************************************************)

\* The loop of acquire(): a test that finds the lock taken leads to sleep(), and
\* whoever has the lock wakes the sleeper.
LEMMA AcqTestStep ==
  ASSUME CacheInv, RefInv', AcqTest
  PROVE  CacheInv' /\ (LockInv => LockInv')
<1> PICK p : p = procp
  OBVIOUS
<1>1. /\ RefInv /\ Shape /\ Written /\ p \in Proc /\ ShapeOf(p)
      /\ halt = "no" /\ wchan[p] = Nil /\ pc[p] = "acq"
  BY ProcFacts DEF CacheInv, Shape, AcqTest, At
<1>2. UNCHANGED <<valid, dirty, data, locked, owner, wchan, procp, op, lk, cur, outer, req, halt>>
  BY DEF AcqTest, bufvars, lockvars, locals
<1>3. /\ pc'[p] = IF locked[lk[p]] THEN "acqsleep" ELSE "acqset"
      /\ \A q \in Proc \ {p} : pc'[q] = pc[q]
  BY <1>1, ProcFacts DEF AcqTest, Goto
<1>4. Frame(p)
  BY <1>2, <1>3 DEF Frame
<1>5. ShapeOf(p)' /\ Shape'
  <2>1. ShapeOf(p)'
    BY <1>1, <1>2, <1>3, Constants DEF ShapeOf, Entering, Leaving, Waiting
  <2> QED
    BY <2>1, <1>1, <1>4, ShapeFrame
<1>6. Written'
  <2>1. \A b \in Buf : Writes(p, b) => Writes(p, b)'
    BY <1>1, <1>2, <1>3 DEF Writes, Requesting, Entering, Waiting
  <2> QED
    BY <2>1, <1>1, <1>2, <1>4, WrittenFrame
<1>7. ASSUME LockInv PROVE LockInv'
  <2>1. Untorn'
    BY <1>7, <1>1, <1>2, <1>3, <1>4, UntornFrame DEF LockInv
  <2>2. Exclusive'
    <3>1. Inside(p)' = Inside(p)
      BY <1>1, <1>2, <1>3 DEF Inside
    <3> QED
      BY <3>1, <1>7, <1>1, <1>2, <1>4, ExclusiveFrame DEF LockInv, lockvars
  <2>3. Wakers'
    BY <1>7, <1>1, <1>2, <1>4, Constants, WakersFrame DEF LockInv
  <2>4. Transfer'
    <3>1. TransferOf(p)
      BY <1>7, <1>1 DEF LockInv, Transfer
    <3>2. TransferOf(p)'
      BY <3>1, <1>1, <1>2, <1>3 DEF TransferOf, Requesting, Entering, Pending
    <3> QED
      BY <3>2, <1>7, <1>1, <1>2, <1>4, TransferFrame DEF LockInv, Waiting
  <2> QED
    BY <2>1, <2>2, <2>3, <2>4, <1>7, <1>2 DEF LockInv, Sound
<1> QED
  BY <1>1, <1>2, <1>5, <1>6, <1>7 DEF CacheInv

\* acquire() sleeps on a lock that is taken.
LEMMA AcqSleepStep ==
  ASSUME CacheInv, RefInv', AcqSleep
  PROVE  CacheInv' /\ (LockInv => LockInv')
<1> PICK p : p = procp
  OBVIOUS
<1>1. /\ RefInv /\ Shape /\ Written /\ p \in Proc /\ ShapeOf(p) /\ lk[p] \in Lock
      /\ halt = "no" /\ wchan[p] = Nil /\ pc[p] = "acqsleep"
  BY ProcFacts DEF CacheInv, Shape, AcqSleep, At
<1>2. UNCHANGED <<valid, dirty, data, locked, owner, procp, op, lk, cur, outer, req, halt>>
  BY DEF AcqSleep, bufvars, lockvars, locals
<1>3. /\ pc'[p] = "acq" /\ wchan'[p] = lk[p]
      /\ \A q \in Proc \ {p} : pc'[q] = pc[q] /\ wchan'[q] = wchan[q]
  BY <1>1, ProcFacts DEF AcqSleep, Goto
<1>4. Frame(p)
  BY <1>2, <1>3 DEF Frame
<1>5. ShapeOf(p)' /\ Shape'
  <2>1. ShapeOf(p)'
    BY <1>1, <1>2, <1>3, Constants DEF ShapeOf, Entering, Leaving, Waiting
  <2> QED
    BY <2>1, <1>1, <1>4, ShapeFrame
<1>6. Written'
  <2>1. \A b \in Buf : Writes(p, b) => Writes(p, b)'
    BY <1>1, <1>2, <1>3 DEF Writes, Requesting, Entering, Waiting
  <2> QED
    BY <2>1, <1>1, <1>2, <1>4, WrittenFrame
<1>7. ASSUME LockInv PROVE LockInv'
  <2>1. Untorn'
    BY <1>7, <1>1, <1>2, <1>3, <1>4, UntornFrame DEF LockInv
  <2>2. Exclusive'
    <3>1. Inside(p)' = Inside(p)
      BY <1>1, <1>2, <1>3 DEF Inside
    <3> QED
      BY <3>1, <1>7, <1>1, <1>2, <1>4, ExclusiveFrame DEF LockInv, lockvars
  <2>3. Wakers'
    <3>1. locked[lk[p]]
      BY <1>7, <1>1 DEF LockInv, Untorn
    <3> QED
      BY <3>1, <1>7, <1>1, <1>2, <1>3, <1>4, WakersFrame DEF LockInv
  <2>4. Transfer'
    <3>1. TransferOf(p)
      BY <1>7, <1>1 DEF LockInv, Transfer
    <3>2. TransferOf(p)'
      BY <3>1, <1>1, <1>2, <1>3 DEF TransferOf, Requesting, Entering, Pending
    <3> QED
      BY <3>2, <1>7, <1>1, <1>2, <1>4, TransferFrame DEF LockInv, Waiting
  <2> QED
    BY <2>1, <2>2, <2>3, <2>4, <1>7, <1>2 DEF LockInv, Sound
<1> QED
  BY <1>1, <1>2, <1>5, <1>6, <1>7 DEF CacheInv

\* The two stores of acquire(): nobody was inside the lock, p now is.
LEMMA AcqSetStep ==
  ASSUME CacheInv, RefInv', AcqSet
  PROVE  CacheInv' /\ (LockInv => LockInv')
<1> PICK p : p = procp
  OBVIOUS
<1> PICK l : l = lk[p]
  OBVIOUS
<1>1. /\ RefInv /\ Shape /\ Written /\ p \in Proc /\ ShapeOf(p) /\ l \in Lock
      /\ halt = "no" /\ wchan[p] = Nil /\ pc[p] = "acqset" /\ cur[p] \in Buf
      /\ l = IDE \/ l = cur[p]
  BY ProcFacts DEF CacheInv, Shape, ShapeOf, Entering, AcqSet, At
<1>2. UNCHANGED <<valid, dirty, data, wchan, procp, op, lk, cur, outer, req, halt>>
  BY DEF AcqSet, bufvars, locals
<1>3. /\ pc'[p] = IF l = IDE THEN "send" ELSE "got"
      /\ \A q \in Proc \ {p} : pc'[q] = pc[q]
  BY <1>1, ProcFacts DEF AcqSet, Goto
<1>4. /\ locked'[l] /\ owner'[l] = p
      /\ \A k \in Lock \ {l} : locked'[k] = locked[k] /\ owner'[k] = owner[k]
  BY <1>1 DEF AcqSet, RefInv, TypeOK
<1>5. Frame(p)
  BY <1>2, <1>3 DEF Frame
<1>6. ShapeOf(p)' /\ Shape'
  <2>1. ShapeOf(p)'
    BY <1>1, <1>2, <1>3, Constants DEF ShapeOf, Entering, Leaving, Waiting
  <2> QED
    BY <2>1, <1>1, <1>5, ShapeFrame
<1>7. Written'
  <2>1. \A b \in Buf : Writes(p, b) => Writes(p, b)'
    BY <1>1, <1>2, <1>3 DEF Writes, Requesting, Entering, Waiting
  <2> QED
    BY <2>1, <1>1, <1>2, <1>5, WrittenFrame
<1>8. ASSUME LockInv PROVE LockInv'
  <2>1. Untorn'
    BY <1>8, <1>1, <1>2, <1>3, <1>5, UntornFrame DEF LockInv
  <2>2. Exclusive'
    <3>1. ~locked[l]
      BY <1>8, <1>1 DEF LockInv, Untorn
    <3>2. \A q \in Proc : l \notin Inside(q)
      BY <3>1, <1>8, <1>1 DEF LockInv, Exclusive
    <3>3. Inside(p)' = Inside(p) \cup {l}
      BY <1>1, <1>2, <1>3, Constants DEF Inside
    <3>4. \A q \in Proc \ {p} : Inside(q)' = Inside(q)
      BY <1>5, InsideFrame
    <3>5. \A k \in Lock \ {l}, q \in Proc : k \in Inside(q)' <=> k \in Inside(q)
      BY <3>3, <3>4
    <3>6. \A q \in Proc : l \in Inside(q)' <=> q = p
      BY <3>2, <3>3, <3>4
    <3> QED
      BY <3>5, <3>6, <1>8, <1>1, <1>4 DEF LockInv, Exclusive
  <2>3. Wakers'
    BY <1>8, <1>1, <1>2, <1>4, <1>5, Constants, WakersFrame DEF LockInv
  <2>4. Transfer'
    <3>1. TransferOf(p)
      BY <1>8, <1>1 DEF LockInv, Transfer
    <3>2. TransferOf(p)'
      BY <3>1, <1>1, <1>2, <1>3 DEF TransferOf, Requesting, Entering, Pending
    <3> QED
      BY <3>2, <1>8, <1>1, <1>2, <1>5, TransferFrame DEF LockInv, Waiting
  <2> QED
    BY <2>1, <2>2, <2>3, <2>4, <1>8, <1>2 DEF LockInv, Sound
<1> QED
  BY <1>1, <1>2, <1>6, <1>7, <1>8 DEF CacheInv

\* A step between acquire() and release() that leaves the disk alone.
LEMMA TransferSame ==
  ASSUME Transfer, NEW p \in Proc, Frame(p), UNCHANGED <<valid, dirty, req>>,
         ~Waiting(p), ~Waiting(p)', ~Requesting(p)'
  PROVE  Transfer'
<1>1. TransferOf(p)'
  BY DEF TransferOf, Waiting
<1> QED
  BY <1>1, TransferFrame

\* idelock is not the lock of a buffer.
LEMMA IdeIsNoBuf == IDE \notin Buf
  BY BioConstants DEF IDE, Buf

\* release() clears locked: nobody is inside the lock any more, and p has yet to
\* wake those who wait for it.
LEMMA RelStep ==
  ASSUME CacheInv, RefInv', Rel
  PROVE  CacheInv' /\ (LockInv => LockInv')
<1> PICK p : p = procp
  OBVIOUS
<1> PICK l : l = lk[p]
  OBVIOUS
<1>1. /\ RefInv /\ Shape /\ Written /\ p \in Proc /\ ShapeOf(p) /\ l \in Lock
      /\ halt = "no" /\ wchan[p] = Nil /\ pc[p] = "rel" /\ cur[p] \in Buf
      /\ l = IDE \/ l = cur[p]
  BY ProcFacts DEF CacheInv, Shape, ShapeOf, Leaving, Rel, At
<1>2. UNCHANGED <<valid, dirty, data, owner, wchan, procp, op, lk, cur, outer, req, halt>>
  BY DEF Rel, bufvars, locals
<1>3. /\ pc'[p] = "rel2"
      /\ \A q \in Proc \ {p} : pc'[q] = pc[q]
  BY <1>1, ProcFacts DEF Rel, Goto
<1>4. ~locked'[l] /\ \A k \in Lock \ {l} : locked'[k] = locked[k]
  BY <1>1 DEF Rel, RefInv, TypeOK
<1>5. Frame(p)
  BY <1>2, <1>3 DEF Frame
<1>6. ShapeOf(p)' /\ Shape'
  <2>1. ShapeOf(p)'
    BY <1>1, <1>2, <1>3, Constants DEF ShapeOf, Entering, Leaving, Waiting
  <2> QED
    BY <2>1, <1>1, <1>5, ShapeFrame
<1>7. Written'
  BY <1>1, <1>2, <1>5, WrittenSame DEF Requesting, Entering, Waiting
<1>8. ASSUME LockInv PROVE LockInv'
  <2>1. Untorn'
    BY <1>8, <1>1, <1>2, <1>3, <1>4, <1>5, UntornFrame DEF LockInv
  <2>2. Exclusive'
    <3>1. l \in Inside(p) /\ Inside(p)' = Inside(p) \ {l}
      <4>1. lk'[p] = lk[p] /\ cur'[p] = cur[p]
        BY <1>2
      <4>2. l \in Inside(p)
        BY <1>1 DEF Inside
      <4>3. \A k \in Lock : k \in Inside(p)' <=> k \in Inside(p) /\ k # l
        BY <4>1, <1>1, <1>3, IdeIsNoBuf DEF Inside
      <4>4. Inside(p) \subseteq Lock /\ Inside(p)' \subseteq Lock
        BY DEF Inside
      <4> QED
        BY <4>2, <4>3, <4>4
    <3>2. \A q \in Proc \ {p} : Inside(q)' = Inside(q)
      BY <1>5, InsideFrame
    <3>3. \A q \in Proc : l \in Inside(q) => q = p
      BY <3>1, <1>8, <1>1, OneInside DEF LockInv
    <3>4. \A k \in Lock \ {l}, q \in Proc : k \in Inside(q)' <=> k \in Inside(q)
      BY <3>1, <3>2
    <3>5. \A q \in Proc : l \notin Inside(q)'
      BY <3>1, <3>2, <3>3
    <3> QED
      BY <3>4, <3>5, <1>8, <1>1, <1>2, <1>4 DEF LockInv, Exclusive
  <2>3. Wakers'
    <3>1. ASSUME NEW q \in Proc, wchan'[q] \in Lock
          PROVE  \/ locked'[wchan'[q]]
                 \/ \E r \in Proc : pc'[r] \in {"rel2", "rel3"} /\ lk'[r] = wchan'[q]
      <4>1. CASE wchan[q] = l
        BY <4>1, <3>1, <1>1, <1>2, <1>3
      <4>2. CASE wchan[q] # l /\ locked[wchan[q]]
        BY <4>2, <3>1, <1>2, <1>4
      <4>3. CASE \E r \in Proc : pc[r] \in {"rel2", "rel3"} /\ lk[r] = wchan[q]
        BY <4>3, <1>1, <1>2, <1>3
      <4> QED
        BY <4>1, <4>2, <4>3, <3>1, <1>8, <1>2 DEF LockInv, Wakers
    <3> QED
      BY <3>1 DEF Wakers
  <2>4. Transfer'
    BY <1>8, <1>1, <1>2, <1>3, <1>5, TransferSame DEF LockInv, Waiting, Requesting, Entering
  <2> QED
    BY <2>1, <2>2, <2>3, <2>4, <1>8, <1>2 DEF LockInv, Sound
<1> QED
  BY <1>1, <1>2, <1>6, <1>7, <1>8 DEF CacheInv

\* release() clears procp, of a lock that is still free: p is the running
\* process, and nobody can have taken it.
LEMMA RelOwnerStep ==
  ASSUME CacheInv, RefInv', RelOwner
  PROVE  CacheInv' /\ (LockInv => LockInv')
<1> PICK p : p = procp
  OBVIOUS
<1> PICK l : l = lk[p]
  OBVIOUS
<1>1. /\ RefInv /\ Shape /\ Written /\ p \in Proc /\ ShapeOf(p) /\ l \in Lock
      /\ halt = "no" /\ wchan[p] = Nil /\ pc[p] = "rel2" /\ cur[p] \in Buf
      /\ l = IDE \/ l = cur[p]
  BY ProcFacts DEF CacheInv, Shape, ShapeOf, Leaving, RelOwner, At
<1>2. UNCHANGED <<valid, dirty, data, locked, wchan, procp, op, lk, cur, outer, req, halt>>
  BY DEF RelOwner, bufvars, locals
<1>3. /\ pc'[p] = "rel3"
      /\ \A q \in Proc \ {p} : pc'[q] = pc[q]
  BY <1>1, ProcFacts DEF RelOwner, Goto
<1>4. \A k \in Lock \ {l} : owner'[k] = owner[k]
  BY <1>1 DEF RelOwner, RefInv, TypeOK
<1>5. Frame(p)
  BY <1>2, <1>3 DEF Frame
<1>6. ShapeOf(p)' /\ Shape'
  <2>1. ShapeOf(p)'
    BY <1>1, <1>2, <1>3, Constants DEF ShapeOf, Entering, Leaving, Waiting
  <2> QED
    BY <2>1, <1>1, <1>5, ShapeFrame
<1>7. Written'
  BY <1>1, <1>2, <1>5, WrittenSame DEF Requesting, Entering, Waiting
<1>8. ASSUME LockInv PROVE LockInv'
  <2>1. Untorn'
    BY <1>8, <1>1, <1>2, <1>3, <1>5, UntornFrame DEF LockInv
  <2>2. Exclusive'
    <3>1. ~locked[l]
      BY <1>8, <1>1 DEF LockInv, Untorn
    <3>2. \A q \in Proc : l \notin Inside(q)
      BY <3>1, <1>8, <1>1 DEF LockInv, Exclusive
    <3>3. Inside(p)' = Inside(p)
      BY <1>1, <1>2, <1>3 DEF Inside
    <3>4. \A q \in Proc : Inside(q)' = Inside(q)
      BY <3>3, <1>5, InsideFrame
    <3>5. ASSUME NEW k \in Lock
          PROVE  /\ \A q \in Proc : k \in Inside(q)' => locked'[k] /\ owner'[k] = q
                 /\ locked'[k] => \E q \in Proc : k \in Inside(q)'
      <4>1. CASE k = l
        BY <4>1, <3>1, <3>2, <3>4, <1>2
      <4>2. CASE k # l
        <5>1. locked'[k] = locked[k] /\ owner'[k] = owner[k]
          BY <4>2, <1>2, <1>4
        <5> QED
          BY <5>1, <3>4, <1>8 DEF LockInv, Exclusive
      <4> QED
        BY <4>1, <4>2
    <3> QED
      BY <3>5 DEF Exclusive
  <2>3. Wakers'
    <3>1. \A r \in Proc : \A k : pc[r] \in {"rel2", "rel3"} /\ lk[r] = k =>
                               pc'[r] \in {"rel2", "rel3"} /\ lk'[r] = k
      BY <1>2, <1>3
    <3> QED
      BY <3>1, <1>8, <1>2 DEF LockInv, Wakers
  <2>4. Transfer'
    BY <1>8, <1>1, <1>2, <1>3, <1>5, TransferSame DEF LockInv, Waiting, Requesting, Entering
  <2> QED
    BY <2>1, <2>2, <2>3, <2>4, <1>8, <1>2 DEF LockInv, Sound
<1> QED
  BY <1>1, <1>2, <1>6, <1>7, <1>8 DEF CacheInv

\* The wakeup() of release() reaches every process that sleeps on the lock.
LEMMA RelWakeStep ==
  ASSUME CacheInv, RefInv', RelWake
  PROVE  CacheInv' /\ (LockInv => LockInv')
<1> PICK p : p = procp
  OBVIOUS
<1> PICK l : l = lk[p]
  OBVIOUS
<1>1. /\ RefInv /\ Shape /\ Written /\ p \in Proc /\ ShapeOf(p) /\ l \in Lock
      /\ halt = "no" /\ wchan[p] = Nil /\ pc[p] = "rel3" /\ cur[p] \in Buf
      /\ l = IDE \/ l = cur[p]
  BY ProcFacts DEF CacheInv, Shape, ShapeOf, Leaving, RelWake, At
<1>2. UNCHANGED <<valid, dirty, data, locked, owner, procp, op, cur, outer, req, halt>>
  BY DEF RelWake, bufvars, lockvars
<1>3. /\ l = IDE => pc'[p] = "rel" /\ lk'[p] = cur[p]
      /\ l # IDE => pc'[p] = "hold" /\ lk'[p] = IDE
      /\ \A q \in Proc \ {p} : pc'[q] = pc[q] /\ lk'[q] = lk[q]
  BY <1>1, ProcFacts DEF RelWake, Goto, Mine
<1>4. \A q \in Proc : wchan'[q] = IF wchan[q] = l THEN Nil ELSE wchan[q]
  BY DEF RelWake, wakeup
<1>5. Frame(p)
  BY <1>2, <1>3, <1>4 DEF Frame
<1>6. ShapeOf(p)' /\ Shape'
  <2>1. ShapeOf(p)'
    BY <1>1, <1>2, <1>3, <1>4, Constants DEF ShapeOf, Entering, Leaving, Waiting
  <2> QED
    BY <2>1, <1>1, <1>5, ShapeFrame
<1>7. Written'
  BY <1>1, <1>2, <1>5, WrittenSame DEF Requesting, Entering, Waiting
<1>8. ASSUME LockInv PROVE LockInv'
  <2>1. Untorn'
    BY <1>8, <1>1, <1>2, <1>3, <1>5, UntornFrame DEF LockInv
  <2>2. Exclusive'
    <3>1. Inside(p)' = Inside(p)
      BY <1>1, <1>2, <1>3, Constants DEF Inside
    <3> QED
      BY <3>1, <1>8, <1>1, <1>2, <1>5, ExclusiveFrame DEF LockInv, lockvars
  <2>3. Wakers'
    <3>1. ASSUME NEW q \in Proc, wchan'[q] \in Lock
          PROVE  \/ locked'[wchan'[q]]
                 \/ \E r \in Proc : pc'[r] \in {"rel2", "rel3"} /\ lk'[r] = wchan'[q]
      <4>1. wchan'[q] = wchan[q] /\ wchan[q] # l
        BY <3>1, <1>4, Constants
      <4>2. CASE locked[wchan[q]]
        BY <4>1, <4>2, <1>2
      <4>3. CASE \E r \in Proc : pc[r] \in {"rel2", "rel3"} /\ lk[r] = wchan[q]
        <5>1. PICK r \in Proc : pc[r] \in {"rel2", "rel3"} /\ lk[r] = wchan[q]
          BY <4>3
        <5>2. r # p
          BY <5>1, <4>1
        <5> QED
          BY <5>1, <5>2, <4>1, <1>3
      <4> QED
        BY <4>1, <4>2, <4>3, <3>1, <1>8 DEF LockInv, Wakers
    <3> QED
      BY <3>1 DEF Wakers
  <2>4. Transfer'
    BY <1>8, <1>1, <1>2, <1>3, <1>5, TransferSame DEF LockInv, Waiting, Requesting, Entering
  <2> QED
    BY <2>1, <2>2, <2>3, <2>4, <1>8, <1>2 DEF LockInv, Sound
<1> QED
  BY <1>1, <1>2, <1>6, <1>7, <1>8 DEF CacheInv

(***************************************************************************)
(* The disk.                                                               *)
(***************************************************************************)

\* bread() finds its buffer read by another process: straight to release().
LEMMA GotValidStep ==
  ASSUME CacheInv, RefInv', GotValid
  PROVE  CacheInv' /\ (LockInv => LockInv')
<1> PICK p : p = procp
  OBVIOUS
<1>1. /\ RefInv /\ Shape /\ Written /\ p \in Proc /\ ShapeOf(p) /\ cur[p] \in Buf
      /\ halt = "no" /\ wchan[p] = Nil /\ pc[p] = "got" /\ lk[p] = cur[p]
  BY ProcFacts DEF CacheInv, Shape, ShapeOf, GotValid, At
<1>2. UNCHANGED <<valid, dirty, data, locked, owner, wchan, procp, op, lk, cur, outer, req, halt>>
  BY DEF GotValid, bufvars, lockvars, locals
<1>3. pc'[p] = "rel" /\ \A q \in Proc \ {p} : pc'[q] = pc[q]
  BY <1>1, ProcFacts DEF GotValid, Goto
<1>4. Frame(p)
  BY <1>2, <1>3 DEF Frame
<1>5. Shape'
  <2>1. ShapeOf(p)'
    BY <1>1, <1>2, <1>3, Constants DEF ShapeOf, Entering, Leaving, Waiting
  <2> QED
    BY <2>1, <1>1, <1>4, ShapeFrame
<1>6. Written'
  BY <1>1, <1>2, <1>4, WrittenSame DEF Requesting, Entering, Waiting
<1>7. ASSUME LockInv PROVE LockInv'
  <2>1. Untorn'
    BY <1>7, <1>1, <1>2, <1>3, <1>4, UntornFrame DEF LockInv
  <2>2. Exclusive'
    <3>1. Inside(p)' = Inside(p)
      BY <1>1, <1>2, <1>3, IdeIsNoBuf DEF Inside
    <3> QED
      BY <3>1, <1>7, <1>1, <1>2, <1>4, ExclusiveFrame DEF LockInv, lockvars
  <2>3. Wakers'
    BY <1>7, <1>1, <1>2, <1>4, Constants, WakersFrame DEF LockInv
  <2>4. Transfer'
    BY <1>7, <1>1, <1>2, <1>3, <1>4, TransferSame DEF LockInv, Waiting, Requesting, Entering
  <2> QED
    BY <2>1, <2>2, <2>3, <2>4, <1>7, <1>2 DEF LockInv, Sound
<1> QED
  BY <1>1, <1>2, <1>5, <1>6, <1>7 DEF CacheInv

\* iderw() flags a buffer that its process has locked: nobody else has it under
\* way to the disk.
LEMMA IderwStep ==
  ASSUME CacheInv, RefInv', iderw
  PROVE  CacheInv' /\ (LockInv => LockInv')
<1> PICK p : p = procp
  OBVIOUS
<1> PICK b : b = cur[p]
  OBVIOUS
<1>1. /\ RefInv /\ Shape /\ Written /\ p \in Proc /\ ShapeOf(p) /\ b \in Buf
      /\ halt = "no" /\ wchan[p] = Nil /\ pc[p] = "got" /\ lk[p] = b
      /\ op[p] = "bwrite" \/ ~valid[b]
  BY ProcFacts DEF CacheInv, Shape, ShapeOf, iderw, At, Mine
<1>2. UNCHANGED <<valid, data, locked, owner, wchan, procp, op, cur, outer, req, halt>>
  BY DEF iderw, lockvars
<1>3. /\ pc'[p] = "acq" /\ lk'[p] = IDE
      /\ \A q \in Proc \ {p} : pc'[q] = pc[q] /\ lk'[q] = lk[q]
  BY <1>1, ProcFacts DEF iderw, Goto
<1>4. /\ \A a \in Buf \ {b} : dirty'[a] = dirty[a]
      /\ dirty'[b] <=> dirty[b] \/ op[p] = "bwrite"
  <2>1. dirty \in [Buf -> BOOLEAN] /\ dirty' = [dirty EXCEPT ![b] = dirty[b] \/ op[p] = "bwrite"]
    BY <1>1 DEF iderw, Mine, RefInv, TypeOK
  <2> QED
    BY <2>1, <1>1
<1>5. Frame(p)
  BY <1>2, <1>3 DEF Frame
<1>6. Shape'
  <2>1. ShapeOf(p)'
    BY <1>1, <1>2, <1>3, Constants DEF ShapeOf, Entering, Leaving, Waiting
  <2> QED
    BY <2>1, <1>1, <1>5, ShapeFrame
<1>7. Written'
  <2>1. op[p] = "bwrite" => Writes(p, b)'
    BY <1>2, <1>3 DEF Writes, Requesting, Entering
  <2>2. \A a \in Buf : dirty'[a] => dirty[a] \/ Writes(p, a)'
    BY <2>1, <1>4
  <2>3. \A a \in Buf : ~Writes(p, a)
    BY <1>1 DEF Writes, Requesting, Entering, Waiting
  <2> QED
    BY <2>2, <2>3, <1>1, <1>5, WrittenFrame
<1>8. ASSUME LockInv PROVE LockInv'
  <2>1. Untorn'
    BY <1>8, <1>1, <1>2, <1>3, <1>5, UntornFrame DEF LockInv
  <2>2. Exclusive'
    <3>1. Inside(p)' = Inside(p)
      BY <1>1, <1>2, <1>3, IdeIsNoBuf DEF Inside
    <3> QED
      BY <3>1, <1>8, <1>1, <1>2, <1>5, ExclusiveFrame DEF LockInv, lockvars
  <2>3. Wakers'
    BY <1>8, <1>1, <1>2, <1>5, Constants, WakersFrame DEF LockInv
  <2>4. Transfer'
    <3>1. ASSUME NEW q \in Proc \ {p}, Requesting(q) \/ Waiting(q)
          PROVE  valid'[cur[q]] = valid[cur[q]] /\ dirty'[cur[q]] = dirty[cur[q]]
      <4>1. cur[q] \in Buf /\ cur[q] \in Inside(q) /\ b \in Inside(p)
        BY <3>1, <1>1, InsideHas
      <4>2. cur[q] # b
        BY <4>1, <1>8, <1>1, Constants, OneInside DEF LockInv
      <4> QED
        BY <4>1, <4>2, <1>2, <1>4
    <3>2. ~Waiting(p) /\ ~Waiting(p)'
      BY <1>1, <1>3 DEF Waiting
    <3>3. TransferOf(p)'
      <4>1. Pending(cur[p])'
        BY <1>1, <1>2, <1>4 DEF Pending
      <4> QED
        BY <4>1, <3>2 DEF TransferOf, Waiting
    <3> QED
      BY <3>1, <3>2, <3>3, <1>8, <1>1, <1>2, <1>5, TransferFrame DEF LockInv
  <2> QED
    BY <2>1, <2>2, <2>3, <2>4, <1>8, <1>2 DEF LockInv, Sound
<1> QED
  BY <1>1, <1>2, <1>6, <1>7, <1>8 DEF CacheInv

\* bwrite() and iderw() find the lock they check.
LEMMA LockPanicStep ==
  ASSUME CacheInv, RefInv', LockPanic
  PROVE  CacheInv' /\ ~LockInv
<1> PICK p : p = procp
  OBVIOUS
<1>1. /\ RefInv /\ Shape /\ Written /\ p \in Proc /\ cur[p] \in Buf
      /\ pc[p] = "got" /\ ~Holding(p, cur[p])
  BY ProcFacts DEF CacheInv, LockPanic, At, Mine
<1>2. Shape' /\ Written'
  BY <1>1, CacheSame DEF LockPanic, bufvars, locals
<1>3. halt' # "bget: no buffers"
  BY DEF LockPanic
<1>4. cur[p] \in Inside(p)
  BY <1>1, InsideHas
<1>5. ~LockInv
  BY <1>1, <1>4, Constants DEF LockInv, Exclusive, Holding
<1> QED
  BY <1>2, <1>3, <1>5 DEF CacheInv

\* sendreq(): the process that has idelock is the only one to wait for the disk.
LEMMA SendreqStep ==
  ASSUME CacheInv, RefInv', sendreq
  PROVE  CacheInv' /\ (LockInv => LockInv')
<1> PICK p : p = procp
  OBVIOUS
<1>1. /\ RefInv /\ Shape /\ Written /\ p \in Proc /\ ShapeOf(p) /\ cur[p] \in Buf
      /\ halt = "no" /\ wchan[p] = Nil /\ pc[p] = "send" /\ lk[p] = IDE
  BY ProcFacts DEF CacheInv, Shape, ShapeOf, sendreq, At
<1>2. UNCHANGED <<valid, dirty, data, locked, owner, wchan, procp, op, lk, cur, outer, halt>>
      /\ req' = cur[p]
  BY DEF sendreq, bufvars, lockvars, locals, Mine
<1>3. pc'[p] = "iowait" /\ \A q \in Proc \ {p} : pc'[q] = pc[q]
  BY <1>1, ProcFacts DEF sendreq, Goto
<1>4. Frame(p)
  BY <1>2, <1>3 DEF Frame
<1>5. Shape'
  <2>1. ShapeOf(p)'
    BY <1>1, <1>2, <1>3, Constants DEF ShapeOf, Entering, Leaving, Waiting
  <2> QED
    BY <2>1, <1>1, <1>4, ShapeFrame
<1>6. Written'
  <2>1. \A b \in Buf : Writes(p, b) => Writes(p, b)'
    BY <1>1, <1>2, <1>3 DEF Writes, Requesting, Entering, Waiting
  <2> QED
    BY <2>1, <1>1, <1>2, <1>4, WrittenFrame
<1>7. ASSUME LockInv PROVE LockInv'
  <2>1. Untorn'
    BY <1>7, <1>1, <1>2, <1>3, <1>4, UntornFrame DEF LockInv
  <2>2. Exclusive'
    <3>1. Inside(p)' = Inside(p)
      BY <1>1, <1>2, <1>3 DEF Inside
    <3> QED
      BY <3>1, <1>7, <1>1, <1>2, <1>4, ExclusiveFrame DEF LockInv, lockvars
  <2>3. Wakers'
    BY <1>7, <1>1, <1>2, <1>4, Constants, WakersFrame DEF LockInv
  <2>4. Transfer'
    <3>1. \A q \in Proc \ {p} : ~Waiting(q)
      BY <1>7, <1>1, Constants, InsideHas, OneInside DEF LockInv
    <3>2. Pending(cur[p])
      BY <1>7, <1>1 DEF LockInv, Transfer, TransferOf, Requesting
    <3>3. TransferOf(p)'
      BY <3>2, <1>1, <1>2, <1>3, Constants DEF TransferOf, Requesting, Entering, Pending
    <3>4. Waiting(p)' /\ cur'[p] = req'
      BY <1>2, <1>3 DEF Waiting
    <3> QED
      BY <3>1, <3>3, <3>4, <1>7, <1>1, <1>2, <1>4, TransferFrame DEF LockInv
  <2> QED
    BY <2>1, <2>2, <2>3, <2>4, <1>7, <1>2 DEF LockInv, Sound
<1> QED
  BY <1>1, <1>2, <1>5, <1>6, <1>7 DEF CacheInv

\* The loop of iderw(): it ends once the disk has answered, and not before.
LEMMA IoTestStep ==
  ASSUME CacheInv, RefInv', IoTest
  PROVE  CacheInv' /\ (LockInv => LockInv')
<1> PICK p : p = procp
  OBVIOUS
<1>1. /\ RefInv /\ Shape /\ Written /\ p \in Proc /\ ShapeOf(p) /\ cur[p] \in Buf
      /\ halt = "no" /\ wchan[p] = Nil /\ pc[p] = "iowait" /\ lk[p] = IDE
  BY ProcFacts DEF CacheInv, Shape, ShapeOf, Waiting, IoTest, At
<1>2. UNCHANGED <<valid, dirty, data, locked, owner, wchan, procp, op, lk, cur, outer, req, halt>>
  BY DEF IoTest, bufvars, lockvars, locals
<1>3. /\ pc'[p] = IF Pending(cur[p]) THEN "iosleep" ELSE "rel"
      /\ \A q \in Proc \ {p} : pc'[q] = pc[q]
  BY <1>1, ProcFacts DEF IoTest, Goto, Mine, Pending
<1>4. Frame(p)
  BY <1>2, <1>3 DEF Frame
<1>5. Shape'
  <2>1. ShapeOf(p)'
    BY <1>1, <1>2, <1>3, Constants DEF ShapeOf, Entering, Leaving, Waiting
  <2> QED
    BY <2>1, <1>1, <1>4, ShapeFrame
<1>6. Written'
  <2>1. ASSUME NEW b \in Buf, dirty'[b], Writes(p, b) PROVE Writes(p, b)'
    <3>1. Pending(cur[p])
      BY <2>1, <1>2 DEF Writes, Pending
    <3> QED
      BY <2>1, <3>1, <1>2, <1>3 DEF Writes, Requesting, Entering, Waiting
  <2> QED
    BY <2>1, <1>1, <1>2, <1>4, WrittenFrame
<1>7. ASSUME LockInv PROVE LockInv'
  <2>1. Untorn'
    BY <1>7, <1>1, <1>2, <1>3, <1>4, UntornFrame DEF LockInv
  <2>2. Exclusive'
    <3>1. Inside(p)' = Inside(p)
      BY <1>1, <1>2, <1>3 DEF Inside
    <3> QED
      BY <3>1, <1>7, <1>1, <1>2, <1>4, ExclusiveFrame DEF LockInv, lockvars
  <2>3. Wakers'
    BY <1>7, <1>1, <1>2, <1>4, Constants, WakersFrame DEF LockInv
  <2>4. Transfer'
    <3>1. TransferOf(p)
      BY <1>7, <1>1 DEF LockInv, Transfer
    <3>2. CASE Pending(cur[p])
      <4>1. req = cur[p]
        BY <3>1, <3>2, <1>1 DEF TransferOf
      <4>2. Pending(cur[p])'
        BY <3>2, <1>2 DEF Pending
      <4>3. TransferOf(p)' /\ Waiting(p)'
        BY <4>1, <4>2, <3>2, <1>1, <1>2, <1>3 DEF TransferOf, Waiting
      <4> QED
        BY <4>1, <4>3, <1>7, <1>1, <1>2, <1>4, TransferFrame DEF LockInv
    <3>3. CASE ~Pending(cur[p])
      <4>1. req = Nil
        BY <3>1, <3>3, <1>1 DEF TransferOf
      <4>2. TransferOf(p)'
        BY <3>3, <1>3 DEF TransferOf, Requesting, Entering
      <4> QED
        BY <4>1, <4>2, <1>7, <1>1, <1>2, <1>4, TransferFrame DEF LockInv
    <3> QED
      BY <3>2, <3>3
  <2> QED
    BY <2>1, <2>2, <2>3, <2>4, <1>7, <1>2 DEF LockInv, Sound
<1> QED
  BY <1>1, <1>2, <1>5, <1>6, <1>7 DEF CacheInv

\* iderw() sleeps while its request is with the disk.
LEMMA IoSleepStep ==
  ASSUME CacheInv, RefInv', IoSleep
  PROVE  CacheInv' /\ (LockInv => LockInv')
<1> PICK p : p = procp
  OBVIOUS
<1>1. /\ RefInv /\ Shape /\ Written /\ p \in Proc /\ ShapeOf(p) /\ cur[p] \in Buf
      /\ halt = "no" /\ wchan[p] = Nil /\ pc[p] = "iosleep" /\ lk[p] = IDE
  BY ProcFacts DEF CacheInv, Shape, ShapeOf, Waiting, IoSleep, At
<1>2. UNCHANGED <<valid, dirty, data, locked, owner, procp, op, lk, cur, outer, req, halt>>
  BY DEF IoSleep, bufvars, lockvars, locals
<1>3. /\ pc'[p] = "iowait" /\ wchan'[p] = BufChan(cur[p])
      /\ \A q \in Proc \ {p} : pc'[q] = pc[q] /\ wchan'[q] = wchan[q]
  BY <1>1, ProcFacts DEF IoSleep, Goto, Mine
<1>4. Frame(p)
  BY <1>2, <1>3 DEF Frame
<1>5. wchan'[p] \notin Lock
  BY <1>1, <1>3, BioConstants DEF BufChan, Buf, Lock, IDE
<1>6. Shape'
  <2>1. ShapeOf(p)'
    BY <1>1, <1>2, <1>3, <1>5 DEF ShapeOf, Entering, Leaving, Waiting
  <2> QED
    BY <2>1, <1>1, <1>4, ShapeFrame
<1>7. Written'
  <2>1. \A b \in Buf : Writes(p, b) => Writes(p, b)'
    BY <1>1, <1>2, <1>3 DEF Writes, Requesting, Entering, Waiting
  <2> QED
    BY <2>1, <1>1, <1>2, <1>4, WrittenFrame
<1>8. ASSUME LockInv PROVE LockInv'
  <2>1. Untorn'
    BY <1>8, <1>1, <1>2, <1>3, <1>4, UntornFrame DEF LockInv
  <2>2. Exclusive'
    <3>1. Inside(p)' = Inside(p)
      BY <1>1, <1>2, <1>3 DEF Inside
    <3> QED
      BY <3>1, <1>8, <1>1, <1>2, <1>4, ExclusiveFrame DEF LockInv, lockvars
  <2>3. Wakers'
    BY <1>8, <1>1, <1>2, <1>4, <1>5, WakersFrame DEF LockInv
  <2>4. Transfer'
    <3>1. req = cur[p] /\ Pending(cur[p])
      BY <1>8, <1>1 DEF LockInv, Transfer, TransferOf
    <3>2. Pending(cur[p])'
      BY <3>1, <1>2 DEF Pending
    <3>3. TransferOf(p)' /\ Waiting(p)'
      BY <3>1, <3>2, <1>1, <1>2, <1>3, Constants DEF TransferOf, Waiting
    <3> QED
      BY <3>1, <3>3, <1>8, <1>1, <1>2, <1>4, TransferFrame DEF LockInv
  <2> QED
    BY <2>1, <2>2, <2>3, <2>4, <1>8, <1>2 DEF LockInv, Sound
<1> QED
  BY <1>1, <1>2, <1>6, <1>7, <1>8 DEF CacheInv

(***************************************************************************)
(* The interrupt.                                                          *)
(***************************************************************************)

\* The channels of the buffers are apart from each other and from the locks'.
LEMMA Channels ==
  /\ \A a, b \in Buf : BufChan(a) = BufChan(b) => a = b
  /\ \A b \in Buf : BufChan(b) \notin Lock /\ BufChan(b) # Nil
  BY BioConstants DEF BufChan, Buf, Lock, IDE, Nil

\* The process that has idelock while the disk works is the one that asked.
LEMMA RequestOwner ==
  ASSUME RefInv, Shape, LockInv, req # Nil
  PROVE  \E p \in Proc :
           /\ Waiting(p) /\ cur[p] = req /\ req \in Buf /\ Pending(req)
           /\ owner[IDE] = p /\ owner[req] = p /\ locked[IDE] /\ locked[req]
           /\ wchan[p] \in {Nil, BufChan(req)}
<1>1. PICK p \in Proc : Waiting(p) /\ cur[p] = req
  BY DEF LockInv, Transfer
<1>2. req \in Buf /\ req \in Inside(p) /\ IDE \in Inside(p)
  BY <1>1, InsideHas
<1>3. owner[IDE] = p /\ owner[req] = p /\ locked[IDE] /\ locked[req]
  BY <1>2, Constants DEF LockInv, Exclusive
<1>4. Pending(req)
  BY <1>1 DEF LockInv, Transfer, TransferOf, Waiting
<1>5. wchan[p] \in {Nil, BufChan(req)}
  BY <1>1 DEF Shape, ShapeOf, Waiting
<1> QED
  BY <1>1, <1>2, <1>3, <1>4, <1>5

\* ideintr(): the buffer it finds is the one the disk worked on, and its process
\* is the only one that wakes.
LEMMA IdeintrStep ==
  ASSUME CacheInv, RefInv', ideintr
  PROVE  CacheInv' /\ (LockInv => LockInv')
<1>1. /\ RefInv /\ Shape /\ Written /\ halt = "no" /\ req # Nil /\ procp \in Proc
      /\ valid \in [Buf -> BOOLEAN] /\ dirty \in [Buf -> BOOLEAN]
      /\ data \in [Buf -> {"junk", "own"}]
  BY DEF CacheInv, ideintr, RefInv, TypeOK
<1>2. UNCHANGED <<locked, owner, procp, pc, op, lk, cur, outer, halt>> /\ req' = Nil
  BY DEF ideintr, lockvars, locals
<1> PICK b \in Buf :
      /\ b \in IntrBuf
      /\ data'  = [data EXCEPT ![b] = IF b = req THEN "own" ELSE IF dirty[b] THEN @ ELSE "junk"]
      /\ valid' = [valid EXCEPT ![b] = TRUE]
      /\ dirty' = [dirty EXCEPT ![b] = FALSE]
      /\ wakeup(BufChan(b))
  BY DEF ideintr, IntrBuf
<1>3. /\ valid'[b] /\ ~dirty'[b] /\ (b = req => data'[b] = "own")
      /\ \A a \in Buf \ {b} : valid'[a] = valid[a] /\ dirty'[a] = dirty[a] /\ data'[a] = data[a]
  BY <1>1
<1>4. \A q \in Proc : wchan'[q] = IF wchan[q] = BufChan(b) THEN Nil ELSE wchan[q]
  BY DEF wakeup
<1>5. \A p \in Proc : Frame(p)
  BY <1>2, <1>4 DEF Frame
<1>6. Shape'
  <2>1. ShapeOf(procp)'
    BY <1>1, <1>2, <1>4, Constants DEF Shape, ShapeOf, Entering, Leaving, Waiting
  <2>2. PICK p \in Proc : p = procp /\ ShapeOf(p)'
    BY <2>1, <1>1, <1>2
  <2> QED
    BY <2>2, <1>1, <1>5, ShapeFrame
<1>7. Written'
  <2>1. \A a \in Buf : dirty'[a] => dirty[a]
    BY <1>3
  <2> QED
    BY <2>1, <1>1, <1>2 DEF Written, Writes, Requesting, Entering, Waiting
<1>8. ASSUME LockInv PROVE LockInv'
  <2>1. PICK p \in Proc :
          /\ Waiting(p) /\ cur[p] = req /\ owner[IDE] = p /\ Pending(req)
          /\ wchan[p] \in {Nil, BufChan(req)} /\ req \in Buf
    BY <1>8, <1>1, RequestOwner
  <2>2. b = req /\ wchan[p] = BufChan(b)
    BY <2>1, Channels DEF IntrBuf
  <2>3. pc[p] = "iowait" /\ wchan'[p] = Nil
    BY <2>1, <2>2, <1>1, <1>4, Channels DEF Shape, ShapeOf
  <2>4. Untorn'
    BY <1>8, <1>2 DEF LockInv, Untorn
  <2>5. Exclusive'
    <3>1. Inside(p)' = Inside(p)
      BY <1>2 DEF Inside
    <3> QED
      BY <3>1, <1>8, <1>2, <1>5, ExclusiveFrame DEF LockInv, lockvars
  <2>6. Wakers'
    BY <1>8, <1>2, <1>4, Constants DEF LockInv, Wakers
  <2>7. Transfer'
    <3>1. ASSUME NEW q \in Proc \ {p}, Requesting(q) \/ Waiting(q)
          PROVE  cur[q] \in Buf /\ cur[q] # b
      <4>1. cur[q] \in Buf /\ cur[q] \in Inside(q) /\ b \in Inside(p)
        BY <3>1, <2>1, <2>2, <1>1, InsideHas
      <4> QED
        BY <4>1, <1>8, Constants, OneInside DEF LockInv
    <3>2. \A q \in Proc \ {p} : Requesting(q) \/ Waiting(q) =>
            valid'[cur[q]] = valid[cur[q]] /\ dirty'[cur[q]] = dirty[cur[q]]
      BY <3>1, <1>3
    <3>3. \A q \in Proc \ {p} : ~Waiting(q)
      BY <2>1, <1>8, <1>1, Constants, InsideHas, OneInside DEF LockInv
    <3>4. ~Pending(cur[p])'
      BY <2>1, <2>2, <1>2, <1>3 DEF Pending
    <3>5. TransferOf(p)'
      BY <2>3, <3>4, <1>2 DEF TransferOf, Requesting, Entering
    <3> QED
      BY <3>2, <3>3, <3>5, <1>8, <1>2, <1>5, TransferFrame DEF LockInv
  <2>8. Sound'
    BY <2>2, <1>8, <1>3 DEF LockInv, Sound
  <2> QED
    BY <2>4, <2>5, <2>6, <2>7, <2>8, <1>8, <1>1, <1>2 DEF LockInv
<1> QED
  BY <1>1, <1>2, <1>6, <1>7, <1>8 DEF CacheInv

\* Steps that change neither the locks nor a process nor the flags.
LEMMA LockSame ==
  ASSUME LockInv, UNCHANGED <<valid, dirty, data, locked, owner, wchan, procp, pc, lk, cur, req>>,
         halt' # "block not locked"
  PROVE  LockInv'
<1>1. Untorn'
  BY DEF LockInv, Untorn
<1>2. Exclusive'
  <2>1. \A p : Inside(p)' = Inside(p)
    BY DEF Inside
  <2> QED
    BY <2>1 DEF LockInv, Exclusive
<1>3. Wakers'
  BY DEF LockInv, Wakers
<1>4. Transfer'
  BY DEF LockInv, Transfer, TransferOf, Pending, Requesting, Waiting, Entering
<1>5. Sound'
  BY DEF LockInv, Sound
<1> QED
  BY <1>1, <1>2, <1>3, <1>4, <1>5 DEF LockInv

\* Before its process sleeps the interrupt is a stray one; it changes nothing
\* but the reason why execution ends.
LEMMA StrayIntrStep ==
  ASSUME CacheInv, RefInv', StrayIntr
  PROVE  CacheInv' /\ (LockInv => LockInv')
<1>1. UNCHANGED <<valid, dirty, data, locked, owner, wchan, procp, pc, op, lk, cur, outer, req>>
      /\ halt' = "stray interrupt"
  BY DEF StrayIntr, bufvars, lockvars, locals
<1>2. Shape' /\ Written'
  BY <1>1, CacheSame DEF CacheInv
<1>3. LockInv => LockInv'
  BY <1>1, LockSame DEF LockInv
<1> QED
  BY <1>1, <1>2, <1>3 DEF CacheInv

(***************************************************************************)
(* Getting a buffer, and giving it back.                                   *)
(***************************************************************************)

\* What bget(), for bread() and for writei(), does to the process.
LEMMA GetIs ==
  ASSUME CacheInv, NEW n \in Blockno, bread(n) \/ WriteSector(n)
  PROVE  \E p \in Proc, b \in Buf :
           /\ p = procp /\ halt = "no" /\ wchan[p] = Nil /\ pc[p] \in {"user", "hold"}
           /\ bget(n, b) /\ Frame(p) /\ cur'[p] = b /\ pc'[p] \in {"bread", "hold"}
           /\ outer'[p] # Nil => p \in Lookers
           /\ UNCHANGED <<locked, owner, wchan, procp, req, halt>>
<1> PICK p : p = procp
  OBVIOUS
<1>1. RefInv /\ Shape /\ p \in Proc /\ ShapeOf(p)
  BY ProcFacts DEF CacheInv, Shape
<1>2. /\ halt = "no" /\ wchan[p] = Nil /\ pc[p] \in {"user", "hold"}
      /\ pc[p] = "user" \/ p \in Lookers \/ WriteSector(n)
  BY DEF bread, WriteSector, MayGet, At
<1>3. ~Full(n)
  BY NotFull DEF bread, WriteSector
<1>4. CASE bread(n)
  <2>1. PICK b \in Buf :
          /\ bget(n, b)
          /\ cur'   = [cur EXCEPT ![p] = b]
          /\ outer' = [outer EXCEPT ![p] = cur[p]]
          /\ op'    = [op EXCEPT ![p] = "bread"]
    BY <1>3, <1>4 DEF bread, Mine
  <2>2. UNCHANGED <<lk, locked, owner, wchan, procp, req, halt>> /\ Goto("bread")
    BY <1>3, <1>4 DEF bread, lockvars
  <2>3. cur'[p] = b /\ outer'[p] = cur[p] /\ pc'[p] = "bread"
    BY <2>1, <2>2, <1>1, ProcFacts DEF Goto
  <2>4. Frame(p)
    BY <2>1, <2>2, <1>1, ProcFacts DEF Frame, Goto
  <2>5. outer'[p] # Nil => p \in Lookers
    BY <2>3, <1>1, <1>4 DEF bread, MayGet, At, RefInv, CurHeld
  <2> QED
    BY <2>1, <2>2, <2>3, <2>4, <2>5, <1>1, <1>2
<1>5. CASE WriteSector(n)
  <2>1. PICK b \in Buf :
          /\ bget(n, b)
          /\ cur' = [cur EXCEPT ![p] = b]
          /\ op'  = [op EXCEPT ![p] = "bget"]
    BY <1>3, <1>5 DEF WriteSector
  <2>2. /\ UNCHANGED <<lk, outer, locked, owner, wchan, procp, req, halt>>
        /\ Goto("hold")
    BY <1>3, <1>5 DEF WriteSector, lockvars
  <2>3. cur'[p] = b /\ pc'[p] = "hold" /\ outer'[p] = outer[p]
    BY <2>1, <2>2, <1>1, ProcFacts DEF Goto
  <2>4. Frame(p)
    BY <2>1, <2>2, <1>1, ProcFacts DEF Frame, Goto
  <2>5. outer'[p] # Nil => p \in Lookers
    BY <2>3, <1>1 DEF ShapeOf
  <2> QED
    BY <2>1, <2>2, <2>3, <2>4, <2>5, <1>1, <1>2
<1> QED
  BY <1>4, <1>5

\* bget() recycles no buffer that is locked, asked for or waited for.
LEMMA GetStep ==
  ASSUME CacheInv, RefInv', NEW n \in Blockno, bread(n) \/ WriteSector(n)
  PROVE  CacheInv' /\ (LockInv => LockInv')
<1>1. PICK p \in Proc, b \in Buf :
        /\ p = procp /\ halt = "no" /\ wchan[p] = Nil /\ pc[p] \in {"user", "hold"}
        /\ bget(n, b) /\ Frame(p) /\ cur'[p] = b /\ pc'[p] \in {"bread", "hold"}
        /\ outer'[p] # Nil => p \in Lookers
        /\ UNCHANGED <<locked, owner, wchan, procp, req, halt>>
  BY GetIs
<1>2. RefInv /\ Shape /\ Written /\ TypeOK /\ RefcntExact
  BY DEF CacheInv, RefInv
<1>3. /\ \A a \in Buf : refcnt[a] # 0 \/ a # b =>
           valid'[a] = valid[a] /\ dirty'[a] = dirty[a] /\ data'[a] = data[a]
      /\ \/ valid'[b] = valid[b] /\ dirty'[b] = dirty[b] /\ data'[b] = data[b]
         \/ ~valid'[b] /\ ~dirty'[b]
  BY <1>1, <1>2, BgetFlags
<1>4. Shape'
  <2>1. ShapeOf(p)'
    BY <1>1, Constants DEF ShapeOf, Entering, Leaving, Waiting
  <2> QED
    BY <2>1, <1>1, <1>2, ShapeFrame
<1>5. Written'
  <2>1. \A a \in Buf : ~Writes(p, a)
    BY <1>1 DEF Writes, Requesting, Entering, Waiting
  <2>2. \A a \in Buf : dirty'[a] => dirty[a]
    BY <1>3
  <2> QED
    BY <2>1, <2>2, <1>1, <1>2, WrittenFrame
<1>6. ASSUME LockInv PROVE LockInv'
  <2>1. Untorn'
    BY <1>6, <1>1, UntornFrame DEF LockInv
  <2>2. Exclusive'
    <3>1. Inside(p)' = Inside(p)
      BY <1>1, IdeIsNoBuf DEF Inside
    <3> QED
      BY <3>1, <1>6, <1>1, ExclusiveFrame DEF LockInv, lockvars
  <2>3. Wakers'
    BY <1>6, <1>1, Constants, WakersFrame DEF LockInv
  <2>4. Transfer'
    <3>1. ASSUME NEW q \in Proc \ {p}, Requesting(q) \/ Waiting(q)
          PROVE  valid'[cur[q]] = valid[cur[q]] /\ dirty'[cur[q]] = dirty[cur[q]]
      <4>1. cur[q] \in Buf
        BY <3>1, <1>2, InsideHas
      <4>2. refcnt[cur[q]] # 0
        BY <4>1, <1>2, ZeroFree
      <4> QED
        BY <4>1, <4>2, <1>3
    <3>2. TransferOf(p)' /\ ~Waiting(p)
      BY <1>1, IdeIsNoBuf DEF TransferOf, Requesting, Entering, Waiting
    <3> QED
      BY <3>1, <3>2, <1>6, <1>1, TransferFrame DEF LockInv
  <2>5. Sound'
    BY <1>6, <1>3 DEF LockInv, Sound
  <2> QED
    BY <2>1, <2>2, <2>3, <2>4, <2>5, <1>6, <1>1 DEF LockInv
<1> QED
  BY <1>1, <1>4, <1>5, <1>6 DEF CacheInv

\* bread()'s test of refcnt, bwrite() up to its acquire(), and brelse().
LEMMA HoldStep ==
  ASSUME CacheInv, RefInv', breadShared \/ bwrite \/ brelse
  PROVE  CacheInv' /\ (LockInv => LockInv')
<1> PICK p : p = procp
  OBVIOUS
<1>1. /\ RefInv /\ Shape /\ Written /\ p \in Proc /\ ShapeOf(p) /\ cur[p] \in Buf
      /\ halt = "no" /\ wchan[p] = Nil /\ pc[p] \in {"bread", "hold"}
  BY ProcFacts DEF CacheInv, Shape, breadShared, bwrite, brelse, At
<1>2. UNCHANGED <<valid, dirty, data, locked, owner, wchan, procp, req, halt>>
  BY DEF breadShared, bwrite, brelse, bufvars, lockvars
<1>3. /\ Frame(p) /\ outer'[p] \in {outer[p], Nil}
      /\ \/ pc'[p] = "acq" /\ lk'[p] = cur'[p] /\ cur'[p] = cur[p]
         \/ pc'[p] \in {"user", "hold"}
  <2>1. CASE bwrite
    BY <2>1, <1>1, ProcFacts DEF bwrite, Goto, Mine, Frame
  <2>2. CASE brelse
    BY <2>2, <1>1, ProcFacts DEF brelse, Goto, Frame
  <2>3. CASE breadShared
    BY <2>3, <1>1, ProcFacts DEF breadShared, Goto, Mine, Frame
  <2> QED
    BY <2>1, <2>2, <2>3
<1>4. Shape'
  <2>1. ShapeOf(p)'
    BY <1>1, <1>2, <1>3, Constants DEF ShapeOf, Entering, Leaving, Waiting
  <2> QED
    BY <2>1, <1>1, <1>3, ShapeFrame
<1>5. Written'
  BY <1>1, <1>2, <1>3, WrittenSame DEF Requesting, Entering, Waiting
<1>6. ASSUME LockInv PROVE LockInv'
  <2>1. Untorn'
    BY <1>6, <1>1, <1>2, <1>3, UntornFrame DEF LockInv
  <2>2. Exclusive'
    <3>1. Inside(p)' = Inside(p)
      BY <1>1, <1>3, IdeIsNoBuf DEF Inside
    <3> QED
      BY <3>1, <1>6, <1>1, <1>2, <1>3, ExclusiveFrame DEF LockInv, lockvars
  <2>3. Wakers'
    BY <1>6, <1>1, <1>2, <1>3, Constants, WakersFrame DEF LockInv
  <2>4. Transfer'
    BY <1>6, <1>1, <1>2, <1>3, IdeIsNoBuf, TransferSame DEF LockInv, Waiting, Requesting,
       Entering
  <2> QED
    BY <2>1, <2>2, <2>3, <2>4, <1>6, <1>2 DEF LockInv, Sound
<1> QED
  BY <1>1, <1>2, <1>4, <1>5, <1>6 DEF CacheInv

(***************************************************************************)
(* The invariant is inductive.                                             *)
(***************************************************************************)

\* Another process gets the CPU: where the old one was at a point of Window, and
\* not asleep, the locks' promises end.
LEMMA SwitchStep ==
  ASSUME CacheInv, RefInv', NEW q \in Proc, Reschedule(q)
  PROVE  CacheInv' /\ (LockInv /\ ~torn' => LockInv')
<1>1. /\ UNCHANGED <<valid, dirty, data, locked, owner, wchan, pc, op, lk, cur, outer, req, halt>>
      /\ procp' = q /\ wchan[q] = Nil
      /\ torn' <=> torn \/ (wchan[procp] = Nil /\ pc[procp] \in Window)
  BY DEF Reschedule, bufvars, lockvars, locals
<1>2. Shape' /\ Written'
  BY <1>1, CacheSame DEF CacheInv
<1>3. ASSUME LockInv, ~torn' PROVE LockInv'
  <2>1. procp \in Proc /\ ShapeOf(procp)
    BY ProcFacts DEF CacheInv, Shape
  <2>2. pc[procp] \notin Window
    BY <2>1, <1>1, <1>3 DEF ShapeOf, Window
  <2>3. \A p \in Proc : pc[p] \notin Window
    BY <2>2, <1>3 DEF LockInv, Untorn
  <2>4. Untorn'
    BY <2>3, <1>1 DEF Untorn, Window
  <2>5. Exclusive'
    <3>1. \A p : Inside(p)' = Inside(p)
      BY <1>1 DEF Inside
    <3> QED
      BY <3>1, <1>1, <1>3 DEF LockInv, Exclusive
  <2>6. Wakers'
    BY <1>1, <1>3 DEF LockInv, Wakers
  <2>7. Transfer'
    BY <1>1, <1>3 DEF LockInv, Transfer, TransferOf, Pending, Requesting, Waiting, Entering
  <2> QED
    BY <2>4, <2>5, <2>6, <2>7, <1>1, <1>3 DEF LockInv, Sound
<1> QED
  BY <1>1, <1>2, <1>3 DEF CacheInv

\* The invariant holds at first.
LEMMA BioInit == Init => BioInv
<1> SUFFICES ASSUME Init PROVE BioInv
  OBVIOUS
<1>1. RefInv
  BY RefInit
<1>2. procp \in Proc
  BY DEF Init
<1>3. Shape
  BY Constants DEF Init, Shape, ShapeOf, Entering, Leaving, Waiting
<1>4. Written
  BY DEF Init, Written
<1>5. \A p \in Proc : Inside(p) = {}
  BY DEF Init, Inside
<1>6. Untorn /\ Exclusive /\ Wakers /\ Transfer /\ Sound
  <2>1. Untorn
    BY <1>2 DEF Init, Untorn, Window
  <2>2. Exclusive
    BY <1>5 DEF Init, Exclusive
  <2>3. Wakers
    BY Constants DEF Init, Wakers
  <2>4. Transfer
    BY DEF Init, Transfer, TransferOf, Requesting, Entering
  <2>5. Sound
    BY DEF Init, Sound
  <2> QED
    BY <2>1, <2>2, <2>3, <2>4, <2>5
<1> QED
  BY <1>1, <1>3, <1>4, <1>6 DEF BioInv, CacheInv, LockInv, Init

\* Every step keeps the invariant.
LEMMA BioNext ==
  ASSUME BioInv, [Next]_vars
  PROVE  BioInv'
<1>1. CacheInv /\ RefInv'
  BY RefStep DEF BioInv, CacheInv
<1>2. CASE \E n \in Blockno : bread(n) \/ WriteSector(n)
  <2>1. torn' = torn
    BY <1>2 DEF bread, WriteSector
  <2> QED
    BY <2>1, <1>1, <1>2, GetStep DEF BioInv
<1>3. CASE breadShared \/ bwrite \/ brelse
  <2>1. torn' = torn
    BY <1>3 DEF breadShared, bwrite, brelse
  <2> QED
    BY <2>1, <1>1, <1>3, HoldStep DEF BioInv
<1>4. CASE Locks
  <2>1. torn' = torn
    BY <1>4 DEF Locks, AcqTest, AcqSleep, AcqSet, Rel, RelOwner, RelWake
  <2> QED
    BY <2>1, <1>1, <1>4, AcqTestStep, AcqSleepStep, AcqSetStep, RelStep, RelOwnerStep,
       RelWakeStep DEF BioInv, Locks
<1>5. CASE Disk
  <2>1. torn' = torn
    BY <1>5 DEF Disk, GotValid, iderw, LockPanic, sendreq, IoTest, IoSleep
  <2> QED
    BY <2>1, <1>1, <1>5, GotValidStep, IderwStep, LockPanicStep, SendreqStep, IoTestStep,
       IoSleepStep DEF BioInv, Disk
<1>6. CASE ideintr \/ StrayIntr
  <2>1. torn' = torn
    BY <1>6 DEF ideintr, StrayIntr
  <2> QED
    BY <2>1, <1>1, <1>6, IdeintrStep, StrayIntrStep DEF BioInv
<1>7. CASE \E q \in Proc : Reschedule(q)
  <2>1. torn => torn'
    BY <1>7 DEF Reschedule
  <2> QED
    BY <2>1, <1>1, <1>7, SwitchStep DEF BioInv
<1>8. CASE UNCHANGED vars
  <2>1. UNCHANGED <<valid, dirty, data, locked, owner, wchan, procp, pc, op, lk, cur, outer,
                    req, halt, torn>>
    BY <1>8 DEF vars, bufvars, lockvars, locals
  <2>2. Shape' /\ Written'
    BY <2>1, <1>1, CacheSame DEF CacheInv
  <2>3. LockInv => LockInv'
    BY <2>1, LockSame DEF LockInv
  <2> QED
    BY <2>1, <2>2, <2>3, <1>1 DEF BioInv, CacheInv
<1> QED
  BY <1>2, <1>3, <1>4, <1>5, <1>6, <1>7, <1>8 DEF Next, Buffers

(***************************************************************************)
(* Theorems.                                                               *)
(***************************************************************************)

\* The locks, the flags and the request of the disk agree with where the
\* processes are, as long as no reschedule splits acquire() or release().
THEOREM BioLocks == Spec => []BioInv
<1>1. BioInv /\ [Next]_vars => BioInv'
  BY BioNext
<1> QED
  BY BioInit, <1>1, PTL DEF Spec

\* bget() always finds a buffer, whatever was split; bwrite() and iderw() have
\* the lock they check.
THEOREM BioNoPanic == Spec => []NoPanic
<1>1. BioInv => NoPanic
  BY DEF BioInv, CacheInv, LockInv, NoPanic
<1> QED
  BY BioLocks, <1>1, PTL

\* A sleeping lock is locked exactly while one process is inside it, and it is
\* its procp.
THEOREM LocksExclude == Spec => []LockExclusive
<1>1. BioInv => LockExclusive
  BY DEF BioInv, LockInv, Exclusive, LockExclusive
<1> QED
  BY BioLocks, <1>1, PTL

\* The process that has idelock when the disk interrupts is the one that sent
\* the request, and its buffer is the disk's.
THEOREM InterruptFindsBuffer == Spec => []IntrTarget
<1>1. BioInv => IntrTarget
  BY RequestOwner DEF BioInv, CacheInv, IntrTarget, Waiting, Pending
<1> QED
  BY BioLocks, <1>1, PTL

\* No wakeup is lost: somebody is on the way to wake every sleeper.
THEOREM SleepersHaveWakers == Spec => []SleeperHasWaker
<1>1. BioInv => SleeperHasWaker
  <2> SUFFICES ASSUME BioInv, ~torn, NEW p \in Proc
               PROVE  /\ wchan[p] \in Lock =>
                           \/ locked[wchan[p]]
                           \/ \E q \in Proc : pc[q] \in {"rel2", "rel3"} /\ lk[q] = wchan[p]
                      /\ wchan[p] # Nil /\ wchan[p] \notin Lock =>
                           req # Nil /\ wchan[p] = BufChan(req)
    BY DEF SleeperHasWaker
  <2>1. Wakers /\ TransferOf(p) /\ ShapeOf(p)
    BY DEF BioInv, CacheInv, LockInv, Transfer, Shape
  <2> QED
    BY <2>1 DEF Wakers, TransferOf, ShapeOf
<1> QED
  BY BioLocks, <1>1, PTL

\* acquire() of a buffer, acquire() of idelock and the wait for the disk never
\* form a cycle: when everybody sleeps, the disk has a request.
THEOREM DiskBreaksDeadlock == Spec => []NoDeadlock
<1>1. BioInv => NoDeadlock
  <2> SUFFICES ASSUME BioInv, ~torn, \A p \in Proc : wchan[p] # Nil, req = Nil
               PROVE  FALSE
    BY DEF NoDeadlock
  <2>1. procp \in Proc
    BY ProcFacts DEF BioInv, CacheInv
  <2>2. \A p \in Proc : wchan[p] \in Lock /\ pc[p] = "acq" /\ lk[p] = wchan[p]
    BY DEF BioInv, CacheInv, LockInv, Transfer, TransferOf, Shape, ShapeOf
  <2>3. \A p \in Proc : locked[wchan[p]]
    BY <2>2 DEF BioInv, LockInv, Wakers
  <2>4. \A p \in Proc : \A l \in Inside(p) : l \in Buf /\ wchan[p] = IDE
    BY <2>2, Constants, ProcFacts DEF Inside, BioInv, CacheInv
  <2>5. PICK p \in Proc : wchan[procp] \in Inside(p)
    BY <2>1, <2>2, <2>3 DEF BioInv, LockInv, Exclusive
  <2>6. locked[IDE]
    BY <2>3, <2>4, <2>5
  <2>7. \E q \in Proc : IDE \in Inside(q)
    BY <2>6, Constants DEF BioInv, LockInv, Exclusive
  <2> QED
    BY <2>4, <2>7, IdeIsNoBuf
<1> QED
  BY BioLocks, <1>1, PTL

\* B_VALID is never set on a buffer that holds another block's data, and B_DIRTY
\* only while its writer has the buffer's lock.
THEOREM FlagsAreSound == Spec => []FlagsSound
<1>1. BioInv => FlagsSound
  <2> SUFFICES ASSUME BioInv, ~torn, NEW b \in Buf
               PROVE  /\ valid[b] => data[b] # "junk"
                      /\ dirty[b] => \E p \in Proc : b \in Inside(p) /\ op[p] = "bwrite"
    BY DEF FlagsSound
  <2>1. dirty[b] => \E p \in Proc : Writes(p, b)
    BY DEF BioInv, CacheInv, Written
  <2>2. \A p \in Proc : Writes(p, b) => b \in Inside(p) /\ op[p] = "bwrite"
    BY InsideHas DEF BioInv, CacheInv, Writes
  <2> QED
    BY <2>1, <2>2 DEF BioInv, LockInv, Sound
<1> QED
  BY BioLocks, <1>1, PTL
=============================================================================
