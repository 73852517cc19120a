----------------------------- MODULE BioProofs -----------------------------
(***************************************************************************)
(* Proofs about Bio, for every set of processes and blocks and every NBUF: *)
(* what holds of the buffer cache whether or not a lock was ever split.    *)
(***************************************************************************)
EXTENDS Bio, TLAPS, FiniteSetTheorems

(***************************************************************************)
(* Counting.                                                               *)
(***************************************************************************)
Holders(f, x) == {p \in Proc : f[p] = x}
Count(f, x)   == Cardinality(Holders(f, x))
Is(u, x)      == IF u = x THEN 1 ELSE 0

\* Finitely many processes have a buffer: the count is a number.
LEMMA CountNat ==
  ASSUME NEW f, NEW x
  PROVE  IsFiniteSet(Holders(f, x)) /\ Count(f, x) \in Nat
<1>1. IsFiniteSet(Holders(f, x))
  BY BioConstants, FS_Subset DEF Holders
<1> QED
  BY <1>1, FS_CardinalityType DEF Count

\* Adding a process to a set of processes it is not in.
LEMMA CountAdd ==
  ASSUME NEW f, NEW g, NEW x, NEW q \in Proc,
         \A p \in Proc \ {q} : f[p] = g[p],
         f[q] # x, g[q] = x
  PROVE  Count(g, x) = Count(f, x) + 1
<1>1. Holders(g, x) = Holders(f, x) \cup {q} /\ q \notin Holders(f, x)
  BY DEF Holders
<1> QED
  BY <1>1, CountNat, FS_AddElement DEF Count

\* A function that changes at q: how many processes it maps to x.
LEMMA CountUpdate ==
  \A f, g, x : \A q \in Proc :
    (\A p \in Proc \ {q} : f[p] = g[p]) =>
      Count(g, x) + Is(f[q], x) = Count(f, x) + Is(g[q], x)
<1> SUFFICES ASSUME NEW f, NEW g, NEW x, NEW q \in Proc,
                    \A p \in Proc \ {q} : f[p] = g[p]
             PROVE  Count(g, x) + Is(f[q], x) = Count(f, x) + Is(g[q], x)
  OBVIOUS
<1>0. Count(f, x) \in Nat /\ Count(g, x) \in Nat
  BY CountNat
<1>1. CASE f[q] = x /\ g[q] # x
  <2>1. Count(f, x) = Count(g, x) + 1
    BY <1>1, CountAdd
  <2> QED
    BY <2>1, <1>0, <1>1 DEF Is
<1>2. CASE f[q] # x /\ g[q] = x
  <2>1. Count(g, x) = Count(f, x) + 1
    BY <1>2, CountAdd
  <2> QED
    BY <2>1, <1>0, <1>2 DEF Is
<1>3. CASE (f[q] = x) <=> (g[q] = x)
  <2>1. Holders(f, x) = Holders(g, x)
    BY <1>3 DEF Holders
  <2> QED
    BY <2>1, <1>0, <1>3 DEF Is, Count
<1> QED
  BY <1>1, <1>2, <1>3

\* A step that changes procp's references only.
LEMMA CountStep ==
  ASSUME procp \in Proc, NEW a,
         \A p \in Proc \ {procp} : cur[p] = cur'[p],
         \A p \in Proc \ {procp} : outer[p] = outer'[p]
  PROVE  /\ Count(cur', a) + Is(cur[procp], a) = Count(cur, a) + Is(cur'[procp], a)
         /\ Count(outer', a) + Is(outer[procp], a)
              = Count(outer, a) + Is(outer'[procp], a)
  BY CountUpdate

(***************************************************************************)
(* The inductive invariant: a process outside the block layer refers to no *)
(* buffer, one inside it to the buffer it works on.                        *)
(***************************************************************************)
CurHeld ==
  \A p \in Proc :
    /\ pc[p] = "user" => cur[p] = Nil
    /\ pc[p] # "user" => cur[p] \in Buf
    /\ cur[p] = Nil => outer[p] = Nil

RefInv == TypeOK /\ BlockUnique /\ RefcntExact /\ CurHeld

\* The constants as facts of arithmetic.
LEMMA Constants ==
  /\ NBUF \in Nat
  /\ Nil \notin Buf /\ Nil \notin Lock /\ NoBlock \notin Buf
  /\ Buf \subseteq Lock /\ IDE \in Lock
  /\ \A b \in Buf : BufChan(b) \in 0 .. 2 * NBUF
  /\ \A l \in Lock : l \in 0 .. 2 * NBUF
  BY BioConstants DEF Nil, Buf, Lock, IDE, BufChan, NoBlock

\* RefcntExact in terms of Count.
LEMMA RefcntCount ==
  RefcntExact <=> \A b \in Buf : refcnt[b] = Count(cur, b) + Count(outer, b)
  BY DEF RefcntExact, Count, Holders

\* A buffer whose count is zero is nobody's.
LEMMA ZeroFree ==
  ASSUME RefcntExact, NEW b \in Buf, refcnt[b] = 0, NEW p \in Proc
  PROVE  cur[p] # b /\ outer[p] # b
<1>1. Count(cur, b) = 0 /\ Count(outer, b) = 0
  BY RefcntCount, CountNat
<1>2. Holders(cur, b) = {} /\ Holders(outer, b) = {}
  BY <1>1, CountNat, FS_EmptySet DEF Count
<1> QED
  BY <1>2 DEF Holders

\* What bget() does to the cache.
LEMMA BgetEffect ==
  ASSUME TypeOK, BlockUnique, NEW n \in Blockno, NEW b \in Buf, bget(n, b)
  PROVE  /\ blockno' \in [Buf -> Blockno \cup {NoBlock}]
         /\ refcnt' = [refcnt EXCEPT ![b] = refcnt[b] + 1]
         /\ refcnt' \in [Buf -> Nat]
         /\ valid' \in [Buf -> BOOLEAN] /\ dirty' \in [Buf -> BOOLEAN]
         /\ data' \in [Buf -> {"junk", "own"}]
         /\ \A a \in Buf : blockno'[a] = blockno[a] \/ refcnt[a] = 0
         /\ BlockUnique'
<1>0. refcnt \in [Buf -> Nat]
  BY DEF TypeOK
<1>1. CASE First(Cached(n), b) /\ refcnt' = [refcnt EXCEPT ![b] = @ + 1]
           /\ UNCHANGED <<blockno, valid, dirty, data>>
  <2>1. refcnt' \in [Buf -> Nat]
    BY <1>0, <1>1
  <2> QED
    BY <1>1, <2>1 DEF TypeOK, BlockUnique
<1>2. CASE /\ Cached(n) = {}
           /\ First(Free, b)
           /\ blockno' = [blockno EXCEPT ![b] = n]
           /\ valid'   = [valid EXCEPT ![b] = FALSE]
           /\ dirty'   = [dirty EXCEPT ![b] = FALSE]
           /\ refcnt'  = [refcnt EXCEPT ![b] = 1]
           /\ data'    = [data EXCEPT ![b] = "junk"]
  <2>1. refcnt[b] = 0
    BY <1>2 DEF First, Free
  <2>2. refcnt' = [refcnt EXCEPT ![b] = refcnt[b] + 1] /\ refcnt' \in [Buf -> Nat]
    BY <1>0, <1>2, <2>1
  <2>3. \A a \in Buf : blockno[a] # n
    BY <1>2 DEF Cached
  <2>4. \A a \in Buf : blockno'[a] = IF a = b THEN n ELSE blockno[a]
    BY <1>2 DEF TypeOK
  <2>5. BlockUnique'
    BY <2>3, <2>4 DEF BlockUnique
  <2>6. blockno' \in [Buf -> Blockno \cup {NoBlock}]
    BY <1>2 DEF TypeOK
  <2>7. valid' \in [Buf -> BOOLEAN] /\ dirty' \in [Buf -> BOOLEAN]
        /\ data' \in [Buf -> {"junk", "own"}]
    BY <1>2 DEF TypeOK
  <2> QED
    BY <2>1, <2>2, <2>4, <2>5, <2>6, <2>7
<1> QED
  BY <1>1, <1>2 DEF bget

\* One more reference by procp: its buffer becomes b, and it keeps what it had.
LEMMA TakeRef ==
  ASSUME RefInv, NEW b \in Buf,
         refcnt' = [refcnt EXCEPT ![b] = refcnt[b] + 1],
         cur' = [cur EXCEPT ![procp] = b],
         outer' = [outer EXCEPT ![procp] = cur[procp]],
         outer[procp] = Nil
  PROVE  RefcntExact'
<1> DEFINE p == procp
<1>1. p \in Proc /\ cur \in [Proc -> Buf \cup {Nil}] /\ outer \in [Proc -> Buf \cup {Nil}]
      /\ refcnt \in [Buf -> Nat]
  BY DEF RefInv, TypeOK
<1>2. /\ \A q \in Proc \ {p} : cur[q] = cur'[q]
      /\ \A q \in Proc \ {p} : outer[q] = outer'[q]
  BY <1>1
<1>3. cur'[p] = b /\ outer'[p] = cur[p]
  BY <1>1
<1>4. SUFFICES ASSUME NEW a \in Buf
               PROVE  refcnt'[a] = Count(cur', a) + Count(outer', a)
  BY DEF RefcntExact, Count, Holders
<1>5. Count(cur', a) + Is(cur[p], a) = Count(cur, a) + Is(b, a)
  <2>1. Count(cur', a) + Is(cur[p], a) = Count(cur, a) + Is(cur'[p], a)
    BY <1>1, <1>2, CountStep
  <2> QED
    BY <2>1, <1>3
<1>6. Count(outer', a) + Is(Nil, a) = Count(outer, a) + Is(cur[p], a)
  <2>1. Count(outer', a) + Is(outer[p], a) = Count(outer, a) + Is(outer'[p], a)
    BY <1>1, <1>2, CountStep
  <2> QED
    BY <2>1, <1>3
<1>7. refcnt[a] = Count(cur, a) + Count(outer, a) /\ Is(Nil, a) = 0
  BY RefcntCount, Constants DEF RefInv, Is
<1>8. refcnt'[a] = refcnt[a] + Is(b, a)
  BY <1>1 DEF Is
<1>9. /\ Count(cur', a) \in Nat /\ Count(outer', a) \in Nat
      /\ Count(cur, a) \in Nat /\ Count(outer, a) \in Nat
      /\ Is(cur[p], a) \in Nat /\ Is(b, a) \in Nat
  BY CountNat DEF Is
<1> HIDE DEF p
<1> QED
  BY <1>5, <1>6, <1>7, <1>8, <1>9

\* One reference less: the buffer kept, if any, is current again.
LEMMA GiveRef ==
  ASSUME RefInv, cur[procp] \in Buf,
         refcnt' = [refcnt EXCEPT ![cur[procp]] = @ - 1],
         cur' = [cur EXCEPT ![procp] = outer[procp]],
         outer' = [outer EXCEPT ![procp] = Nil]
  PROVE  RefcntExact' /\ refcnt' \in [Buf -> Nat]
<1> DEFINE p == procp
           b == cur[procp]
<1>1. p \in Proc /\ cur \in [Proc -> Buf \cup {Nil}] /\ outer \in [Proc -> Buf \cup {Nil}]
      /\ refcnt \in [Buf -> Nat]
  BY DEF RefInv, TypeOK
<1>2. /\ \A q \in Proc \ {p} : cur[q] = cur'[q]
      /\ \A q \in Proc \ {p} : outer[q] = outer'[q]
  BY <1>1
<1>3. cur'[p] = outer[p] /\ outer'[p] = Nil
  BY <1>1
<1>4. ASSUME NEW a \in Buf
      PROVE  refcnt'[a] = Count(cur', a) + Count(outer', a) /\ refcnt'[a] \in Nat
  <2>1. Count(cur', a) + Is(b, a) = Count(cur, a) + Is(outer[p], a)
    <3>1. Count(cur', a) + Is(cur[p], a) = Count(cur, a) + Is(cur'[p], a)
      BY <1>1, <1>2, CountStep
    <3> QED
      BY <3>1, <1>3
  <2>2. Count(outer', a) + Is(outer[p], a) = Count(outer, a) + Is(Nil, a)
    <3>1. Count(outer', a) + Is(outer[p], a) = Count(outer, a) + Is(outer'[p], a)
      BY <1>1, <1>2, CountStep
    <3> QED
      BY <3>1, <1>3
  <2>3. refcnt[a] = Count(cur, a) + Count(outer, a) /\ Is(Nil, a) = 0
    BY RefcntCount, Constants DEF RefInv, Is
  <2>4. refcnt'[a] = refcnt[a] - Is(b, a)
    BY <1>1 DEF Is
  <2>5. /\ Count(cur', a) \in Nat /\ Count(outer', a) \in Nat
        /\ Count(cur, a) \in Nat /\ Count(outer, a) \in Nat
        /\ Is(outer[p], a) \in Nat /\ Is(b, a) \in Nat
    BY CountNat DEF Is
  <2> HIDE DEF p, b
  <2> QED
    BY <2>1, <2>2, <2>3, <2>4, <2>5
<1>5. refcnt' \in [Buf -> Nat]
  BY <1>1, <1>4
<1> QED
  BY <1>4, <1>5 DEF RefcntExact, Count, Holders

(***************************************************************************)
(* The invariant is inductive.                                             *)
(***************************************************************************)
LEMMA RefInit == Init => RefInv
<1> SUFFICES ASSUME Init PROVE RefInv
  OBVIOUS
<1>1. TypeOK
  BY Constants DEF Init, TypeOK, PC
<1>2. BlockUnique
  BY DEF Init, BlockUnique
<1>3. ASSUME NEW b \in Buf
      PROVE  refcnt[b] = Count(cur, b) + Count(outer, b)
  <2>1. Holders(cur, b) = {} /\ Holders(outer, b) = {}
    BY Constants DEF Init, Holders
  <2>2. Count(cur, b) = 0 /\ Count(outer, b) = 0
    BY <2>1, FS_EmptySet DEF Count
  <2> QED
    BY <2>2 DEF Init
<1>4. CurHeld
  BY DEF Init, CurHeld
<1> QED
  BY <1>1, <1>2, <1>3, <1>4, RefcntCount DEF RefInv

\* What the steps that move no reference need: the types, and that a process
\* does not pass between "user" and the rest.
LEMMA NoRefStep ==
  ASSUME RefInv, TypeOK',
         UNCHANGED <<blockno, refcnt, cur, outer>>,
         \A p \in Proc : pc'[p] = "user" <=> pc[p] = "user"
  PROVE  RefInv'
<1>1. BlockUnique'
  BY DEF RefInv, BlockUnique
<1>2. RefcntExact'
  BY DEF RefInv, RefcntExact
<1>3. CurHeld'
  BY DEF RefInv, CurHeld
<1> QED
  BY <1>1, <1>2, <1>3 DEF RefInv

\* bread() as far as bget() returns: the new buffer is counted once.
LEMMA BreadStep ==
  ASSUME RefInv, NEW n \in Blockno, bread(n)
  PROVE  RefInv' /\ \A a \in Buf : blockno'[a] = blockno[a] \/ refcnt[a] = 0
<1>1. CASE Full(n)
  <2>1. NoBuffers /\ UNCHANGED <<lockvars, wchan, procp, req, torn>>
    BY <1>1 DEF bread
  <2>2. TypeOK'
    BY <2>1 DEF RefInv, TypeOK, NoBuffers, bufvars, lockvars, locals
  <2> QED
    BY <2>1, <2>2, NoRefStep DEF NoBuffers, bufvars, locals
<1>2. CASE ~Full(n)
  <2>1. PICK b \in Buf :
          /\ bget(n, b)
          /\ cur'   = [cur EXCEPT ![procp] = b]
          /\ outer' = [outer EXCEPT ![procp] = Mine]
          /\ op'    = [op EXCEPT ![procp] = "bread"]
    BY <1>2 DEF bread
  <2>2. UNCHANGED <<lk, halt, lockvars, wchan, procp, req, torn>>
    BY <1>2 DEF bread
  <2>3. /\ TypeOK /\ BlockUnique /\ procp \in Proc /\ b \in Lock
        /\ cur[procp] \in Buf \cup {Nil}
    BY Constants DEF RefInv, TypeOK
  <2>4. /\ blockno' \in [Buf -> Blockno \cup {NoBlock}]
        /\ refcnt' = [refcnt EXCEPT ![b] = refcnt[b] + 1]
        /\ refcnt' \in [Buf -> Nat]
        /\ valid' \in [Buf -> BOOLEAN] /\ dirty' \in [Buf -> BOOLEAN]
        /\ data' \in [Buf -> {"junk", "own"}]
        /\ \A a \in Buf : blockno'[a] = blockno[a] \/ refcnt[a] = 0
        /\ BlockUnique'
    BY <2>1, <2>3, BgetEffect
  <2>5. outer[procp] = Nil
    BY <1>2, <2>3 DEF bread, MayGet, At, RefInv, CurHeld
  <2>6. RefcntExact'
    BY <2>1, <2>4, <2>5, TakeRef DEF Mine
  <2>7. pc' = [pc EXCEPT ![procp] = "bread"]
    BY <1>2 DEF bread, Goto
  <2>8. lk' \in [Proc -> Lock]
    BY <2>2, <2>3 DEF TypeOK
  <2>9. TypeOK'
    <3>1. cur' \in [Proc -> Buf \cup {Nil}] /\ outer' \in [Proc -> Buf \cup {Nil}]
      BY <2>1, <2>3 DEF TypeOK, Mine
    <3>2. pc' \in [Proc -> PC] /\ op' \in [Proc -> {"bread", "bget", "bwrite"}]
      BY <2>1, <2>3, <2>7 DEF TypeOK, PC
    <3> QED
      BY <2>2, <2>3, <2>4, <2>8, <3>1, <3>2 DEF TypeOK, lockvars
  <2>10. CurHeld'
    BY <2>1, <2>2, <2>3, <2>7, Constants DEF RefInv, CurHeld, TypeOK
  <2> QED
    BY <2>4, <2>6, <2>9, <2>10 DEF RefInv
<1> QED
  BY <1>1, <1>2

\* bget() for a whole sector that writei() writes.
LEMMA WriteSectorStep ==
  ASSUME RefInv, NEW n \in Blockno, WriteSector(n)
  PROVE  RefInv' /\ \A a \in Buf : blockno'[a] = blockno[a] \/ refcnt[a] = 0
<1>1. CASE Full(n)
  <2>1. NoBuffers /\ UNCHANGED <<lockvars, wchan, procp, req, torn>>
    BY <1>1 DEF WriteSector
  <2>2. TypeOK'
    BY <2>1 DEF RefInv, TypeOK, NoBuffers, bufvars, lockvars, locals
  <2> QED
    BY <2>1, <2>2, NoRefStep DEF NoBuffers, bufvars, locals
<1>2. CASE ~Full(n)
  <2>1. PICK b \in Buf :
          /\ bget(n, b)
          /\ cur' = [cur EXCEPT ![procp] = b]
          /\ op'  = [op EXCEPT ![procp] = "bget"]
    BY <1>2 DEF WriteSector
  <2>2. /\ pc' = [pc EXCEPT ![procp] = "hold"]
        /\ UNCHANGED <<lk, outer, halt, lockvars, wchan, procp, req, torn>>
    BY <1>2 DEF WriteSector, Goto
  <2>3. /\ TypeOK /\ BlockUnique /\ procp \in Proc
        /\ outer \in [Proc -> Buf \cup {Nil}]
    BY DEF RefInv, TypeOK
  <2>4. /\ blockno' \in [Buf -> Blockno \cup {NoBlock}]
        /\ refcnt' = [refcnt EXCEPT ![b] = refcnt[b] + 1]
        /\ refcnt' \in [Buf -> Nat]
        /\ valid' \in [Buf -> BOOLEAN] /\ dirty' \in [Buf -> BOOLEAN]
        /\ data' \in [Buf -> {"junk", "own"}]
        /\ \A a \in Buf : blockno'[a] = blockno[a] \/ refcnt[a] = 0
        /\ BlockUnique'
    BY <2>1, <2>3, BgetEffect
  <2>5. cur[procp] = Nil /\ outer[procp] = Nil
    BY <1>2, <2>3 DEF WriteSector, At, RefInv, CurHeld
  <2>6. outer' = [outer EXCEPT ![procp] = cur[procp]]
    BY <2>2, <2>3, <2>5
  <2>7. RefcntExact'
    BY <2>1, <2>4, <2>5, <2>6, TakeRef
  <2>8. TypeOK'
    BY <2>1, <2>2, <2>3, <2>4 DEF TypeOK, PC, lockvars
  <2>9. CurHeld'
    BY <2>1, <2>2, <2>3, Constants DEF RefInv, CurHeld, TypeOK
  <2> QED
    BY <2>4, <2>7, <2>8, <2>9 DEF RefInv
<1> QED
  BY <1>1, <1>2

\* bread()'s test of refcnt takes and gives no reference.
LEMMA BreadSharedStep ==
  ASSUME RefInv, breadShared
  PROVE  RefInv' /\ blockno' = blockno
<1>1. /\ TypeOK /\ procp \in Proc /\ pc[procp] = "bread" /\ cur[procp] \in Lock
  BY Constants DEF RefInv, TypeOK, CurHeld, breadShared, At
<1>2. \E l \in {"hold", "acq"} : pc' = [pc EXCEPT ![procp] = l]
  BY DEF breadShared, Goto
<1>3. lk' \in [Proc -> Lock]
  BY <1>1 DEF breadShared, TypeOK, Mine
<1>4. TypeOK'
  BY <1>1, <1>2, <1>3 DEF breadShared, TypeOK, PC, bufvars, lockvars
<1>5. \A p \in Proc : pc'[p] = "user" <=> pc[p] = "user"
  BY <1>1, <1>2 DEF TypeOK
<1> QED
  BY <1>4, <1>5, NoRefStep DEF breadShared, bufvars

\* brelse() gives back the reference its process has.
LEMMA BrelseStep ==
  ASSUME RefInv, brelse
  PROVE  RefInv' /\ blockno' = blockno
<1>1. /\ TypeOK /\ procp \in Proc /\ pc[procp] = "hold" /\ cur[procp] \in Buf
      /\ outer[procp] \in Buf \cup {Nil}
  BY DEF RefInv, TypeOK, CurHeld, brelse, At
<1>2. RefcntExact' /\ refcnt' \in [Buf -> Nat]
  BY <1>1, GiveRef DEF brelse, Mine
<1>3. TypeOK'
  BY <1>1, <1>2 DEF brelse, TypeOK, PC, Goto, lockvars
<1>4. BlockUnique' /\ blockno' = blockno
  BY DEF brelse, RefInv, BlockUnique
<1>5. CurHeld'
  BY <1>1, Constants DEF brelse, RefInv, CurHeld, TypeOK, Goto
<1> QED
  BY <1>2, <1>3, <1>4, <1>5 DEF RefInv

\* bwrite() takes and gives no reference.
LEMMA BwriteStep ==
  ASSUME RefInv, bwrite
  PROVE  RefInv' /\ blockno' = blockno
<1>1. /\ TypeOK /\ procp \in Proc /\ pc[procp] = "hold" /\ cur[procp] \in Lock
  BY Constants DEF RefInv, TypeOK, CurHeld, bwrite, At
<1>2. TypeOK'
  BY <1>1 DEF bwrite, TypeOK, PC, Goto, Mine, bufvars, lockvars
<1>3. \A p \in Proc : pc'[p] = "user" <=> pc[p] = "user"
  BY <1>1 DEF bwrite, TypeOK, Goto
<1> QED
  BY <1>2, <1>3, NoRefStep DEF bwrite, bufvars

\* The steps of acquire() and release().
LEMMA LockStep ==
  ASSUME RefInv, Locks
  PROVE  RefInv' /\ blockno' = blockno
<1>1. TypeOK /\ procp \in Proc /\ lk[procp] \in Lock
  BY DEF RefInv, TypeOK
<1>2. pc[procp] # "user"
  BY DEF Locks, AcqTest, AcqSleep, AcqSet, Rel, RelOwner, RelWake, At
<1>3. cur[procp] \in Lock
  BY <1>1, <1>2, Constants DEF RefInv, CurHeld
<1>4. \E l \in PC \ {"user"} : pc' = [pc EXCEPT ![procp] = l]
  BY DEF Locks, AcqTest, AcqSleep, AcqSet, Rel, RelOwner, RelWake, Goto, PC
<1>5. pc' \in [Proc -> PC] /\ \A p \in Proc : pc'[p] = "user" <=> pc[p] = "user"
  BY <1>1, <1>2, <1>4 DEF TypeOK
<1>6. wchan' \in [Proc -> 0 .. 2 * NBUF \cup {Nil}]
  <2>1. lk[procp] \in 0 .. 2 * NBUF \cup {Nil}
    BY <1>1, Constants
  <2>2. wchan \in [Proc -> 0 .. 2 * NBUF \cup {Nil}]
    BY <1>1 DEF TypeOK
  <2>3. \/ wchan' = wchan
        \/ wchan' = [wchan EXCEPT ![procp] = lk[procp]]
        \/ wakeup(lk[procp])
    BY DEF Locks, AcqTest, AcqSleep, AcqSet, Rel, RelOwner, RelWake
  <2> QED
    BY <2>1, <2>2, <2>3 DEF wakeup
<1>7. locked' \in [Lock -> BOOLEAN]
  <2>1. locked \in [Lock -> BOOLEAN]
    BY <1>1 DEF TypeOK
  <2>2. \/ locked' = locked
        \/ \E c \in BOOLEAN : locked' = [locked EXCEPT ![lk[procp]] = c]
    BY DEF Locks, AcqTest, AcqSleep, AcqSet, Rel, RelOwner, RelWake, lockvars
  <2> QED
    BY <2>1, <2>2
<1>8. owner' \in [Lock -> Proc \cup {Nil}]
  <2>1. owner \in [Lock -> Proc \cup {Nil}]
    BY <1>1 DEF TypeOK
  <2>2. \/ owner' = owner
        \/ \E c \in Proc \cup {Nil} : owner' = [owner EXCEPT ![lk[procp]] = c]
    BY <1>1 DEF Locks, AcqTest, AcqSleep, AcqSet, Rel, RelOwner, RelWake, lockvars
  <2> QED
    BY <2>1, <2>2
<1>9. lk' \in [Proc -> Lock]
  <2>1. lk \in [Proc -> Lock]
    BY <1>1 DEF TypeOK
  <2>2. lk' = lk \/ \E l \in Lock : lk' = [lk EXCEPT ![procp] = l]
    BY <1>3, Constants DEF Locks, AcqTest, AcqSleep, AcqSet, Rel, RelOwner, RelWake,
       locals, Mine
  <2> QED
    BY <2>1, <2>2
<1>10. UNCHANGED <<blockno, refcnt, valid, dirty, data, procp, op, cur, outer, req, halt, torn>>
  BY DEF Locks, AcqTest, AcqSleep, AcqSet, Rel, RelOwner, RelWake, bufvars, locals
<1>11. TypeOK'
  BY <1>1, <1>5, <1>6, <1>7, <1>8, <1>9, <1>10 DEF TypeOK
<1> QED
  BY <1>5, <1>10, <1>11, NoRefStep

\* The steps of bread(), bwrite() and iderw() that go to the disk.
LEMMA DiskStep ==
  ASSUME RefInv, Disk
  PROVE  RefInv' /\ blockno' = blockno
<1>1. TypeOK /\ procp \in Proc
  BY DEF RefInv, TypeOK
<1>2. pc[procp] # "user"
  BY DEF Disk, GotValid, iderw, LockPanic, sendreq, IoTest, IoSleep, At
<1>3. cur[procp] \in Buf
  BY <1>1, <1>2 DEF RefInv, CurHeld
<1>4. pc' = pc \/ \E l \in PC \ {"user"} : pc' = [pc EXCEPT ![procp] = l]
  BY DEF Disk, GotValid, iderw, LockPanic, sendreq, IoTest, IoSleep, Goto, PC
<1>5. pc' \in [Proc -> PC] /\ \A p \in Proc : pc'[p] = "user" <=> pc[p] = "user"
  BY <1>1, <1>2, <1>4 DEF TypeOK
<1>6. wchan' \in [Proc -> 0 .. 2 * NBUF \cup {Nil}]
  <2>1. BufChan(cur[procp]) \in 0 .. 2 * NBUF \cup {Nil}
    BY <1>3, Constants
  <2>2. wchan \in [Proc -> 0 .. 2 * NBUF \cup {Nil}]
    BY <1>1 DEF TypeOK
  <2>3. wchan' = wchan \/ wchan' = [wchan EXCEPT ![procp] = BufChan(cur[procp])]
    BY DEF Disk, GotValid, iderw, LockPanic, sendreq, IoTest, IoSleep, Mine
  <2> QED
    BY <2>1, <2>2, <2>3
<1>7. dirty' \in [Buf -> BOOLEAN]
  <2>1. dirty \in [Buf -> BOOLEAN]
    BY <1>1 DEF TypeOK
  <2>2. dirty' = dirty
        \/ dirty' = [dirty EXCEPT ![cur[procp]] = dirty[cur[procp]] \/ op[procp] = "bwrite"]
    BY DEF Disk, GotValid, iderw, LockPanic, sendreq, IoTest, IoSleep, bufvars, Mine
  <2>3. (dirty[cur[procp]] \/ op[procp] = "bwrite") \in BOOLEAN
    OBVIOUS
  <2> QED
    BY <2>1, <2>2, <2>3
<1>8. lk' \in [Proc -> Lock]
  <2>1. lk \in [Proc -> Lock]
    BY <1>1 DEF TypeOK
  <2>2. lk' = lk \/ lk' = [lk EXCEPT ![procp] = IDE]
    BY DEF Disk, GotValid, iderw, LockPanic, sendreq, IoTest, IoSleep, locals
  <2> QED
    BY <2>1, <2>2, Constants
<1>9. req' \in Buf \cup {Nil} /\ halt' \in {"no", "bget: no buffers", "block not locked", "stray interrupt"}
  BY <1>1, <1>3 DEF Disk, GotValid, iderw, LockPanic, sendreq, IoTest, IoSleep, Mine, TypeOK
<1>10. UNCHANGED <<blockno, refcnt, valid, data, locked, owner, procp, op, cur, outer, torn>>
  BY DEF Disk, GotValid, iderw, LockPanic, sendreq, IoTest, IoSleep, bufvars, lockvars, locals
<1>11. TypeOK'
  BY <1>1, <1>5, <1>6, <1>7, <1>8, <1>9, <1>10 DEF TypeOK
<1> QED
  BY <1>5, <1>10, <1>11, NoRefStep

\* The disk's interrupt takes and gives no reference.
LEMMA IntrStep ==
  ASSUME RefInv, ideintr \/ StrayIntr
  PROVE  RefInv' /\ blockno' = blockno
<1>1. TypeOK
  BY DEF RefInv
<1>2. CASE StrayIntr
  <2>1. TypeOK'
    BY <1>1, <1>2 DEF StrayIntr, TypeOK, bufvars, lockvars, locals
  <2> QED
    BY <1>2, <2>1, NoRefStep DEF StrayIntr, bufvars, locals
<1>3. CASE ideintr
  <2>1. PICK b \in IntrBuf :
          /\ data'  = [data EXCEPT ![b] = IF b = req THEN "own"
                                          ELSE IF dirty[b] THEN @ ELSE "junk"]
          /\ valid' = [valid EXCEPT ![b] = TRUE]
          /\ dirty' = [dirty EXCEPT ![b] = FALSE]
          /\ wakeup(BufChan(b))
    BY <1>3 DEF ideintr
  <2>2. valid' \in [Buf -> BOOLEAN] /\ dirty' \in [Buf -> BOOLEAN]
    BY <1>1, <2>1 DEF TypeOK
  <2>3. data' \in [Buf -> {"junk", "own"}]
    BY <1>1, <2>1 DEF TypeOK
  <2>4. wchan' \in [Proc -> 0 .. 2 * NBUF \cup {Nil}]
    BY <1>1, <2>1 DEF TypeOK, wakeup
  <2>5. /\ req' = Nil
        /\ UNCHANGED <<blockno, refcnt, lockvars, procp, pc, locals, halt, torn>>
    BY <1>3 DEF ideintr
  <2>6. TypeOK'
    BY <1>1, <2>2, <2>3, <2>4, <2>5 DEF TypeOK, lockvars, locals
  <2> QED
    BY <2>5, <2>6, NoRefStep DEF locals
<1> QED
  BY <1>2, <1>3

\* Nor does sched().
LEMMA RescheduleStep ==
  ASSUME RefInv, NEW q \in Proc, Reschedule(q)
  PROVE  RefInv' /\ blockno' = blockno
<1>1. TypeOK'
  BY DEF RefInv, Reschedule, TypeOK, bufvars, lockvars, locals
<1> QED
  BY <1>1, NoRefStep DEF Reschedule, bufvars, locals

\* A step of Bio, seen from the buffers.
LEMMA RefStep ==
  ASSUME RefInv, [Next]_vars
  PROVE  RefInv' /\ \A a \in Buf : blockno'[a] = blockno[a] \/ refcnt[a] = 0
<1>1. CASE \E n \in Blockno : bread(n)
  BY <1>1, BreadStep
<1>2. CASE \E n \in Blockno : WriteSector(n)
  BY <1>2, WriteSectorStep
<1>3. CASE breadShared \/ bwrite
  BY <1>3, BreadSharedStep, BwriteStep
<1>4. CASE brelse
  BY <1>4, BrelseStep
<1>5. CASE Locks
  BY <1>5, LockStep
<1>6. CASE Disk
  BY <1>6, DiskStep
<1>7. CASE ideintr \/ StrayIntr
  BY <1>7, IntrStep
<1>8. CASE \E q \in Proc : Reschedule(q)
  BY <1>8, RescheduleStep
<1>9. CASE UNCHANGED vars
  <2>1. TypeOK'
    BY <1>9 DEF RefInv, TypeOK, vars, bufvars, lockvars, locals
  <2> QED
    BY <1>9, <2>1, NoRefStep DEF vars, bufvars, locals
<1> QED
  BY <1>1, <1>2, <1>3, <1>4, <1>5, <1>6, <1>7, <1>8, <1>9 DEF Next, Buffers

(***************************************************************************)
(* Theorems.                                                               *)
(***************************************************************************)

\* Whatever interrupts bread(), bwrite(), brelse(), the locks and the disk, the
\* reference counts of the cache are exact and no block is in two buffers.
THEOREM BioRefInv == Spec => []RefInv
<1>1. RefInv /\ [Next]_vars => RefInv'
  BY RefStep
<1> QED
  BY RefInit, <1>1, PTL DEF Spec

\* Every variable has its type; brelse() never takes a count below zero.
THEOREM BioTypeOK == Spec => []TypeOK
<1>1. RefInv => TypeOK
  BY DEF RefInv
<1> QED
  BY BioRefInv, <1>1, PTL

\* bget() never puts a block into a second buffer.
THEOREM BioBlockUnique == Spec => []BlockUnique
<1>1. RefInv => BlockUnique
  BY DEF RefInv
<1> QED
  BY BioRefInv, <1>1, PTL

\* refcnt counts the references of the processes.
THEOREM BioRefcntExact == Spec => []RefcntExact
<1>1. RefInv => RefcntExact
  BY DEF RefInv
<1> QED
  BY BioRefInv, <1>1, PTL

\* bget() never recycles a buffer a process refers to.
THEOREM BioNoRecycle == Spec => NoRecycle
<1> DEFINE Kept == \A b \in Buf : (\E p \in Proc : cur[p] = b \/ outer[p] = b) =>
                     blockno'[b] = blockno[b]
<1>1. RefInv /\ [Next]_vars => Kept
  <2>1. SUFFICES ASSUME RefInv, [Next]_vars, NEW b \in Buf, NEW p \in Proc,
                        cur[p] = b \/ outer[p] = b
                 PROVE  blockno'[b] = blockno[b]
    OBVIOUS
  <2>2. refcnt[b] # 0
    BY <2>1, ZeroFree DEF RefInv
  <2> QED
    BY <2>1, <2>2, RefStep
<1>2. Spec => [][Kept]_vars
  BY BioRefInv, <1>1, PTL DEF Spec
<1> QED
  BY <1>2 DEF NoRecycle
=============================================================================
