------------------------------ MODULE VmProofs ------------------------------
(***************************************************************************)
(* Proofs about Vm, for every number of processes and pages, every size of *)
(* page and table, and every program: a page has one use, none gets lost   *)
(* but those that freevm() forgets, a process has the image and the guard  *)
(* page it was built with, and the pages change hands as in PageLedger.    *)
(***************************************************************************)
EXTENDS Vm, TLAPS, FiniteSetTheorems

(***************************************************************************)
(* Addresses.  The user part of a directory has the entries UIdx; the page *)
(* of entry j of its table i is at Addr(i, j).                             *)
(***************************************************************************)
KIdx == 0 .. PDX(KERNEND) - 1
UIdx == PDX(KERNEND) .. N - 1
Addr(i, j) == (i * N + j) * PAGESIZE

\* What is assumed of the constants, and what it says of the kernel's part.
LEMMA Constants ==
  /\ NPROC \in Nat \ {0} /\ NPAGE \in Nat /\ PAGESIZE \in Nat \ {0} /\ N \in Nat \ {0}
  /\ KTABS \in Nat /\ KTABS >= 1 /\ KTABS <= N - 1 /\ NPAGE >= 4 + KTABS
  /\ 0 \notin Proc /\ 0 \notin Page /\ Boot \in Proc
<1>1. NPROC \in Nat \ {0} /\ NPAGE \in Nat /\ PAGESIZE \in Nat \ {0} /\ N \in Nat \ {0}
  BY VmConstants
<1>2. KTABS \in 1 .. N - 1 /\ NPAGE >= 4 + KTABS
  BY VmConstants
<1> QED
  BY <1>1, <1>2 DEF Proc, Page, Boot

\* Quotient and remainder.
LEMMA Division ==
  ASSUME NEW a \in Nat, NEW d \in Nat \ {0}
  PROVE  \E q \in Nat, r \in 0 .. d - 1 :
           /\ a \div d = q /\ a % d = r /\ a = q * d + r
<1>1. a \div d \in Nat /\ a % d \in 0 .. d - 1
  OBVIOUS
<1>2. PICK q \in Nat : q = a \div d
  BY <1>1
<1>3. PICK r \in 0 .. d - 1 : r = a % d
  BY <1>1
<1>4. a = d * q + r
  BY <1>2, <1>3
<1>5. d * q = q * d
  OBVIOUS
<1> QED
  BY <1>2, <1>3, <1>4, <1>5

\* An exact quotient.
LEMMA Exact ==
  ASSUME NEW a \in Nat, NEW d \in Nat \ {0}, a % d = 0
  PROVE  \E q \in Nat : a \div d = q /\ a = q * d
<1>1. PICK q \in Nat, r \in 0 .. d - 1 : a \div d = q /\ a % d = r /\ a = q * d + r
  BY Division
<1>2. q * d \in Nat
  OBVIOUS
<1>3. a = q * d
  BY <1>1, <1>2
<1> QED
  BY <1>1, <1>3

\* They are determined by what they make.
LEMMA Divided ==
  ASSUME NEW d \in Nat \ {0}, NEW q \in Nat, NEW r \in 0 .. d - 1
  PROVE  q * d + r \in Nat /\ (q * d + r) \div d = q /\ (q * d + r) % d = r
<1>1. q * d \in Nat /\ q * d = d * q
  OBVIOUS
<1>2. (d * q + r) \div d = q /\ (d * q + r) % d = r
  OBVIOUS
<1> QED
  BY <1>1, <1>2

\* Products of natural numbers grow with their factors.
LEMMA Product ==
  ASSUME NEW a \in Nat, NEW b \in Nat, NEW d \in Nat, a <= b
  PROVE  a * d \in Nat /\ b * d \in Nat /\ a * d <= b * d /\ (a + 1) * d = a * d + d
  OBVIOUS

\* A smaller multiple is smaller by a whole page.
LEMMA Multiples ==
  ASSUME NEW d \in Nat \ {0}, NEW a \in Nat, NEW b \in Nat, a % d = 0, b % d = 0, a < b
  PROVE  a + d <= b
<1>1. PICK q \in Nat : a = q * d
  BY Exact
<1>2. PICK s \in Nat : b = s * d
  BY Exact
<1>3. q < s
  <2> SUFFICES ASSUME s <= q PROVE FALSE
    OBVIOUS
  <2>1. s * d <= q * d
    BY Product
  <2> QED
    BY <2>1, <1>1, <1>2
<1>4. (q + 1) * d <= s * d /\ (q + 1) * d = q * d + d
  BY <1>3, Product
<1> QED
  BY <1>4, <1>1, <1>2

\* The bounds of user space.  TablesEnd is the end of what a directory maps.
TablesEnd == N * N * PAGESIZE

\* What the constants say of them.
LEMMA Bounded ==
  /\ PDX(KERNEND) \in Nat /\ PDX(KERNEND) >= KTABS /\ PDX(KERNEND) < N
  /\ KERNEND \in Nat /\ KERNEND > 0 /\ KERNEND = PDX(KERNEND) * (N * PAGESIZE)
  /\ KERNEND % PAGESIZE = 0 /\ KERNEND + PAGESIZE <= USEREND
  /\ USEREND \in Nat /\ USEREND % PAGESIZE = 0 /\ USEREND <= TablesEnd
  /\ TablesEnd \in Nat /\ TablesEnd = N * (N * PAGESIZE)
<1> PICK n, s, t, k, u : n = N /\ s = PAGESIZE /\ t = KTABS /\ k = KERNEND /\ u = USEREND
  OBVIOUS
<1>1. n \in Nat \ {0} /\ s \in Nat \ {0} /\ t \in Nat /\ t >= 1
  BY Constants
<1>2. PICK m \in Nat \ {0} : m = n * s
  BY <1>1
<1>3. /\ k % (n * s) = 0 /\ k \in t * n * s .. n * n * s - 1
      /\ u % s = 0 /\ u \in k + s .. n * n * s
  BY VmConstants
<1>4. /\ t * n * s = t * m /\ n * n * s = n * m
      /\ t * m \in Nat /\ n * m \in Nat
  BY <1>1, <1>2
<1>5. k \in Nat /\ k >= t * m /\ k < n * m /\ k % m = 0
  BY <1>2, <1>3, <1>4
<1>6. PICK q \in Nat : k \div m = q /\ k = q * m
  BY <1>5, <1>2, Exact
<1>7. q >= t
  <2> SUFFICES ASSUME q + 1 <= t PROVE FALSE
    BY <1>1
  <2>1. (q + 1) * m <= t * m /\ (q + 1) * m = q * m + m
    BY <1>1, Product
  <2> QED
    BY <2>1, <1>5, <1>6, <1>2, <1>4
<1>8. q < n
  <2> SUFFICES ASSUME n <= q PROVE FALSE
    BY <1>1
  <2>1. n * m <= q * m
    BY <1>1, Product
  <2> QED
    BY <2>1, <1>5, <1>6, <1>2, <1>4
<1>9. k > 0
  <2>1. 1 * m <= q * m /\ 1 * m = m
    BY <1>1, <1>7, Product
  <2> QED
    BY <2>1, <1>6
<1>10. k % s = 0
  <2>1. q * n \in Nat /\ k = (q * n) * s + 0
    BY <1>1, <1>2, <1>6
  <2>2. 0 \in 0 .. s - 1
    BY <1>1
  <2> QED
    BY <2>1, <2>2, <1>1, Divided
<1>11. PDX(k) = q
  BY <1>2, <1>6 DEF PDX
<1>12. u \in Nat /\ k + s <= u /\ u <= n * m
  BY <1>1, <1>3, <1>4, <1>5
<1> QED
  BY <1>1, <1>2, <1>3, <1>4, <1>5, <1>6, <1>7, <1>8, <1>9, <1>10, <1>11, <1>12 DEF TablesEnd

\* An address of user space is that of the entry it is looked up in.
LEMMA Decode ==
  ASSUME NEW va \in Nat, va % PAGESIZE = 0, KERNEND <= va, va < TablesEnd
  PROVE  PDX(va) \in UIdx /\ PTX(va) \in Idx /\ Addr(PDX(va), PTX(va)) = va
<1> PICK n, s, k : n = N /\ s = PAGESIZE /\ k = PDX(KERNEND)
  OBVIOUS
<1>1. n \in Nat \ {0} /\ s \in Nat \ {0}
  BY Constants
<1>2. PICK m \in Nat \ {0} : m = n * s
  BY <1>1
<1>3. k \in Nat /\ k * m <= va /\ va < n * m
  BY Bounded, <1>2
<1>4. PICK q \in Nat : va \div s = q /\ va = q * s
  BY <1>1, Exact
<1>5. PICK i \in Nat, j \in 0 .. n - 1 : q \div n = i /\ q % n = j /\ q = i * n + j
  BY <1>1, Division
<1>6. va = i * m + j * s /\ j * s \in 0 .. m - 1
  <2>1. i * n \in Nat /\ (i * n + j) * s = (i * n) * s + j * s /\ (i * n) * s = i * m
    BY <1>1, <1>2
  <2>2. (j + 1) * s <= n * s /\ (j + 1) * s = j * s + s /\ j * s \in Nat
    BY <1>1, Product
  <2> QED
    BY <2>1, <2>2, <1>1, <1>2, <1>4, <1>5
<1>7. va \div m = i
  BY <1>6, <1>2, Divided
<1>8. i < n
  <2> SUFFICES ASSUME n <= i PROVE FALSE
    BY <1>1
  <2>1. n * m <= i * m /\ i * m \in Nat /\ n * m \in Nat
    BY <1>1, <1>2, Product
  <2> QED
    BY <2>1, <1>2, <1>3, <1>6
<1>9. k <= i
  <2> SUFFICES ASSUME i + 1 <= k PROVE FALSE
    BY <1>3
  <2>1. (i + 1) * m <= k * m /\ (i + 1) * m = i * m + m /\ i * m \in Nat
    BY <1>3, <1>2, Product
  <2> QED
    BY <2>1, <1>3, <1>6, <1>2
<1>10. PDX(va) = i /\ PTX(va) = j
  BY <1>2, <1>4, <1>5, <1>7 DEF PDX, PTX
<1>11. PDX(va) \in UIdx /\ PTX(va) \in Idx
  BY <1>1, <1>3, <1>5, <1>8, <1>9, <1>10 DEF UIdx, Idx
<1>12. Addr(i, j) = va
  BY <1>4, <1>5 DEF Addr
<1> QED
  BY <1>10, <1>11, <1>12

\* The entry an address is looked up in is that of the address.
LEMMA Encode ==
  ASSUME NEW i \in UIdx, NEW j \in Idx
  PROVE  /\ Addr(i, j) \in Nat /\ Addr(i, j) % PAGESIZE = 0
         /\ KERNEND <= Addr(i, j) /\ Addr(i, j) < TablesEnd
         /\ PDX(Addr(i, j)) = i /\ PTX(Addr(i, j)) = j
<1> PICK n, s, k : n = N /\ s = PAGESIZE /\ k = PDX(KERNEND)
  OBVIOUS
<1>1. n \in Nat \ {0} /\ s \in Nat \ {0}
  BY Constants
<1>2. PICK m \in Nat \ {0} : m = n * s
  BY <1>1
<1>3. k \in Nat /\ KERNEND = k * m /\ TablesEnd = n * m
  BY Bounded, <1>2
<1>4. i \in Nat /\ k <= i /\ i + 1 <= n /\ j \in 0 .. n - 1
  BY <1>1, <1>3 DEF UIdx, Idx
<1>5. PICK q \in Nat : q = i * n + j
  BY <1>1, <1>4
<1>6. q \div n = i /\ q % n = j
  BY <1>1, <1>4, <1>5, Divided
<1>7. q * s \in Nat /\ (q * s) \div s = q /\ (q * s) % s = 0
  <2>1. 0 \in 0 .. s - 1
    BY <1>1
  <2>2. q * s + 0 \in Nat /\ (q * s + 0) \div s = q /\ (q * s + 0) % s = 0
    BY <2>1, <1>1, Divided
  <2>3. q * s + 0 = q * s
    BY <1>1
  <2> QED
    BY <2>2, <2>3
<1>8. q * s = i * m + j * s /\ j * s \in 0 .. m - 1 /\ i * m \in Nat
  <2>1. i * n \in Nat /\ (i * n + j) * s = (i * n) * s + j * s /\ (i * n) * s = i * m
    BY <1>1, <1>2, <1>4
  <2>2. (j + 1) * s <= n * s /\ (j + 1) * s = j * s + s /\ j * s \in Nat
    BY <1>1, <1>4, Product
  <2> QED
    BY <2>1, <2>2, <1>1, <1>2, <1>4, <1>5
<1>9. (q * s) \div m = i
  BY <1>8, <1>2, <1>4, Divided
<1>10. k * m <= i * m /\ (i + 1) * m <= n * m /\ (i + 1) * m = i * m + m
  <2>1. k * m <= i * m
    BY <1>2, <1>3, <1>4, Product
  <2>3. i <= i /\ (i + 1) * m = i * m + m
    BY <1>2, <1>4, Product
  <2>2. i + 1 \in Nat /\ (i + 1) * m <= n * m
    BY <1>1, <1>2, <1>4, Product
  <2> QED
    BY <2>1, <2>2, <2>3
<1>11. Addr(i, j) = q * s
  BY <1>5 DEF Addr
<1>12. KERNEND <= q * s /\ q * s < TablesEnd
  BY <1>3, <1>8, <1>10
<1> QED
  BY <1>2, <1>6, <1>7, <1>9, <1>11, <1>12 DEF PDX, PTX

(***************************************************************************)
(* Where a call is, and what it has then.                                  *)
(***************************************************************************)
Growing == {"page", "map", "seg", "load", "commit"}

\* The call c of p: the pages it has at each of its points.
Shape(c, p) ==
  /\ c.op = "none" <=> c.pc \in {"user", "wait"}
  /\ c.op = "fork" => c.pc \in {"dir", "ktab", "page", "map", "bad", "unfork"}
  /\ c.op = "execv" => c.pc # "unfork"
  /\ c.op = "fork" => c.np \in Proc /\ stat[c.np] = "SET"
  /\ c.pc = "ktab" \/ c.pc \in Growing => c.new # 0
  /\ c.pc \in {"user", "wait", "dir", "unfork", "switch", "freeold"} => c.new = 0
  /\ c.old # 0 <=> c.pc \in {"switch", "freeold"}
  /\ c.page # 0 <=> c.pc = "map"
  /\ stat[p] # "RUN" => c.pc \in {"user", "wait"}
  /\ stat[p] \in {"UNUSED", "SET", "ZOMB"} => c.pc = "user"
  /\ kstack[p] = 0 <=> stat[p] = "UNUSED"
  /\ pgdir[p] = 0 <=> stat[p] \in {"UNUSED", "SET"}
  /\ size[p] <= USEREND - KERNEND

\* How far it has got with the image it builds.
Bounds(c, p) ==
  /\ c.pc \in {"page", "map"} =>
       /\ c.va % PAGESIZE = 0 /\ c.va >= KERNEND /\ c.end <= USEREND
       /\ c.lo <= c.va /\ c.lo <= c.end /\ c.va < c.end + PAGESIZE
       /\ c.op = "fork" => c.end = KERNEND + size[p] /\ c.lo = KERNEND
       /\ c.op = "execv" =>
            IF c.img # << >> THEN c.end = c.img[1].vaddr + c.img[1].memsz
            ELSE c.end = c.lo + 2 * PAGESIZE /\ c.lo % PAGESIZE = 0
  /\ c.pc = "map" => c.va < c.end
  /\ c.pc \in Growing \cup {"switch", "freeold"} => c.lo >= KERNEND /\ c.lo <= USEREND
  /\ c.pc \in {"commit", "switch", "freeold"} =>
       c.lo >= KERNEND + 2 * PAGESIZE /\ c.lo % PAGESIZE = 0
  /\ c.pc = "load" => c.img # << >> /\ c.img[1].vaddr + c.img[1].memsz <= c.lo
  /\ \A k \in 1 .. Len(c.img) : c.img[k].vaddr >= KERNEND

\* No two calls of fork() make the same process.
Children ==
  \A p, q \in Proc :
    call[p].op = "fork" /\ call[q].op = "fork" /\ call[p].np = call[q].np => p = q

\* The directory that the CPU uses, while p runs with the call c.
Cr3Of(c, p) == cr3 = pgdir[p] \/ (c.pc = "switch" /\ cr3 = c.old)

Control ==
  /\ \A p \in Proc : Shape(call[p], p) /\ Bounds(call[p], p)
  /\ Children /\ Cr3Of(call[procp], procp)

Mem == [Page -> [Idx -> [pa : Page \cup {0}, u : BOOLEAN]]]

\* kalloc() returns a page of the free list (kalloc.c:26-37).
LEMMA KallocIs ==
  ASSUME Types, free # {}
  PROVE  kalloc \in free /\ kalloc \in Page /\ kalloc # 0
<1>1. kalloc \in free
  BY DEF kalloc
<1> QED
  BY <1>1, Constants DEF Types

\* The fields of a call.
LEMMA Fields ==
  ASSUME NEW c \in Call
  PROVE  /\ c.op \in {"none", "fork", "execv"}
         /\ c.pc \in {"user", "wait", "dir", "ktab", "page", "map", "seg", "load", "commit",
                      "switch", "freeold", "bad", "unfork"}
         /\ c.new \in Page \cup {0} /\ c.old \in Page \cup {0} /\ c.page \in Page \cup {0}
         /\ c.lo \in Nat /\ c.va \in Nat /\ c.end \in Nat
         /\ c.img \in Seq([vaddr : Nat, memsz : Nat]) /\ c.np \in Proc \cup {0}
  BY DEF Call

\* A process outside any call.
LEMMA UserIs ==
  /\ User \in Call /\ User.op = "none" /\ User.pc = "user" /\ User.new = 0 /\ User.old = 0
  /\ User.page = 0 /\ User.img = << >> /\ User.np = 0
  /\ User.lo = 0 /\ User.va = 0 /\ User.end = 0
  BY DEF User, Call

\* The types of the page tables after each change to them.
LEMMA MemTypes ==
  ASSUME Types
  PROVE  /\ mem \in Mem
         /\ \A k \in Page : [mem EXCEPT ![k] = Zero] \in Mem
         /\ \A m \in Mem, g \in Page, i \in Idx, e \in [pa : Page \cup {0}, u : BOOLEAN] :
              [m EXCEPT ![g][i] = e] \in Mem
         /\ \A S : [g \in Page |-> IF g \in S THEN Zero ELSE mem[g]] \in Mem
<1>1. Zero \in [Idx -> [pa : Page \cup {0}, u : BOOLEAN]]
  BY DEF Zero, None
<1>2. mem \in Mem
  BY DEF Types, Mem
<1>3. \A m \in Mem, g \in Page, i \in Idx, e \in [pa : Page \cup {0}, u : BOOLEAN] :
        [m EXCEPT ![g][i] = e] \in Mem
  BY DEF Mem
<1> QED
  BY <1>1, <1>2, <1>3 DEF Mem

\* A step of p that changes nothing but its call, to c, and memory.
LEMMA CallStep ==
  ASSUME Types, Control, NEW p \in Proc, procp = p, stat[p] = "RUN",
         UNCHANGED <<proc, procp, cr3>>,
         NEW c \in Call, call' = [call EXCEPT ![p] = c],
         free' \subseteq Page, lost' \subseteq Page, mem' \in Mem,
         Shape(c, p), Bounds(c, p), Cr3Of(c, p),
         c.op = "fork" => call[p].op = "fork" /\ c.np = call[p].np
  PROVE  Types' /\ Control'
<1>1. call' \in [Proc -> Call] /\ call'[p] = c /\ \A q \in Proc \ {p} : call'[q] = call[q]
  BY DEF Types
<1>2. /\ stat' = stat /\ pproc' = pproc /\ kstack' = kstack /\ pgdir' = pgdir /\ size' = size
      /\ procp' = procp /\ cr3' = cr3
  BY DEF proc
<1>3. Types'
  BY <1>1, <1>2 DEF Types, Mem
<1>4. ASSUME NEW q \in Proc PROVE Shape(call[q], q)'
  <2>1. CASE q = p
    BY <2>1, <1>1, <1>2 DEF Shape
  <2>2. CASE q # p
    <3>1. Shape(call[q], q)
      BY DEF Control
    <3> QED
      BY <3>1, <2>2, <1>1, <1>2 DEF Shape
  <2> QED
    BY <2>1, <2>2
<1>5. ASSUME NEW q \in Proc PROVE Bounds(call[q], q)'
  <2>1. CASE q = p
    BY <2>1, <1>1, <1>2 DEF Bounds
  <2>2. CASE q # p
    <3>1. Bounds(call[q], q)
      BY DEF Control
    <3> QED
      BY <3>1, <2>2, <1>1, <1>2 DEF Bounds
  <2> QED
    BY <2>1, <2>2
<1>6. Children'
  <2> SUFFICES ASSUME NEW q \in Proc, NEW r \in Proc,
                      call'[q].op = "fork", call'[r].op = "fork", call'[q].np = call'[r].np
               PROVE  q = r
    BY DEF Children
  <2>1. /\ call[q].op = "fork" /\ call'[q].np = call[q].np
        /\ call[r].op = "fork" /\ call'[r].np = call[r].np
    BY <1>1
  <2> QED
    BY <2>1 DEF Control, Children
<1>7. Cr3Of(call[procp], procp)'
  BY <1>1, <1>2 DEF Cr3Of
<1> QED
  BY <1>3, <1>4, <1>5, <1>6, <1>7 DEF Control

\* A step of p to "bad:".
LEMMA FailStep ==
  ASSUME Types, Control, NEW p \in Proc, procp = p, stat[p] = "RUN",
         UNCHANGED <<proc, procp, cr3>>,
         free' \subseteq Page, lost' \subseteq Page, mem' \in Mem,
         call[p].op # "none", call[p].pc \notin {"switch", "freeold", "unfork"},
         \/ call' = [call EXCEPT ![p].pc = "bad", ![p].page = 0]
         \/ call' = [call EXCEPT ![p].pc = "bad"] /\ call[p].page = 0
  PROVE  Types' /\ Control'
<1> PICK c \in Call : c = call[p]
  BY DEF Types
<1>1. [c EXCEPT !.pc = "bad", !.page = 0] \in Call
  BY DEF Call
<1>2. PICK e \in Call : e = [c EXCEPT !.pc = "bad", !.page = 0]
  BY <1>1
<1>3. /\ e.pc = "bad" /\ e.op = c.op /\ e.np = c.np /\ e.new = c.new /\ e.old = c.old
      /\ e.page = 0 /\ e.img = c.img
  BY <1>2 DEF Call
<1>4. call' = [call EXCEPT ![p] = e]
  <2>1. CASE call' = [call EXCEPT ![p].pc = "bad", ![p].page = 0]
    BY <2>1, <1>2 DEF Types
  <2>2. CASE call' = [call EXCEPT ![p].pc = "bad"] /\ call[p].page = 0
    <3>1. [c EXCEPT !.pc = "bad"] = e
      BY <2>2, <1>2 DEF Call
    <3> QED
      BY <3>1, <2>2 DEF Types
  <2> QED
    BY <2>1, <2>2
<1>5. Shape(c, p) /\ Bounds(c, p) /\ Cr3Of(c, p)
  BY DEF Control
<1>6. Shape(e, p)
  BY <1>3, <1>5, Fields DEF Shape, Growing
<1>7. Bounds(e, p)
  BY <1>3, <1>5 DEF Bounds, Growing
<1>8. Cr3Of(e, p)
  BY <1>3, <1>5 DEF Cr3Of
<1> QED
  BY <1>3, <1>4, <1>6, <1>7, <1>8, CallStep

\* setupkvm() has a directory, or fails (vm.c:59-62).
LEMMA NewDirControl ==
  ASSUME Types, Control, NEW p \in Proc, NewDir(p)
  PROVE  Types' /\ Control'
<1> PICK c \in Call : c = call[p]
  BY DEF Types
<1>1. procp = p /\ stat[p] = "RUN" /\ c.pc = "dir" /\ UNCHANGED <<proc, procp, cr3, lost>>
  BY DEF NewDir, At, Running
<1>2. Shape(c, p) /\ Bounds(c, p) /\ Cr3Of(c, p)
  BY <1>1 DEF Control
<1>3. CASE free = {}
  <2>1. call' = [call EXCEPT ![p].pc = "bad"] /\ UNCHANGED <<free, mem>>
    BY <1>3 DEF NewDir, Goto
  <2>2. c.op # "none" /\ c.page = 0
    BY <1>1, <1>2 DEF Shape
  <2>3. free' \subseteq Page /\ lost' \subseteq Page /\ mem' \in Mem
    BY <1>1, <2>1, MemTypes DEF Types
  <2> QED
    BY <1>1, <2>1, <2>2, <2>3, FailStep
<1>4. CASE free # {}
  <2>1. /\ free' = free \ {kalloc} /\ mem' = [mem EXCEPT ![kalloc] = Zero]
        /\ call' = [call EXCEPT ![p].new = kalloc, ![p].pc = "ktab"]
    BY <1>4 DEF NewDir
  <2>2. PICK k \in Page : k = kalloc /\ k # 0
    BY <1>4, KallocIs
  <2>3. [c EXCEPT !.new = k, !.pc = "ktab"] \in Call
    BY Fields DEF Call
  <2>4. PICK e \in Call : e = [c EXCEPT !.new = k, !.pc = "ktab"]
    BY <2>3
  <2>5. /\ e.pc = "ktab" /\ e.op = c.op /\ e.np = c.np /\ e.new = k /\ e.old = c.old
        /\ e.page = c.page /\ e.img = c.img
    BY <2>4 DEF Call
  <2>6. call' = [call EXCEPT ![p] = e]
    BY <2>1, <2>2, <2>4 DEF Types
  <2>7. Shape(e, p)
    BY <1>1, <1>2, <2>2, <2>5 DEF Shape, Growing
  <2>8. Bounds(e, p)
    BY <1>2, <2>5 DEF Bounds, Growing
  <2>9. Cr3Of(e, p)
    BY <1>1, <1>2, <2>5 DEF Cr3Of
  <2>10. free' \subseteq Page /\ lost' \subseteq Page /\ mem' \in Mem
    BY <1>1, <2>1, <2>2, MemTypes DEF Types
  <2> QED
    BY <1>1, <2>5, <2>6, <2>7, <2>8, <2>9, <2>10, CallStep
<1> QED
  BY <1>3, <1>4

\* An entry set in a page that was just cleared, or in one that may be any.
LEMMA EntryType ==
  ASSUME Types, NEW k \in Page, NEW d, NEW i, NEW e \in [pa : Page \cup {0}, u : BOOLEAN]
  PROVE  /\ [mem EXCEPT ![k] = Zero, ![d][i] = e] \in Mem
         /\ [mem EXCEPT ![d][i] = e] \in Mem
         /\ [mem EXCEPT ![d][i].u = FALSE] \in Mem
         /\ \A j, x : x \in [pa : Page \cup {0}, u : BOOLEAN] =>
              [mem EXCEPT ![k] = [Zero EXCEPT ![j] = x], ![d][i] = e] \in Mem
<1>1. Zero \in [Idx -> [pa : Page \cup {0}, u : BOOLEAN]] /\ mem \in Mem
  BY DEF Zero, None, Types, Mem
<1>2. \A j, x : x \in [pa : Page \cup {0}, u : BOOLEAN] =>
        [Zero EXCEPT ![j] = x] \in [Idx -> [pa : Page \cup {0}, u : BOOLEAN]]
  BY <1>1
<1>3. ASSUME NEW m \in Mem
      PROVE  [m EXCEPT ![d][i] = e] \in Mem /\ [m EXCEPT ![d][i].u = FALSE] \in Mem
  <2>1. CASE d \in Page
    <3>1. PICK r \in [Idx -> [pa : Page \cup {0}, u : BOOLEAN]] : r = m[d]
      BY <2>1 DEF Mem
    <3>2. [r EXCEPT ![i] = e] \in [Idx -> [pa : Page \cup {0}, u : BOOLEAN]]
      OBVIOUS
    <3>3. [r EXCEPT ![i].u = FALSE] \in [Idx -> [pa : Page \cup {0}, u : BOOLEAN]]
      OBVIOUS
    <3> QED
      BY <3>1, <3>2, <3>3, <2>1 DEF Mem
  <2>2. CASE d \notin Page
    BY <2>2 DEF Mem
  <2> QED
    BY <2>1, <2>2
<1>4. \A r \in [Idx -> [pa : Page \cup {0}, u : BOOLEAN]] : [mem EXCEPT ![k] = r] \in Mem
  BY <1>1 DEF Mem
<1>5. [mem EXCEPT ![k] = Zero, ![d][i] = e] \in Mem
  <2>1. PICK m \in Mem : m = [mem EXCEPT ![k] = Zero]
    BY <1>1, <1>4
  <2> QED
    BY <2>1, <1>3
<1>6. ASSUME NEW j, NEW x \in [pa : Page \cup {0}, u : BOOLEAN]
      PROVE  [mem EXCEPT ![k] = [Zero EXCEPT ![j] = x], ![d][i] = e] \in Mem
  <2>1. PICK m \in Mem : m = [mem EXCEPT ![k] = [Zero EXCEPT ![j] = x]]
    BY <1>2, <1>4
  <2> QED
    BY <2>1, <1>3
<1> QED
  BY <1>1, <1>3, <1>5, <1>6

\* A directory has a part of the kernel and a part of the user.
LEMMA Indexes == KIdx \subseteq Idx /\ UIdx \subseteq Idx /\ Idx = KIdx \cup UIdx
<1>1. PICK n \in Nat : n = N
  BY Constants
<1>2. PICK k \in Nat : k = PDX(KERNEND)
  BY Bounded
<1> QED
  BY <1>1, <1>2, Bounded DEF KIdx, UIdx, Idx

\* A page of user space is looked up in an entry of a table of the user part.
LEMMA UserAddress ==
  ASSUME NEW lo \in Nat, NEW hi \in Nat, KERNEND <= lo, hi <= USEREND, NEW va \in Pages(lo, hi)
  PROVE  /\ va \in Nat /\ lo <= va /\ va < hi /\ va % PAGESIZE = 0
         /\ PDX(va) \in UIdx /\ PTX(va) \in Idx /\ Addr(PDX(va), PTX(va)) = va
<1>1. va \in Nat /\ lo <= va /\ va < hi /\ va % PAGESIZE = 0
  BY DEF Pages
<1>2. KERNEND <= va /\ va < TablesEnd
  BY <1>1, Bounded
<1> QED
  BY <1>1, <1>2, Decode

\* What walkpgdir() finds at a mapped address are pages (vm.c:300-320).
LEMMA MappedIs ==
  ASSUME Types, NEW d \in Page, NEW lo \in Nat, NEW hi \in Nat, KERNEND <= lo, hi <= USEREND,
         NEW va \in Pages(lo, hi), Mapped(d, va)
  PROVE  Table(d, va) \in Page /\ Pte(d, va).pa \in Page
<1>1. PDX(va) \in Idx /\ PTX(va) \in Idx
  BY UserAddress, Indexes
<1>2. Table(d, va) \in Page
  BY <1>1 DEF Mapped, Table, Types
<1>3. Pte(d, va).pa \in Page
  BY <1>1, <1>2 DEF Mapped, Pte, Types
<1> QED
  BY <1>2, <1>3

\* What is freed, and what is lost, are pages.
LEMMA FreedPages ==
  ASSUME Types, NEW d \in Page
  PROVE  /\ UserPages(d) \subseteq Page /\ UserTables(d) \subseteq Page
         /\ KernTables(d) \subseteq Page /\ Freed(d) \subseteq Page
<1>1. UserPages(d) \subseteq Page
  BY MappedIs, Bounded DEF UserPages
<1>2. \A i \in Idx : mem[d][i].pa \in Page \cup {0}
  BY DEF Types
<1>3. UserTables(d) \subseteq Page
  BY <1>2, Indexes DEF UserTables, UIdx
<1>4. KernTables(d) \subseteq Page
  BY <1>2, Indexes DEF KernTables, KIdx
<1> QED
  BY <1>1, <1>3, <1>4 DEF Freed

\* kfree() keeps the types (kalloc.c:39-53).
LEMMA KfreeTypes ==
  ASSUME Types, NEW S \in SUBSET Page, kfree(S)
  PROVE  free' \subseteq Page /\ mem' \in Mem
  BY MemTypes DEF kfree, Types

\* freevm() keeps the types (vm.c:261-273).
LEMMA FreevmTypes ==
  ASSUME Types, NEW D \in SUBSET Page, NEW S \in SUBSET Page, freevm(D, S)
  PROVE  free' \subseteq Page /\ lost' \subseteq Page /\ mem' \in Mem
<1>1. UNION {Freed(d) : d \in D} \subseteq Page /\ UNION {KernTables(d) : d \in D} \subseteq Page
  BY FreedPages
<1>2. PICK T \in SUBSET Page : T = S \cup UNION {Freed(d) : d \in D}
  BY <1>1
<1> QED
  BY <1>1, <1>2, KfreeTypes DEF freevm, Types

\* deallocuvm() keeps the types (vm.c:184-212).
LEMMA DeallocTypes ==
  ASSUME Types, NEW d \in Page, NEW lo \in Nat, NEW hi \in Nat, KERNEND <= lo, hi <= USEREND,
         NEW S \in SUBSET Page, deallocuvm(d, hi, lo, S)
  PROVE  free' \subseteq Page /\ lost' \subseteq Page /\ mem' \in Mem
<1> PICK gone \in SUBSET Pages(lo, hi) : gone = {va \in Pages(lo, hi) : Mapped(d, va)}
  OBVIOUS
<1>1. \A va \in gone : Pte(d, va).pa \in Page
  BY MappedIs
<1>2. PICK G \in SUBSET Page : G = {Pte(d, va).pa : va \in gone} \cup S
  BY <1>1
<1>3. /\ free' = free \cup G /\ lost' = lost
      /\ mem' = [g \in Page |->
           IF g \in G THEN Zero
           ELSE [i \in Idx |-> IF \E va \in gone : g = Table(d, va) /\ i = PTX(va)
                               THEN None ELSE mem[g][i]]]
  BY <1>2 DEF deallocuvm
<1>4. Zero \in [Idx -> [pa : Page \cup {0}, u : BOOLEAN]]
      /\ None \in [pa : Page \cup {0}, u : BOOLEAN]
  BY DEF Zero, None
<1>5. \A g \in Page, i \in Idx : mem[g][i] \in [pa : Page \cup {0}, u : BOOLEAN]
  BY DEF Types
<1>6. mem' \in Mem
  BY <1>3, <1>4, <1>5 DEF Mem
<1> QED
  BY <1>3, <1>6 DEF Types

\* A table of the kernel is added, or setupkvm() fails (vm.c:64-70).
LEMMA NewKernTableControl ==
  ASSUME Types, Control, NEW p \in Proc, NewKernTable(p)
  PROVE  Types' /\ Control'
<1> PICK c \in Call : c = call[p]
  BY DEF Types
<1>1. procp = p /\ stat[p] = "RUN" /\ c.pc = "ktab" /\ UNCHANGED <<proc, procp, cr3, lost>>
  BY DEF NewKernTable, At, Running
<1>2. Shape(c, p) /\ Bounds(c, p) /\ Cr3Of(c, p)
  BY <1>1 DEF Control
<1>3. CASE free = {}
  <2>1. call' = [call EXCEPT ![p].pc = "bad"] /\ UNCHANGED <<free, mem>>
    BY <1>3 DEF NewKernTable, Goto
  <2>2. c.op # "none" /\ c.page = 0
    BY <1>1, <1>2 DEF Shape
  <2>3. free' \subseteq Page /\ lost' \subseteq Page /\ mem' \in Mem
    BY <1>1, <2>1, MemTypes DEF Types
  <2> QED
    BY <1>1, <2>1, <2>2, <2>3, FailStep
<1>4. CASE free # {}
  <2> PICK i : i = Cardinality(KernTables(c.new))
    OBVIOUS
  <2>1. /\ free' = free \ {kalloc}
        /\ mem' = [mem EXCEPT ![kalloc] = Zero, ![c.new][i] = [pa |-> kalloc, u |-> TRUE]]
        /\ call' = IF i + 1 < KTABS THEN call
                   ELSE [call EXCEPT ![p].pc = AfterSetup(p).pc, ![p].lo = KERNEND,
                                     ![p].va = KERNEND, ![p].end = AfterSetup(p).end]
    BY <1>4 DEF NewKernTable
  <2>2. free' \subseteq Page /\ lost' \subseteq Page /\ mem' \in Mem
    <3>1. PICK k \in Page : k = kalloc
      BY <1>4, KallocIs
    <3>2. [pa |-> k, u |-> TRUE] \in [pa : Page \cup {0}, u : BOOLEAN]
      OBVIOUS
    <3>3. mem' \in Mem
      BY <2>1, <3>1, <3>2, EntryType
    <3> QED
      BY <1>1, <2>1, <3>3 DEF Types
  <2>3. CASE i + 1 < KTABS
    <3>1. call' = [call EXCEPT ![p] = c]
      BY <2>1, <2>3 DEF Types
    <3> QED
      BY <1>1, <1>2, <2>2, <3>1, CallStep
  <2>4. CASE ~(i + 1 < KTABS) /\ c.op = "fork"
    <3>1. PICK x \in Nat : x = KERNEND + size[p]
      BY Bounded DEF Types
    <3>2. call' = [call EXCEPT ![p].pc = "page", ![p].lo = KERNEND, ![p].va = KERNEND,
                               ![p].end = x]
      BY <2>1, <2>4, <3>1 DEF AfterSetup
    <3>3. [c EXCEPT !.pc = "page", !.lo = KERNEND, !.va = KERNEND, !.end = x] \in Call
      BY Bounded DEF Call
    <3>4. PICK e \in Call :
            e = [c EXCEPT !.pc = "page", !.lo = KERNEND, !.va = KERNEND, !.end = x]
      BY <3>3
    <3>5. /\ e.pc = "page" /\ e.op = c.op /\ e.np = c.np /\ e.new = c.new /\ e.old = c.old
          /\ e.page = c.page /\ e.img = c.img /\ e.lo = KERNEND /\ e.va = KERNEND /\ e.end = x
      BY <3>4 DEF Call
    <3>6. call' = [call EXCEPT ![p] = e]
      BY <3>2, <3>4 DEF Types
    <3>7. Shape(e, p)
      BY <1>1, <1>2, <3>5 DEF Shape, Growing
    <3>8. Bounds(e, p)
      <4>1. size[p] \in Nat /\ size[p] <= USEREND - KERNEND
        BY <1>2 DEF Shape, Types
      <4>2. KERNEND \in Nat /\ KERNEND % PAGESIZE = 0 /\ PAGESIZE \in Nat \ {0}
            /\ USEREND \in Nat /\ KERNEND <= USEREND
        BY Bounded, Constants
      <4>3. \A k \in 1 .. Len(e.img) : e.img[k].vaddr >= KERNEND
        BY <1>2, <3>5 DEF Bounds
      <4> QED
        BY <2>4, <3>1, <3>5, <4>1, <4>2, <4>3 DEF Bounds, Growing
    <3>9. Cr3Of(e, p)
      BY <1>1, <1>2, <3>5 DEF Cr3Of
    <3> QED
      BY <1>1, <2>2, <3>5, <3>6, <3>7, <3>8, <3>9, CallStep
  <2>5. CASE ~(i + 1 < KTABS) /\ c.op # "fork"
    <3>2. call' = [call EXCEPT ![p].pc = "seg", ![p].lo = KERNEND, ![p].va = KERNEND,
                               ![p].end = KERNEND]
      BY <2>1, <2>5 DEF AfterSetup
    <3>3. [c EXCEPT !.pc = "seg", !.lo = KERNEND, !.va = KERNEND, !.end = KERNEND] \in Call
      BY Bounded DEF Call
    <3>4. PICK e \in Call :
            e = [c EXCEPT !.pc = "seg", !.lo = KERNEND, !.va = KERNEND, !.end = KERNEND]
      BY <3>3
    <3>5. /\ e.pc = "seg" /\ e.op = c.op /\ e.np = c.np /\ e.new = c.new /\ e.old = c.old
          /\ e.page = c.page /\ e.img = c.img /\ e.lo = KERNEND
      BY <3>4 DEF Call
    <3>6. call' = [call EXCEPT ![p] = e]
      BY <3>2, <3>4 DEF Types
    <3>7. Shape(e, p)
      BY <1>1, <1>2, <2>5, <3>5 DEF Shape, Growing
    <3>8. Bounds(e, p)
      BY <1>2, <3>5, Bounded, Constants DEF Bounds, Growing
    <3>9. Cr3Of(e, p)
      BY <1>1, <1>2, <3>5 DEF Cr3Of
    <3> QED
      BY <1>1, <2>2, <3>5, <3>6, <3>7, <3>8, <3>9, CallStep
  <2> QED
    BY <2>3, <2>4, <2>5
<1> QED
  BY <1>3, <1>4

\* The loop of copyuvm() or allocuvm() gives up, and the call fails.
LEMMA UndoControl ==
  ASSUME Types, Control, NEW p \in Proc, procp = p, stat[p] = "RUN",
         call[p].pc \in {"page", "map"}, NEW S \in SUBSET Page, Undo(p, S),
         UNCHANGED <<proc, procp, cr3>>
  PROVE  Types' /\ Control'
<1> PICK c \in Call : c = call[p]
  BY DEF Types
<1>1. Shape(c, p) /\ Bounds(c, p)
  BY DEF Control
<1>2. c.new \in Page /\ c.op # "none"
  BY <1>1 DEF Shape, Call, Growing
<1>3. /\ c.lo \in Nat /\ c.end \in Nat /\ KERNEND <= c.lo /\ c.end <= USEREND
  BY <1>1 DEF Bounds, Call, Growing
<1>4. free' \subseteq Page /\ lost' \subseteq Page /\ mem' \in Mem
  <2>1. CASE c.op = "fork"
    BY <2>1, KfreeTypes DEF Undo, Types
  <2>2. CASE c.op # "fork"
    BY <2>2, <1>2, <1>3, DeallocTypes DEF Undo
  <2> QED
    BY <2>1, <2>2
<1> QED
  BY <1>2, <1>4, FailStep DEF Undo

\* The loop has a page, or gives up.
LEMMA GetPageControl ==
  ASSUME Types, Control, NEW p \in Proc, GetPage(p)
  PROVE  Types' /\ Control'
<1> PICK c \in Call : c = call[p]
  BY DEF Types
<1>1. /\ procp = p /\ stat[p] = "RUN" /\ c.pc = "page" /\ c.va < c.end
      /\ UNCHANGED <<proc, procp, cr3>>
  BY DEF GetPage, At, Running
<1>2. Shape(c, p) /\ Bounds(c, p) /\ Cr3Of(c, p)
  BY <1>1 DEF Control
<1>3. CASE free = {}
  BY <1>1, <1>3, UndoControl DEF GetPage
<1>4. CASE free # {}
  <2>1. /\ free' = free \ {kalloc} /\ mem' = [mem EXCEPT ![kalloc] = Zero]
        /\ call' = [call EXCEPT ![p].page = kalloc, ![p].pc = "map"] /\ lost' = lost
    BY <1>4 DEF GetPage
  <2>2. PICK k \in Page : k = kalloc /\ k # 0
    BY <1>4, KallocIs
  <2>3. [c EXCEPT !.page = k, !.pc = "map"] \in Call
    BY DEF Call
  <2>4. PICK e \in Call : e = [c EXCEPT !.page = k, !.pc = "map"]
    BY <2>3
  <2>5. /\ e.pc = "map" /\ e.op = c.op /\ e.np = c.np /\ e.new = c.new /\ e.old = c.old
        /\ e.page = k /\ e.img = c.img /\ e.lo = c.lo /\ e.va = c.va /\ e.end = c.end
    BY <2>4 DEF Call
  <2>6. call' = [call EXCEPT ![p] = e]
    BY <2>1, <2>2, <2>4 DEF Types
  <2>7. Shape(e, p)
    BY <1>1, <1>2, <2>2, <2>5 DEF Shape, Growing
  <2>8. Bounds(e, p)
    BY <1>1, <1>2, <2>5 DEF Bounds, Growing
  <2>9. Cr3Of(e, p)
    BY <1>1, <1>2, <2>5 DEF Cr3Of
  <2>10. free' \subseteq Page /\ lost' \subseteq Page /\ mem' \in Mem
    BY <1>1, <2>1, <2>2, MemTypes DEF Types
  <2> QED
    BY <1>1, <2>5, <2>6, <2>7, <2>8, <2>9, <2>10, CallStep
<1> QED
  BY <1>3, <1>4

\* The next page boundary.
LEMMA NextPage ==
  ASSUME NEW a \in Nat, a % PAGESIZE = 0
  PROVE  /\ a + PAGESIZE \in Nat /\ (a + PAGESIZE) % PAGESIZE = 0
         /\ (a + 2 * PAGESIZE) % PAGESIZE = 0
<1>1. PICK s \in Nat \ {0} : s = PAGESIZE
  BY Constants
<1>2. PICK q \in Nat : a = q * s
  BY <1>1, Exact
<1>3. (q + 1) * s = q * s + s /\ (q + 2) * s = q * s + 2 * s
  BY <1>1
<1>4. 0 \in 0 .. s - 1 /\ q + 1 \in Nat /\ q + 2 \in Nat
  BY <1>1
<1>5. ((q + 1) * s + 0) % s = 0
  BY <1>1, <1>4, Divided
<1>6. ((q + 2) * s + 0) % s = 0
  BY <1>1, <1>4, Divided
<1>7. (q + 1) * s \in Nat /\ (q + 2) * s \in Nat
  BY <1>1
<1> QED
  BY <1>1, <1>2, <1>3, <1>5, <1>6, <1>7

\* The page is mapped, or the loop gives up for want of a table.
LEMMA MapPageControl ==
  ASSUME Types, Control, NEW p \in Proc, MapPage(p)
  PROVE  Types' /\ Control'
<1> PICK c \in Call : c = call[p]
  BY DEF Types
<1>1. procp = p /\ stat[p] = "RUN" /\ c.pc = "map" /\ UNCHANGED <<proc, procp, cr3>>
  BY DEF MapPage, At, Running
<1>2. Shape(c, p) /\ Bounds(c, p) /\ Cr3Of(c, p)
  BY <1>1 DEF Control
<1>3. c.page \in Page /\ c.new \in Page
  BY <1>1, <1>2 DEF Shape, Call, Growing
<1>4. CASE Table(c.new, c.va) = 0 /\ free = {}
  <2>1. Undo(p, {c.page})
    BY <1>4 DEF MapPage
  <2> QED
    BY <1>1, <1>3, <2>1, UndoControl
<1>5. CASE ~(Table(c.new, c.va) = 0 /\ free = {})
  <2> PICK t, f : t = Table(c.new, c.va) /\ f = Flags(p)
    OBVIOUS
  <2>1. /\ lost' = lost
        /\ call' = [call EXCEPT ![p].page = 0, ![p].va = c.va + PAGESIZE, ![p].pc = "page"]
    BY <1>5 DEF MapPage
  <2>2. t \in Page \cup {0} /\ c.va \in Nat /\ c.va % PAGESIZE = 0
    <3>1. /\ KERNEND <= c.va /\ c.va < c.end /\ c.end <= USEREND
          /\ c.va \in Nat /\ c.end \in Nat /\ c.va % PAGESIZE = 0
      BY <1>1, <1>2 DEF Bounds, Call
    <3>2. PDX(c.va) \in Idx
      BY <3>1, Bounded, Decode, Indexes
    <3> QED
      BY <1>3, <3>1, <3>2 DEF Table, Types
  <2>3. free' \subseteq Page /\ mem' \in Mem
    <3>1. f \in BOOLEAN
      BY DEF Flags
    <3>2. PICK r \in [pa : Page \cup {0}, u : BOOLEAN] : r = [pa |-> c.page, u |-> f]
      BY <1>3, <3>1
    <3>3. CASE t # 0
      <4>1. mem' = [mem EXCEPT ![t][PTX(c.va)] = r] /\ free' = free
        BY <1>5, <3>2, <3>3 DEF MapPage
      <4> QED
        BY <2>2, <3>3, <4>1, EntryType DEF Types
    <3>4. CASE t = 0
      <4>1. PICK k \in Page : k = kalloc
        BY <1>5, <3>4, KallocIs
      <4>2. /\ mem' = [mem EXCEPT ![k] = [Zero EXCEPT ![PTX(c.va)] = r],
                                  ![c.new][PDX(c.va)] = [pa |-> k, u |-> TRUE]]
            /\ free' = free \ {k}
        BY <1>5, <3>2, <3>4, <4>1 DEF MapPage
      <4>3. [pa |-> k, u |-> TRUE] \in [pa : Page \cup {0}, u : BOOLEAN]
        OBVIOUS
      <4> QED
        BY <4>2, <4>3, EntryType DEF Types
    <3> QED
      BY <3>3, <3>4
  <2>4. PICK x \in Nat : x = c.va + PAGESIZE /\ x % PAGESIZE = 0
    BY <2>2, NextPage
  <2>5. [c EXCEPT !.page = 0, !.va = x, !.pc = "page"] \in Call
    BY DEF Call
  <2>6. PICK e \in Call : e = [c EXCEPT !.page = 0, !.va = x, !.pc = "page"]
    BY <2>5
  <2>7. /\ e.pc = "page" /\ e.op = c.op /\ e.np = c.np /\ e.new = c.new /\ e.old = c.old
        /\ e.page = 0 /\ e.img = c.img /\ e.lo = c.lo /\ e.va = x /\ e.end = c.end
    BY <2>6 DEF Call
  <2>8. call' = [call EXCEPT ![p] = e]
    BY <2>1, <2>4, <2>6 DEF Types
  <2>9. Shape(e, p)
    BY <1>1, <1>2, <2>7 DEF Shape, Growing
  <2>10. Bounds(e, p)
    <3>1. PAGESIZE \in Nat \ {0} /\ KERNEND \in Nat
      BY Constants, Bounded
    <3>2. c.va \in Nat /\ c.end \in Nat /\ c.lo \in Nat
      BY Fields
    <3> QED
      BY <1>1, <1>2, <2>4, <2>7, <3>1, <3>2 DEF Bounds, Growing
  <2>11. Cr3Of(e, p)
    BY <1>1, <1>2, <2>7 DEF Cr3Of
  <2>12. lost' \subseteq Page
    BY <2>1 DEF Types
  <2> QED
    BY <1>1, <2>3, <2>7, <2>8, <2>9, <2>10, <2>11, <2>12, CallStep
<1> QED
  BY <1>4, <1>5

\* A call that failed returns, or goes on to undo palloc().
LEMMA BadControl ==
  ASSUME Types, Control, NEW p \in Proc, Bad(p)
  PROVE  Types' /\ Control'
<1> PICK c \in Call : c = call[p]
  BY DEF Types
<1>1. procp = p /\ stat[p] = "RUN" /\ c.pc = "bad" /\ UNCHANGED <<proc, procp, cr3>>
  BY DEF Bad, At, Running
<1>2. Shape(c, p) /\ Bounds(c, p) /\ Cr3Of(c, p)
  BY <1>1 DEF Control
<1>3. free' \subseteq Page /\ lost' \subseteq Page /\ mem' \in Mem
  <2>1. {c.new} \ {0} \in SUBSET Page
    BY Fields
  <2>2. freevm({c.new} \ {0}, {})
    BY DEF Bad
  <2> QED
    BY <2>1, <2>2, FreevmTypes
<1>4. CASE c.op = "fork"
  <2>1. call' = [call EXCEPT ![p].pc = "unfork", ![p].new = 0]
    BY <1>4 DEF Bad
  <2>2. [c EXCEPT !.pc = "unfork", !.new = 0] \in Call
    BY DEF Call
  <2>3. PICK e \in Call : e = [c EXCEPT !.pc = "unfork", !.new = 0]
    BY <2>2
  <2>4. /\ e.pc = "unfork" /\ e.op = c.op /\ e.np = c.np /\ e.new = 0 /\ e.old = c.old
        /\ e.page = c.page /\ e.img = c.img
    BY <2>3 DEF Call
  <2>5. call' = [call EXCEPT ![p] = e]
    BY <2>1, <2>3 DEF Types
  <2>6. Shape(e, p)
    BY <1>1, <1>2, <1>4, <2>4 DEF Shape, Growing
  <2>7. Bounds(e, p)
    BY <1>2, <2>4 DEF Bounds, Growing
  <2>8. Cr3Of(e, p)
    BY <1>1, <1>2, <2>4 DEF Cr3Of
  <2> QED
    BY <1>1, <1>3, <2>4, <2>5, <2>6, <2>7, <2>8, CallStep
<1>5. CASE c.op # "fork"
  <2>1. call' = [call EXCEPT ![p] = User]
    BY <1>5 DEF Bad, Return
  <2>2. Shape(User, p)
    BY <1>1, <1>2, UserIs DEF Shape, Growing
  <2>3. Bounds(User, p)
    BY UserIs DEF Bounds, Growing
  <2>4. Cr3Of(User, p)
    BY <1>1, <1>2 DEF Cr3Of
  <2> QED
    BY <1>1, <1>3, <2>1, <2>2, <2>3, <2>4, UserIs, CallStep
<1> QED
  BY <1>4, <1>5

\* The first multiple of PAGESIZE from a on.
LEMMA RoundUp ==
  ASSUME NEW a \in Nat
  PROVE  /\ PGROUNDUP(a) \in Nat /\ PGROUNDUP(a) % PAGESIZE = 0
         /\ a <= PGROUNDUP(a) /\ PGROUNDUP(a) < a + PAGESIZE
         /\ a % PAGESIZE = 0 => PGROUNDUP(a) = a
<1>1. PICK s \in Nat \ {0} : s = PAGESIZE
  BY Constants
<1>2. PICK b \in Nat : b = a + s - 1
  BY <1>1
<1>3. PICK q \in Nat, r \in 0 .. s - 1 : b \div s = q /\ b = q * s + r
  BY <1>1, <1>2, Division
<1>4. PICK x \in Nat : x = q * s
  BY <1>1
<1>5. PGROUNDUP(a) = x
  BY <1>1, <1>2, <1>3, <1>4 DEF PGROUNDUP
<1>6. a <= x /\ x < a + s
  BY <1>1, <1>2, <1>3, <1>4
<1>7. x % s = 0
  <2>1. 0 \in 0 .. s - 1 /\ (q * s + 0) % s = 0
    BY <1>1, Divided
  <2> QED
    BY <2>1, <1>1, <1>4
<1>8. ASSUME a % s = 0 PROVE x = a
  <2> SUFFICES ASSUME a < x PROVE FALSE
    BY <1>6
  <2>1. a + s <= x
    BY <1>1, <1>7, <1>8, Multiples
  <2> QED
    BY <2>1, <1>1, <1>6
<1> QED
  BY <1>1, <1>5, <1>6, <1>7, <1>8

\* allocuvm() begins, in a call c of execv().
LEMMA AllocControl ==
  ASSUME Types, Control, NEW p \in Proc, procp = p, stat[p] = "RUN", call[p].pc = "seg",
         NEW old \in Nat, NEW new \in Nat, NEW after \in {"load", "bad"},
         KERNEND <= old, old <= new \/ old <= USEREND,
         IF call[p].img # << >>
         THEN old = call[p].lo /\ new = call[p].img[1].vaddr + call[p].img[1].memsz
         ELSE new = old + 2 * PAGESIZE /\ old % PAGESIZE = 0,
         after = "load" => call[p].img # << >>,
         allocuvm(p, old, new, after), UNCHANGED <<free, mem, proc, procp, cr3, lost>>
  PROVE  Types' /\ Control'
<1> PICK c \in Call : c = call[p]
  BY DEF Types
<1>1. Shape(c, p) /\ Bounds(c, p) /\ Cr3Of(c, p) /\ c.op = "execv" /\ c.page = 0
  BY DEF Control, Shape, Call
<1>2. free' \subseteq Page /\ lost' \subseteq Page /\ mem' \in Mem
  BY MemTypes DEF Types
<1>3. CASE new >= USEREND \/ (new < old /\ after = "bad")
  <2>1. call' = [call EXCEPT ![p].pc = "bad"]
    BY <1>3 DEF allocuvm
  <2> QED
    BY <1>1, <1>2, <2>1, FailStep
<1>4. CASE new < USEREND /\ new < old /\ after = "load"
  <2>1. call' = [call EXCEPT ![p].pc = "load"]
    BY <1>4, Bounded DEF allocuvm
  <2>2. [c EXCEPT !.pc = "load"] \in Call
    BY DEF Call
  <2>3. PICK e \in Call : e = [c EXCEPT !.pc = "load"]
    BY <2>2
  <2>4. /\ e.pc = "load" /\ e.op = c.op /\ e.np = c.np /\ e.new = c.new /\ e.old = c.old
        /\ e.page = c.page /\ e.img = c.img /\ e.lo = c.lo
    BY <2>3 DEF Call
  <2>5. call' = [call EXCEPT ![p] = e]
    BY <2>1, <2>3 DEF Types
  <2>6. Shape(e, p)
    BY <1>1, <2>4 DEF Shape, Growing
  <2>7. Bounds(e, p)
    BY <1>1, <1>4, <2>4 DEF Bounds, Growing
  <2>8. Cr3Of(e, p)
    BY <1>1, <2>4 DEF Cr3Of
  <2> QED
    BY <1>1, <1>2, <2>4, <2>5, <2>6, <2>7, <2>8, CallStep
<1>5. CASE new < USEREND /\ ~(new < old)
  <2>1. PICK x \in Nat : x = PGROUNDUP(old) /\ x % PAGESIZE = 0 /\ old <= x /\ x < old + PAGESIZE
    BY RoundUp
  <2>2. call' = [call EXCEPT ![p].pc = "page", ![p].lo = old, ![p].va = x, ![p].end = new]
    BY <1>5, <2>1, Bounded DEF allocuvm
  <2>3. [c EXCEPT !.pc = "page", !.lo = old, !.va = x, !.end = new] \in Call
    BY DEF Call
  <2>4. PICK e \in Call : e = [c EXCEPT !.pc = "page", !.lo = old, !.va = x, !.end = new]
    BY <2>3
  <2>5. /\ e.pc = "page" /\ e.op = c.op /\ e.np = c.np /\ e.new = c.new /\ e.old = c.old
        /\ e.page = c.page /\ e.img = c.img /\ e.lo = old /\ e.va = x /\ e.end = new
    BY <2>4 DEF Call
  <2>6. call' = [call EXCEPT ![p] = e]
    BY <2>2, <2>4 DEF Types
  <2>7. Shape(e, p)
    BY <1>1, <2>5 DEF Shape, Growing
  <2>8. Bounds(e, p)
    <3>1. PAGESIZE \in Nat \ {0} /\ KERNEND \in Nat /\ USEREND \in Nat
      BY Constants, Bounded
    <3>2. \A k \in 1 .. Len(e.img) : e.img[k].vaddr >= KERNEND
      BY <1>1, <2>5 DEF Bounds
    <3>3. IF e.img # << >> THEN e.end = e.img[1].vaddr + e.img[1].memsz
          ELSE e.end = e.lo + 2 * PAGESIZE /\ e.lo % PAGESIZE = 0
      BY <2>5
    <3> QED
      BY <1>1, <1>5, <2>1, <2>5, <3>1, <3>2, <3>3 DEF Bounds, Growing
  <2>9. Cr3Of(e, p)
    BY <1>1, <2>5 DEF Cr3Of
  <2> QED
    BY <1>1, <1>2, <2>5, <2>6, <2>7, <2>8, <2>9, CallStep
<1> QED
  BY <1>3, <1>4, <1>5, Bounded

\* The elements of a sequence, and what is left after the first.
LEMMA SeqOf ==
  ASSUME NEW A, NEW s \in Seq(A)
  PROVE  \A k \in 1 .. Len(s) : s[k] \in A
  OBVIOUS

\* The first and the other elements of a sequence.
LEMMA SeqIn ==
  ASSUME NEW A, NEW B, NEW s \in Seq(A), \A k \in 1 .. Len(s) : s[k] \in B
  PROVE  s \in Seq(B)
  OBVIOUS

\* The elements of a tail are elements.
LEMMA TailOf ==
  ASSUME NEW A, NEW s \in Seq(A), s # << >>
  PROVE  /\ s[1] \in A /\ Tail(s) \in Seq(A) /\ Len(Tail(s)) = Len(s) - 1
         /\ \A k \in 1 .. Len(Tail(s)) : k + 1 \in 1 .. Len(s) /\ Tail(s)[k] = s[k + 1]
  OBVIOUS

\* execv() goes to the loop, past it, or fails, and is within USEREND.
LEMMA SegmentControl ==
  ASSUME Types, Control, NEW p \in Proc, Segment(p)
  PROVE  Types' /\ Control'
<1> PICK c \in Call : c = call[p]
  BY DEF Types
<1>1. /\ procp = p /\ stat[p] = "RUN" /\ c.pc = "seg"
      /\ UNCHANGED <<free, mem, proc, procp, cr3, lost>>
  BY DEF Segment, At, Running
<1>2. /\ Shape(c, p) /\ Bounds(c, p) /\ c.lo \in Nat /\ KERNEND <= c.lo /\ c.lo <= USEREND
      /\ c.img \in Seq([vaddr : Nat, memsz : Nat])
  BY <1>1 DEF Control, Bounds, Growing, Call
<1>3. CASE c.img # << >> /\ Goto(p, "bad")
  <2>1. c.op # "none" /\ c.page = 0
    BY <1>1, <1>2 DEF Shape
  <2>2. free' \subseteq Page /\ lost' \subseteq Page /\ mem' \in Mem
    BY <1>1, MemTypes DEF Types
  <2> QED
    BY <1>1, <1>3, <2>1, <2>2, FailStep DEF Goto
<1>4. CASE c.img # << >> /\ allocuvm(p, c.lo, c.img[1].vaddr + c.img[1].memsz, "load")
  <2>1. PICK x \in Nat : x = c.img[1].vaddr + c.img[1].memsz
    <3>1. c.img[1] \in [vaddr : Nat, memsz : Nat]
      BY <1>2, <1>4, TailOf
    <3> QED
      BY <3>1
  <2> QED
    BY <1>1, <1>2, <1>4, <2>1, AllocControl
<1>5. CASE c.img = << >> /\ allocuvm(p, PGROUNDUP(c.lo), PGROUNDUP(c.lo) + 2 * PAGESIZE, "bad")
  <2>1. PICK x \in Nat : x = PGROUNDUP(c.lo) /\ x % PAGESIZE = 0 /\ c.lo <= x
    BY <1>2, RoundUp
  <2>2. PICK y \in Nat : y = x + 2 * PAGESIZE /\ x <= y
    BY Constants
  <2>3. KERNEND <= x
    BY <1>2, <2>1, Bounded
  <2> QED
    BY <1>1, <1>5, <2>1, <2>2, <2>3, AllocControl
<1> QED
  BY <1>3, <1>4, <1>5 DEF Segment

\* execv() begins.
LEMMA ExecvControl ==
  ASSUME Types, Control, NEW p \in Proc, NEW img \in Image, Execv(p, img)
  PROVE  Types' /\ Control'
<1>1. /\ procp = p /\ stat[p] = "RUN" /\ call[p].pc = "user"
      /\ UNCHANGED <<free, mem, proc, procp, cr3, lost>>
      /\ call' = [call EXCEPT ![p] = [User EXCEPT !.op = "execv", !.pc = "dir", !.img = img]]
  BY DEF Execv, At, Running
<1>2. Shape(call[p], p) /\ Cr3Of(call[p], p)
  BY <1>1 DEF Control
<1>3. img \in Seq([vaddr : Nat, memsz : Nat]) /\ \A k \in 1 .. Len(img) : img[k].vaddr >= KERNEND
  <2>5. PICK A, B : A = [vaddr : KERNEND .. USEREND, memsz : Nat] /\ B = [vaddr : Nat, memsz : Nat]
    OBVIOUS
  <2>1. img \in Seq(A)
    BY <2>5, VmConstants
  <2>2. \A k \in 1 .. Len(img) : img[k] \in A
    BY <2>1, SeqOf
  <2>3. \A k \in 1 .. Len(img) : img[k] \in B /\ img[k].vaddr >= KERNEND
    BY <2>2, <2>5, Bounded
  <2>4. img \in Seq(B)
    <3>1. \A k \in 1 .. Len(img) : img[k] \in B
      BY <2>3
    <3> QED
      BY <2>1, <3>1, SeqIn
  <2> QED
    BY <2>3, <2>4, <2>5
<1>4. PICK e \in Call : e = [User EXCEPT !.op = "execv", !.pc = "dir", !.img = img]
  BY <1>3, UserIs DEF Call
<1>5. /\ e.pc = "dir" /\ e.op = "execv" /\ e.new = 0 /\ e.old = 0 /\ e.page = 0 /\ e.img = img
  BY <1>4, UserIs DEF Call
<1>6. Shape(e, p)
  BY <1>1, <1>2, <1>5 DEF Shape, Growing
<1>7. Bounds(e, p)
  BY <1>3, <1>5 DEF Bounds, Growing
<1>8. Cr3Of(e, p)
  BY <1>1, <1>2, <1>5 DEF Cr3Of
<1>9. free' \subseteq Page /\ lost' \subseteq Page /\ mem' \in Mem
  BY <1>1, MemTypes DEF Types
<1> QED
  BY <1>1, <1>4, <1>5, <1>6, <1>7, <1>8, <1>9, CallStep

\* The loop of allocuvm() ends (vm.c:155-182).
LEMMA GrownControl ==
  ASSUME Types, Control, NEW p \in Proc, Grown(p)
  PROVE  Types' /\ Control'
<1> PICK c \in Call : c = call[p]
  BY DEF Types
<1>1. /\ procp = p /\ stat[p] = "RUN" /\ c.pc = "page" /\ c.op = "execv"
      /\ UNCHANGED <<free, proc, procp, cr3, lost>>
  BY DEF Grown, At, Running
<1>2. Shape(c, p) /\ Bounds(c, p) /\ Cr3Of(c, p)
  BY <1>1 DEF Control
<1>3. /\ c.lo \in Nat /\ c.end \in Nat /\ KERNEND <= c.lo /\ c.lo <= c.end /\ c.end <= USEREND
      /\ KERNEND \in Nat /\ PAGESIZE \in Nat
  BY <1>1, <1>2, Bounded, Constants DEF Bounds, Growing, Call
<1> PICK pc, e : /\ pc = IF c.img # << >> THEN "load" ELSE "commit"
                 /\ e = [c EXCEPT !.pc = pc, !.lo = c.end]
  OBVIOUS
<1>4. e \in Call /\ call' = [call EXCEPT ![p] = e]
  <2>1. e \in Call
    BY DEF Call
  <2>2. call' = [call EXCEPT ![p].pc = pc, ![p].lo = c.end]
    BY DEF Grown
  <2> QED
    BY <2>1, <2>2 DEF Types
<1>5. /\ e.pc = pc /\ e.op = c.op /\ e.np = c.np /\ e.new = c.new /\ e.old = c.old
      /\ e.page = c.page /\ e.img = c.img /\ e.lo = c.end
  BY DEF Call
<1>6. Shape(e, p)
  BY <1>1, <1>2, <1>5 DEF Shape, Growing
<1>7. Bounds(e, p)
  <2>1. \A k \in 1 .. Len(e.img) : e.img[k].vaddr >= KERNEND
    BY <1>2, <1>5 DEF Bounds
  <2>2. CASE c.img # << >>
    <3>1. c.end = c.img[1].vaddr + c.img[1].memsz
      BY <1>1, <1>2, <2>2 DEF Bounds
    <3> QED
      BY <1>3, <1>5, <2>1, <2>2, <3>1 DEF Bounds, Growing
  <2>3. CASE c.img = << >>
    <3>1. c.end = c.lo + 2 * PAGESIZE /\ c.lo % PAGESIZE = 0
      BY <1>1, <1>2, <2>3 DEF Bounds
    <3>2. c.end % PAGESIZE = 0
      BY <1>3, <3>1, NextPage
    <3> QED
      BY <1>3, <1>5, <2>1, <2>3, <3>1, <3>2 DEF Bounds, Growing
  <2> QED
    BY <2>2, <2>3
<1>8. Cr3Of(e, p)
  BY <1>1, <1>2, <1>5 DEF Cr3Of
<1>9. free' \subseteq Page /\ lost' \subseteq Page /\ mem' \in Mem
  <2>1. CASE c.img # << >>
    BY <1>1, <2>1, MemTypes DEF Grown, Types
  <2>2. CASE c.img = << >>
    <3>1. mem' = [mem EXCEPT ![Table(c.new, c.lo)][PTX(c.lo)].u = FALSE]
      BY <2>2 DEF Grown
    <3>2. 1 \in Page /\ [pa |-> 0, u |-> TRUE] \in [pa : Page \cup {0}, u : BOOLEAN]
      BY Constants DEF Page
    <3> QED
      BY <1>1, <3>1, <3>2, EntryType DEF Types
  <2> QED
    BY <2>1, <2>2
<1> QED
  BY <1>1, <1>4, <1>5, <1>6, <1>7, <1>8, <1>9, CallStep

\* A segment is loaded, or execv() fails.
LEMMA LoadControl ==
  ASSUME Types, Control, NEW p \in Proc, Load(p)
  PROVE  Types' /\ Control'
<1> PICK c \in Call : c = call[p]
  BY DEF Types
<1>1. /\ procp = p /\ stat[p] = "RUN" /\ c.pc = "load"
      /\ UNCHANGED <<free, mem, proc, procp, cr3, lost>>
  BY DEF Load, At, Running
<1>2. Shape(c, p) /\ Bounds(c, p) /\ Cr3Of(c, p)
  BY <1>1 DEF Control
<1>3. free' \subseteq Page /\ lost' \subseteq Page /\ mem' \in Mem
  BY <1>1, MemTypes DEF Types
<1>4. CASE Goto(p, "bad")
  <2>1. c.op # "none" /\ c.page = 0
    BY <1>1, <1>2 DEF Shape
  <2> QED
    BY <1>1, <1>3, <1>4, <2>1, FailStep DEF Goto
<1>5. CASE call' = [call EXCEPT ![p].pc = "seg", ![p].img = Tail(@)]
  <2>1. c.img \in Seq([vaddr : Nat, memsz : Nat]) /\ c.img # << >>
    BY <1>1, <1>2 DEF Bounds, Call
  <2>2. PICK img \in Seq([vaddr : Nat, memsz : Nat]) :
          /\ img = Tail(c.img)
          /\ \A k \in 1 .. Len(img) : k + 1 \in 1 .. Len(c.img) /\ img[k] = c.img[k + 1]
    <3> PICK A : A = [vaddr : Nat, memsz : Nat]
      OBVIOUS
    <3>1. c.img \in Seq(A) /\ c.img # << >>
      BY <2>1
    <3>2. /\ Tail(c.img) \in Seq(A)
          /\ \A k \in 1 .. Len(Tail(c.img)) :
               k + 1 \in 1 .. Len(c.img) /\ Tail(c.img)[k] = c.img[k + 1]
      BY <3>1, TailOf
    <3> QED
      BY <3>2
  <2>3. [c EXCEPT !.pc = "seg", !.img = img] \in Call
    BY DEF Call
  <2>4. PICK e \in Call : e = [c EXCEPT !.pc = "seg", !.img = img]
    BY <2>3
  <2>5. /\ e.pc = "seg" /\ e.op = c.op /\ e.np = c.np /\ e.new = c.new /\ e.old = c.old
        /\ e.page = c.page /\ e.img = img /\ e.lo = c.lo
    BY <2>4 DEF Call
  <2>6. call' = [call EXCEPT ![p] = e]
    BY <1>5, <2>2, <2>4 DEF Types
  <2>7. Shape(e, p)
    BY <1>1, <1>2, <2>5 DEF Shape, Growing
  <2>8. Bounds(e, p)
    <3>1. \A k \in 1 .. Len(img) : img[k].vaddr >= KERNEND
      BY <1>2, <2>2 DEF Bounds
    <3> QED
      BY <1>1, <1>2, <2>5, <3>1 DEF Bounds, Growing
  <2>9. Cr3Of(e, p)
    BY <1>1, <1>2, <2>5 DEF Cr3Of
  <2> QED
    BY <1>1, <1>3, <2>5, <2>6, <2>7, <2>8, <2>9, CallStep
<1> QED
  BY <1>4, <1>5 DEF Load

\* A process that a step leaves alone.
LEMMA OtherControl ==
  ASSUME Control, NEW q \in Proc, call'[q] = call[q], stat'[q] = stat[q],
         kstack'[q] = kstack[q], pgdir'[q] = pgdir[q], size'[q] = size[q],
         call[q].op = "fork" => stat'[call[q].np] = stat[call[q].np]
  PROVE  Shape(call[q], q)' /\ Bounds(call[q], q)'
<1>1. Shape(call[q], q) /\ Bounds(call[q], q)
  BY DEF Control
<1>2. Shape(call[q], q)'
  BY <1>1 DEF Shape
<1>3. Bounds(call[q], q)'
  BY <1>1 DEF Bounds
<1> QED
  BY <1>2, <1>3

\* A step by which no fork() begins.
LEMMA ChildrenLeft ==
  ASSUME Control, NEW p \in Proc, call'[p].op # "fork",
         \A q \in Proc \ {p} : call'[q].op = "fork" => call[q].op = "fork" /\ call'[q].np = call[q].np
  PROVE  Children'
  BY DEF Control, Children

\* The slots that pfree() clears.
LEMMA PfreeIs ==
  ASSUME Types, NEW Q \in SUBSET Proc, pfree(Q)
  PROVE  /\ Pgdirs(Q) \subseteq Page /\ Kstacks(Q) \subseteq Page
         /\ free' \subseteq Page /\ lost' \subseteq Page /\ mem' \in Mem
         /\ stat' \in [Proc -> {"UNUSED", "SET", "RUN", "SLEEP", "ZOMB"}]
         /\ kstack' \in [Proc -> Page \cup {0}] /\ pgdir' \in [Proc -> Page \cup {0}]
         /\ \A q \in Q : stat'[q] = "UNUSED" /\ kstack'[q] = 0 /\ pgdir'[q] = 0
         /\ \A q \in Proc \ Q : stat'[q] = stat[q] /\ kstack'[q] = kstack[q] /\ pgdir'[q] = pgdir[q]
<1>1. Pgdirs(Q) \subseteq Page /\ Kstacks(Q) \subseteq Page
  BY DEF Pgdirs, Kstacks, Types
<1>2. freevm(Pgdirs(Q), Kstacks(Q))
  BY DEF pfree
<1>3. free' \subseteq Page /\ lost' \subseteq Page /\ mem' \in Mem
  BY <1>1, <1>2, FreevmTypes
<1>4. /\ stat' = [q \in Proc |-> IF q \in Q THEN "UNUSED" ELSE stat[q]]
      /\ pgdir' = [q \in Proc |-> IF q \in Q THEN 0 ELSE pgdir[q]]
      /\ kstack' = [q \in Proc |-> IF q \in Q THEN 0 ELSE kstack[q]]
  BY DEF pfree
<1>5. stat' \in [Proc -> {"UNUSED", "SET", "RUN", "SLEEP", "ZOMB"}]
  BY <1>4 DEF Types
<1>6. kstack' \in [Proc -> Page \cup {0}] /\ pgdir' \in [Proc -> Page \cup {0}]
  BY <1>4 DEF Types
<1> QED
  BY <1>1, <1>3, <1>4, <1>5, <1>6

\* A slot that is not in use, or not any more.
LEMMA UnusedControl ==
  ASSUME Types, Control, NEW q \in Proc, call[q].pc = "user", call'[q] = call[q],
         stat'[q] = "UNUSED", kstack'[q] = 0, pgdir'[q] = 0, size'[q] = size[q]
  PROVE  Shape(call[q], q)' /\ Bounds(call[q], q)'
<1>1. Shape(call[q], q) /\ Bounds(call[q], q)
  BY DEF Control
<1>2. /\ call[q].op = "none" /\ call[q].new = 0 /\ call[q].old = 0 /\ call[q].page = 0
  BY <1>1 DEF Shape
<1>3. Shape(call[q], q)'
  BY <1>1, <1>2 DEF Shape, Growing
<1>4. Bounds(call[q], q)'
  BY <1>1 DEF Bounds, Growing
<1> QED
  BY <1>3, <1>4

\* fork() failed: the child's slot is free again.
LEMMA UnforkControl ==
  ASSUME Types, Control, NEW p \in Proc, Unfork(p)
  PROVE  Types' /\ Control'
<1>1. /\ procp = p /\ stat[p] = "RUN" /\ call[p].pc = "unfork" /\ pfree({call[p].np})
      /\ call' = [call EXCEPT ![p] = User] /\ UNCHANGED <<pproc, size, procp, cr3>>
  BY DEF Unfork, At, Running, Return
<1>2. Shape(call[p], p) /\ Cr3Of(call[p], p) /\ Children
  BY <1>1 DEF Control
<1>3. call[p].op = "fork"
  BY <1>1, <1>2, Fields DEF Shape, Types
<1> PICK n \in Proc : n = call[p].np /\ stat[n] = "SET"
  BY <1>2, <1>3 DEF Shape
<1>4. /\ free' \subseteq Page /\ lost' \subseteq Page /\ mem' \in Mem
      /\ stat' \in [Proc -> {"UNUSED", "SET", "RUN", "SLEEP", "ZOMB"}]
      /\ kstack' \in [Proc -> Page \cup {0}] /\ pgdir' \in [Proc -> Page \cup {0}]
      /\ stat'[n] = "UNUSED" /\ kstack'[n] = 0 /\ pgdir'[n] = 0
      /\ \A q \in Proc \ {n} :
           stat'[q] = stat[q] /\ kstack'[q] = kstack[q] /\ pgdir'[q] = pgdir[q]
  <2>1. {n} \in SUBSET Proc /\ pfree({n})
    BY <1>1
  <2> QED
    BY <2>1, PfreeIs
<1>5. /\ call' \in [Proc -> Call] /\ call'[p] = User /\ \A q \in Proc \ {p} : call'[q] = call[q]
      /\ size' = size
  BY <1>1, UserIs DEF Types
<1>6. Types'
  BY <1>1, <1>4, <1>5 DEF Types, Mem
<1>7. n # p /\ call[n].pc = "user"
  <2>1. Shape(call[n], n)
    BY DEF Control
  <2> QED
    BY <1>1, <2>1 DEF Shape
<1>8. ASSUME NEW q \in Proc PROVE Shape(call[q], q)' /\ Bounds(call[q], q)'
  <2>1. CASE q = p
    <3>1. Shape(call[p], p)'
      BY <1>1, <1>2, <1>4, <1>5, <1>7, UserIs DEF Shape, Growing
    <3>2. Bounds(call[p], p)'
      BY <1>5, UserIs DEF Bounds, Growing
    <3> QED
      BY <2>1, <3>1, <3>2
  <2>2. CASE q = n
    BY <2>2, <1>4, <1>5, <1>7, UnusedControl
  <2>3. CASE q # p /\ q # n
    <3>1. call[q].op = "fork" => stat'[call[q].np] = stat[call[q].np]
      <4>1. Shape(call[q], q)
        BY DEF Control
      <4>2. call[q].op = "fork" => call[q].np \in Proc /\ call[q].np # n
        BY <4>1, <1>2, <1>3, <2>3 DEF Shape, Children
      <4> QED
        BY <4>2, <1>4
    <3> QED
      BY <2>3, <3>1, <1>4, <1>5, OtherControl
  <2> QED
    BY <2>1, <2>2, <2>3
<1>9. Children'
  BY <1>5, UserIs, ChildrenLeft
<1>10. Cr3Of(call[procp], procp)'
  BY <1>1, <1>2, <1>4, <1>7 DEF Cr3Of
<1> QED
  BY <1>6, <1>8, <1>9, <1>10 DEF Control

\* wait() frees the zombies, which are in no call.
LEMMA CollectControl ==
  ASSUME Types, Control, NEW p \in Proc, Collect(p)
  PROVE  Types' /\ Control'
<1> PICK Q \in SUBSET Proc : Q = {q \in Proc : pproc[q] = p /\ stat[q] = "ZOMB"}
  OBVIOUS
<1>1. /\ procp = p /\ stat[p] = "RUN" /\ call[p].pc = "wait" /\ pfree(Q)
      /\ call' = [call EXCEPT ![p] = User] /\ UNCHANGED <<pproc, size, procp, cr3>>
  BY DEF Collect, At, Running, Return
<1>2. Shape(call[p], p) /\ Cr3Of(call[p], p)
  BY <1>1 DEF Control
<1>3. /\ free' \subseteq Page /\ lost' \subseteq Page /\ mem' \in Mem
      /\ stat' \in [Proc -> {"UNUSED", "SET", "RUN", "SLEEP", "ZOMB"}]
      /\ kstack' \in [Proc -> Page \cup {0}] /\ pgdir' \in [Proc -> Page \cup {0}]
      /\ \A q \in Q : stat'[q] = "UNUSED" /\ kstack'[q] = 0 /\ pgdir'[q] = 0
      /\ \A q \in Proc \ Q : stat'[q] = stat[q] /\ kstack'[q] = kstack[q] /\ pgdir'[q] = pgdir[q]
  BY <1>1, PfreeIs
<1>4. /\ call' \in [Proc -> Call] /\ call'[p] = User /\ \A q \in Proc \ {p} : call'[q] = call[q]
      /\ size' = size
  BY <1>1, UserIs DEF Types
<1>5. Types'
  BY <1>1, <1>3, <1>4 DEF Types, Mem
<1>6. p \notin Q
  BY <1>1
<1>7. ASSUME NEW q \in Proc PROVE Shape(call[q], q)' /\ Bounds(call[q], q)'
  <2>1. CASE q = p
    <3>1. Shape(call[p], p)'
      BY <1>1, <1>2, <1>3, <1>4, <1>6, UserIs DEF Shape, Growing
    <3>2. Bounds(call[p], p)'
      BY <1>4, UserIs DEF Bounds, Growing
    <3> QED
      BY <2>1, <3>1, <3>2
  <2>2. CASE q \in Q
    <3>1. call[q].pc = "user"
      BY <2>2 DEF Control, Shape
    <3> QED
      BY <2>2, <3>1, <1>3, <1>4, <1>6, UnusedControl
  <2>3. CASE q # p /\ q \notin Q
    <3>1. call[q].op = "fork" => stat'[call[q].np] = stat[call[q].np]
      <4>1. Shape(call[q], q)
        BY DEF Control
      <4>2. call[q].op = "fork" => call[q].np \in Proc /\ call[q].np \notin Q
        BY <4>1 DEF Shape
      <4> QED
        BY <4>2, <1>3
    <3> QED
      BY <2>3, <3>1, <1>3, <1>4, OtherControl
  <2> QED
    BY <2>1, <2>2, <2>3
<1>8. Children'
  BY <1>4, UserIs, ChildrenLeft
<1>9. Cr3Of(call[procp], procp)'
  BY <1>1, <1>2, <1>3, <1>6 DEF Cr3Of
<1> QED
  BY <1>5, <1>7, <1>8, <1>9 DEF Control

\* A set of natural numbers has a least element.
LEMMA Least ==
  ASSUME NEW S \in SUBSET Nat, S # {}
  PROVE  \E x \in S : \A y \in S : x <= y
<1>1. PICK R : R = OpToRel(<, Nat)
  OBVIOUS
<1>2. IsWellFoundedOn(R, Nat)
  BY <1>1, NatLessThanWellFounded
<1>3. PICK x \in S : \A y \in S : ~ (<<y, x>> \in R)
  BY <1>2, WFMin
<1>4. \A y \in Nat : y < x => <<y, x>> \in R
  BY <1>1 DEF OpToRel
<1>5. ASSUME NEW y \in S PROVE x <= y
  <2>1. y \in Nat /\ x \in Nat
    OBVIOUS
  <2>2. ~ (y < x)
    BY <2>1, <1>3, <1>4
  <2> QED
    BY <2>1, <2>2
<1> QED
  BY <1>5

\* palloc() gives fork() a slot that no other call has.
LEMMA ForkControl ==
  ASSUME Types, Control, NEW p \in Proc, Fork(p)
  PROVE  Types' /\ Control'
<1>1. /\ procp = p /\ stat[p] = "RUN" /\ call[p].pc = "user" /\ Unused # {} /\ free # {}
      /\ free' = free \ {kalloc} /\ UNCHANGED <<mem, pgdir, procp, cr3, lost>>
  BY DEF Fork, At, Running
<1> PICK n : n = CHOOSE q \in Unused : \A r \in Unused : q <= r
  OBVIOUS
<1>2. n \in Proc /\ stat[n] = "UNUSED"
  <2>1. PICK q \in Unused : \A r \in Unused : q <= r
    <3>1. Unused \subseteq Nat /\ Unused # {}
      BY <1>1 DEF Unused, Proc
    <3> QED
      BY <3>1, Least
  <2>2. n \in Unused
    BY <2>1
  <2> QED
    BY <2>2 DEF Unused
<1>3. PICK k \in Page : k = kalloc /\ k # 0
  BY <1>1, KallocIs
<1>4. PICK e \in Call : e = [User EXCEPT !.op = "fork", !.pc = "dir", !.np = n]
  <2>1. [User EXCEPT !.op = "fork", !.pc = "dir", !.np = n] \in Call
    BY <1>2, UserIs DEF Call
  <2> QED
    BY <2>1
<1>5. /\ e.op = "fork" /\ e.pc = "dir" /\ e.np = n /\ e.new = 0 /\ e.old = 0 /\ e.page = 0
      /\ e.img = << >>
  BY <1>4, UserIs DEF Call
<1>6. /\ stat' = [stat EXCEPT ![n] = "SET"] /\ kstack' = [kstack EXCEPT ![n] = k]
      /\ pproc' = [pproc EXCEPT ![n] = 0] /\ size' = [size EXCEPT ![n] = 0]
      /\ call' = [call EXCEPT ![p] = e, ![n] = User]
  BY <1>3, <1>4 DEF Fork, NewStat
<1>7. n # p
  BY <1>1, <1>2
<1>8. /\ call' \in [Proc -> Call] /\ call'[p] = e /\ call'[n] = User
      /\ \A q \in Proc \ {p, n} : call'[q] = call[q]
  BY <1>6, <1>7, <1>2, UserIs DEF Types
<1>9. Types'
  <2>1. /\ stat' \in [Proc -> {"UNUSED", "SET", "RUN", "SLEEP", "ZOMB"}]
        /\ kstack' \in [Proc -> Page \cup {0}] /\ pproc' \in [Proc -> Proc \cup {0}]
        /\ size' \in [Proc -> Nat]
    BY <1>2, <1>6 DEF Types
  <2> QED
    BY <1>1, <1>8, <2>1 DEF Types
<1>10. /\ \A q \in Proc \ {n} : stat'[q] = stat[q] /\ kstack'[q] = kstack[q] /\ size'[q] = size[q]
       /\ stat'[n] = "SET" /\ kstack'[n] = k /\ size'[n] = 0 /\ pgdir' = pgdir
  BY <1>1, <1>2, <1>6 DEF Types
<1>11. ASSUME NEW q \in Proc \ {p} , call[q].op = "fork"
       PROVE  q # n /\ call[q].np \in Proc /\ call[q].np # n
  <2>1. Shape(call[q], q) /\ Shape(call[n], n)
    BY <1>2 DEF Control
  <2> QED
    BY <1>11, <2>1, <1>2 DEF Shape
<1>12. ASSUME NEW q \in Proc PROVE Shape(call[q], q)' /\ Bounds(call[q], q)'
  <2>0. Shape(call[q], q)
    BY DEF Control
  <2>1. CASE q = p
    <3>1. Shape(e, p)'
      BY <2>0, <2>1, <1>1, <1>2, <1>5, <1>7, <1>10 DEF Shape, Growing
    <3>2. Bounds(e, p)'
      BY <1>5 DEF Bounds, Growing
    <3> QED
      BY <2>1, <1>8, <3>1, <3>2
  <2>2. CASE q = n
    <3>1. pgdir[n] = 0
      BY <2>0, <2>2, <1>2 DEF Shape
    <3>2. 0 <= USEREND - KERNEND
      BY Bounded, Constants
    <3>3. Shape(User, n)'
      BY <3>1, <3>2, <1>3, <1>10, UserIs DEF Shape, Growing
    <3>4. Bounds(User, n)'
      BY UserIs DEF Bounds, Growing
    <3> QED
      BY <2>2, <1>8, <3>3, <3>4
  <2>3. CASE q # p /\ q # n
    BY <2>3, <1>8, <1>10, <1>11, OtherControl
  <2> QED
    BY <2>1, <2>2, <2>3
<1>13. Children'
  <2> SUFFICES ASSUME NEW q \in Proc, NEW r \in Proc,
                      call'[q].op = "fork", call'[r].op = "fork", call'[q].np = call'[r].np
               PROVE  q = r
    BY DEF Children
  <2>1. q # n /\ r # n
    BY <1>8, UserIs
  <2>2. /\ q # p => call[q].op = "fork" /\ call'[q].np = call[q].np /\ call[q].np # n
        /\ r # p => call[r].op = "fork" /\ call'[r].np = call[r].np /\ call[r].np # n
    BY <1>8, <1>11, <2>1
  <2>3. call'[p].np = n
    BY <1>5, <1>8
  <2> QED
    BY <2>2, <2>3 DEF Control, Children
<1>14. Cr3Of(call[procp], procp)'
  BY <1>1, <1>5, <1>8 DEF Cr3Of, Control
<1> QED
  BY <1>9, <1>12, <1>13, <1>14 DEF Control

\* The child gets its directory and runs; no other call has its slot.
LEMMA ForkedControl ==
  ASSUME Types, Control, NEW p \in Proc, Forked(p)
  PROVE  Types' /\ Control'
<1> PICK c \in Call : c = call[p]
  BY DEF Types
<1> PICK n : n = c.np
  OBVIOUS
<1>1. /\ procp = p /\ stat[p] = "RUN" /\ c.pc = "page" /\ c.op = "fork"
      /\ pgdir' = [pgdir EXCEPT ![n] = c.new] /\ size' = [size EXCEPT ![n] = size[p]]
      /\ pproc' = [pproc EXCEPT ![n] = p] /\ stat' = [stat EXCEPT ![n] = "RUN"]
      /\ call' = [call EXCEPT ![p] = User]
      /\ UNCHANGED <<free, mem, kstack, procp, cr3, lost>>
  BY DEF Forked, At, Running, Return
<1>2. /\ Shape(c, p) /\ Cr3Of(c, p) /\ Children
      /\ n \in Proc /\ stat[n] = "SET" /\ n # p /\ c.new \in Page /\ c.new # 0
  <2>1. Shape(c, p) /\ Cr3Of(c, p) /\ Children
    BY <1>1 DEF Control
  <2>2. n \in Proc /\ stat[n] = "SET" /\ n # p
    BY <1>1, <2>1 DEF Shape
  <2>3. c.new \in Page /\ c.new # 0
    BY <1>1, <2>1 DEF Shape, Growing, Call
  <2> QED
    BY <2>1, <2>2, <2>3
<1>3. /\ call' \in [Proc -> Call] /\ call'[p] = User /\ \A q \in Proc \ {p} : call'[q] = call[q]
  BY <1>1, UserIs DEF Types
<1>4. Types'
  <2>1. /\ stat' \in [Proc -> {"UNUSED", "SET", "RUN", "SLEEP", "ZOMB"}]
        /\ pgdir' \in [Proc -> Page \cup {0}] /\ pproc' \in [Proc -> Proc \cup {0}]
        /\ size' \in [Proc -> Nat]
    BY <1>1, <1>2 DEF Types
  <2> QED
    BY <1>1, <1>3, <2>1 DEF Types
<1>5. /\ \A q \in Proc \ {n} : stat'[q] = stat[q] /\ pgdir'[q] = pgdir[q] /\ size'[q] = size[q]
      /\ stat'[n] = "RUN" /\ pgdir'[n] = c.new /\ size'[n] = size[p] /\ kstack' = kstack
  BY <1>1, <1>2 DEF Types
<1>6. ASSUME NEW q \in Proc PROVE Shape(call[q], q)' /\ Bounds(call[q], q)'
  <2>0. Shape(call[q], q) /\ Bounds(call[q], q)
    BY DEF Control
  <2>1. CASE q = p
    <3>1. Shape(User, p)'
      BY <2>0, <2>1, <1>1, <1>2, <1>5, UserIs DEF Shape, Growing
    <3>2. Bounds(User, p)'
      BY UserIs DEF Bounds, Growing
    <3> QED
      BY <2>1, <1>3, <3>1, <3>2
  <2>2. CASE q = n
    <3>1. /\ call[n].pc = "user" /\ call[n].op = "none" /\ call[n].new = 0 /\ call[n].old = 0
          /\ call[n].page = 0 /\ kstack[n] # 0
      BY <2>0, <2>2, <1>2 DEF Shape
    <3>2. size[p] <= USEREND - KERNEND
      BY <1>2 DEF Shape
    <3>3. Shape(call[n], n)'
      BY <3>1, <3>2, <1>2, <1>3, <1>5 DEF Shape, Growing
    <3>4. Bounds(call[n], n)'
      BY <2>0, <2>2, <3>1, <1>2, <1>3 DEF Bounds, Growing
    <3> QED
      BY <2>2, <3>3, <3>4
  <2>3. CASE q # p /\ q # n
    <3>1. call[q].op = "fork" => call[q].np \in Proc /\ call[q].np # n
      BY <2>0, <1>1, <1>2, <2>3 DEF Shape, Children
    <3> QED
      BY <2>3, <3>1, <1>1, <1>3, <1>5, OtherControl
  <2> QED
    BY <2>1, <2>2, <2>3
<1>7. Children'
  BY <1>3, UserIs, ChildrenLeft
<1>8. Cr3Of(call[procp], procp)'
  BY <1>1, <1>2, <1>5 DEF Cr3Of
<1> QED
  BY <1>4, <1>6, <1>7, <1>8 DEF Control

\* exit() leaves a zombie and wakes its parent.
LEMMA ExitControl ==
  ASSUME Types, Control, NEW p \in Proc, Exit(p)
  PROVE  Types' /\ Control'
<1> PICK r : r = pproc[p]
  OBVIOUS
<1>1. /\ procp = p /\ stat[p] = "RUN" /\ call[p].pc = "user" /\ r \in Proc
      /\ stat' = [stat EXCEPT ![p] = "ZOMB", ![r] = IF @ = "SLEEP" THEN "RUN" ELSE @]
      /\ UNCHANGED <<free, mem, pproc, kstack, pgdir, size, procp, cr3, call, lost>>
  BY DEF Exit, At, Running, Types
<1>2. /\ \A q \in Proc : stat'[q] = IF q = p THEN "ZOMB"
                                    ELSE IF q = r /\ stat[q] = "SLEEP" THEN "RUN" ELSE stat[q]
      /\ stat' \in [Proc -> {"UNUSED", "SET", "RUN", "SLEEP", "ZOMB"}]
  BY <1>1 DEF Types
<1>3. Types'
  BY <1>1, <1>2 DEF Types
<1>4. ASSUME NEW q \in Proc PROVE Shape(call[q], q)' /\ Bounds(call[q], q)'
  <2>1. Shape(call[q], q) /\ Bounds(call[q], q) /\ call'[q] = call[q]
    BY <1>1 DEF Control
  <2>2. Bounds(call[q], q)'
    BY <1>1, <2>1 DEF Bounds
  <2>3. call[q].op = "fork" => stat'[call[q].np] = stat[call[q].np]
    BY <1>1, <1>2, <2>1 DEF Shape
  <2>4. CASE q = p
    BY <1>1, <1>2, <2>1, <2>2, <2>4 DEF Shape, Growing
  <2>5. CASE q # p /\ q = r /\ stat[q] = "SLEEP"
    <3>1. stat'[q] = "RUN"
      BY <1>2, <2>5
    <3> QED
      BY <1>1, <2>1, <2>2, <2>3, <2>5, <3>1 DEF Shape, Growing
  <2>6. CASE q # p /\ ~(q = r /\ stat[q] = "SLEEP")
    BY <1>1, <1>2, <2>3, <2>6, OtherControl
  <2> QED
    BY <2>4, <2>5, <2>6
<1>5. Children' /\ Cr3Of(call[procp], procp)'
  BY <1>1 DEF Control, Children, Cr3Of
<1> QED
  BY <1>3, <1>4, <1>5 DEF Control

\* wait() sleeps.
LEMMA WaitControl ==
  ASSUME Types, Control, NEW p \in Proc, Wait(p)
  PROVE  Types' /\ Control'
<1> PICK c \in Call : c = call[p]
  BY DEF Types
<1>1. /\ procp = p /\ stat[p] = "RUN" /\ c.pc = "user" /\ stat' = [stat EXCEPT ![p] = "SLEEP"]
      /\ call' = [call EXCEPT ![p].pc = "wait"]
      /\ UNCHANGED <<free, mem, pproc, kstack, pgdir, size, procp, cr3, lost>>
  BY DEF Wait, At, Running, Goto
<1>2. Shape(c, p) /\ Bounds(c, p) /\ Cr3Of(c, p)
  BY <1>1 DEF Control
<1>3. PICK e \in Call : e = [c EXCEPT !.pc = "wait"]
  BY DEF Call
<1>4. /\ e.pc = "wait" /\ e.op = c.op /\ e.np = c.np /\ e.new = c.new /\ e.old = c.old
      /\ e.page = c.page /\ e.img = c.img
  BY <1>3 DEF Call
<1>5. call' \in [Proc -> Call] /\ call'[p] = e /\ \A q \in Proc \ {p} : call'[q] = call[q]
  BY <1>1, <1>3 DEF Types
<1>6. /\ stat' \in [Proc -> {"UNUSED", "SET", "RUN", "SLEEP", "ZOMB"}]
      /\ stat'[p] = "SLEEP" /\ \A q \in Proc \ {p} : stat'[q] = stat[q]
  BY <1>1 DEF Types
<1>7. Types'
  BY <1>1, <1>5, <1>6 DEF Types
<1>8. ASSUME NEW q \in Proc PROVE Shape(call[q], q)' /\ Bounds(call[q], q)'
  <2>1. CASE q = p
    <3>1. Shape(e, p)'
      BY <1>1, <1>2, <1>4, <1>6 DEF Shape, Growing
    <3>2. Bounds(e, p)'
      BY <1>2, <1>4 DEF Bounds, Growing
    <3> QED
      BY <2>1, <1>5, <3>1, <3>2
  <2>2. CASE q # p
    <3>1. call[q].op = "fork" => call[q].np \in Proc /\ call[q].np # p
      BY <1>1 DEF Control, Shape
    <3> QED
      BY <2>2, <3>1, <1>1, <1>5, <1>6, OtherControl
  <2> QED
    BY <2>1, <2>2
<1>9. Children'
  <2>1. e.op # "fork"
    BY <1>1, <1>2, <1>4 DEF Shape
  <2> QED
    BY <2>1, <1>5, ChildrenLeft
<1>10. Cr3Of(call[procp], procp)'
  BY <1>1, <1>2 DEF Cr3Of
<1> QED
  BY <1>7, <1>8, <1>9, <1>10 DEF Control

\* execv() gives the process its new directory.
LEMMA CommitControl ==
  ASSUME Types, Control, NEW p \in Proc, Commit(p)
  PROVE  Types' /\ Control'
<1> PICK c \in Call : c = call[p]
  BY DEF Types
<1>1. /\ procp = p /\ stat[p] = "RUN" /\ c.pc = "commit"
      /\ pgdir' = [pgdir EXCEPT ![p] = c.new]
      /\ call' = [call EXCEPT ![p].new = 0, ![p].old = pgdir[p], ![p].pc = "switch"]
      /\ UNCHANGED <<free, mem, stat, pproc, kstack, size, procp, cr3, lost>>
  BY DEF Commit, At, Running
<1>2. Shape(c, p) /\ Bounds(c, p) /\ Cr3Of(c, p)
  BY <1>1 DEF Control
<1>3. PICK d \in Page : d = pgdir[p] /\ d # 0
  BY <1>1, <1>2 DEF Shape, Types
<1>4. c.new \in Page /\ c.new # 0
  BY <1>1, <1>2 DEF Shape, Growing, Call
<1>5. [c EXCEPT !.new = 0, !.old = d, !.pc = "switch"] \in Call
  BY DEF Call
<1>6. PICK e \in Call : e = [c EXCEPT !.new = 0, !.old = d, !.pc = "switch"]
  BY <1>5
<1>7. /\ e.pc = "switch" /\ e.op = c.op /\ e.np = c.np /\ e.new = 0 /\ e.old = d
      /\ e.page = c.page /\ e.img = c.img /\ e.lo = c.lo
  BY <1>6 DEF Call
<1>8. call' \in [Proc -> Call] /\ call'[p] = e /\ \A q \in Proc \ {p} : call'[q] = call[q]
  BY <1>1, <1>3, <1>6 DEF Types
<1>9. /\ pgdir' \in [Proc -> Page \cup {0}] /\ pgdir'[p] = c.new
      /\ \A q \in Proc \ {p} : pgdir'[q] = pgdir[q]
  BY <1>1, <1>4 DEF Types
<1>10. Types'
  BY <1>1, <1>8, <1>9 DEF Types
<1>11. c.op = "execv"
  BY <1>1, <1>2, Fields DEF Shape
<1>12. ASSUME NEW q \in Proc PROVE Shape(call[q], q)' /\ Bounds(call[q], q)'
  <2>1. CASE q = p
    <3>1. Shape(e, p)'
      BY <1>1, <1>2, <1>3, <1>4, <1>7, <1>9, <1>11 DEF Shape, Growing
    <3>2. Bounds(e, p)'
      BY <1>1, <1>2, <1>7 DEF Bounds, Growing
    <3> QED
      BY <2>1, <1>8, <3>1, <3>2
  <2>2. CASE q # p
    BY <2>2, <1>1, <1>8, <1>9, OtherControl
  <2> QED
    BY <2>1, <2>2
<1>13. Children'
  BY <1>7, <1>8, <1>11, ChildrenLeft
<1>14. Cr3Of(call[procp], procp)'
  BY <1>1, <1>2, <1>3, <1>7, <1>8 DEF Cr3Of
<1> QED
  BY <1>10, <1>12, <1>13, <1>14 DEF Control

\* The CPU goes on with the new directory.
LEMMA LoadCr3Control ==
  ASSUME Types, Control, NEW p \in Proc, LoadCr3(p)
  PROVE  Types' /\ Control'
<1> PICK c \in Call : c = call[p]
  BY DEF Types
<1>1. /\ procp = p /\ stat[p] = "RUN" /\ c.pc = "switch" /\ cr3' = pgdir[p]
      /\ call' = [call EXCEPT ![p].pc = "freeold"]
      /\ UNCHANGED <<free, mem, stat, pproc, kstack, pgdir, size, procp, lost>>
  BY DEF LoadCr3, At, Running, Goto, switchuvm, proc
<1>2. Shape(c, p) /\ Bounds(c, p)
  BY <1>1 DEF Control
<1>3. pgdir[p] \in Page
  BY <1>1, <1>2 DEF Shape, Types
<1>4. PICK e \in Call : e = [c EXCEPT !.pc = "freeold"]
  BY DEF Call
<1>5. /\ e.pc = "freeold" /\ e.op = c.op /\ e.np = c.np /\ e.new = c.new /\ e.old = c.old
      /\ e.page = c.page /\ e.img = c.img /\ e.lo = c.lo
  BY <1>4 DEF Call
<1>6. call' \in [Proc -> Call] /\ call'[p] = e /\ \A q \in Proc \ {p} : call'[q] = call[q]
  BY <1>1, <1>4 DEF Types
<1>7. Types'
  BY <1>1, <1>3, <1>6 DEF Types
<1>8. c.op = "execv"
  BY <1>1, <1>2, Fields DEF Shape
<1>9. ASSUME NEW q \in Proc PROVE Shape(call[q], q)' /\ Bounds(call[q], q)'
  <2>1. CASE q = p
    <3>1. Shape(e, p)'
      BY <1>1, <1>2, <1>5, <1>8 DEF Shape, Growing
    <3>2. Bounds(e, p)'
      BY <1>1, <1>2, <1>5 DEF Bounds, Growing
    <3> QED
      BY <2>1, <1>6, <3>1, <3>2
  <2>2. CASE q # p
    BY <2>2, <1>1, <1>6, OtherControl
  <2> QED
    BY <2>1, <2>2
<1>10. Children'
  BY <1>5, <1>6, <1>8, ChildrenLeft
<1>11. Cr3Of(call[procp], procp)'
  BY <1>1 DEF Cr3Of
<1> QED
  BY <1>7, <1>9, <1>10, <1>11 DEF Control

\* The old directory is gone, and the size is that of the new program.
LEMMA FreeOldControl ==
  ASSUME Types, Control, NEW p \in Proc, FreeOld(p)
  PROVE  Types' /\ Control'
<1> PICK c \in Call : c = call[p]
  BY DEF Types
<1>1. /\ procp = p /\ stat[p] = "RUN" /\ c.pc = "freeold" /\ freevm({c.old}, {})
      /\ size' = [size EXCEPT ![p] = c.lo - KERNEND] /\ call' = [call EXCEPT ![p] = User]
      /\ UNCHANGED <<stat, pproc, kstack, pgdir, procp, cr3>>
  BY DEF FreeOld, At, Running, Return, NewSize
<1>2. Shape(c, p) /\ Bounds(c, p) /\ Cr3Of(c, p)
  BY <1>1 DEF Control
<1>3. free' \subseteq Page /\ lost' \subseteq Page /\ mem' \in Mem
  <2>1. {c.old} \in SUBSET Page
    BY <1>1, <1>2 DEF Shape, Call
  <2> QED
    BY <1>1, <2>1, FreevmTypes
<1>4. PICK x \in Nat : x = c.lo - KERNEND /\ x <= USEREND - KERNEND
  <2>1. c.lo >= KERNEND /\ c.lo <= USEREND /\ c.lo \in Nat
    BY <1>1, <1>2, Fields DEF Bounds, Growing
  <2> QED
    BY <2>1, Bounded
<1>5. call' \in [Proc -> Call] /\ call'[p] = User /\ \A q \in Proc \ {p} : call'[q] = call[q]
  BY <1>1, UserIs DEF Types
<1>6. size' \in [Proc -> Nat] /\ size'[p] = x /\ \A q \in Proc \ {p} : size'[q] = size[q]
  BY <1>1, <1>4 DEF Types
<1>7. Types'
  BY <1>1, <1>3, <1>5, <1>6 DEF Types, Mem
<1>8. ASSUME NEW q \in Proc PROVE Shape(call[q], q)' /\ Bounds(call[q], q)'
  <2>1. CASE q = p
    <3>1. Shape(User, p)'
      BY <1>1, <1>2, <1>4, <1>6, UserIs DEF Shape, Growing
    <3>2. Bounds(User, p)'
      BY UserIs DEF Bounds, Growing
    <3> QED
      BY <2>1, <1>5, <3>1, <3>2
  <2>2. CASE q # p
    BY <2>2, <1>1, <1>5, <1>6, OtherControl
  <2> QED
    BY <2>1, <2>2
<1>9. Children'
  BY <1>5, UserIs, ChildrenLeft
<1>10. Cr3Of(call[procp], procp)'
  BY <1>1, <1>2 DEF Cr3Of
<1> QED
  BY <1>7, <1>8, <1>9, <1>10 DEF Control

\* The process that runs next has a directory, which the CPU then uses.
LEMMA SwitchControl ==
  ASSUME Types, Control, NEW p \in Proc, Switch(p)
  PROVE  Types' /\ Control'
<1>1. /\ stat[p] \in {"RUN", "SLEEP"} /\ procp' = p /\ cr3' = pgdir[p]
      /\ UNCHANGED <<free, mem, stat, pproc, kstack, pgdir, size, call, lost>>
  BY DEF Switch, proc
<1>2. pgdir[p] \in Page
  <2>1. Shape(call[p], p)
    BY DEF Control
  <2> QED
    BY <1>1, <2>1 DEF Shape, Types
<1>3. Types'
  BY <1>1, <1>2 DEF Types
<1>4. ASSUME NEW q \in Proc PROVE Shape(call[q], q)' /\ Bounds(call[q], q)'
  BY <1>1, OtherControl
<1>5. Children' /\ Cr3Of(call[procp], procp)'
  BY <1>1 DEF Control, Children, Cr3Of
<1> QED
  BY <1>3, <1>4, <1>5 DEF Control

\* uinit() leaves one process in user mode.
LEMMA InitControl ==
  ASSUME Init
  PROVE  Types /\ Control
<1> PICK u \in Page, t \in Page :
      u = 3 + KTABS /\ t = 4 + KTABS /\ \A i \in 0 .. KTABS - 1 : 3 + i \in Page
  BY Constants DEF Page
<1>1. 1 \in Page /\ 2 \in Page /\ 1 # 0 /\ 2 # 0 /\ Boot \in Proc
  BY Constants DEF Page
<1>2. mem \in [Page -> [Idx -> [pa : Page \cup {0}, u : BOOLEAN]]]
  <2>1. \A g \in Page, i \in Idx :
          (IF g = 2 /\ i < KTABS THEN [pa |-> 3 + i, u |-> TRUE]
           ELSE IF g = 2 /\ i = PDX(KERNEND) THEN [pa |-> u, u |-> TRUE]
           ELSE IF g = u /\ i = 0 THEN [pa |-> t, u |-> TRUE]
           ELSE None) \in [pa : Page \cup {0}, u : BOOLEAN]
    <3> SUFFICES ASSUME NEW i \in Idx
                 PROVE  i < KTABS => 3 + i \in Page
      BY DEF None
    <3> QED
      BY Constants DEF Idx
  <2> QED
    BY <2>1 DEF Init
<1>3. /\ call = [p \in Proc |-> User] /\ call \in [Proc -> Call]
      /\ \A p \in Proc : call[p] = User
  BY UserIs DEF Init
<1>4. Types
  BY <1>1, <1>2, <1>3 DEF Init, Types
<1>5. ASSUME NEW p \in Proc PROVE Shape(call[p], p)
  <2>1. size[p] \in 0 .. 1 /\ 1 <= USEREND - KERNEND
    BY Bounded, Constants DEF Init
  <2>2. size[p] <= USEREND - KERNEND
    BY <2>1, Bounded
  <2> QED
    BY <2>2, <1>1, <1>3, UserIs DEF Init, Shape, Growing
<1>6. ASSUME NEW p \in Proc PROVE Bounds(call[p], p)
  BY <1>3, UserIs DEF Bounds, Growing
<1>7. Children /\ Cr3Of(call[procp], procp)
  BY <1>1, <1>3, UserIs DEF Children, Cr3Of, Init
<1> QED
  BY <1>4, <1>5, <1>6, <1>7 DEF Control

\* A step is one of a call's or of the scheduler, or leaves memory alone: the
\* one that ends in a panic does.
LEMMA StepIs ==
  ASSUME [Next]_vars
  PROVE  UNCHANGED memory \/ \E p \in Proc : Build(p) \/ Process(p) \/ Exec(p) \/ Switch(p)
BY DEF Next, TooManyArgs, vars

\* Every step keeps the types and the control.
LEMMA ControlNext ==
  ASSUME Types, Control, [Next]_vars
  PROVE  Types' /\ Control'
<1>1. CASE UNCHANGED memory
  <2>1. UNCHANGED <<free, mem, stat, pproc, kstack, pgdir, size, procp, cr3, call, lost>>
    BY <1>1 DEF memory, proc
  <2>2. Types'
    BY <2>1 DEF Types
  <2>3. ASSUME NEW q \in Proc PROVE Shape(call[q], q)' /\ Bounds(call[q], q)'
    BY <2>1, OtherControl
  <2>4. Children' /\ Cr3Of(call[procp], procp)'
    BY <2>1 DEF Control, Children, Cr3Of
  <2> QED
    BY <2>2, <2>3, <2>4 DEF Control
<1>2. CASE \E p \in Proc : Build(p) \/ Process(p) \/ Exec(p) \/ Switch(p)
  <2>1. PICK p \in Proc : Build(p) \/ Process(p) \/ Exec(p) \/ Switch(p)
    BY <1>2
  <2>2. CASE Build(p)
    BY <2>2, NewDirControl, NewKernTableControl, GetPageControl, MapPageControl DEF Build
  <2>3. CASE Process(p)
    BY <2>3, ForkControl, ForkedControl, ExitControl, WaitControl, CollectControl,
       BadControl, UnforkControl DEF Process
  <2>4. CASE Exec(p)
    BY <2>4, ExecvControl, SegmentControl, GrownControl, LoadControl, CommitControl,
       LoadCr3Control, FreeOldControl DEF Exec
  <2> QED
    BY <2>1, <2>2, <2>3, <2>4, SwitchControl
<1> QED
  BY <1>1, <1>2, StepIs

\* The memory calls keep to their types, with memory short or not, and a call
\* has what its point in fork() or execv() says.
THEOREM VmTypeOK == Spec => []TypeOK
<1>1. Init => TypeOK /\ Control
  BY InitControl DEF TypeOK, Init
<1>2. TypeOK /\ Control /\ [Next]_vars => TypeOK' /\ Control'
  <2>1. halt \in {"no", "copyout", "wild _argv"} /\ [Next]_vars =>
          halt' \in {"no", "copyout", "wild _argv"}
    BY DEF Next, TooManyArgs, vars
  <2> QED
    BY <2>1, ControlNext DEF TypeOK
<1> QED
  BY <1>1, <1>2, PTL DEF Spec

(***************************************************************************)
(* Who refers to a page.  To(g, i) is what entry i of page g refers to,    *)
(* Var(k, p) what the k-th of p's variables does: its stack, its           *)
(* directory, and the new and the old directory and the page of its call.  *)
(* These are the slots.  The pages outside F are just those that slots     *)
(* refer to, each from one slot.                                           *)
(***************************************************************************)
To(g, i) == mem[g][i].pa

Var(k, p) ==
  IF k = 1 THEN kstack[p]
  ELSE IF k = 2 THEN pgdir[p]
  ELSE IF k = 3 THEN call[p].new
  ELSE IF k = 4 THEN call[p].old
  ELSE call[p].page

Slot == ({0} \X Page \X Idx) \cup ((1 .. 5) \X Proc \X {0})

Refers == [s \in Slot |-> IF s[1] = 0 THEN To(s[2], s[3]) ELSE Var(s[1], s[2])]

Owned(v, F) ==
  /\ v \in [Slot -> Page \cup {0}]
  /\ \A s, t \in Slot : v[s] = v[t] /\ v[s] # 0 => s = t
  /\ \A s \in Slot : v[s] \notin F
  /\ \A x \in Page \ F : \E s \in Slot : v[s] = x

\* A free page is put into a slot.
LEMMA Taken ==
  ASSUME NEW v, NEW w \in [Slot -> Page \cup {0}], NEW F \in SUBSET Page, Owned(v, F),
         NEW k \in F, NEW s \in Slot, v[s] = 0,
         \A t \in Slot : w[t] = IF t = s THEN k ELSE v[t]
  PROVE  Owned(w, F \ {k})
<1>1. \A t, u \in Slot : w[t] = w[u] /\ w[t] # 0 => t = u
  BY DEF Owned
<1>2. \A t \in Slot : w[t] \notin F \ {k}
  BY DEF Owned
<1>3. ASSUME NEW x \in Page \ (F \ {k}) PROVE \E t \in Slot : w[t] = x
  <2>1. CASE x = k
    BY <2>1
  <2>2. CASE x # k
    <3>1. PICK t \in Slot : v[t] = x
      BY <2>2 DEF Owned
    <3>2. x # 0
      BY Constants
    <3> QED
      BY <3>1, <3>2
  <2> QED
    BY <2>1, <2>2
<1> QED
  BY <1>1, <1>2, <1>3 DEF Owned

\* A page is moved to another slot.
LEMMA Passed ==
  ASSUME NEW v, NEW w \in [Slot -> Page \cup {0}], NEW F \in SUBSET Page, Owned(v, F),
         NEW r \in Slot, NEW s \in Slot, v[s] = 0, r # s,
         \A t \in Slot : w[t] = IF t = s THEN v[r] ELSE IF t = r THEN 0 ELSE v[t]
  PROVE  Owned(w, F)
<1>1. \A t, u \in Slot : w[t] = w[u] /\ w[t] # 0 => t = u
  BY DEF Owned
<1>2. \A t \in Slot : w[t] \notin F
  BY Constants DEF Owned
<1>3. ASSUME NEW x \in Page \ F PROVE \E t \in Slot : w[t] = x
  <2>1. PICK t \in Slot : v[t] = x
    BY DEF Owned
  <2>2. x # 0
    BY Constants
  <2> QED
    BY <2>1, <2>2
<1> QED
  BY <1>1, <1>2, <1>3 DEF Owned

\* The pages of S are freed, and nothing refers to them any more.
LEMMA Dropped ==
  ASSUME NEW v, NEW w \in [Slot -> Page \cup {0}], NEW F \in SUBSET Page, Owned(v, F),
         NEW S \in SUBSET Page,
         \A t \in Slot : w[t] = IF v[t] \in S THEN 0 ELSE v[t]
  PROVE  Owned(w, F \cup S)
<1>1. \A t, u \in Slot : w[t] = w[u] /\ w[t] # 0 => t = u
  BY DEF Owned
<1>2. \A t \in Slot : w[t] \notin F \cup S
  BY Constants DEF Owned
<1>3. ASSUME NEW x \in Page \ (F \cup S) PROVE \E t \in Slot : w[t] = x
  <2>1. PICK t \in Slot : v[t] = x
    BY DEF Owned
  <2> QED
    BY <2>1
<1> QED
  BY <1>1, <1>2, <1>3 DEF Owned

\* A slot is an entry of a page or a variable of a process.
LEMMA Slots ==
  /\ \A g \in Page, i \in Idx : <<0, g, i>> \in Slot
  /\ \A k \in 1 .. 5, p \in Proc : <<k, p, 0>> \in Slot
  /\ \A s \in Slot : \/ \E g \in Page, i \in Idx : s = <<0, g, i>>
                     \/ \E k \in 1 .. 5, p \in Proc : s = <<k, p, 0>>
  BY DEF Slot

\* What the slots refer to.
LEMMA RefersAt ==
  /\ \A g \in Page, i \in Idx : Refers[<<0, g, i>>] = To(g, i)
  /\ \A k \in 1 .. 5, p \in Proc : Refers[<<k, p, 0>>] = Var(k, p)
  BY Slots DEF Refers

\* The same after a step.
LEMMA RefersAtNext ==
  (/\ \A g \in Page, i \in Idx : Refers[<<0, g, i>>] = To(g, i)
   /\ \A k \in 1 .. 5, p \in Proc : Refers[<<k, p, 0>>] = Var(k, p))'
  BY RefersAt, PTL

\* The five variables.
LEMMA VarIs ==
  \A p \in Proc : /\ Var(1, p) = kstack[p] /\ Var(2, p) = pgdir[p] /\ Var(3, p) = call[p].new
                  /\ Var(4, p) = call[p].old /\ Var(5, p) = call[p].page
  BY DEF Var

\* The same after a step.
LEMMA VarIsNext ==
  \A p \in Proc :
    /\ Var(1, p)' = kstack'[p] /\ Var(2, p)' = pgdir'[p] /\ Var(3, p)' = call'[p].new
    /\ Var(4, p)' = call'[p].old /\ Var(5, p)' = call'[p].page
  BY DEF Var

\* A slot refers to a page or to nothing.
LEMMA RefersType ==
  Types => /\ Refers \in [Slot -> Page \cup {0}]
           /\ \A g \in Page, i \in Idx : To(g, i) \in Page \cup {0}
           /\ \A k \in 1 .. 5, p \in Proc : Var(k, p) \in Page \cup {0}
<1> SUFFICES ASSUME Types
             PROVE  /\ Refers \in [Slot -> Page \cup {0}]
                    /\ \A g \in Page, i \in Idx : To(g, i) \in Page \cup {0}
                    /\ \A k \in 1 .. 5, p \in Proc : Var(k, p) \in Page \cup {0}
  OBVIOUS
<1>1. \A g \in Page, i \in Idx : To(g, i) \in Page \cup {0}
  BY DEF Types, To
<1>2. \A k \in 1 .. 5, p \in Proc : Var(k, p) \in Page \cup {0}
  BY Fields DEF Types, Var
<1>3. ASSUME NEW s \in Slot PROVE Refers[s] \in Page \cup {0}
  BY <1>1, <1>2, Slots, RefersAt
<1> QED
  BY <1>1, <1>2, <1>3 DEF Refers

\* The same after a step.
LEMMA RefersTypeNext ==
  Types' => /\ Refers' \in [Slot -> Page \cup {0}]
            /\ \A g \in Page, i \in Idx : To(g, i)' \in Page \cup {0}
            /\ \A k \in 1 .. 5, p \in Proc : Var(k, p)' \in Page \cup {0}
<1>1. (Types => /\ Refers \in [Slot -> Page \cup {0}]
                /\ \A g \in Page, i \in Idx : To(g, i) \in Page \cup {0}
                /\ \A k \in 1 .. 5, p \in Proc : Var(k, p) \in Page \cup {0})'
  BY RefersType, PTL
<1> QED
  BY <1>1

(***************************************************************************)
(* The inductive invariant: who owns what, and how far a directory goes.   *)
(***************************************************************************)
IsDir(g)  == \E k \in 2 .. 4, p \in Proc : Var(k, p) = g
IsUTab(g) == \E d \in Page, i \in UIdx : IsDir(d) /\ To(d, i) = g

\* Only directories and the tables of their user part refer to pages.
Blank == \A g \in Page, i \in Idx : To(g, i) # 0 => IsDir(g) \/ IsUTab(g)

Own == free \cap lost = {} /\ Owned(Refers, free \cup lost) /\ Blank

\* The directory d has the first c tables of the kernel.
KernUpto(d, c) == \A i \in KIdx : To(d, i) # 0 <=> i < c

\* It has no page from top on.
Below(d, top) ==
  \A i \in UIdx, j \in Idx : To(d, i) # 0 /\ To(To(d, i), j) # 0 => Addr(i, j) < top

\* Where the image of p's directory ends, and that of the one c builds.
PTop(c, p) == IF c.pc \in {"switch", "freeold"} THEN c.lo ELSE KERNEND + size[p]

NTop(c) == IF c.pc = "ktab" THEN KERNEND
           ELSE IF c.pc \in {"page", "map"} THEN c.va
           ELSE IF c.pc \in {"seg", "load", "commit"} THEN c.lo
           ELSE USEREND

\* The kernel's tables that c's directory has: all when c is past "ktab".
KernOf(c) ==
  \E n \in 0 .. KTABS : /\ KernUpto(c.new, n)
                        /\ c.pc = "ktab" => n < KTABS
                        /\ c.pc \in Growing => n = KTABS

TreesOf(c, p) ==
  /\ pgdir[p] # 0 => KernUpto(pgdir[p], KTABS) /\ Below(pgdir[p], PTop(c, p))
  /\ c.old # 0 => KernUpto(c.old, KTABS) /\ Below(c.old, USEREND)
  /\ c.new # 0 => KernOf(c) /\ Below(c.new, NTop(c))

Trees == \A p \in Proc : TreesOf(call[p], p)

\* A page has one reference, and a free page none.
LEMMA Unique ==
  ASSUME Types, Owned(Refers, free \cup lost)
  PROVE  /\ \A g, h \in Page, i, j \in Idx : To(g, i) = To(h, j) /\ To(g, i) # 0 => g = h /\ i = j
         /\ \A g \in Page, i \in Idx, k \in 1 .. 5, p \in Proc : To(g, i) # 0 => To(g, i) # Var(k, p)
         /\ \A k, l \in 1 .. 5, p, q \in Proc :
              Var(k, p) = Var(l, q) /\ Var(k, p) # 0 => k = l /\ p = q
         /\ \A g \in Page, i \in Idx : To(g, i) \notin free /\ To(g, i) \notin lost
         /\ \A k \in 1 .. 5, p \in Proc : Var(k, p) \notin free /\ Var(k, p) \notin lost
<1>1. /\ \A s, t \in Slot : Refers[s] = Refers[t] /\ Refers[s] # 0 => s = t
      /\ \A s \in Slot : Refers[s] \notin free \cup lost
  BY DEF Owned
<1>2. ASSUME NEW g \in Page, NEW h \in Page, NEW i \in Idx, NEW j \in Idx,
             To(g, i) = To(h, j), To(g, i) # 0
      PROVE  g = h /\ i = j
  <2>1. <<0, g, i>> \in Slot /\ <<0, h, j>> \in Slot
    BY Slots
  <2>2. <<0, g, i>> = <<0, h, j>>
    BY <1>1, <1>2, <2>1, RefersAt
  <2> QED
    BY <2>2
<1>3. ASSUME NEW g \in Page, NEW i \in Idx, NEW k \in 1 .. 5, NEW p \in Proc, To(g, i) # 0
      PROVE  To(g, i) # Var(k, p)
  <2>1. <<0, g, i>> \in Slot /\ <<k, p, 0>> \in Slot
    BY Slots
  <2>2. <<0, g, i>> # <<k, p, 0>>
    OBVIOUS
  <2> QED
    BY <1>1, <1>3, <2>1, <2>2, RefersAt
<1>4. ASSUME NEW k \in 1 .. 5, NEW l \in 1 .. 5, NEW p \in Proc, NEW q \in Proc,
             Var(k, p) = Var(l, q), Var(k, p) # 0
      PROVE  k = l /\ p = q
  <2>1. <<k, p, 0>> \in Slot /\ <<l, q, 0>> \in Slot
    BY Slots
  <2>2. <<k, p, 0>> = <<l, q, 0>>
    BY <1>1, <1>4, <2>1, RefersAt
  <2> QED
    BY <2>2
<1>5. \A g \in Page, i \in Idx : To(g, i) \notin free /\ To(g, i) \notin lost
  BY <1>1, Slots, RefersAt
<1>6. \A k \in 1 .. 5, p \in Proc : Var(k, p) \notin free /\ Var(k, p) \notin lost
  BY <1>1, Slots, RefersAt
<1> QED
  BY <1>2, <1>3, <1>4, <1>5, <1>6

\* A page that is neither a directory nor a table of user space refers to
\* nothing: a free or lost page, a stack, a page of a program, a table of
\* the kernel.
LEMMA Blanks ==
  ASSUME Types, Own
  PROVE  /\ \A g \in free \cup lost, i \in Idx : To(g, i) = 0
         /\ \A k \in {1, 5}, p \in Proc, i \in Idx : Var(k, p) # 0 => To(Var(k, p), i) = 0
         /\ \A d \in Page, n \in KIdx, i \in Idx : To(d, n) # 0 => To(To(d, n), i) = 0
         /\ \A d \in Page, n \in UIdx, j \in Idx, i \in Idx :
              IsDir(d) /\ To(d, n) # 0 /\ To(To(d, n), j) # 0 => To(To(To(d, n), j), i) = 0
         /\ \A d \in Page, n \in Idx : To(d, n) # 0 => ~IsDir(To(d, n))
<1>1. /\ \A g \in Page, i \in Idx : To(g, i) \in Page \cup {0}
      /\ \A k \in 1 .. 5, p \in Proc : Var(k, p) \in Page \cup {0}
      /\ free \subseteq Page /\ lost \subseteq Page
  BY RefersType DEF Types
<1>2. Owned(Refers, free \cup lost) /\ Blank
  BY DEF Own
<1>3. /\ \A g, h \in Page, i, j \in Idx : To(g, i) = To(h, j) /\ To(g, i) # 0 => g = h /\ i = j
      /\ \A g \in Page, i \in Idx, k \in 1 .. 5, p \in Proc : To(g, i) # 0 => To(g, i) # Var(k, p)
      /\ \A k, l \in 1 .. 5, p, q \in Proc :
           Var(k, p) = Var(l, q) /\ Var(k, p) # 0 => k = l /\ p = q
      /\ \A g \in Page, i \in Idx : To(g, i) \notin free /\ To(g, i) \notin lost
      /\ \A k \in 1 .. 5, p \in Proc : Var(k, p) \notin free /\ Var(k, p) \notin lost
  BY <1>2, Unique
<1>4. KIdx \subseteq Idx /\ UIdx \subseteq Idx /\ KIdx \cap UIdx = {}
  BY Indexes, Bounded DEF KIdx, UIdx
<1>5. ASSUME NEW g \in free \cup lost PROVE ~IsDir(g) /\ ~IsUTab(g)
  BY <1>3, <1>4 DEF IsDir, IsUTab
<1>6. ASSUME NEW k \in {1, 5}, NEW p \in Proc, Var(k, p) # 0
      PROVE  Var(k, p) \in Page /\ ~IsDir(Var(k, p)) /\ ~IsUTab(Var(k, p))
  BY <1>1, <1>3, <1>4, <1>6 DEF IsDir, IsUTab
<1>7. ASSUME NEW d \in Page, NEW n \in Idx, To(d, n) # 0
      PROVE  To(d, n) \in Page /\ ~IsDir(To(d, n))
  BY <1>1, <1>3, <1>7 DEF IsDir
<1>8. ASSUME NEW d \in Page, NEW n \in KIdx, To(d, n) # 0 PROVE ~IsUTab(To(d, n))
  BY <1>3, <1>4, <1>8 DEF IsUTab
<1>9. ASSUME NEW d \in Page, NEW n \in UIdx, NEW j \in Idx,
             IsDir(d), To(d, n) # 0, To(To(d, n), j) # 0
      PROVE  ~IsUTab(To(To(d, n), j))
  <2>1. To(d, n) \in Page /\ ~IsDir(To(d, n))
    BY <1>4, <1>7, <1>9
  <2> SUFFICES ASSUME NEW e \in Page, NEW m \in UIdx, IsDir(e), To(e, m) = To(To(d, n), j)
               PROVE  FALSE
    BY DEF IsUTab
  <2>2. e = To(d, n)
    BY <1>3, <1>4, <1>9, <2>1
  <2> QED
    BY <2>1, <2>2
<1>10. ASSUME NEW g \in Page, ~IsDir(g), ~IsUTab(g), NEW i \in Idx PROVE To(g, i) = 0
  BY <1>2, <1>10 DEF Blank
<1>11. \A g \in free \cup lost, i \in Idx : To(g, i) = 0
  BY <1>1, <1>5, <1>10
<1>12. \A k \in {1, 5}, p \in Proc, i \in Idx : Var(k, p) # 0 => To(Var(k, p), i) = 0
  BY <1>6, <1>10
<1>13. \A d \in Page, n \in KIdx, i \in Idx : To(d, n) # 0 => To(To(d, n), i) = 0
  BY <1>4, <1>7, <1>8, <1>10
<1>14. \A d \in Page, n \in UIdx, j \in Idx, i \in Idx :
         IsDir(d) /\ To(d, n) # 0 /\ To(To(d, n), j) # 0 => To(To(To(d, n), j), i) = 0
  BY <1>4, <1>7, <1>9, <1>10
<1> QED
  BY <1>7, <1>11, <1>12, <1>13, <1>14

(***************************************************************************)
(* Ownership, for each way a step changes the slots.                       *)
(***************************************************************************)
SameTo == \A g \in Page, i \in Idx : To(g, i)' = To(g, i)

\* What a directory refers to stays, and it stays a directory.
LEMMA BlankSame ==
  ASSUME Blank, SameTo, \A g \in Page : IsDir(g) => IsDir(g)'
  PROVE  Blank'
<1> SUFFICES ASSUME NEW g \in Page, NEW i \in Idx, To(g, i)' # 0
             PROVE  IsDir(g)' \/ IsUTab(g)'
  BY DEF Blank
<1>1. IsDir(g) \/ IsUTab(g)
  BY DEF Blank, SameTo
<1>2. CASE IsUTab(g)
  <2>1. PICK d \in Page, n \in UIdx : IsDir(d) /\ To(d, n) = g
    BY <1>2 DEF IsUTab
  <2>2. IsDir(d)' /\ To(d, n)' = g
    BY <2>1, Indexes DEF SameTo
  <2> QED
    BY <2>2 DEF IsUTab
<1> QED
  BY <1>1, <1>2

\* No slot changes.
LEMMA QuietOwn ==
  ASSUME Types, Types', Own, SameTo, \A k \in 1 .. 5, p \in Proc : Var(k, p)' = Var(k, p),
         free' = free, lost' = lost
  PROVE  Own'
<1>1. \A s \in Slot : Refers'[s] = Refers[s]
  BY Slots, RefersAt, RefersAtNext DEF SameTo
<1>2. Refers' = Refers
  BY <1>1 DEF Refers
<1>3. Blank'
  BY BlankSame DEF Own, IsDir
<1> QED
  BY <1>2, <1>3 DEF Own, Owned

\* A variable takes a free page.
LEMMA TakeVar ==
  ASSUME Types, Types', Own, NEW x \in free, free' = free \ {x}, lost' = lost, SameTo,
         NEW k \in 1 .. 5, NEW p \in Proc, Var(k, p) = 0, Var(k, p)' = x,
         \A l \in 1 .. 5, q \in Proc : ~(l = k /\ q = p) => Var(l, q)' = Var(l, q)
  PROVE  Own'
<1>1. Owned(Refers, free \cup lost) /\ Refers' \in [Slot -> Page \cup {0}] /\ free \cap lost = {}
  BY RefersTypeNext DEF Own
<1>2. <<k, p, 0>> \in Slot /\ Refers[<<k, p, 0>>] = 0
  BY Slots, RefersAt
<1>3. \A t \in Slot : Refers'[t] = IF t = <<k, p, 0>> THEN x ELSE Refers[t]
  <2>1. ASSUME NEW g \in Page, NEW i \in Idx
        PROVE  Refers'[<<0, g, i>>] = Refers[<<0, g, i>>] /\ <<0, g, i>> # <<k, p, 0>>
    <3>1. Refers[<<0, g, i>>] = To(g, i) /\ Refers'[<<0, g, i>>] = To(g, i)'
      BY RefersAt, RefersAtNext
    <3> QED
      BY <3>1 DEF SameTo
  <2>2. \A l \in 1 .. 5, q \in Proc :
          Refers'[<<l, q, 0>>] = IF <<l, q, 0>> = <<k, p, 0>> THEN x ELSE Refers[<<l, q, 0>>]
    BY RefersAt, RefersAtNext
  <2> QED
    BY <2>1, <2>2, Slots
<1>4. x \in free \cup lost /\ free \cup lost \in SUBSET Page /\ free' \cup lost' = (free \cup lost) \ {x}
  BY <1>1 DEF Types
<1>5. Owned(Refers', (free \cup lost) \ {x})
  BY <1>1, <1>2, <1>3, <1>4, Taken
<1>6. ASSUME NEW g \in Page, IsDir(g) PROVE IsDir(g)'
  <2>1. PICK l \in 2 .. 4, q \in Proc : Var(l, q) = g
    BY <1>6 DEF IsDir
  <2>2. Var(l, q)' = g
    BY <2>1, Constants
  <2> QED
    BY <2>1, <2>2 DEF IsDir
<1>7. Blank'
  BY <1>6, BlankSame DEF Own
<1> QED
  BY <1>1, <1>4, <1>5, <1>7 DEF Own, Owned

\* An entry of a directory takes a free page.
LEMMA TakeEntry ==
  ASSUME Types, Types', Own, NEW x \in free, free' = free \ {x}, lost' = lost,
         NEW d \in Page, NEW n \in Idx, IsDir(d), To(d, n) = 0, To(d, n)' = x,
         \A g \in Page, i \in Idx : ~(g = d /\ i = n) => To(g, i)' = To(g, i),
         \A l \in 1 .. 5, q \in Proc : Var(l, q)' = Var(l, q)
  PROVE  Own'
<1>1. Owned(Refers, free \cup lost) /\ Refers' \in [Slot -> Page \cup {0}] /\ free \cap lost = {}
  BY RefersTypeNext DEF Own
<1>2. <<0, d, n>> \in Slot /\ Refers[<<0, d, n>>] = 0
  BY Slots, RefersAt
<1>3. \A t \in Slot : Refers'[t] = IF t = <<0, d, n>> THEN x ELSE Refers[t]
  <2>1. ASSUME NEW g \in Page, NEW i \in Idx
        PROVE  Refers'[<<0, g, i>>] = IF <<0, g, i>> = <<0, d, n>> THEN x ELSE Refers[<<0, g, i>>]
    <3>1. Refers[<<0, g, i>>] = To(g, i) /\ Refers'[<<0, g, i>>] = To(g, i)'
      BY RefersAt, RefersAtNext
    <3> QED
      BY <3>1
  <2>2. \A l \in 1 .. 5, q \in Proc : Refers'[<<l, q, 0>>] = Refers[<<l, q, 0>>] /\ <<l, q, 0>> # <<0, d, n>>
    BY RefersAt, RefersAtNext
  <2> QED
    BY <2>1, <2>2, Slots
<1>4. x \in free \cup lost /\ free \cup lost \in SUBSET Page /\ free' \cup lost' = (free \cup lost) \ {x}
  BY <1>1 DEF Types
<1>5. Owned(Refers', (free \cup lost) \ {x})
  BY <1>1, <1>2, <1>3, <1>4, Taken
<1>6. \A g : IsDir(g)' <=> IsDir(g)
  BY DEF IsDir
<1>7. ASSUME NEW g \in Page, IsUTab(g) PROVE IsUTab(g)'
  <2>1. PICK e \in Page, m \in UIdx : IsDir(e) /\ To(e, m) = g
    BY <1>7 DEF IsUTab
  <2>2. To(e, m)' = g
    BY <2>1, Constants, Indexes
  <2> QED
    BY <2>1, <2>2, <1>6 DEF IsUTab
<1>8. Blank'
  <2>1. ASSUME NEW g \in Page, NEW i \in Idx, To(g, i)' # 0 PROVE IsDir(g)' \/ IsUTab(g)'
    BY <2>1, <1>6, <1>7 DEF Own, Blank
  <2> QED
    BY <2>1 DEF Blank
<1> QED
  BY <1>1, <1>4, <1>5, <1>8 DEF Own, Owned

\* A page passes from one variable to another.
LEMMA PassVar ==
  ASSUME Types, Types', Own, free' = free, lost' = lost, SameTo,
         NEW l \in 2 .. 4, NEW q \in Proc, NEW k \in 2 .. 4, NEW p \in Proc,
         ~(l = k /\ q = p), Var(k, p) = 0, Var(k, p)' = Var(l, q), Var(l, q)' = 0,
         \A m \in 1 .. 5, r \in Proc : ~(m = k /\ r = p) /\ ~(m = l /\ r = q) => Var(m, r)' = Var(m, r)
  PROVE  Own'
<1>1. Owned(Refers, free \cup lost) /\ Refers' \in [Slot -> Page \cup {0}] /\ free \cap lost = {}
  BY RefersTypeNext DEF Own
<1>2. /\ k \in 1 .. 5 /\ l \in 1 .. 5 /\ <<k, p, 0>> \in Slot /\ <<l, q, 0>> \in Slot
      /\ Refers[<<k, p, 0>>] = 0 /\ Refers[<<l, q, 0>>] = Var(l, q) /\ <<l, q, 0>> # <<k, p, 0>>
  BY Slots, RefersAt
<1>3. \A t \in Slot : Refers'[t] = IF t = <<k, p, 0>> THEN Refers[<<l, q, 0>>]
                                   ELSE IF t = <<l, q, 0>> THEN 0 ELSE Refers[t]
  <2>1. ASSUME NEW g \in Page, NEW i \in Idx
        PROVE  /\ Refers'[<<0, g, i>>] = Refers[<<0, g, i>>]
               /\ <<0, g, i>> # <<k, p, 0>> /\ <<0, g, i>> # <<l, q, 0>>
    <3>1. Refers[<<0, g, i>>] = To(g, i) /\ Refers'[<<0, g, i>>] = To(g, i)'
      BY RefersAt, RefersAtNext
    <3> QED
      BY <3>1 DEF SameTo
  <2>2. \A m \in 1 .. 5, r \in Proc :
          Refers'[<<m, r, 0>>] = IF <<m, r, 0>> = <<k, p, 0>> THEN Refers[<<l, q, 0>>]
                                 ELSE IF <<m, r, 0>> = <<l, q, 0>> THEN 0 ELSE Refers[<<m, r, 0>>]
    BY <1>2, RefersAt, RefersAtNext
  <2> QED
    BY <2>1, <2>2, Slots
<1>4. Owned(Refers', free \cup lost)
  <2>1. PICK F \in SUBSET Page, w \in [Slot -> Page \cup {0}], v \in [Slot -> Page \cup {0}] :
          F = free \cup lost /\ v = Refers /\ w = Refers'
    BY <1>1, RefersType DEF Types
  <2>2. PICK a, b \in Slot : a = <<l, q, 0>> /\ b = <<k, p, 0>>
    BY <1>2
  <2>3. v[b] = 0 /\ a # b
    BY <1>2, <2>1, <2>2
  <2>4. \A s \in Slot : w[s] = IF s = b THEN v[a] ELSE IF s = a THEN 0 ELSE v[s]
    BY <1>3, <2>1, <2>2
  <2>5. Owned(v, F)
    BY <1>1, <2>1
  <2>6. Owned(w, F)
    BY <2>3, <2>4, <2>5, Passed
  <2> QED
    BY <2>1, <2>6
<1>5. ASSUME NEW g \in Page, IsDir(g) PROVE IsDir(g)'
  <2>1. PICK m \in 2 .. 4, r \in Proc : Var(m, r) = g
    BY <1>5 DEF IsDir
  <2>2. g # 0 /\ m \in 1 .. 5
    BY Constants
  <2>3. Var(m, r)' = g \/ Var(k, p)' = g
    BY <2>1, <2>2
  <2> QED
    BY <2>1, <2>3 DEF IsDir
<1>6. Blank'
  BY <1>5, BlankSame DEF Own
<1> QED
  BY <1>1, <1>4, <1>6 DEF Own, Owned

\* A call's page becomes one of the program's.
LEMMA PassEntry ==
  ASSUME Types, Types', Own, free' = free, lost' = lost,
         NEW p \in Proc, Var(5, p)' = 0, NEW t \in Page, NEW j \in Idx, IsUTab(t), To(t, j) = 0,
         To(t, j)' = Var(5, p), \A g \in Page, i \in Idx : ~(g = t /\ i = j) => To(g, i)' = To(g, i),
         \A m \in 1 .. 5, r \in Proc : ~(m = 5 /\ r = p) => Var(m, r)' = Var(m, r)
  PROVE  Own'
<1>1. Owned(Refers, free \cup lost) /\ Refers' \in [Slot -> Page \cup {0}] /\ free \cap lost = {}
  BY RefersTypeNext DEF Own
<1>2. /\ <<0, t, j>> \in Slot /\ <<5, p, 0>> \in Slot /\ Refers[<<0, t, j>>] = 0
      /\ Refers[<<5, p, 0>>] = Var(5, p) /\ <<5, p, 0>> # <<0, t, j>>
  BY Slots, RefersAt
<1>3. \A s \in Slot : Refers'[s] = IF s = <<0, t, j>> THEN Refers[<<5, p, 0>>]
                                   ELSE IF s = <<5, p, 0>> THEN 0 ELSE Refers[s]
  <2>1. ASSUME NEW g \in Page, NEW i \in Idx
        PROVE  Refers'[<<0, g, i>>] = IF <<0, g, i>> = <<0, t, j>> THEN Refers[<<5, p, 0>>]
                                      ELSE IF <<0, g, i>> = <<5, p, 0>> THEN 0
                                      ELSE Refers[<<0, g, i>>]
    <3>1. Refers[<<0, g, i>>] = To(g, i) /\ Refers'[<<0, g, i>>] = To(g, i)'
      BY RefersAt, RefersAtNext
    <3> QED
      BY <3>1, <1>2
  <2>2. ASSUME NEW m \in 1 .. 5, NEW r \in Proc
        PROVE  Refers'[<<m, r, 0>>] = IF <<m, r, 0>> = <<0, t, j>> THEN Refers[<<5, p, 0>>]
                                      ELSE IF <<m, r, 0>> = <<5, p, 0>> THEN 0
                                      ELSE Refers[<<m, r, 0>>]
    <3>1. Refers[<<m, r, 0>>] = Var(m, r) /\ Refers'[<<m, r, 0>>] = Var(m, r)'
      BY RefersAt, RefersAtNext
    <3> QED
      BY <3>1, <1>2
  <2> QED
    BY <2>1, <2>2, Slots
<1>4. Owned(Refers', free \cup lost)
  <2>1. PICK F \in SUBSET Page, w \in [Slot -> Page \cup {0}], v \in [Slot -> Page \cup {0}] :
          F = free \cup lost /\ v = Refers /\ w = Refers'
    BY <1>1, RefersType DEF Types
  <2>2. PICK a, b \in Slot : a = <<5, p, 0>> /\ b = <<0, t, j>>
    BY <1>2
  <2>3. v[b] = 0 /\ a # b
    BY <1>2, <2>1, <2>2
  <2>4. \A s \in Slot : w[s] = IF s = b THEN v[a] ELSE IF s = a THEN 0 ELSE v[s]
    BY <1>3, <2>1, <2>2
  <2>5. Owned(v, F)
    BY <1>1, <2>1
  <2>6. Owned(w, F)
    BY <2>3, <2>4, <2>5, Passed
  <2> QED
    BY <2>1, <2>6
<1>5. \A g : IsDir(g)' <=> IsDir(g)
  BY DEF IsDir
<1>6. ASSUME NEW g \in Page, IsUTab(g) PROVE IsUTab(g)'
  <2>1. PICK e \in Page, m \in UIdx : IsDir(e) /\ To(e, m) = g
    BY <1>6 DEF IsUTab
  <2>2. To(e, m)' = g
    BY <2>1, Constants, Indexes
  <2> QED
    BY <2>1, <2>2, <1>5 DEF IsUTab
<1>7. Blank'
  <2>1. ASSUME NEW g \in Page, NEW i \in Idx, To(g, i)' # 0 PROVE IsDir(g)' \/ IsUTab(g)'
    BY <2>1, <1>5, <1>6 DEF Own, Blank
  <2> QED
    BY <2>1 DEF Blank
<1> QED
  BY <1>1, <1>4, <1>7 DEF Own, Owned

\* A free page becomes a table, and a call's page one of the program's.
LEMMA PassTable ==
  ASSUME Types, Types', Own, NEW x \in free, free' = free \ {x}, lost' = lost,
         NEW p \in Proc, Var(5, p)' = 0,
         NEW d \in Page, NEW n \in UIdx, IsDir(d), To(d, n) = 0, To(d, n)' = x,
         NEW j \in Idx, To(x, j)' = Var(5, p),
         \A g \in Page, i \in Idx : ~(g = d /\ i = n) /\ ~(g = x /\ i = j) => To(g, i)' = To(g, i),
         \A m \in 1 .. 5, r \in Proc : ~(m = 5 /\ r = p) => Var(m, r)' = Var(m, r)
  PROVE  Own'
<1>1. /\ Owned(Refers, free \cup lost) /\ Refers' \in [Slot -> Page \cup {0}]
      /\ free \cap lost = {} /\ Refers \in [Slot -> Page \cup {0}] /\ n \in Idx /\ x \in Page
  BY RefersType, RefersTypeNext, Indexes DEF Own, Types
<1>2. To(x, j) = 0 /\ x # d
  <2>1. To(x, j) = 0
    BY Blanks
  <2>2. \A k \in 1 .. 5, q \in Proc : Var(k, q) # x
    BY <1>1, Unique
  <2> QED
    BY <2>1, <2>2 DEF IsDir
<1>3. PICK a, b, c : a = <<0, d, n>> /\ b = <<0, x, j>> /\ c = <<5, p, 0>>
  OBVIOUS
<1>4. /\ a \in Slot /\ b \in Slot /\ c \in Slot /\ a # b /\ a # c /\ b # c
      /\ Refers[a] = 0 /\ Refers[b] = 0 /\ Refers[c] = Var(5, p)
  BY <1>1, <1>2, <1>3, Slots, RefersAt
<1>5. \A s \in Slot : Refers'[s] = IF s = b THEN Refers[c] ELSE IF s = c THEN 0
                                   ELSE IF s = a THEN x ELSE Refers[s]
  <2>1. ASSUME NEW g \in Page, NEW i \in Idx, NEW s, s = <<0, g, i>>
        PROVE  Refers'[s] = IF s = b THEN Refers[c] ELSE IF s = c THEN 0
                            ELSE IF s = a THEN x ELSE Refers[s]
    <3>1. Refers[s] = To(g, i) /\ Refers'[s] = To(g, i)'
      BY <2>1, RefersAt, RefersAtNext
    <3> QED
      BY <2>1, <3>1, <1>2, <1>4, <1>3
  <2>2. ASSUME NEW m \in 1 .. 5, NEW r \in Proc, NEW s, s = <<m, r, 0>>
        PROVE  Refers'[s] = IF s = b THEN Refers[c] ELSE IF s = c THEN 0
                            ELSE IF s = a THEN x ELSE Refers[s]
    <3>1. Refers[s] = Var(m, r) /\ Refers'[s] = Var(m, r)'
      BY <2>2, RefersAt, RefersAtNext
    <3> QED
      BY <2>2, <3>1, <1>2, <1>4, <1>3
  <2> QED
    BY <2>1, <2>2, Slots
<1>6. x \in free \cup lost /\ free \cup lost \in SUBSET Page /\ free' \cup lost' = (free \cup lost) \ {x}
  BY <1>1 DEF Types
<1>7. PICK w : w = [Refers EXCEPT ![a] = x]
  OBVIOUS
<1>8. /\ w \in [Slot -> Page \cup {0}]
      /\ \A s \in Slot : w[s] = IF s = a THEN x ELSE Refers[s]
  BY <1>1, <1>4, <1>7
<1>9. Owned(w, (free \cup lost) \ {x})
  BY <1>1, <1>4, <1>6, <1>8, Taken
<1>10. Owned(Refers', (free \cup lost) \ {x})
  <2>1. \A s \in Slot : Refers'[s] = IF s = b THEN w[c] ELSE IF s = c THEN 0 ELSE w[s]
    BY <1>4, <1>5, <1>8
  <2>2. w[b] = 0
    BY <1>4, <1>8
  <2>3. PICK F \in SUBSET Page, v \in [Slot -> Page \cup {0}] :
          F = (free \cup lost) \ {x} /\ v = Refers'
    BY <1>1, <1>6
  <2>4. \A s \in Slot : v[s] = IF s = b THEN w[c] ELSE IF s = c THEN 0 ELSE w[s]
    BY <2>1, <2>3
  <2>5. Owned(w, F)
    BY <2>3, <1>9
  <2>6. Owned(v, F)
    BY <2>2, <2>4, <2>5, <1>4, Passed
  <2> QED
    BY <2>3, <2>6
<1>11. \A g : IsDir(g)' <=> IsDir(g)
  BY DEF IsDir
<1>12. IsUTab(x)'
  BY <1>11 DEF IsUTab
<1>13. ASSUME NEW g \in Page, IsUTab(g) PROVE IsUTab(g)'
  <2>1. PICK e \in Page, m \in UIdx : IsDir(e) /\ To(e, m) = g
    BY <1>13 DEF IsUTab
  <2>2. To(e, m)' = g
    BY <2>1, <1>2, Constants, Indexes
  <2> QED
    BY <2>1, <2>2, <1>11 DEF IsUTab
<1>14. Blank'
  <2>1. ASSUME NEW g \in Page, NEW i \in Idx, To(g, i)' # 0 PROVE IsDir(g)' \/ IsUTab(g)'
    BY <2>1, <1>11, <1>12, <1>13 DEF Own, Blank
  <2> QED
    BY <2>1 DEF Blank
<1> QED
  BY <1>1, <1>6, <1>10, <1>14 DEF Own, Owned

\* Pages are freed or lost, and nothing refers to them any more.
LEMMA DropPages ==
  ASSUME Types, Types', Own, NEW S \in SUBSET Page,
         free' \cup lost' = free \cup lost \cup S, free' \cap lost' = {},
         \A g \in S, i \in Idx : To(g, i) \in S \cup {0},
         \A g \in Page, i \in Idx : To(g, i)' = IF To(g, i) \in S THEN 0 ELSE To(g, i),
         \A m \in 1 .. 5, r \in Proc : Var(m, r)' = IF Var(m, r) \in S THEN 0 ELSE Var(m, r)
  PROVE  Own'
<1>1. /\ Owned(Refers, free \cup lost) /\ Refers' \in [Slot -> Page \cup {0}]
      /\ free \cup lost \in SUBSET Page
  BY RefersTypeNext DEF Own, Types
<1>2. \A s \in Slot : Refers'[s] = IF Refers[s] \in S THEN 0 ELSE Refers[s]
  <2>1. ASSUME NEW g \in Page, NEW i \in Idx, NEW s, s = <<0, g, i>>
        PROVE  Refers'[s] = IF Refers[s] \in S THEN 0 ELSE Refers[s]
    BY <2>1, RefersAt, RefersAtNext
  <2>2. ASSUME NEW m \in 1 .. 5, NEW r \in Proc, NEW s, s = <<m, r, 0>>
        PROVE  Refers'[s] = IF Refers[s] \in S THEN 0 ELSE Refers[s]
    BY <2>2, RefersAt, RefersAtNext
  <2> QED
    BY <2>1, <2>2, Slots
<1>3. Owned(Refers', (free \cup lost) \cup S)
  BY <1>1, <1>2, Dropped
<1>4. ASSUME NEW g \in Page, g \notin S, IsDir(g) PROVE IsDir(g)'
  BY <1>4 DEF IsDir
<1>5. ASSUME NEW g \in Page, NEW i \in Idx, To(g, i)' # 0 PROVE IsDir(g)' \/ IsUTab(g)'
  <2>1. To(g, i) # 0 /\ To(g, i) \notin S /\ g \notin S
    BY <1>5
  <2>2. CASE IsUTab(g)
    <3>1. PICK e \in Page, m \in UIdx : IsDir(e) /\ To(e, m) = g
      BY <2>2 DEF IsUTab
    <3>2. To(e, m)' = g /\ e \notin S
      BY <2>1, <3>1, Constants, Indexes
    <3> QED
      BY <3>1, <3>2, <1>4 DEF IsUTab
  <2> QED
    BY <2>1, <2>2, <1>4 DEF Own, Blank
<1>6. Blank'
  BY <1>5 DEF Blank
<1> QED
  BY <1>3, <1>6 DEF Own, Owned

(***************************************************************************)
(* Directories that a step does not add to.                                *)
(***************************************************************************)
Kept(d) ==
  /\ \A i \in KIdx : To(d, i)' = To(d, i)
  /\ \A i \in UIdx, t \in Page :
       To(d, i)' = t => To(d, i) = t /\ \A j \in Idx : To(t, j)' # 0 => To(t, j) # 0

\* A directory that keeps its tables, and whose tables get no page, keeps
\* what it has of the kernel, and its bound.
LEMMA KeptTree ==
  ASSUME Types', NEW d \in Page, Kept(d)
  PROVE  /\ \A n : KernUpto(d, n) => KernUpto(d, n)'
         /\ \A top : Below(d, top) => Below(d, top)'
<1>1. ASSUME NEW n, KernUpto(d, n) PROVE KernUpto(d, n)'
  BY <1>1 DEF Kept, KernUpto
<1>2. ASSUME NEW top, Below(d, top) PROVE Below(d, top)'
  <2> SUFFICES ASSUME NEW i \in UIdx, NEW j \in Idx, To(d, i)' # 0, (To(To(d, i), j) # 0)'
               PROVE  Addr(i, j) < top
    BY DEF Below
  <2>1. PICK t \in Page : t = To(d, i)'
    BY RefersTypeNext, Indexes
  <2>2. To(t, j)' # 0
    BY <2>1
  <2>3. To(d, i) = t /\ To(t, j) # 0
    BY <2>1, <2>2 DEF Kept
  <2> QED
    BY <2>3, <1>2, Constants DEF Below
<1> QED
  BY <1>1, <1>2

\* A step that changes no entry.
LEMMA SameKept ==
  ASSUME SameTo, NEW d \in Page
  PROVE  Kept(d)
  BY Indexes DEF SameTo, Kept

\* A process that a step leaves alone keeps its trees.
LEMMA OtherTrees ==
  ASSUME Types, Types', Trees, NEW q \in Proc, call'[q] = call[q], pgdir'[q] = pgdir[q],
         size'[q] = size[q], \A d \in Page : d \in {pgdir[q], call[q].new, call[q].old} => Kept(d)
  PROVE  TreesOf(call[q], q)'
<1> PICK c \in Call, d \in Page \cup {0} : c = call[q] /\ d = pgdir[q]
  BY DEF Types
<1> PICK top : top = PTop(c, q)
  OBVIOUS
<1>1. TreesOf(c, q) /\ c.new \in Page \cup {0} /\ c.old \in Page \cup {0}
  BY Fields DEF Trees
<1>2. PTop(c, q)' = top
  BY DEF PTop
<1>3. d # 0 => KernUpto(d, KTABS)' /\ Below(d, top)'
  <2>1. d # 0 => KernUpto(d, KTABS) /\ Below(d, top)
    BY <1>1 DEF TreesOf
  <2> QED
    BY <2>1, KeptTree
<1> PICK o, w, wtop : o = c.old /\ w = c.new /\ wtop = NTop(c)
  OBVIOUS
<1>4. o # 0 => KernUpto(o, KTABS)' /\ Below(o, USEREND)'
  <2>1. o # 0 => KernUpto(o, KTABS) /\ Below(o, USEREND)
    BY <1>1 DEF TreesOf
  <2> QED
    BY <2>1, <1>1, KeptTree
<1>5. w # 0 => KernOf(c)' /\ Below(w, wtop)'
  <2> SUFFICES ASSUME w # 0 PROVE KernOf(c)' /\ Below(w, wtop)'
    OBVIOUS
  <2>1. KernOf(c) /\ Below(w, wtop) /\ w \in Page /\ Kept(w)
    BY <1>1 DEF TreesOf
  <2>2. PICK n \in 0 .. KTABS : /\ KernUpto(w, n)
                                /\ c.pc = "ktab" => n < KTABS
                                /\ c.pc \in Growing => n = KTABS
    BY <2>1 DEF KernOf
  <2>3. KernUpto(w, n)' /\ Below(w, wtop)'
    BY <2>1, <2>2, KeptTree
  <2> QED
    BY <2>2, <2>3 DEF KernOf
<1> QED
  BY <1>2, <1>3, <1>4, <1>5 DEF TreesOf, NTop

\* The directories of different processes, and of one, are different.
LEMMA DirsDiffer ==
  ASSUME Types, Own, NEW p \in Proc, NEW d \in Page
  PROVE  /\ d \in {pgdir[p], call[p].new, call[p].old} => IsDir(d)
         /\ d = call[p].new => d # pgdir[p] /\ d # call[p].old
         /\ \A q \in Proc \ {p} : d = call[p].new => d \notin {pgdir[q], call[q].new, call[q].old}
<1>1. /\ \A k, l \in 1 .. 5, r, q \in Proc : Var(k, r) = Var(l, q) /\ Var(k, r) # 0 => k = l /\ r = q
      /\ d # 0
  BY Unique, Constants DEF Own
<1>2. 2 \in 2 .. 4 /\ 3 \in 2 .. 4 /\ 4 \in 2 .. 4 /\ 2 \in 1 .. 5 /\ 3 \in 1 .. 5 /\ 4 \in 1 .. 5
  OBVIOUS
<1>3. d \in {pgdir[p], call[p].new, call[p].old} => IsDir(d)
  BY <1>2, VarIs DEF IsDir
<1>4. ASSUME d = Var(3, p) PROVE d # Var(2, p) /\ d # Var(4, p)
  BY <1>1, <1>2, <1>4
<1>5. ASSUME d = Var(3, p), NEW q \in Proc \ {p}
      PROVE  d # Var(2, q) /\ d # Var(3, q) /\ d # Var(4, q)
  BY <1>1, <1>2, <1>5
<1> QED
  BY <1>3, <1>4, <1>5, VarIs

\* A step of a call that builds a directory, from c to e.
LEMMA BuildTrees ==
  ASSUME Types, Types', Own, Trees, NEW p \in Proc, NEW c \in Call, c = call[p],
         NEW e \in Call, e = call'[p], \A q \in Proc \ {p} : call'[q] = call[q],
         pgdir' = pgdir, size' = size, e.old = 0,
         c.pc \notin {"switch", "freeold"}, e.pc \notin {"switch", "freeold"},
         \A d \in Page : IsDir(d) /\ d # c.new => Kept(d),
         e.new # 0 => KernOf(e)' /\ Below(e.new, NTop(e))'
  PROVE  Trees'
<1>1. ASSUME NEW q \in Proc, q # p PROVE TreesOf(call[q], q)'
  <2>1. ASSUME NEW d \in Page, d \in {pgdir[q], call[q].new, call[q].old} PROVE Kept(d)
    <3>1. IsDir(d)
      BY <2>1, DirsDiffer
    <3>2. d # c.new
      BY <1>1, <2>1, DirsDiffer
    <3> QED
      BY <3>1, <3>2
  <2> QED
    BY <1>1, <2>1, OtherTrees
<1>2. TreesOf(e, p)'
  <2> PICK d \in Page \cup {0} : d = pgdir[p]
    BY DEF Types
  <2> PICK top : top = KERNEND + size[p]
    OBVIOUS
  <2>1. PTop(c, p) = top /\ PTop(e, p)' = top
    BY DEF PTop
  <2>2. d # 0 => KernUpto(d, KTABS)' /\ Below(d, top)'
    <3> SUFFICES ASSUME d # 0 PROVE KernUpto(d, KTABS)' /\ Below(d, top)'
      OBVIOUS
    <3>1. TreesOf(c, p)
      BY DEF Trees
    <3>2. KernUpto(d, KTABS) /\ Below(d, top)
      BY <2>1, <3>1 DEF TreesOf
    <3>3. d \in Page /\ IsDir(d) /\ d # c.new
      BY DirsDiffer
    <3> QED
      BY <3>2, <3>3, KeptTree
  <2> QED
    BY <2>1, <2>2 DEF TreesOf
<1> QED
  BY <1>1, <1>2 DEF Trees

\* The same, when the step adds nothing to the directory and there is no
\* page between where it was to end and where it is to end now.
LEMMA SameTrees ==
  ASSUME Types, Types', Own, Trees, NEW p \in Proc, NEW c \in Call, c = call[p],
         NEW e \in Call, e = call'[p], \A q \in Proc \ {p} : call'[q] = call[q],
         pgdir' = pgdir, size' = size, e.old = 0,
         c.pc \notin {"switch", "freeold"}, e.pc \notin {"switch", "freeold"},
         \A d \in Page : IsDir(d) => Kept(d), e.new \in {c.new, 0},
         e.new # 0 => /\ e.pc = "ktab" => c.pc = "ktab"
                      /\ e.pc \in Growing => c.pc \in Growing
                      /\ \A a \in Nat : a % PAGESIZE = 0 /\ a < NTop(c) => a < NTop(e)
  PROVE  Trees'
<1>1. ASSUME e.new # 0 PROVE KernOf(e)' /\ Below(e.new, NTop(e))'
  <2> PICK d \in Page : d = e.new /\ d = c.new
    BY <1>1 DEF Call
  <2>1. IsDir(d) /\ Kept(d)
    BY DirsDiffer
  <2>2. TreesOf(c, p) /\ d # 0
    BY <1>1 DEF Trees
  <2>3. PICK n \in 0 .. KTABS : /\ KernUpto(d, n)
                                /\ c.pc = "ktab" => n < KTABS
                                /\ c.pc \in Growing => n = KTABS
    BY <2>2 DEF TreesOf, KernOf
  <2>4. KernUpto(d, n)'
    BY <2>1, <2>3, KeptTree
  <2>5. KernOf(e)'
    BY <1>1, <2>3, <2>4 DEF KernOf
  <2> PICK top : top = NTop(e)
    OBVIOUS
  <2>6. Below(d, NTop(c))
    BY <2>2 DEF TreesOf
  <2>7. Below(d, top)
    BY <1>1, <2>6, Encode DEF Below
  <2>8. Below(d, top)'
    BY <2>1, <2>7, KeptTree
  <2> QED
    BY <2>5, <2>8 DEF NTop
<1> QED
  BY <1>1, BuildTrees

\* A step of a call that moves no page.
LEMMA QuietCall ==
  ASSUME Types, Types', Own, Trees, NEW p \in Proc, NEW c \in Call, c = call[p],
         NEW e \in Call, e = call'[p], \A q \in Proc \ {p} : call'[q] = call[q],
         pgdir' = pgdir, size' = size, kstack' = kstack, free' = free, lost' = lost, SameTo,
         e.new = c.new, e.old = c.old, e.page = c.page, e.old = 0,
         c.pc \notin {"switch", "freeold"}, e.pc \notin {"switch", "freeold"},
         e.new # 0 => /\ e.pc = "ktab" => c.pc = "ktab"
                      /\ e.pc \in Growing => c.pc \in Growing
                      /\ \A a \in Nat : a % PAGESIZE = 0 /\ a < NTop(c) => a < NTop(e)
  PROVE  Own' /\ Trees'
<1>1. \A k \in 1 .. 5, q \in Proc : Var(k, q)' = Var(k, q)
  BY DEF Var
<1>2. Own'
  BY <1>1, QuietOwn
<1>3. \A d \in Page : Kept(d)
  BY SameKept
<1> QED
  BY <1>2, <1>3, SameTrees

\* A step that leaves memory alone.
LEMMA MemSame == mem' = mem => SameTo
  BY DEF SameTo, To

\* A free page that is cleared refers to what it did: to nothing.
LEMMA ClearSame ==
  ASSUME Types, Own, NEW k \in free, mem' = [mem EXCEPT ![k] = Zero]
  PROVE  SameTo
<1>1. \A i \in Idx : To(k, i) = 0
  BY Blanks
<1>2. \A g \in Page, i \in Idx : To(g, i)' = IF g = k THEN 0 ELSE To(g, i)
  BY DEF To, Types, Zero, None
<1> QED
  BY <1>1, <1>2 DEF SameTo

\* The bounds of user space, and the page.
LEMMA Spaces == KERNEND \in Nat /\ USEREND \in Nat /\ KERNEND <= USEREND /\ PAGESIZE \in Nat \ {0}
<1>1. PAGESIZE \in Nat \ {0}
  BY Constants
<1>2. KERNEND \in Nat /\ USEREND \in Nat /\ KERNEND + PAGESIZE <= USEREND
  BY Bounded
<1> QED
  BY <1>1, <1>2

\* A step to "bad:" that frees nothing, of a call that was to build on.
LEMMA FailMem ==
  ASSUME Types, Types', Control, Own, Trees, NEW p \in Proc,
         call[p].pc \in {"dir", "ktab", "seg", "load"},
         call' = [call EXCEPT ![p].pc = "bad"],
         UNCHANGED <<pgdir, size, kstack, free, lost, mem>>
  PROVE  Own' /\ Trees'
<1> PICK c \in Call : c = call[p]
  BY DEF Types
<1>1. PICK e \in Call : e = [c EXCEPT !.pc = "bad"]
  BY DEF Call
<1>2. /\ e.pc = "bad" /\ e.new = c.new /\ e.old = c.old /\ e.page = c.page
      /\ e = call'[p] /\ \A q \in Proc \ {p} : call'[q] = call[q]
  BY <1>1 DEF Call, Types
<1>3. Shape(c, p) /\ Bounds(c, p)
  BY DEF Control
<1>4. c.old = 0 /\ c.pc \in {"dir", "ktab", "seg", "load"}
  BY <1>3 DEF Shape
<1>5. e.new # 0 => NTop(c) \in Nat /\ NTop(c) <= USEREND /\ NTop(e) = USEREND /\ USEREND \in Nat
  <2>1. KERNEND \in Nat /\ USEREND \in Nat /\ KERNEND <= USEREND
    BY Spaces
  <2>2. c.lo \in Nat /\ (c.pc \in Growing => c.lo <= USEREND)
    BY <1>3, Fields DEF Bounds
  <2>3. c.pc = "ktab" => NTop(c) = KERNEND
    BY DEF NTop
  <2>4. c.pc \in {"seg", "load"} => NTop(c) = c.lo /\ c.pc \in Growing
    BY DEF NTop, Growing
  <2>5. c.pc # "dir" => NTop(c) \in Nat /\ NTop(c) <= USEREND
    BY <1>4, <2>1, <2>2, <2>3, <2>4
  <2> QED
    BY <2>1, <2>5, <1>2, <1>3 DEF NTop, Shape, Growing
<1>6. SameTo
  BY MemSame
<1>7. \A a \in Nat : e.new # 0 /\ a < NTop(c) => a < NTop(e)
  BY <1>5
<1> QED
  BY <1>2, <1>4, <1>6, <1>7, QuietCall DEF Growing

\* setupkvm()'s directory is the call's, and empty (vm.c:59-62).
LEMMA NewDirMem ==
  ASSUME Types, Types', Control, Own, Trees, NEW p \in Proc, NewDir(p)
  PROVE  Own' /\ Trees'
<1> PICK c \in Call : c = call[p]
  BY DEF Types
<1>1. c.pc = "dir" /\ UNCHANGED <<pgdir, size, kstack, lost>> /\ Shape(c, p)
  BY DEF NewDir, At, proc, Control
<1>2. CASE free = {}
  <2>1. call' = [call EXCEPT ![p].pc = "bad"] /\ UNCHANGED <<free, mem>>
    BY <1>2 DEF NewDir, Goto
  <2> QED
    BY <1>1, <2>1, FailMem
<1>3. CASE free # {}
  <2>1. PICK k \in free : k = kalloc /\ k \in Page /\ k # 0
    BY <1>3, KallocIs
  <2>2. /\ free' = free \ {k} /\ mem' = [mem EXCEPT ![k] = Zero]
        /\ call' = [call EXCEPT ![p].new = k, ![p].pc = "ktab"]
    BY <1>3, <2>1 DEF NewDir
  <2>3. PICK e \in Call : e = [c EXCEPT !.new = k, !.pc = "ktab"]
    BY <2>1 DEF Call
  <2>4. /\ e.pc = "ktab" /\ e.new = k /\ e.old = c.old /\ e.page = c.page
        /\ e = call'[p] /\ \A q \in Proc \ {p} : call'[q] = call[q]
    BY <2>2, <2>3 DEF Call, Types
  <2>5. SameTo
    BY <2>2, ClearSame
  <2>6. c.new = 0 /\ c.old = 0
    BY <1>1 DEF Shape
  <2>7. Own'
    <3>1. Var(3, p) = 0 /\ Var(3, p)' = k
      BY <2>4, <2>6 DEF Var
    <3>2. \A l \in 1 .. 5, q \in Proc : ~(l = 3 /\ q = p) => Var(l, q)' = Var(l, q)
      BY <1>1, <2>4 DEF Var
    <3> QED
      BY <1>1, <2>2, <2>5, <3>1, <3>2, TakeVar
  <2>8. \A i \in Idx : To(k, i)' = 0
    BY <2>1, <2>5, Blanks DEF SameTo
  <2>9. KernOf(e)'
    <3>1. KernUpto(k, 0)'
      BY <2>8, Indexes, Bounded DEF KernUpto, KIdx
    <3> QED
      BY <2>4, <3>1, Constants DEF KernOf, Growing
  <2>10. Below(e.new, NTop(e))'
    BY <2>4, <2>8, Indexes DEF Below
  <2>11. \A d \in Page : Kept(d)
    BY <2>5, SameKept
  <2>12. Trees'
    BY <1>1, <2>4, <2>6, <2>9, <2>10, <2>11, BuildTrees
  <2> QED
    BY <2>7, <2>12
<1> QED
  BY <1>2, <1>3

(***************************************************************************)
(* The invariant under each step that builds a directory.                  *)
(***************************************************************************)

\* A step that changes one directory, its tables and free pages keeps every
\* other directory.
LEMMA OtherKept ==
  ASSUME Types, Types', Own, NEW d \in Page, IsDir(d),
         \A g \in Page, i \in Idx :
           \/ To(g, i)' = To(g, i) \/ g = d \/ g \in free
           \/ \E n \in UIdx : To(d, n) = g
  PROVE  \A e \in Page : IsDir(e) /\ e # d => Kept(e)
<1> SUFFICES ASSUME NEW e \in Page, IsDir(e), e # d PROVE Kept(e)
  OBVIOUS
<1>1. \A g \in Page, i \in Idx : To(g, i) \in Page \cup {0}
  BY RefersType
<1>2. /\ \A g, h \in Page, i, j \in Idx : To(g, i) = To(h, j) /\ To(g, i) # 0 => g = h /\ i = j
      /\ \A g \in Page, i \in Idx : To(g, i) \notin free
      /\ \A k \in 1 .. 5, p \in Proc : Var(k, p) \notin free
  BY Unique DEF Own
<1>3. \A g \in Page, n \in Idx : To(g, n) # 0 => ~IsDir(To(g, n))
  BY Blanks
<1>4. e \notin free
  BY <1>2 DEF IsDir
<1>5. \A n \in UIdx : To(d, n) # e
  BY <1>3, Indexes, Constants
<1>6. \A i \in Idx : To(e, i)' = To(e, i)
  BY <1>4, <1>5
<1>7. ASSUME NEW i \in UIdx, NEW t \in Page, To(e, i)' = t
      PROVE  To(e, i) = t /\ \A j \in Idx : To(t, j)' = To(t, j)
  <2>1. To(e, i) = t /\ t # 0
    BY <1>6, <1>7, Indexes, Constants
  <2>2. t \notin free /\ t # d
    BY <1>2, <1>3, <2>1, Indexes
  <2>3. \A n \in UIdx : To(d, n) # t
    BY <1>2, <2>1, Indexes
  <2> QED
    BY <2>1, <2>2, <2>3
<1> QED
  BY <1>6, <1>7, Indexes DEF Kept

\* The tables of the kernel are as many as the entries that refer to them.
LEMMA KernCount ==
  ASSUME Types, Own, NEW d \in Page, NEW n \in Nat, n <= PDX(KERNEND), KernUpto(d, n)
  PROVE  Cardinality(KernTables(d)) = n
<1> PICK k \in Nat : k = PDX(KERNEND)
  BY Bounded
<1> PICK S : S = KernTables(d)
  OBVIOUS
<1>1. S = {To(d, i) : i \in KIdx} \ {0}
  BY DEF KernTables, To, KIdx
<1>2. \A i \in KIdx : i \in Nat /\ i \in Idx /\ (To(d, i) # 0 <=> i < n)
  BY Indexes DEF KernUpto, KIdx
<1>3. \A i \in 1 .. n : i - 1 \in KIdx /\ i - 1 < n
  BY DEF KIdx
<1>4. \A i, j \in KIdx : To(d, i) = To(d, j) /\ To(d, i) # 0 => i = j
  BY <1>2, Unique DEF Own
<1> PICK f : f = [i \in 1 .. n |-> To(d, i - 1)]
  OBVIOUS
<1>5. \A i \in 1 .. n : f[i] = To(d, i - 1) /\ f[i] # 0 /\ f[i] \in S
  BY <1>1, <1>2, <1>3
<1>6. f \in [1 .. n -> S]
  BY <1>5
<1>7. \A i, j \in 1 .. n : f[i] = f[j] => i = j
  BY <1>3, <1>4, <1>5
<1>8. ASSUME NEW x \in S PROVE \E i \in 1 .. n : f[i] = x
  <2>1. PICK i \in KIdx : To(d, i) = x /\ x # 0
    BY <1>1
  <2>2. i \in Nat /\ i < n /\ i + 1 \in 1 .. n /\ (i + 1) - 1 = i
    BY <1>2, <2>1
  <2> QED
    BY <1>5, <2>1, <2>2
<1>9. f \in Bijection(1 .. n, S)
  BY <1>6, <1>7, <1>8 DEF Bijection, Injection, Surjection, IsInjective
<1>10. ExistsBijection(1 .. n, S)
  BY <1>9 DEF ExistsBijection
<1>11. IsFiniteSet(1 .. n) /\ Cardinality(1 .. n) = n
  BY FS_Interval
<1> QED
  BY <1>10, <1>11, FS_Bijection

\* The directory that a call builds, and how far it has got.
LEMMA NewTree ==
  ASSUME Types, Control, Own, Trees, NEW p \in Proc, NEW c \in Call, c = call[p],
         c.pc = "ktab" \/ c.pc \in Growing
  PROVE  /\ c.new \in Page /\ IsDir(c.new) /\ c.old = 0 /\ KernOf(c) /\ Below(c.new, NTop(c))
         /\ c.new \notin free
<1>1. Shape(c, p) /\ TreesOf(c, p)
  BY DEF Control, Trees
<1>2. c.new \in Page /\ c.old = 0
  BY <1>1, Fields DEF Shape, Growing
<1>3. IsDir(c.new)
  BY <1>2, DirsDiffer
<1>4. c.new \notin free
  BY <1>3, Unique DEF IsDir, Own
<1> QED
  BY <1>1, <1>2, <1>3, <1>4, Constants DEF TreesOf

\* The next table of the kernel is the new directory's (vm.c:64-70).
LEMMA NewKernTableMem ==
  ASSUME Types, Types', Control, Own, Trees, NEW p \in Proc, NewKernTable(p)
  PROVE  Own' /\ Trees'
<1> PICK c \in Call : c = call[p]
  BY DEF Types
<1>1. c.pc = "ktab" /\ UNCHANGED <<pgdir, size, kstack, lost>> /\ Shape(c, p)
  BY DEF NewKernTable, At, proc, Control
<1>2. CASE free = {}
  <2>1. call' = [call EXCEPT ![p].pc = "bad"] /\ UNCHANGED <<free, mem>>
    BY <1>2 DEF NewKernTable, Goto
  <2> QED
    BY <1>1, <2>1, FailMem
<1>3. CASE free # {}
  <2> PICK d \in Page : d = c.new
    BY <1>1, NewTree
  <2>1. IsDir(d) /\ c.old = 0 /\ KernOf(c) /\ Below(d, NTop(c)) /\ d \notin free
    BY <1>1, NewTree
  <2>2. PICK n \in Nat : KernUpto(d, n) /\ n < KTABS
    BY <1>1, <2>1, Constants DEF KernOf
  <2>3. n \in KIdx /\ n \in Idx /\ n <= PDX(KERNEND)
    BY <2>2, Bounded, Constants, Indexes DEF KIdx
  <2>4. n = Cardinality(KernTables(d))
    BY <2>2, <2>3, KernCount
  <2>5. PICK k \in free : k = kalloc /\ k \in Page /\ k # 0
    BY <1>3, KallocIs
  <2>6. /\ free' = free \ {k}
        /\ mem' = [mem EXCEPT ![k] = Zero, ![d][n] = [pa |-> k, u |-> TRUE]]
        /\ call' = IF n + 1 < KTABS THEN call
                   ELSE [call EXCEPT ![p].pc = AfterSetup(p).pc, ![p].lo = KERNEND,
                                     ![p].va = KERNEND, ![p].end = AfterSetup(p).end]
    BY <1>3, <2>4, <2>5 DEF NewKernTable
  <2>7. \A g \in Page, i \in Idx : To(g, i)' = IF g = d /\ i = n THEN k ELSE To(g, i)
    <3>1. \A g \in Page, i \in Idx :
            To(g, i)' = IF g = d /\ i = n THEN k ELSE IF g = k THEN Zero[i].pa ELSE To(g, i)
      <4>1. Zero \in [Idx -> [pa : Page \cup {0}, u : BOOLEAN]] /\ d # k
        BY <2>1 DEF Zero, None
      <4>2. PICK z \in [Idx -> [pa : Page \cup {0}, u : BOOLEAN]] : z = Zero
        BY <4>1
      <4>6. PICK e : e = [pa |-> k, u |-> TRUE]
        OBVIOUS
      <4>3. e.pa = k
        BY <4>6
      <4>4. mem' = [mem EXCEPT ![k] = z, ![d][n] = e]
        BY <2>6, <4>2, <4>6
      <4>5. \A g \in Page, i \in Idx :
              To(g, i)' = IF g = d /\ i = n THEN e.pa ELSE IF g = k THEN z[i].pa ELSE To(g, i)
        BY <2>3, <2>5, <4>1, <4>4 DEF To, Types
      <4> QED
        BY <4>2, <4>3, <4>5
    <3>2. \A i \in Idx : Zero[i].pa = 0 /\ To(k, i) = 0
      BY Blanks DEF Zero, None
    <3> QED
      BY <3>1, <3>2
  <2>8. PICK e \in Call :
          /\ e = call'[p] /\ e.new = d /\ e.old = 0 /\ e.page = c.page
          /\ e.pc \in {"ktab", "page", "seg"} /\ NTop(e) = KERNEND
          /\ e.pc = "ktab" => n + 1 < KTABS
          /\ e.pc # "ktab" => ~(n + 1 < KTABS)
          /\ \A q \in Proc \ {p} : call'[q] = call[q]
    <3>1. CASE n + 1 < KTABS
      BY <1>1, <2>1, <2>6, <3>1 DEF NTop
    <3>2. CASE ~(n + 1 < KTABS)
      <4>1. PICK a, x : a = AfterSetup(p).pc /\ x = AfterSetup(p).end /\ a \in {"page", "seg"}
        BY DEF AfterSetup
      <4>2. call' = [call EXCEPT ![p].pc = a, ![p].lo = KERNEND, ![p].va = KERNEND, ![p].end = x]
        BY <2>6, <3>2, <4>1
      <4>3. PICK e : e = [c EXCEPT !.pc = a, !.lo = KERNEND, !.va = KERNEND, !.end = x]
        OBVIOUS
      <4>4. /\ e.pc = a /\ e.new = c.new /\ e.old = c.old /\ e.page = c.page
            /\ e.lo = KERNEND /\ e.va = KERNEND
        BY <4>3 DEF Call
      <4>5. e = call'[p] /\ \A q \in Proc \ {p} : call'[q] = call[q]
        BY <4>2, <4>3 DEF Types
      <4>6. e \in Call
        BY <4>5 DEF Types
      <4> QED
        BY <2>1, <3>2, <4>1, <4>4, <4>5, <4>6 DEF NTop
    <3> QED
      BY <3>1, <3>2
  <2>9. \A m \in 1 .. 5, q \in Proc : Var(m, q)' = Var(m, q)
    BY <1>1, <2>1, <2>8 DEF Var
  <2>10. To(d, n) = 0 /\ To(d, n)' = k
    BY <2>2, <2>3, <2>7 DEF KernUpto
  <2>11. Own'
    <3>1. \A g \in Page, i \in Idx : ~(g = d /\ i = n) => To(g, i)' = To(g, i)
      BY <2>7
    <3> QED
      BY <1>1, <2>1, <2>3, <2>6, <2>9, <2>10, <3>1, TakeEntry
  <2>12. KernOf(e)'
    <3>1. KernUpto(d, n + 1)'
      BY <2>2, <2>3, <2>5, <2>7, Indexes, Bounded DEF KernUpto, KIdx
    <3>2. n + 1 \in 0 .. KTABS
      BY <2>2, Constants
    <3>3. e.pc \in Growing => n + 1 = KTABS
      BY <2>2, <2>8, Constants DEF Growing
    <3> QED
      BY <2>8, <3>1, <3>2, <3>3 DEF KernOf
  <2>13. Below(e.new, NTop(e))'
    <3>1. \A i \in UIdx : i \in Idx /\ To(d, i)' = To(d, i)
      BY <2>3, <2>7, Indexes, Bounded DEF KIdx, UIdx
    <3>2. \A i \in UIdx, j \in Idx :
            To(d, i) # 0 => To(d, i) \in Page /\ To(d, i) # d /\ To(To(d, i), j) = (To(To(d, i), j))'
      BY <2>1, <2>7, <3>1, Blanks, RefersType
    <3>3. Below(d, KERNEND)
      BY <1>1, <2>1 DEF NTop
    <3>4. Below(d, KERNEND)'
      BY <3>1, <3>2, <3>3 DEF Below
    <3> QED
      BY <2>8, <3>4 DEF NTop
  <2>14. \A g \in Page : IsDir(g) /\ g # c.new => Kept(g)
    <3>1. \A g \in Page, i \in Idx : To(g, i)' = To(g, i) \/ g = d
      BY <2>7
    <3> QED
      BY <2>1, <3>1, OtherKept
  <2>15. Trees'
    <3>1. c.pc \notin {"switch", "freeold"} /\ e.pc \notin {"switch", "freeold"}
      BY <1>1, <2>8
    <3> QED
      BY <1>1, <2>8, <2>12, <2>13, <2>14, <3>1, BuildTrees
  <2> QED
    BY <2>11, <2>15
<1> QED
  BY <1>2, <1>3

\* A free page that the step clears and gives to the call.
LEMMA GetPageMem ==
  ASSUME Types, Types', Control, Own, Trees, NEW p \in Proc, GetPage(p), free # {}
  PROVE  Own' /\ Trees'
<1> PICK c \in Call : c = call[p]
  BY DEF Types
<1>1. /\ c.pc = "page" /\ UNCHANGED <<pgdir, size, kstack, lost>>
      /\ Shape(c, p) /\ free' = free \ {kalloc} /\ mem' = [mem EXCEPT ![kalloc] = Zero]
      /\ call' = [call EXCEPT ![p].page = kalloc, ![p].pc = "map"]
  BY DEF GetPage, At, proc, Control
<1>2. PICK k \in free : k = kalloc /\ k \in Page /\ k # 0
  BY KallocIs
<1>3. PICK e \in Call : e = [c EXCEPT !.page = k, !.pc = "map"]
  BY <1>2 DEF Call
<1>4. /\ e.pc = "map" /\ e.new = c.new /\ e.old = c.old /\ e.page = k /\ e.va = c.va
      /\ e = call'[p] /\ \A q \in Proc \ {p} : call'[q] = call[q]
  BY <1>1, <1>2, <1>3 DEF Call, Types
<1>5. SameTo
  BY <1>1, <1>2, ClearSame
<1>6. c.page = 0 /\ c.old = 0
  BY <1>1 DEF Shape
<1>7. Own'
  <2>1. Var(5, p) = 0 /\ Var(5, p)' = k
    BY <1>4, <1>6 DEF Var
  <2>3. kstack' = kstack /\ pgdir' = pgdir /\ e.new = c.new /\ e.old = c.old
    BY <1>1, <1>4
  <2>4. e = call'[p] /\ \A q \in Proc \ {p} : call'[q] = call[q]
    BY <1>4
  <2>2. ASSUME NEW l \in 1 .. 5, NEW q \in Proc, ~(l = 5 /\ q = p) PROVE Var(l, q)' = Var(l, q)
    <3>1. CASE q = p
      BY <2>2, <2>3, <2>4, <3>1 DEF Var
    <3>2. CASE q # p
      BY <2>3, <2>4, <3>2 DEF Var
    <3> QED
      BY <3>1, <3>2
  <2> QED
    BY <1>1, <1>2, <1>5, <2>1, <2>2, TakeVar
<1>8. \A d \in Page : Kept(d)
  BY <1>5, SameKept
<1>9. NTop(e) = NTop(c) /\ c.pc \in Growing /\ e.pc # "ktab"
  BY <1>1, <1>4 DEF NTop, Growing
<1>10. Trees'
  BY <1>1, <1>4, <1>6, <1>8, <1>9, SameTrees
<1> QED
  BY <1>7, <1>10

\* Of the pages below va there are none from end on, when the loop has
\* reached end.
LEMMA LoopEnd ==
  ASSUME NEW va \in Nat, NEW end \in Nat, NEW a \in Nat, va % PAGESIZE = 0, a % PAGESIZE = 0,
         va < end + PAGESIZE, a < va
  PROVE  a < end
<1>1. PICK s \in Nat \ {0} : s = PAGESIZE
  BY Constants
<1>2. a + s <= va
  BY <1>1, Multiples
<1> QED
  BY <1>1, <1>2

\* The loop ends, and ustack() clears PTE_U of a page (vm.c:249-259).
LEMMA GrownMem ==
  ASSUME Types, Types', Control, Own, Trees, NEW p \in Proc, Grown(p)
  PROVE  Own' /\ Trees'
<1> PICK c \in Call : c = call[p]
  BY DEF Types
<1>1. /\ c.pc = "page" /\ UNCHANGED <<pgdir, size, kstack, free, lost>>
      /\ Shape(c, p) /\ Bounds(c, p) /\ c.va >= c.end
  BY DEF Grown, At, proc, Control
<1>2. PICK a \in {"load", "commit"} : call' = [call EXCEPT ![p].pc = a, ![p].lo = c.end]
  BY DEF Grown
<1>3. PICK e : e = [c EXCEPT !.pc = a, !.lo = c.end]
  OBVIOUS
<1>4. /\ e.pc = a /\ e.new = c.new /\ e.old = c.old /\ e.page = c.page /\ e.lo = c.end
      /\ e = call'[p] /\ \A q \in Proc \ {p} : call'[q] = call[q]
  BY <1>2, <1>3 DEF Call, Types
<1>5. e \in Call
  BY <1>4 DEF Types
<1>6. SameTo
  <2>1. CASE mem' = mem
    BY <2>1, MemSame
  <2>2. CASE mem' # mem
    <3>1. PICK t, j : mem' = [mem EXCEPT ![t][j].u = FALSE]
      BY <2>2 DEF Grown
    <3> QED
      BY <3>1 DEF SameTo, To, Types
  <2> QED
    BY <2>1, <2>2
<1>7. \A x \in Nat : x % PAGESIZE = 0 /\ x < NTop(c) => x < NTop(e)
  <2>1. c.va % PAGESIZE = 0 /\ c.va < c.end + PAGESIZE /\ c.va \in Nat /\ c.end \in Nat
    BY <1>1, Fields DEF Bounds
  <2>2. NTop(c) = c.va /\ NTop(e) = c.end
    BY <1>1, <1>4 DEF NTop
  <2> QED
    BY <2>1, <2>2, LoopEnd
<1>8. c.old = 0 /\ c.pc \in Growing /\ e.pc # "ktab" /\ e.pc \notin {"switch", "freeold"}
  BY <1>1, <1>4 DEF Shape, Growing
<1> QED
  BY <1>1, <1>4, <1>5, <1>6, <1>7, <1>8, QuietCall

\* A segment is loaded: no page changes hands.
LEMMA LoadMem ==
  ASSUME Types, Types', Control, Own, Trees, NEW p \in Proc, Load(p)
  PROVE  Own' /\ Trees'
<1> PICK c \in Call : c = call[p]
  BY DEF Types
<1>1. c.pc = "load" /\ UNCHANGED <<pgdir, size, kstack, free, lost, mem>> /\ Shape(c, p)
  BY DEF Load, At, proc, Control
<1>2. CASE call' = [call EXCEPT ![p].pc = "bad"]
  BY <1>1, <1>2, FailMem
<1>3. CASE call' = [call EXCEPT ![p].pc = "seg", ![p].img = Tail(@)]
  <2>1. PICK e : e = [c EXCEPT !.pc = "seg", !.img = Tail(c.img)]
    OBVIOUS
  <2>2. /\ e.pc = "seg" /\ e.new = c.new /\ e.old = c.old /\ e.page = c.page /\ e.lo = c.lo
        /\ e = call'[p] /\ \A q \in Proc \ {p} : call'[q] = call[q]
    BY <1>3, <2>1 DEF Call, Types
  <2>3. e \in Call
    BY <2>2 DEF Types
  <2>4. c.old = 0 /\ c.pc \in Growing /\ NTop(e) = NTop(c)
    BY <1>1, <2>2 DEF Shape, Growing, NTop
  <2>5. SameTo
    BY <1>1, MemSame
  <2> QED
    BY <1>1, <2>2, <2>3, <2>4, <2>5, QuietCall
<1> QED
  BY <1>2, <1>3 DEF Load, Goto

\* allocuvm() begins, or has nothing to do.
LEMMA AllocMem ==
  ASSUME Types, Types', Control, Own, Trees, NEW p \in Proc, call[p].pc = "seg",
         NEW old \in Nat, NEW new, call[p].lo <= old, NEW after \in {"load", "bad"},
         allocuvm(p, old, new, after), UNCHANGED <<pgdir, size, kstack, free, lost, mem>>
  PROVE  Own' /\ Trees'
<1> PICK c \in Call : c = call[p]
  BY DEF Types
<1>1. Shape(c, p) /\ c.pc = "seg"
  BY DEF Control
<1>2. c.old = 0 /\ c.pc \in Growing /\ NTop(c) = c.lo /\ c.lo \in Nat
  BY <1>1, Fields DEF Shape, Growing, NTop
<1>3. SameTo
  BY MemSame
<1>4. CASE call' = [call EXCEPT ![p].pc = "bad"]
  BY <1>1, <1>4, FailMem
<1>5. CASE call' = [call EXCEPT ![p].pc = "load"]
  <2>1. PICK e : e = [c EXCEPT !.pc = "load"]
    OBVIOUS
  <2>2. /\ e.pc = "load" /\ e.new = c.new /\ e.old = c.old /\ e.page = c.page /\ e.lo = c.lo
        /\ e = call'[p] /\ \A q \in Proc \ {p} : call'[q] = call[q]
    BY <1>5, <2>1 DEF Call, Types
  <2>3. e \in Call /\ NTop(e) = NTop(c)
    BY <1>2, <2>2 DEF Types, NTop
  <2> QED
    BY <1>1, <1>2, <1>3, <2>2, <2>3, QuietCall
<1>6. CASE call' = [call EXCEPT ![p].pc = "page", ![p].lo = old, ![p].va = PGROUNDUP(old),
                                ![p].end = new]
  <2>1. PICK e : e = [c EXCEPT !.pc = "page", !.lo = old, !.va = PGROUNDUP(old), !.end = new]
    OBVIOUS
  <2>2. /\ e.pc = "page" /\ e.new = c.new /\ e.old = c.old /\ e.page = c.page
        /\ e.va = PGROUNDUP(old)
        /\ e = call'[p] /\ \A q \in Proc \ {p} : call'[q] = call[q]
    BY <1>6, <2>1 DEF Call, Types
  <2>3. e \in Call /\ NTop(e) = PGROUNDUP(old)
    BY <2>2 DEF Types, NTop
  <2>4. old <= PGROUNDUP(old) /\ PGROUNDUP(old) \in Nat
    BY RoundUp
  <2>5. \A a \in Nat : a < NTop(c) => a < NTop(e)
    BY <1>2, <2>3, <2>4
  <2> QED
    BY <1>1, <1>2, <1>3, <2>2, <2>3, <2>5, QuietCall
<1> QED
  BY <1>4, <1>5, <1>6 DEF allocuvm

\* execv() comes to a segment, or to the stack.
LEMMA SegmentMem ==
  ASSUME Types, Types', Control, Own, Trees, NEW p \in Proc, Segment(p)
  PROVE  Own' /\ Trees'
<1> PICK lo \in Nat : lo = call[p].lo
  BY Fields DEF Types
<1>1. call[p].pc = "seg" /\ UNCHANGED <<pgdir, size, kstack, free, lost, mem>>
  BY DEF Segment, At, proc
<1>2. PGROUNDUP(lo) \in Nat /\ lo <= PGROUNDUP(lo)
  BY RoundUp
<1>3. CASE call' = [call EXCEPT ![p].pc = "bad"]
  BY <1>1, <1>3, FailMem
<1>4. ASSUME NEW old \in {lo, PGROUNDUP(lo)}, NEW new, NEW after \in {"load", "bad"},
             allocuvm(p, old, new, after)
      PROVE  Own' /\ Trees'
  <2>1. old \in Nat /\ lo <= old
    BY <1>2
  <2> QED
    BY <1>1, <1>4, <2>1, AllocMem
<1>5. CASE Goto(p, "bad")
  BY <1>3, <1>5 DEF Goto
<1>6. CASE \E new : allocuvm(p, lo, new, "load")
  BY <1>4, <1>6
<1>7. CASE \E new : allocuvm(p, PGROUNDUP(lo), new, "bad")
  BY <1>4, <1>7
<1> QED
  BY <1>5, <1>6, <1>7 DEF Segment

(***************************************************************************)
(* Steps of a call that builds nothing.                                    *)
(***************************************************************************)

\* The call begins, or waits.
LEMMA IdleMem ==
  ASSUME Types, Types', Control, Own, Trees, NEW p \in Proc, NEW e \in Call,
         call[p].pc = "user", call' = [call EXCEPT ![p] = e],
         e.new = 0, e.old = 0, e.page = 0, e.pc \notin {"switch", "freeold"},
         UNCHANGED <<pgdir, size, kstack, free, lost, mem>>
  PROVE  Own' /\ Trees'
<1> PICK c \in Call : c = call[p]
  BY DEF Types
<1>1. c.new = 0 /\ c.old = 0 /\ c.page = 0 /\ c.pc = "user"
  BY DEF Control, Shape
<1>2. e = call'[p] /\ \A q \in Proc \ {p} : call'[q] = call[q]
  BY DEF Types
<1>3. SameTo
  BY MemSame
<1> QED
  BY <1>1, <1>2, <1>3, QuietCall

\* execv() begins.
LEMMA ExecvMem ==
  ASSUME Types, Types', Control, Own, Trees, NEW p \in Proc, NEW img, Execv(p, img)
  PROVE  Own' /\ Trees'
<1>1. PICK e : e = [User EXCEPT !.op = "execv", !.pc = "dir", !.img = img]
  OBVIOUS
<1>2. e.pc = "dir" /\ e.new = 0 /\ e.old = 0 /\ e.page = 0
  BY <1>1 DEF User
<1>3. /\ call[p].pc = "user" /\ call' = [call EXCEPT ![p] = e]
      /\ UNCHANGED <<pgdir, size, kstack, free, lost, mem>>
  BY <1>1 DEF Execv, At, proc
<1>4. e \in Call
  <2>1. call'[p] = e
    BY <1>3 DEF Types
  <2> QED
    BY <2>1 DEF Types
<1> QED
  BY <1>2, <1>3, <1>4, IdleMem

\* wait() sleeps.
LEMMA WaitMem ==
  ASSUME Types, Types', Control, Own, Trees, NEW p \in Proc, Wait(p)
  PROVE  Own' /\ Trees'
<1> PICK c \in Call : c = call[p]
  BY DEF Types
<1>1. PICK e : e = [c EXCEPT !.pc = "wait"]
  OBVIOUS
<1>2. c.pc = "user" /\ UNCHANGED <<pgdir, size, kstack, free, lost, mem>>
  BY DEF Wait, At
<1>3. c.new = 0 /\ c.old = 0 /\ c.page = 0
  BY <1>2 DEF Control, Shape
<1>4. e.pc = "wait" /\ e.new = 0 /\ e.old = 0 /\ e.page = 0
  BY <1>1, <1>3 DEF Call
<1>5. call' = [call EXCEPT ![p] = e]
  BY <1>1 DEF Wait, Goto, Types
<1>6. e \in Call
  <2>1. call'[p] = e
    BY <1>5 DEF Types
  <2> QED
    BY <2>1 DEF Types
<1> QED
  BY <1>2, <1>4, <1>5, <1>6, IdleMem

\* No memory changes hands.
LEMMA StillMem ==
  ASSUME Types, Types', Own, Trees, UNCHANGED <<call, pgdir, size, kstack, free, lost, mem>>
  PROVE  Own' /\ Trees'
<1>1. SameTo
  BY MemSame
<1>2. \A k \in 1 .. 5, q \in Proc : Var(k, q)' = Var(k, q)
  BY DEF Var
<1>3. Own'
  BY <1>1, <1>2, QuietOwn
<1>4. \A d \in Page : Kept(d)
  BY <1>1, SameKept
<1>5. \A q \in Proc : TreesOf(call[q], q)'
  BY <1>4, OtherTrees
<1> QED
  BY <1>3, <1>5 DEF Trees

\* The CPU changes its directory; the old one is still the call's.
LEMMA LoadCr3Mem ==
  ASSUME Types, Types', Control, Own, Trees, NEW p \in Proc, LoadCr3(p)
  PROVE  Own' /\ Trees'
<1> PICK c \in Call : c = call[p]
  BY DEF Types
<1>1. PICK e : e = [c EXCEPT !.pc = "freeold"]
  OBVIOUS
<1>2. c.pc = "switch" /\ UNCHANGED <<pgdir, size, kstack, free, lost, mem>> /\ Shape(c, p)
  BY DEF LoadCr3, At, proc, Control
<1>3. /\ e.pc = "freeold" /\ e.new = c.new /\ e.old = c.old /\ e.page = c.page /\ e.lo = c.lo
      /\ e = call'[p] /\ \A q \in Proc \ {p} : call'[q] = call[q]
  BY <1>1 DEF Call, Types, LoadCr3, Goto
<1>4. SameTo
  BY <1>2, MemSame
<1>5. \A k \in 1 .. 5, q \in Proc : Var(k, q)' = Var(k, q)
  BY <1>2, <1>3 DEF Var
<1>6. Own'
  BY <1>2, <1>4, <1>5, QuietOwn
<1>7. \A d \in Page : Kept(d)
  BY <1>4, SameKept
<1>8. \A q \in Proc \ {p} : TreesOf(call[q], q)'
  BY <1>2, <1>3, <1>7, OtherTrees
<1>9. TreesOf(e, p)'
  <2> PICK d \in Page \cup {0}, o \in Page \cup {0} : d = pgdir[p] /\ o = c.old
    BY Fields DEF Types
  <2> PICK top : top = c.lo
    OBVIOUS
  <2>1. PTop(c, p) = top /\ PTop(e, p)' = top /\ c.new = 0
    BY <1>2, <1>3 DEF PTop, Shape
  <2>2. TreesOf(c, p)
    BY DEF Trees
  <2>3. d # 0 => KernUpto(d, KTABS)' /\ Below(d, top)'
    <3>1. d # 0 => KernUpto(d, KTABS) /\ Below(d, top)
      BY <2>1, <2>2 DEF TreesOf
    <3> QED
      BY <3>1, <1>7, KeptTree
  <2>4. o # 0 => KernUpto(o, KTABS)' /\ Below(o, USEREND)'
    <3>1. o # 0 => KernUpto(o, KTABS) /\ Below(o, USEREND)
      BY <2>2 DEF TreesOf
    <3> QED
      BY <3>1, <1>7, KeptTree
  <2> QED
    BY <1>2, <1>3, <2>1, <2>3, <2>4 DEF TreesOf
<1> QED
  BY <1>3, <1>6, <1>8, <1>9 DEF Trees

\* The page of the call is mapped.
LEMMA MapPageMem ==
  ASSUME Types, Types', Control, Own, Trees, NEW p \in Proc, MapPage(p),
         ~(Table(call[p].new, call[p].va) = 0 /\ free = {})
  PROVE  Own' /\ Trees'
<1> PICK c \in Call : c = call[p]
  BY DEF Types
<1> PICK f : f = Flags(p)
  OBVIOUS
<1>1. /\ c.pc = "map" /\ UNCHANGED <<pgdir, size, kstack, lost>> /\ Shape(c, p) /\ Bounds(c, p)
      /\ call' = [call EXCEPT ![p].page = 0, ![p].va = c.va + PAGESIZE, ![p].pc = "page"]
  BY DEF MapPage, At, proc, Control
<1> PICK d \in Page, va \in Nat, g0 \in Page : d = c.new /\ va = c.va /\ g0 = c.page
  BY <1>1, Fields DEF Shape, Growing
<1>2. IsDir(d) /\ c.old = 0 /\ KernOf(c) /\ Below(d, NTop(c)) /\ d \notin free /\ NTop(c) = va
  BY <1>1, NewTree DEF Growing, NTop
<1>3. va % PAGESIZE = 0 /\ va + PAGESIZE \in Nat
  BY <1>1, Constants DEF Bounds
<1> PICK n, j : n = PDX(va) /\ j = PTX(va)
  OBVIOUS
<1>4. n \in UIdx /\ n \in Idx /\ j \in Idx /\ Addr(n, j) = va
  <2>1. KERNEND <= va /\ va < c.end /\ c.end <= USEREND /\ c.end \in Nat
    BY <1>1, Fields DEF Bounds
  <2>2. va < TablesEnd
    BY <2>1, Bounded
  <2> QED
    BY <1>3, <2>1, <2>2, Decode, Indexes
<1> PICK t \in Page \cup {0} : t = To(d, n)
  BY <1>4, RefersType
<1>5. t = Table(c.new, c.va)
  BY DEF Table, To
<1>6. PICK e : e = [c EXCEPT !.page = 0, !.va = va + PAGESIZE, !.pc = "page"]
  OBVIOUS
<1>7. /\ e.pc = "page" /\ e.new = d /\ e.old = c.old /\ e.page = 0 /\ e.va = va + PAGESIZE
      /\ e = call'[p] /\ \A q \in Proc \ {p} : call'[q] = call[q]
  BY <1>1, <1>6 DEF Call, Types
<1>8. e \in Call /\ NTop(e) = va + PAGESIZE
  BY <1>7 DEF Types, NTop
<1>9. PICK r : r = [pa |-> g0, u |-> f]
  OBVIOUS
<1>10. r.pa = g0
  BY <1>9
<1>11. \A m \in 1 .. 5, q \in Proc : ~(m = 5 /\ q = p) => Var(m, q)' = Var(m, q)
  <2>1. kstack' = kstack /\ pgdir' = pgdir /\ e.new = c.new /\ e.old = c.old
    BY <1>1, <1>7
  <2>2. e = call'[p] /\ \A q \in Proc \ {p} : call'[q] = call[q]
    BY <1>7
  <2>3. ASSUME NEW l \in 1 .. 5, NEW q \in Proc, ~(l = 5 /\ q = p) PROVE Var(l, q)' = Var(l, q)
    <3>1. CASE q = p
      BY <2>1, <2>2, <2>3, <3>1 DEF Var
    <3>2. CASE q # p
      BY <2>1, <2>2, <3>2 DEF Var
    <3> QED
      BY <3>1, <3>2
  <2> QED
    BY <2>3
<1>12. Var(5, p) = g0 /\ Var(5, p)' = 0
  BY <1>7 DEF Var
<1>13. \A i, h \in Idx : i \in UIdx /\ To(d, i) # 0 /\ To(To(d, i), h) # 0 => Addr(i, h) < va
  BY <1>2 DEF Below
<1>14. \A i \in Idx : To(d, i) # 0 => To(d, i) \in Page /\ To(d, i) # d /\ To(d, i) \notin free
  BY <1>2, Blanks, RefersType, Unique DEF Own
<1>15. ASSUME NEW i \in Idx, To(d, i) = To(d, n), To(d, n) # 0 PROVE i = n
  <2>1. \A g, h \in Page, a, b \in Idx : To(g, a) = To(h, b) /\ To(g, a) # 0 => g = h /\ a = b
    BY Unique DEF Own
  <2>2. n \in Idx
    BY <1>4
  <2> QED
    BY <1>15, <2>1, <2>2
<1>16. CASE t # 0
  <2>1. /\ mem' = [mem EXCEPT ![t][j] = r] /\ free' = free
    BY <1>1, <1>5, <1>9, <1>16 DEF MapPage
  <2>2. \A g \in Page, i \in Idx : To(g, i)' = IF g = t /\ i = j THEN g0 ELSE To(g, i)
    <3>1. mem' = [mem EXCEPT ![t][j] = r] /\ t \in Page /\ j \in Idx
      BY <2>1, <1>4, <1>16
    <3>2. \A g \in Page, i \in Idx : mem'[g][i] = IF g = t /\ i = j THEN r ELSE mem[g][i]
      BY <3>1 DEF Types
    <3> QED
      BY <3>2, <1>10 DEF To
  <2>3. To(t, j) = 0
    <3> SUFFICES ASSUME To(t, j) # 0 PROVE FALSE
      OBVIOUS
    <3>1. Addr(n, j) < va
      BY <1>4, <1>13, <1>16
    <3> QED
      BY <3>1, <1>4
  <2>4. IsUTab(t) /\ t # d /\ t \in Page
    BY <1>2, <1>4, <1>14, <1>16 DEF IsUTab
  <2>5. Own'
    <3>1. To(t, j)' = Var(5, p)
      BY <2>2, <1>4, <1>12, <1>16
    <3>2. \A g \in Page, i \in Idx : ~(g = t /\ i = j) => To(g, i)' = To(g, i)
      BY <2>2
    <3> QED
      BY <1>1, <1>4, <1>11, <1>12, <2>1, <2>3, <2>4, <3>1, <3>2, PassEntry
  <2>6. \A i \in Idx : To(d, i)' = To(d, i)
    BY <2>2, <2>4
  <2>7. KernOf(e)'
    <3>1. KernUpto(d, KTABS)
      BY <1>1, <1>2 DEF KernOf, Growing
    <3>2. KernUpto(d, KTABS)'
      BY <3>1, <2>6, Indexes DEF KernUpto
    <3> QED
      BY <1>7, <3>2, Constants DEF KernOf
  <2>8. Below(d, va + PAGESIZE)'
    <3> SUFFICES ASSUME NEW i \in UIdx, NEW h \in Idx, To(d, i)' # 0, (To(To(d, i), h))' # 0
                 PROVE  Addr(i, h) < va + PAGESIZE
      BY DEF Below
    <3>1. PICK s \in Page : s = To(d, i) /\ s = To(d, i)' /\ i \in Idx
      BY <1>14, <2>6, Indexes
    <3>2. To(s, h)' # 0
      BY <3>1
    <3>3. CASE s = t /\ h = j
      <4>1. i = n
        <5>1. To(d, i) = To(d, n) /\ To(d, n) # 0 /\ i \in Idx
          BY <1>16, <3>1, <3>3
        <5> QED
          BY <5>1, <1>15
      <4> QED
        BY <4>1, <3>3, <1>4, Constants
    <3>4. CASE ~(s = t /\ h = j)
      <4>1. To(s, h) # 0
        BY <2>2, <3>2, <3>4
      <4>2. Addr(i, h) < va /\ Addr(i, h) \in Nat
        BY <1>13, <3>1, <4>1, Constants, Encode
      <4> QED
        BY <4>2, Constants
    <3> QED
      BY <3>3, <3>4
  <2>9. \A g \in Page : IsDir(g) /\ g # c.new => Kept(g)
    <3>1. \A g \in Page, i \in Idx : To(g, i)' = To(g, i) \/ \E m \in UIdx : To(d, m) = g
      BY <2>2, <1>4
    <3> QED
      BY <1>2, <3>1, OtherKept
  <2>10. Below(e.new, NTop(e))'
    BY <2>8, <1>7, <1>8 DEF NTop
  <2>11. c.pc \notin {"switch", "freeold"} /\ e.pc \notin {"switch", "freeold"} /\ e.old = 0
    BY <1>1, <1>2, <1>7
  <2>12. Trees'
    BY <1>1, <1>7, <1>8, <2>7, <2>9, <2>10, <2>11, BuildTrees
  <2> QED
    BY <2>5, <2>12
<1>17. CASE t = 0
  <2>13. PICK k \in free : k = kalloc /\ k \in Page /\ k # 0
    BY <1>5, <1>17, KallocIs
  <2>14. PICK z : z = [Zero EXCEPT ![j] = r]
    OBVIOUS
  <2>15. \A i \in Idx : z[i].pa = IF i = j THEN g0 ELSE 0
    BY <1>4, <1>10, <2>14 DEF Zero, None
  <2>16. PICK w : w = [pa |-> k, u |-> TRUE]
    OBVIOUS
  <2>17. w.pa = k /\ k # d
    BY <2>16, <1>2
  <2>1. mem' = [mem EXCEPT ![k] = z, ![d][n] = w] /\ free' = free \ {k}
    BY <1>1, <1>5, <1>9, <1>17, <2>13, <2>14, <2>16 DEF MapPage
  <2>2. \A g \in Page, i \in Idx :
          To(g, i)' = IF g = d /\ i = n THEN k
                      ELSE IF g = k THEN IF i = j THEN g0 ELSE 0 ELSE To(g, i)
    <3>1. \A g \in Page, i \in Idx :
            To(g, i)' = IF g = d /\ i = n THEN w.pa ELSE IF g = k THEN z[i].pa ELSE To(g, i)
      BY <2>1, <2>13, <2>17, <1>4 DEF To, Types
    <3> QED
      BY <3>1, <2>15, <2>17
  <2>3. \A i \in Idx : To(k, i) = 0
    BY Blanks
  <2>4. To(d, n) = 0 /\ To(d, n)' = k /\ To(k, j)' = g0
    BY <2>2, <2>13, <2>17, <1>4, <1>17
  <2>5. Own'
    <3>1. \A g \in Page, i \in Idx : ~(g = d /\ i = n) /\ ~(g = k /\ i = j) => To(g, i)' = To(g, i)
      BY <2>2, <2>3
    <3> QED
      BY <1>1, <1>2, <1>4, <1>11, <1>12, <2>1, <2>4, <3>1, PassTable
  <2>6. \A i \in Idx : i # n => To(d, i)' = To(d, i)
    BY <2>2, <2>17
  <2>7. KernOf(e)'
    <3>1. KernUpto(d, KTABS)
      BY <1>1, <1>2 DEF KernOf, Growing
    <3>2. n \notin KIdx
      BY <1>4, Bounded DEF KIdx, UIdx
    <3>3. KernUpto(d, KTABS)'
      BY <3>1, <3>2, <2>6, Indexes DEF KernUpto
    <3> QED
      BY <1>7, <3>3, Constants DEF KernOf
  <2>8. Below(d, va + PAGESIZE)'
    <3> SUFFICES ASSUME NEW i \in UIdx, NEW h \in Idx, To(d, i)' # 0, (To(To(d, i), h))' # 0
                 PROVE  Addr(i, h) < va + PAGESIZE
      BY DEF Below
    <3>1. PICK s \in Page : s = To(d, i)' /\ i \in Idx
      BY RefersTypeNext, Indexes
    <3>2. To(s, h)' # 0
      BY <3>1
    <3>3. CASE i = n
      <4>1. s = k
        BY <2>4, <3>1, <3>3
      <4>2. h = j
        BY <4>1, <3>2, <2>2, <2>17
      <4> QED
        BY <4>2, <3>3, <1>4, Constants
    <3>4. CASE i # n
      <4>1. s = To(d, i) /\ s # 0
        BY <2>6, <3>1, <3>4
      <4>2. s # d /\ s # k
        BY <1>14, <4>1, <3>1
      <4>3. To(s, h) # 0
        BY <2>2, <3>2, <4>2
      <4>4. Addr(i, h) < va /\ Addr(i, h) \in Nat
        BY <1>13, <3>1, <4>1, <4>3, Encode
      <4> QED
        BY <4>4, Constants
    <3> QED
      BY <3>3, <3>4
  <2>9. \A g \in Page : IsDir(g) /\ g # c.new => Kept(g)
    <3>1. \A g \in Page, i \in Idx : To(g, i)' = To(g, i) \/ g = d \/ g \in free
      BY <2>2
    <3> QED
      BY <1>2, <3>1, OtherKept
  <2>10. Below(e.new, NTop(e))'
    BY <2>8, <1>7, <1>8 DEF NTop
  <2>11. c.pc \notin {"switch", "freeold"} /\ e.pc \notin {"switch", "freeold"} /\ e.old = 0
    BY <1>1, <1>2, <1>7
  <2>12. Trees'
    BY <1>1, <1>7, <1>8, <2>7, <2>9, <2>10, <2>11, BuildTrees
  <2> QED
    BY <2>5, <2>12
<1> QED
  BY <1>16, <1>17

(***************************************************************************)
(* The invariant under the steps that pass memory on.                      *)
(***************************************************************************)

\* A process whose call has no directory.
LEMMA RestTrees ==
  ASSUME Types, Types', Trees, NEW q \in Proc, NEW e, e = call'[q], e.new = 0, e.old = 0,
         e.pc \notin {"switch", "freeold"}, call[q].pc \notin {"switch", "freeold"},
         pgdir'[q] = pgdir[q], size'[q] = size[q], \A d \in Page : d = pgdir[q] => Kept(d)
  PROVE  TreesOf(call[q], q)'
<1> PICK d \in Page \cup {0} : d = pgdir[q]
  BY DEF Types
<1> PICK top : top = KERNEND + size[q]
  OBVIOUS
<1>1. TreesOf(call[q], q) /\ PTop(call[q], q) = top /\ PTop(e, q)' = top
  BY DEF Trees, PTop
<1>2. d # 0 => KernUpto(d, KTABS)' /\ Below(d, top)'
  <2>1. d # 0 => KernUpto(d, KTABS) /\ Below(d, top)
    BY <1>1 DEF TreesOf
  <2> QED
    BY <2>1, KeptTree
<1> QED
  BY <1>1, <1>2 DEF TreesOf

\* palloc() takes a stack for the child.
LEMMA ForkMem ==
  ASSUME Types, Types', Control, Own, Trees, NEW p \in Proc, Fork(p)
  PROVE  Own' /\ Trees'
<1> PICK n : n = CHOOSE q \in Unused : \A r \in Unused : q <= r
  OBVIOUS
<1>1. n \in Proc /\ stat[n] = "UNUSED" /\ stat[p] = "RUN" /\ call[p].pc = "user"
  <2>1. PICK q \in Unused : \A r \in Unused : q <= r
    <3>1. Unused \subseteq Nat /\ Unused # {}
      BY DEF Fork, Unused, Proc
    <3> QED
      BY <3>1, Least
  <2>2. n \in Unused
    BY <2>1
  <2> QED
    BY <2>2 DEF Unused, Fork, At, Running
<1>2. n # p
  BY <1>1
<1>3. PICK k \in free : k = kalloc /\ k \in Page
  BY KallocIs DEF Fork
<1>4. PICK e : e = [User EXCEPT !.op = "fork", !.pc = "dir", !.np = n]
  OBVIOUS
<1>5. /\ free' = free \ {k} /\ UNCHANGED <<mem, pgdir, lost>>
      /\ kstack' = [kstack EXCEPT ![n] = k] /\ size' = [size EXCEPT ![n] = 0]
      /\ call' = [call EXCEPT ![p] = e, ![n] = User]
  BY <1>3, <1>4 DEF Fork
<1>6. e.pc = "dir" /\ e.new = 0 /\ e.old = 0 /\ e.page = 0
  BY <1>4 DEF User
<1>7. /\ call'[p] = e /\ call'[n] = User /\ kstack'[n] = k
      /\ \A q \in Proc \ {p, n} : call'[q] = call[q]
      /\ \A q \in Proc \ {n} : kstack'[q] = kstack[q] /\ size'[q] = size[q]
  BY <1>1, <1>2, <1>5 DEF Types
<1>8. /\ call[n].new = 0 /\ call[n].old = 0 /\ call[n].page = 0 /\ kstack[n] = 0 /\ pgdir[n] = 0
      /\ call[p].new = 0 /\ call[p].old = 0 /\ call[p].page = 0
  <2>1. Shape(call[n], n) /\ Shape(call[p], p)
    BY <1>1 DEF Control
  <2>2. call[n].pc = "user"
    BY <1>1, <2>1 DEF Shape
  <2> QED
    BY <1>1, <2>1, <2>2 DEF Shape
<1>9. SameTo
  BY <1>5, MemSame
<1>10. Own'
  <2>1. Var(1, n) = 0 /\ Var(1, n)' = k
    BY <1>7, <1>8 DEF Var
  <2>2. ASSUME NEW l \in 1 .. 5, NEW q \in Proc, ~(l = 1 /\ q = n) PROVE Var(l, q)' = Var(l, q)
    <3>1. CASE q = p
      BY <3>1, <1>2, <1>5, <1>6, <1>7, <1>8 DEF Var
    <3>2. CASE q = n
      BY <2>2, <3>2, <1>5, <1>7, <1>8, UserIs DEF Var
    <3>3. CASE q # p /\ q # n
      <4>1. call'[q] = call[q] /\ kstack'[q] = kstack[q] /\ pgdir' = pgdir
        BY <3>3, <1>5, <1>7
      <4> QED
        BY <4>1 DEF Var
    <3> QED
      BY <3>1, <3>2, <3>3
  <2>3. free' = free \ {k} /\ lost' = lost /\ 1 \in 1 .. 5 /\ n \in Proc
    BY <1>1, <1>5
  <2> QED
    BY <1>3, <1>9, <2>1, <2>2, <2>3, TakeVar
<1>11. \A d \in Page : Kept(d)
  BY <1>9, SameKept
<1>12. ASSUME NEW q \in Proc PROVE TreesOf(call[q], q)'
  <2>1. CASE q = p
    <3>1. e = call'[q] /\ pgdir'[q] = pgdir[q] /\ size'[q] = size[q] /\ call[q].pc = "user"
      BY <2>1, <1>1, <1>2, <1>5, <1>7
    <3> QED
      BY <3>1, <1>6, <1>11, RestTrees
  <2>2. CASE q = n
    BY <2>2, <1>5, <1>7, <1>8, UserIs DEF TreesOf
  <2>3. CASE q # p /\ q # n
    <3>1. call'[q] = call[q] /\ pgdir'[q] = pgdir[q] /\ size'[q] = size[q]
      BY <2>3, <1>5, <1>7
    <3> QED
      BY <3>1, <1>11, OtherTrees
  <2> QED
    BY <2>1, <2>2, <2>3
<1> QED
  BY <1>10, <1>12 DEF Trees

\* The new directory passes from fork() to the child.
LEMMA ForkedMem ==
  ASSUME Types, Types', Control, Own, Trees, NEW p \in Proc, Forked(p)
  PROVE  Own' /\ Trees'
<1> PICK c \in Call : c = call[p]
  BY DEF Types
<1> PICK n : n = c.np
  OBVIOUS
<1>1. /\ stat[p] = "RUN" /\ c.pc = "page" /\ c.op = "fork" /\ c.va >= c.end
      /\ pgdir' = [pgdir EXCEPT ![n] = c.new] /\ size' = [size EXCEPT ![n] = size[p]]
      /\ call' = [call EXCEPT ![p] = User] /\ UNCHANGED <<free, mem, kstack, lost>>
  BY DEF Forked, At, Running, Return
<1>2. Shape(c, p) /\ Bounds(c, p)
  BY DEF Control
<1>3. n \in Proc /\ stat[n] = "SET" /\ n # p /\ c.old = 0 /\ c.page = 0
  BY <1>1, <1>2 DEF Shape
<1> PICK d \in Page : d = c.new
  BY <1>1, <1>2, NewTree DEF Growing
<1>4. KernOf(c) /\ Below(d, c.va) /\ IsDir(d)
  <2>1. KernOf(c) /\ Below(d, NTop(c)) /\ IsDir(d)
    BY <1>1, NewTree DEF Growing
  <2> QED
    BY <1>1, <2>1 DEF NTop
<1>5. /\ call'[p] = User /\ pgdir'[n] = d /\ size'[n] = size[p]
      /\ \A q \in Proc \ {p} : call'[q] = call[q]
      /\ \A q \in Proc \ {n} : pgdir'[q] = pgdir[q] /\ size'[q] = size[q]
  BY <1>1, <1>3 DEF Types
<1>6. pgdir[n] = 0 /\ call[n].pc = "user" /\ call[n].new = 0 /\ call[n].old = 0
  <2>1. Shape(call[n], n)
    BY <1>3 DEF Control
  <2>2. call[n].pc = "user"
    BY <1>3, <2>1 DEF Shape
  <2> QED
    BY <1>3, <2>1, <2>2 DEF Shape
<1>7. SameTo
  BY <1>1, MemSame
<1>8. Own'
  <2>1. Var(3, p) = d /\ Var(3, p)' = 0 /\ Var(2, n) = 0 /\ Var(2, n)' = d
    BY <1>5, <1>6, UserIs DEF Var
  <2>2. ASSUME NEW l \in 1 .. 5, NEW q \in Proc, ~(l = 2 /\ q = n), ~(l = 3 /\ q = p)
        PROVE  Var(l, q)' = Var(l, q)
    <3>1. kstack' = kstack
      BY <1>1
    <3>2. CASE q = p
      BY <2>2, <3>1, <3>2, <1>3, <1>5, UserIs DEF Var
    <3>3. CASE q # p
      BY <2>2, <3>1, <3>3, <1>5 DEF Var
    <3> QED
      BY <3>2, <3>3
  <2>3. free' = free /\ lost' = lost /\ 2 \in 2 .. 4 /\ 3 \in 2 .. 4 /\ 3 # 2
    BY <1>1
  <2> QED
    BY <1>3, <1>7, <2>1, <2>2, <2>3, PassVar
<1>9. \A g \in Page : Kept(g)
  BY <1>7, SameKept
<1>10. ASSUME NEW q \in Proc PROVE TreesOf(call[q], q)'
  <2>1. CASE q = p
    <3>1. pgdir'[q] = pgdir[q] /\ size'[q] = size[q] /\ call[q].pc = "page" /\ call'[q] = User
      BY <2>1, <1>1, <1>3, <1>5
    <3>2. User.new = 0 /\ User.old = 0 /\ User.pc = "user"
      BY UserIs
    <3> QED
      BY <3>1, <3>2, <1>9, RestTrees
  <2>2. CASE q = n
    <3> PICK top \in Nat : top = KERNEND + size[p]
      BY Spaces DEF Types
    <3>1. call'[n] = call[n]
      BY <1>3, <1>5
    <3>2. PTop(call[n], n)' = top
      BY <3>1, <1>5, <1>6 DEF PTop
    <3>3. KernUpto(d, KTABS)
      BY <1>1, <1>4 DEF KernOf, Growing
    <3>4. Below(d, top)
      <4>1. /\ c.va \in Nat /\ c.va % PAGESIZE = 0 /\ c.va < c.end + PAGESIZE /\ c.end = top
        BY <1>1, <1>2, Fields DEF Bounds
      <4>2. \A a \in Nat : a % PAGESIZE = 0 /\ a < c.va => a < top
        BY <4>1, LoopEnd
      <4> QED
        BY <1>4, <4>2, Encode DEF Below
    <3>5. KernUpto(d, KTABS)' /\ Below(d, top)'
      BY <3>3, <3>4, <1>9, KeptTree
    <3> QED
      BY <2>2, <3>1, <3>2, <3>5, <1>5, <1>6 DEF TreesOf
  <2>3. CASE q # p /\ q # n
    <3>1. call'[q] = call[q] /\ pgdir'[q] = pgdir[q] /\ size'[q] = size[q]
      BY <2>3, <1>5
    <3> QED
      BY <3>1, <1>9, OtherTrees
  <2> QED
    BY <2>1, <2>2, <2>3
<1> QED
  BY <1>8, <1>10 DEF Trees

\* The new directory becomes the process's, and that the old one of the call.
LEMMA CommitMem ==
  ASSUME Types, Types', Control, Own, Trees, NEW p \in Proc, Commit(p)
  PROVE  Own' /\ Trees'
<1> PICK c \in Call : c = call[p]
  BY DEF Types
<1> PICK d \in Page, b \in Page \cup {0} : d = c.new /\ b = pgdir[p]
  BY NewTree DEF Commit, At, Growing, Types
<1>1. /\ stat[p] = "RUN" /\ c.pc = "commit" /\ pgdir' = [pgdir EXCEPT ![p] = d]
      /\ call' = [call EXCEPT ![p].new = 0, ![p].old = b, ![p].pc = "switch"]
      /\ UNCHANGED <<free, mem, kstack, size, lost>>
  BY DEF Commit, At, Running
<1>2. Shape(c, p) /\ Bounds(c, p)
  BY DEF Control
<1>3. c.old = 0 /\ c.page = 0 /\ b \in Page
  BY <1>1, <1>2 DEF Shape
<1>4. PICK e : e = [c EXCEPT !.new = 0, !.old = b, !.pc = "switch"]
  OBVIOUS
<1>5. /\ e.pc = "switch" /\ e.new = 0 /\ e.old = b /\ e.page = c.page /\ e.lo = c.lo
      /\ e = call'[p] /\ \A q \in Proc \ {p} : call'[q] = call[q]
  BY <1>1, <1>4 DEF Call, Types
<1>6. pgdir'[p] = d /\ \A q \in Proc \ {p} : pgdir'[q] = pgdir[q]
  BY <1>1 DEF Types
<1>7. SameTo
  BY <1>1, MemSame
<1>8. /\ Var(2, p) = b /\ Var(2, p)' = d /\ Var(3, p) = d /\ Var(3, p)' = 0
      /\ Var(4, p) = 0 /\ Var(4, p)' = b
  BY <1>3, <1>5, <1>6 DEF Var
<1>9. ASSUME NEW l \in 1 .. 5, NEW q \in Proc, ~(l \in 2 .. 4 /\ q = p)
      PROVE  Var(l, q)' = Var(l, q)
  <2>1. kstack' = kstack
    BY <1>1
  <2>2. CASE q = p
    BY <1>9, <2>1, <2>2, <1>5 DEF Var
  <2>3. CASE q # p
    BY <2>1, <2>3, <1>5, <1>6 DEF Var
  <2> QED
    BY <2>2, <2>3
<1>10. Own'
  <2>1. /\ Owned(Refers, free \cup lost) /\ Refers' \in [Slot -> Page \cup {0}]
        /\ free \cap lost = {} /\ Refers \in [Slot -> Page \cup {0}] /\ Blank
    BY RefersType, RefersTypeNext DEF Own
  <2>2. PICK F \in SUBSET Page, v \in [Slot -> Page \cup {0}] : F = free \cup lost /\ v = Refers'
    BY <2>1 DEF Types
  <2>3. PICK x, y, z : x = <<2, p, 0>> /\ y = <<3, p, 0>> /\ z = <<4, p, 0>>
    OBVIOUS
  <2>4. /\ x \in Slot /\ y \in Slot /\ z \in Slot /\ x # y /\ x # z /\ y # z
        /\ Refers[x] = b /\ Refers[y] = d /\ Refers[z] = 0
    BY <2>3, <1>8, Slots, RefersAt
  <2>5. \A s \in Slot : v[s] = IF s = x THEN d ELSE IF s = y THEN 0 ELSE IF s = z THEN b
                               ELSE Refers[s]
    <3>1. ASSUME NEW g \in Page, NEW i \in Idx, NEW s, s = <<0, g, i>>
          PROVE  v[s] = Refers[s] /\ s # x /\ s # y /\ s # z
      <4>1. Refers[s] = To(g, i) /\ Refers'[s] = To(g, i)'
        BY <3>1, RefersAt, RefersAtNext
      <4>2. s # x /\ s # y /\ s # z
        BY <3>1, <2>3
      <4> QED
        BY <4>1, <4>2, <2>2, <1>7 DEF SameTo
    <3>2. ASSUME NEW m \in 1 .. 5, NEW r \in Proc, NEW s, s = <<m, r, 0>>
          PROVE  v[s] = IF s = x THEN d ELSE IF s = y THEN 0 ELSE IF s = z THEN b ELSE Refers[s]
      <4>1. Refers[s] = Var(m, r) /\ v[s] = Var(m, r)'
        BY <3>2, <2>2, RefersAt, RefersAtNext
      <4>2. /\ s = x <=> m = 2 /\ r = p
            /\ s = y <=> m = 3 /\ r = p
            /\ s = z <=> m = 4 /\ r = p
        BY <3>2, <2>3
      <4> QED
        BY <4>1, <4>2, <1>8, <1>9
    <3> QED
      BY <3>1, <3>2, Slots
  <2>6. PICK w \in [Slot -> Page \cup {0}] :
          \A s \in Slot : w[s] = IF s = z THEN Refers[x] ELSE IF s = x THEN 0 ELSE Refers[s]
    <3>1. PICK w : w = [s \in Slot |-> IF s = z THEN Refers[x] ELSE IF s = x THEN 0 ELSE Refers[s]]
      OBVIOUS
    <3>2. \A s \in Slot : w[s] = IF s = z THEN Refers[x] ELSE IF s = x THEN 0 ELSE Refers[s]
      BY <3>1
    <3>3. w \in [Slot -> Page \cup {0}]
      BY <3>1, <2>1, <2>4
    <3> QED
      BY <3>2, <3>3
  <2>7. Owned(w, F)
    BY <2>1, <2>2, <2>4, <2>6, Passed
  <2>8. Owned(v, F)
    <3>1. w[x] = 0 /\ w[y] = d
      BY <2>4, <2>6
    <3>2. \A s \in Slot : v[s] = IF s = x THEN w[y] ELSE IF s = y THEN 0 ELSE w[s]
      BY <2>4, <2>5, <2>6, <3>1
    <3> QED
      BY <2>4, <2>7, <3>1, <3>2, Passed
  <2>9. Blank'
    <3>1. ASSUME NEW g \in Page, IsDir(g) PROVE IsDir(g)'
      <4>1. PICK m \in 2 .. 4, r \in Proc : Var(m, r) = g
        BY <3>1 DEF IsDir
      <4>2. Var(m, r)' = g \/ Var(2, p)' = g \/ Var(4, p)' = g
        <5>1. g # 0 /\ m \in 1 .. 5
          BY Constants
        <5>2. CASE r = p
          BY <5>1, <5>2, <4>1, <1>8
        <5>3. CASE r # p
          BY <5>1, <5>3, <4>1, <1>9
        <5> QED
          BY <5>2, <5>3
      <4> QED
        BY <4>2 DEF IsDir
    <3> QED
      BY <2>1, <3>1, <1>7, BlankSame
  <2>10. free' = free /\ lost' = lost
    BY <1>1
  <2> QED
    BY <2>1, <2>2, <2>8, <2>9, <2>10 DEF Own
<1>11. \A g \in Page : Kept(g)
  BY <1>7, SameKept
<1>12. \A q \in Proc \ {p} : TreesOf(call[q], q)'
  BY <1>1, <1>5, <1>6, <1>11, OtherTrees
<1>13. TreesOf(e, p)'
  <2> PICK top \in Nat : top = c.lo
    BY Fields
  <2>1. PTop(e, p)' = top
    BY <1>5 DEF PTop
  <2>2. KernUpto(d, KTABS) /\ Below(d, top)
    <3>1. KernOf(c) /\ Below(d, NTop(c))
      BY <1>1, NewTree DEF Growing
    <3> QED
      BY <1>1, <3>1 DEF KernOf, Growing, NTop
  <2>3. KernUpto(b, KTABS) /\ Below(b, USEREND)
    <3>1. TreesOf(c, p) /\ b # 0
      BY <1>3, Constants DEF Trees
    <3>2. PICK x \in Nat : x = KERNEND + size[p] /\ x <= USEREND
      <4>1. size[p] \in Nat /\ size[p] <= USEREND - KERNEND
        BY <1>2 DEF Shape, Types
      <4> QED
        BY <4>1, Spaces
    <3>3. KernUpto(b, KTABS) /\ Below(b, x)
      BY <1>1, <3>1, <3>2 DEF TreesOf, PTop
    <3>4. \A a \in Nat : a < x => a < USEREND
      BY <3>2, Spaces
    <3> QED
      BY <3>3, <3>4, Encode DEF Below
  <2>4. KernUpto(d, KTABS)' /\ Below(d, top)' /\ KernUpto(b, KTABS)' /\ Below(b, USEREND)'
    BY <2>2, <2>3, <1>3, <1>11, KeptTree
  <2> QED
    BY <2>1, <2>4, <1>5, <1>6 DEF TreesOf
<1> QED
  BY <1>5, <1>10, <1>12, <1>13 DEF Trees

(***************************************************************************)
(* The invariant under the steps that free memory.                         *)
(***************************************************************************)

\* What hangs on the directory d: its tables and their pages.
Within(d) ==
  {x \in Page : \/ x = d
                \/ \E i \in Idx : To(d, i) = x
                \/ \E i \in UIdx, j \in Idx : To(d, i) # 0 /\ To(To(d, i), j) = x}

\* freevm() finds all of it, the tables of the kernel apart, when d has no
\* page from USEREND on.
LEMMA WithinIs ==
  ASSUME Types, NEW d \in Page, Below(d, USEREND)
  PROVE  /\ Freed(d) \cup KernTables(d) = Within(d)
         /\ \A x \in KernTables(d) : x \in Page /\ \E i \in KIdx : To(d, i) = x
         /\ \A x \in Freed(d) :
              /\ x \in Page
              /\ \/ x = d
                 \/ \E i \in UIdx : To(d, i) = x
                 \/ \E i \in UIdx, j \in Idx : To(d, i) # 0 /\ To(To(d, i), j) = x
<1>1. \A g \in Page, i \in Idx : To(g, i) \in Page \cup {0}
  BY RefersType
<1>2. KernTables(d) = {To(d, i) : i \in KIdx} \ {0} /\ UserTables(d) = {To(d, i) : i \in UIdx} \ {0}
  BY DEF KernTables, UserTables, To, KIdx, UIdx
<1>3. ASSUME NEW va \in Pages(KERNEND, USEREND), Mapped(d, va)
      PROVE  \E i \in UIdx, j \in Idx :
               To(d, i) # 0 /\ To(To(d, i), j) = Pte(d, va).pa /\ Pte(d, va).pa # 0
  <2>1. PDX(va) \in UIdx /\ PTX(va) \in Idx
    BY UserAddress, Spaces
  <2>2. PICK i \in UIdx, j \in Idx : i = PDX(va) /\ j = PTX(va)
    BY <2>1
  <2>3. Table(d, va) = To(d, i) /\ Pte(d, va).pa = To(To(d, i), j)
    BY <2>2 DEF Table, Pte, To
  <2> QED
    BY <2>3, <1>3 DEF Mapped
<1>4. ASSUME NEW i \in UIdx, NEW j \in Idx, To(d, i) # 0, To(To(d, i), j) # 0
      PROVE  To(To(d, i), j) \in UserPages(d)
  <2> PICK va \in Nat : va = Addr(i, j)
    BY Encode
  <2>1. KERNEND <= va /\ va < USEREND /\ va % PAGESIZE = 0 /\ PDX(va) = i /\ PTX(va) = j
    BY <1>4, Encode DEF Below
  <2>2. va \in Pages(KERNEND, USEREND)
    BY <2>1, Spaces DEF Pages
  <2>3. Table(d, va) = To(d, i) /\ Pte(d, va).pa = To(To(d, i), j)
    BY <2>1 DEF Table, Pte, To
  <2>4. Mapped(d, va)
    BY <2>3, <1>4 DEF Mapped
  <2> QED
    BY <2>2, <2>3, <2>4 DEF UserPages
<1>5. \A x \in UserPages(d) :
        x # 0 /\ \E i \in UIdx, j \in Idx : To(d, i) # 0 /\ To(To(d, i), j) = x
  BY <1>3 DEF UserPages
<1>6. \A x : x \in Freed(d) <=> x = d \/ x \in UserPages(d) \/ x \in UserTables(d)
  BY DEF Freed
<1>7. Freed(d) \subseteq Page /\ KernTables(d) \subseteq Page
  BY FreedPages
<1>8. ASSUME NEW x \in Freed(d)
      PROVE  \/ x = d
             \/ \E i \in UIdx : To(d, i) = x
             \/ \E i \in UIdx, j \in Idx : To(d, i) # 0 /\ To(To(d, i), j) = x
  BY <1>2, <1>5, <1>6
<1>9. \A x \in KernTables(d) : \E i \in KIdx : To(d, i) = x
  BY <1>2
<1>10. ASSUME NEW x \in Within(d) PROVE x \in Freed(d) \cup KernTables(d)
  <2>1. x \in Page /\ x # 0
    BY Constants DEF Within
  <2>2. CASE x = d
    BY <2>2, <1>6
  <2>3. CASE \E i \in Idx : To(d, i) = x
    <3>1. PICK i \in Idx : To(d, i) = x
      BY <2>3
    <3>2. i \in KIdx \/ i \in UIdx
      BY Indexes
    <3> QED
      BY <3>1, <3>2, <2>1, <1>2, <1>6
  <2>4. CASE \E i \in UIdx, j \in Idx : To(d, i) # 0 /\ To(To(d, i), j) = x
    BY <2>1, <2>4, <1>4, <1>6
  <2> QED
    BY <2>2, <2>3, <2>4 DEF Within
<1>11. ASSUME NEW x \in Freed(d) \cup KernTables(d) PROVE x \in Within(d)
  BY <1>7, <1>8, <1>9, Indexes DEF Within
<1> QED
  BY <1>7, <1>8, <1>9, <1>10, <1>11

\* Directories of which no table is freed.
LEMMA DropKept ==
  ASSUME NEW G, \A g \in Page, i \in Idx : To(g, i)' = IF To(g, i) \in G THEN 0 ELSE To(g, i),
         NEW e \in Page, \A i \in Idx : To(e, i) \notin G
  PROVE  Kept(e)
<1>1. \A i \in Idx : To(e, i)' = To(e, i)
  OBVIOUS
<1>2. \A t \in Page, j \in Idx : To(t, j)' # 0 => To(t, j) # 0
  OBVIOUS
<1> QED
  BY <1>1, <1>2, Indexes DEF Kept

\* freevm() of the directories of D and kfree() of the other pages of S,
\* which no variable refers to any more.
LEMMA FreevmMem ==
  ASSUME Types, Types', Own, NEW D \in SUBSET Page, NEW S \in SUBSET Page, freevm(D, S),
         \A d \in D : IsDir(d) /\ Below(d, USEREND),
         \A x \in S : \E k \in {1, 5}, q \in Proc : Var(k, q) = x,
         \A m \in 1 .. 5, r \in Proc : Var(m, r)' = IF Var(m, r) \in D \cup S THEN 0 ELSE Var(m, r)
  PROVE  Own' /\ \A e \in Page : IsDir(e) /\ e \notin D => Kept(e)
<1> PICK A : A = S \cup UNION {Freed(d) : d \in D}
  OBVIOUS
<1> PICK B : B = UNION {KernTables(d) : d \in D}
  OBVIOUS
<1> PICK G : G = A \cup B
  OBVIOUS
<1>1. free' = free \cup A /\ lost' = lost \cup B
  BY DEF freevm, kfree
<1>2. mem' = [g \in Page |-> IF g \in A THEN Zero ELSE mem[g]]
  BY DEF freevm, kfree
<1>3. /\ \A g, h \in Page, i, j \in Idx : To(g, i) = To(h, j) /\ To(g, i) # 0 => g = h /\ i = j
      /\ \A g \in Page, i \in Idx, k \in 1 .. 5, p \in Proc : To(g, i) # 0 => To(g, i) # Var(k, p)
      /\ \A k, l \in 1 .. 5, p, q \in Proc :
           Var(k, p) = Var(l, q) /\ Var(k, p) # 0 => k = l /\ p = q
      /\ \A g \in Page, i \in Idx : To(g, i) \notin free /\ To(g, i) \notin lost
      /\ \A k \in 1 .. 5, p \in Proc : Var(k, p) \notin free /\ Var(k, p) \notin lost
  BY Unique DEF Own
<1>4. /\ \A k \in {1, 5}, p \in Proc, i \in Idx : Var(k, p) # 0 => To(Var(k, p), i) = 0
      /\ \A d \in Page, n \in KIdx, i \in Idx : To(d, n) # 0 => To(To(d, n), i) = 0
      /\ \A d \in Page, n \in UIdx, j \in Idx, i \in Idx :
           IsDir(d) /\ To(d, n) # 0 /\ To(To(d, n), j) # 0 => To(To(To(d, n), j), i) = 0
      /\ \A d \in Page, n \in Idx : To(d, n) # 0 => ~IsDir(To(d, n))
  BY Blanks
<1>5. 0 \notin Page /\ \A g \in Page, i \in Idx : To(g, i) \in Page \cup {0}
  BY RefersType, Constants
<1>6. \A x \in Page : x \in G <=> x \in S \/ \E d \in D : x \in Within(d)
  <2>1. \A x : x \in G <=> x \in S \/ \E d \in D : x \in Freed(d) \/ x \in KernTables(d)
    OBVIOUS
  <2>2. \A d \in D : \A x : x \in Within(d) <=> x \in Freed(d) \/ x \in KernTables(d)
    BY WithinIs
  <2> QED
    BY <2>1, <2>2
<1>7. A \subseteq Page /\ B \subseteq Page /\ G \subseteq Page
  BY WithinIs
<1>8. \A x \in Page : \A d :
        x \in Within(d) <=> \/ x = d
                            \/ \E i \in Idx : To(d, i) = x
                            \/ \E i \in UIdx, j \in Idx : To(d, i) # 0 /\ To(To(d, i), j) = x
  BY DEF Within
<1>9. ASSUME NEW g \in S
      PROVE  /\ \A i \in Idx : To(g, i) = 0
             /\ \A h \in Page, i \in Idx : To(h, i) # g
             /\ g \notin free /\ g \notin lost /\ ~IsDir(g)
  <2>1. PICK k \in {1, 5}, q \in Proc : Var(k, q) = g
    OBVIOUS
  <2>2. g # 0 /\ k \in 1 .. 5
    BY <1>5
  <2> QED
    BY <2>1, <2>2, <1>3, <1>4 DEF IsDir
<1>10. ASSUME NEW d \in D
       PROVE  \A h \in Page, i \in Idx : To(h, i) # d
  BY <1>4, <1>5
<1>11. ASSUME NEW g \in G, NEW i \in Idx PROVE To(g, i) \in G \cup {0}
  <2>1. CASE g \in S
    BY <2>1, <1>9
  <2>2. ASSUME NEW d \in D, g \in Within(d) PROVE To(g, i) \in Within(d) \cup {0}
    <3>1. g \in Page /\ d \in Page /\ IsDir(d) /\ g # 0
      BY <1>5, <1>7
    <3>2. CASE g = d
      BY <3>1, <3>2, <1>5, <1>8
    <3>3. CASE \E n \in Idx : To(d, n) = g
      <4>1. PICK n \in Idx : To(d, n) = g
        BY <3>3
      <4>2. n \in KIdx => To(g, i) = 0
        BY <3>1, <4>1, <1>4
      <4>3. n \in UIdx => To(g, i) \in Within(d) \cup {0}
        BY <3>1, <4>1, <1>5, <1>8
      <4> QED
        BY <4>2, <4>3, Indexes
    <3>4. CASE \E n \in UIdx, j \in Idx : To(d, n) # 0 /\ To(To(d, n), j) = g
      BY <3>1, <3>4, <1>4
    <3> QED
      BY <2>2, <3>1, <3>2, <3>3, <3>4, <1>8
  <2>3. To(g, i) \in Page \cup {0} /\ g \in Page
    BY <1>5, <1>7
  <2> QED
    BY <2>1, <2>2, <2>3, <1>6
<1>12. ASSUME NEW g \in Page \ G, NEW i \in Idx, To(g, i) # 0 PROVE To(g, i) \notin G
  <2> SUFFICES ASSUME To(g, i) \in G PROVE FALSE
    OBVIOUS
  <2>1. To(g, i) \in Page
    BY <1>5, <1>12
  <2>2. To(g, i) \notin S
    BY <1>9
  <2>3. PICK d \in D : To(g, i) \in Within(d)
    BY <2>1, <2>2, <1>6
  <2>4. To(g, i) # d /\ d \in Page
    BY <1>10
  <2>5. ASSUME NEW n \in Idx, To(d, n) = To(g, i) PROVE FALSE
    <3>1. g = d
      BY <2>4, <2>5, <1>3, <1>12
    <3>2. d \in Within(d)
      BY <2>4, <1>8
    <3> QED
      BY <3>1, <3>2, <1>6
  <2>6. ASSUME NEW n \in UIdx, NEW j \in Idx, To(d, n) # 0, To(To(d, n), j) = To(g, i) PROVE FALSE
    <3>1. To(d, n) \in Page /\ n \in Idx
      BY <2>4, <2>6, <1>5, Indexes
    <3>2. g = To(d, n)
      BY <2>6, <3>1, <1>3, <1>12
    <3>3. g \in Within(d)
      BY <3>1, <3>2, <1>8
    <3> QED
      BY <3>3, <1>6
  <2> QED
    BY <2>1, <2>3, <2>4, <2>5, <2>6, <1>8
<1>13. ASSUME NEW g \in Page, NEW i \in Idx
       PROVE  To(g, i)' = IF To(g, i) \in G THEN 0 ELSE To(g, i)
  <2>1. To(g, i)' = IF g \in A THEN 0 ELSE To(g, i)
    BY <1>2 DEF To, Zero, None
  <2>2. CASE g \in A
    <3>1. To(g, i) \in G \cup {0}
      BY <2>2, <1>11
    <3> QED
      BY <2>1, <2>2, <3>1
  <2>3. CASE g \in B /\ g \notin A
    <3>1. PICK d \in D, n \in KIdx : To(d, n) = g
      BY <2>3, WithinIs
    <3>2. To(g, i) = 0
      BY <3>1, <1>4, <1>5
    <3> QED
      BY <2>1, <2>3, <3>2
  <2>4. CASE g \notin G
    <3>1. To(g, i) # 0 => To(g, i) \notin G
      BY <2>4, <1>12
    <3> QED
      BY <2>1, <2>4, <3>1
  <2> QED
    BY <2>2, <2>3, <2>4
<1>14. ASSUME NEW m \in 1 .. 5, NEW r \in Proc PROVE Var(m, r) \in G <=> Var(m, r) \in D \cup S
  <2>1. ASSUME Var(m, r) \in G, Var(m, r) \notin S PROVE Var(m, r) \in D
    <3>1. Var(m, r) \in Page
      BY <2>1, <1>7
    <3>2. PICK d \in D : Var(m, r) \in Within(d)
      BY <2>1, <3>1, <1>6
    <3>3. ASSUME NEW g \in Page, NEW i \in Idx PROVE To(g, i) # Var(m, r)
      BY <3>1, <1>3, <1>5
    <3>4. ASSUME NEW n \in UIdx, NEW j \in Idx, To(d, n) # 0 PROVE To(To(d, n), j) # Var(m, r)
      <4>1. To(d, n) \in Page
        BY <3>4, <1>5, Indexes
      <4> QED
        BY <4>1, <3>3
    <3> QED
      BY <3>1, <3>2, <3>3, <3>4, <1>8
  <2>2. ASSUME Var(m, r) \in D PROVE Var(m, r) \in G
    <3>1. Var(m, r) \in Page /\ Var(m, r) \in Within(Var(m, r))
      BY <2>2, <1>8
    <3> QED
      BY <2>2, <3>1, <1>6
  <2> QED
    BY <2>1, <2>2
<1>15. free' \cap lost' = {}
  <2>1. free \cap lost = {}
    BY DEF Own
  <2>2. ASSUME NEW x \in A PROVE x \notin lost /\ x \notin B
    <3>1. CASE x \in S
      <4>1. x \notin B
        BY <3>1, <1>9, WithinIs, Indexes
      <4> QED
        BY <3>1, <4>1, <1>9
    <3>2. CASE x \notin S
      <4>1. PICK d \in D : x \in Freed(d)
        BY <3>2
      <4>2. /\ x \in Page /\ x # 0 /\ d \in Page
            /\ \/ x = d
               \/ \E i \in UIdx : To(d, i) = x
               \/ \E i \in UIdx, j \in Idx : To(d, i) # 0 /\ To(To(d, i), j) = x
        BY <4>1, <1>5, WithinIs
      <4>3. CASE x = d
        <5>1. x \notin lost
          BY <4>3, <1>3 DEF IsDir
        <5> QED
          BY <4>3, <5>1, <1>10, WithinIs, Indexes
      <4>4. ASSUME NEW i \in UIdx, To(d, i) = x PROVE x \notin lost /\ x \notin B
        <5>1. x \notin lost
          BY <4>2, <4>4, <1>3, Indexes
        <5>2. ASSUME NEW e \in D, NEW n \in KIdx, To(e, n) = x PROVE FALSE
          <6>1. n \in Idx /\ i \in Idx /\ n # i
            BY Indexes, Bounded DEF KIdx, UIdx
          <6> QED
            BY <4>2, <4>4, <5>2, <6>1, <1>3
        <5> QED
          BY <5>1, <5>2, WithinIs
      <4>5. ASSUME NEW i \in UIdx, NEW j \in Idx, To(d, i) # 0, To(To(d, i), j) = x
            PROVE  x \notin lost /\ x \notin B
        <5>1. To(d, i) \in Page /\ i \in Idx
          BY <4>2, <4>5, <1>5, Indexes
        <5>2. x \notin lost
          BY <4>5, <5>1, <1>3
        <5>3. ASSUME NEW e \in D, NEW n \in KIdx, To(e, n) = x PROVE FALSE
          <6>1. n \in Idx
            BY Indexes
          <6>2. e = To(d, i)
            BY <4>2, <4>5, <5>1, <5>3, <6>1, <1>3
          <6> QED
            BY <4>2, <5>1, <6>2, <1>10
        <5> QED
          BY <5>2, <5>3, WithinIs
      <4> QED
        BY <4>2, <4>3, <4>4, <4>5
    <3> QED
      BY <3>1, <3>2
  <2>3. ASSUME NEW x \in B PROVE x \notin free
    <3>1. PICK d \in D, n \in KIdx : To(d, n) = x
      BY WithinIs
    <3> QED
      BY <3>1, <1>3, Indexes
  <2> QED
    BY <2>1, <2>2, <2>3, <1>1
<1>16. Own'
  <2>1. free' \cup lost' = free \cup lost \cup G
    BY <1>1
  <2>2. \A m \in 1 .. 5, r \in Proc : Var(m, r)' = IF Var(m, r) \in G THEN 0 ELSE Var(m, r)
    BY <1>14
  <2>3. G \in SUBSET Page
    BY <1>7
  <2>4. \A g \in G, i \in Idx : To(g, i) \in G \cup {0}
    BY <1>11
  <2>5. \A g \in Page, i \in Idx : To(g, i)' = IF To(g, i) \in G THEN 0 ELSE To(g, i)
    BY <1>13
  <2> QED
    BY <2>1, <2>2, <2>3, <2>4, <2>5, <1>15, DropPages
<1>17. ASSUME NEW e \in Page, IsDir(e), e \notin D PROVE Kept(e)
  <2>1. e \notin G
    <3>1. PICK k \in 2 .. 4, q \in Proc : Var(k, q) = e
      BY <1>17 DEF IsDir
    <3>2. e \notin S
      BY <1>9, <1>17
    <3> QED
      BY <3>1, <3>2, <1>14, <1>17
  <2>2. \A i \in Idx : To(e, i) \notin G
    BY <2>1, <1>5, <1>7, <1>12
  <2> QED
    BY <2>2, <1>13, DropKept
<1> QED
  BY <1>16, <1>17

\* What the undoing frees is pages of the directory being built and the
\* page of the call.
LEMMA DeallocMem ==
  ASSUME Types, Types', Own, NEW d \in Page, IsDir(d), NEW lo \in Nat, NEW hi \in Nat,
         KERNEND <= lo, hi <= USEREND, NEW S \in SUBSET Page, deallocuvm(d, hi, lo, S),
         \A x \in S : \E q \in Proc : Var(5, q) = x,
         \A m \in 1 .. 5, r \in Proc : Var(m, r)' = IF Var(m, r) \in S THEN 0 ELSE Var(m, r)
  PROVE  Own' /\ \A e \in Page : IsDir(e) => Kept(e)
<1> PICK gone : gone = {va \in Pages(lo, hi) : Mapped(d, va)}
  OBVIOUS
<1> PICK G : G = {Pte(d, va).pa : va \in gone} \cup S
  OBVIOUS
<1>1. free' = free \cup G /\ lost' = lost
  BY DEF deallocuvm
<1>2. mem' = [g \in Page |->
        IF g \in G THEN Zero
        ELSE [i \in Idx |-> IF \E va \in gone : g = Table(d, va) /\ i = PTX(va)
                            THEN None ELSE mem[g][i]]]
  BY DEF deallocuvm
<1>3. /\ \A g, h \in Page, i, j \in Idx : To(g, i) = To(h, j) /\ To(g, i) # 0 => g = h /\ i = j
      /\ \A g \in Page, i \in Idx, k \in 1 .. 5, p \in Proc : To(g, i) # 0 => To(g, i) # Var(k, p)
      /\ \A k, l \in 1 .. 5, p, q \in Proc :
           Var(k, p) = Var(l, q) /\ Var(k, p) # 0 => k = l /\ p = q
      /\ \A g \in Page, i \in Idx : To(g, i) \notin free /\ To(g, i) \notin lost
      /\ \A k \in 1 .. 5, p \in Proc : Var(k, p) \notin free /\ Var(k, p) \notin lost
  BY Unique DEF Own
<1>4. /\ \A p \in Proc, i \in Idx : Var(5, p) # 0 => To(Var(5, p), i) = 0
      /\ \A n \in UIdx, j \in Idx, i \in Idx :
           To(d, n) # 0 /\ To(To(d, n), j) # 0 => To(To(To(d, n), j), i) = 0
      /\ \A e \in Page, n \in Idx : To(e, n) # 0 => ~IsDir(To(e, n))
  BY Blanks
<1>5. 0 \notin Page /\ \A g \in Page, i \in Idx : To(g, i) \in Page \cup {0}
  BY RefersType, Constants
<1>6. ASSUME NEW va \in gone
      PROVE  \E t \in Page, n \in UIdx, j \in Idx :
               /\ Table(d, va) = t /\ To(d, n) = t /\ PTX(va) = j
               /\ Pte(d, va).pa = To(t, j) /\ To(t, j) \in Page
  <2>1. va \in Pages(lo, hi) /\ Mapped(d, va)
    OBVIOUS
  <2>2. PICK n \in UIdx, j \in Idx : n = PDX(va) /\ j = PTX(va)
    BY <2>1, UserAddress
  <2>3. PICK t \in Page : t = Table(d, va)
    BY <2>1, MappedIs
  <2>4. To(d, n) = t
    BY <2>2, <2>3 DEF Table, To
  <2>5. Pte(d, va).pa = To(t, j)
    BY <2>2, <2>3 DEF Pte, To
  <2>6. To(t, j) \in Page
    BY <2>1, <2>5, <1>5 DEF Mapped
  <2> QED
    BY <2>2, <2>3, <2>4, <2>5, <2>6
<1>7. ASSUME NEW x \in G, x \notin S
      PROVE  \E va \in gone, t \in Page, n \in UIdx, j \in Idx :
               /\ Table(d, va) = t /\ To(d, n) = t /\ PTX(va) = j /\ x = To(t, j) /\ x \in Page
  BY <1>6, <1>7
<1>8. G \in SUBSET Page
  BY <1>7
<1>9. ASSUME NEW g \in S
      PROVE  /\ \A i \in Idx : To(g, i) = 0
             /\ \A h \in Page, i \in Idx : To(h, i) # g
             /\ g \notin free /\ g \notin lost /\ ~IsDir(g)
  <2>1. PICK q \in Proc : Var(5, q) = g
    OBVIOUS
  <2>2. g # 0 /\ 5 \in 1 .. 5 /\ 5 \notin 2 .. 4
    BY <1>5
  <2> QED
    BY <2>1, <2>2, <1>3, <1>4 DEF IsDir
<1>10. ASSUME NEW g \in G, NEW i \in Idx PROVE To(g, i) = 0
  <2>1. CASE g \in S
    BY <2>1, <1>9
  <2>2. CASE g \notin S
    <3>1. PICK t \in Page, n \in UIdx, j \in Idx : To(d, n) = t /\ g = To(t, j) /\ g \in Page
      BY <2>2, <1>7
    <3>2. To(d, n) # 0 /\ To(To(d, n), j) # 0 /\ g = To(To(d, n), j)
      BY <3>1, <1>5
    <3> QED
      BY <3>2, <1>4
  <2> QED
    BY <2>1, <2>2
<1>11. ASSUME NEW g \in Page, NEW i \in Idx
       PROVE  To(g, i)' = IF To(g, i) \in G THEN 0 ELSE To(g, i)
  <2>1. CASE g \in G
    <3>1. To(g, i)' = 0
      BY <2>1, <1>2 DEF To, Zero, None
    <3> QED
      BY <3>1, <2>1, <1>10
  <2>2. CASE g \notin G /\ \E va \in gone : g = Table(d, va) /\ i = PTX(va)
    <3>1. PICK va \in gone : g = Table(d, va) /\ i = PTX(va)
      BY <2>2
    <3>2. To(g, i)' = 0
      BY <2>2, <1>2 DEF To, None
    <3>3. To(g, i) \in G
      <4>1. Pte(d, va).pa = To(g, i)
        BY <3>1, <1>6
      <4> QED
        BY <4>1
    <3> QED
      BY <3>2, <3>3
  <2>3. CASE g \notin G /\ ~ \E va \in gone : g = Table(d, va) /\ i = PTX(va)
    <3>1. To(g, i)' = To(g, i)
      BY <2>3, <1>2 DEF To
    <3>2. ASSUME To(g, i) \in G PROVE FALSE
      <4>1. To(g, i) \notin S
        BY <1>9
      <4>2. PICK va \in gone, t \in Page, n \in UIdx, j \in Idx :
              Table(d, va) = t /\ PTX(va) = j /\ To(g, i) = To(t, j) /\ To(g, i) \in Page
        BY <3>2, <4>1, <1>7
      <4>3. g = t /\ i = j
        BY <4>2, <1>3, <1>5
      <4> QED
        BY <4>2, <4>3, <2>3
    <3> QED
      BY <3>1, <3>2
  <2> QED
    BY <2>1, <2>2, <2>3
<1>12. ASSUME NEW x \in G, NEW m \in 1 .. 5, NEW r \in Proc, Var(m, r) = x PROVE x \in S
  <2> SUFFICES ASSUME x \notin S PROVE FALSE
    OBVIOUS
  <2>1. PICK t \in Page, j \in Idx : x = To(t, j) /\ x \in Page
    BY <1>7
  <2> QED
    BY <2>1, <1>12, <1>3, <1>5
<1>13. Own'
  <2>1. free' \cup lost' = free \cup lost \cup G /\ free' \cap lost' = {}
    <3>1. \A x \in G : x \notin lost
      BY <1>3, <1>7, <1>9
    <3> QED
      BY <3>1, <1>1 DEF Own
  <2>2. \A m \in 1 .. 5, r \in Proc : Var(m, r)' = IF Var(m, r) \in G THEN 0 ELSE Var(m, r)
    BY <1>12
  <2>3. \A g \in G, i \in Idx : To(g, i) \in G \cup {0}
    BY <1>10
  <2>4. \A g \in Page, i \in Idx : To(g, i)' = IF To(g, i) \in G THEN 0 ELSE To(g, i)
    BY <1>11
  <2> QED
    BY <2>1, <2>2, <2>3, <2>4, <1>8, DropPages
<1>14. ASSUME NEW e \in Page, IsDir(e) PROVE Kept(e)
  <2>1. ASSUME NEW i \in Idx, To(e, i) \in G PROVE FALSE
    <3>1. To(e, i) \notin S
      BY <1>9
    <3>2. PICK t \in Page, n \in UIdx, j \in Idx :
            To(d, n) = t /\ To(e, i) = To(t, j) /\ To(e, i) \in Page
      BY <2>1, <3>1, <1>7
    <3>3. e = t
      BY <3>2, <1>3, <1>5
    <3>4. To(d, n) = e /\ e # 0 /\ n \in Idx
      BY <3>2, <3>3, <1>5, Indexes
    <3> QED
      BY <3>4, <1>4, <1>14
  <2> QED
    BY <2>1, <1>11, DropKept
<1> QED
  BY <1>13, <1>14

\* The loop gives up: allocuvm() takes back the pages that it mapped, and the
\* page of the call goes back (vm.c:168-179, 143-148).
LEMMA UndoMem ==
  ASSUME Types, Types', Control, Own, Trees, NEW p \in Proc, call[p].pc \in {"page", "map"},
         NEW S \in SUBSET Page, S = {call[p].page} \ {0}, Undo(p, S),
         UNCHANGED <<pgdir, size, kstack>>
  PROVE  Own' /\ Trees'
<1> PICK c \in Call : c = call[p]
  BY DEF Types
<1>1. Shape(c, p) /\ Bounds(c, p)
  BY DEF Control
<1> PICK d \in Page : d = c.new /\ IsDir(d)
  BY NewTree DEF Growing
<1>2. c.old = 0 /\ c.pc \in Growing
  BY NewTree DEF Growing
<1>3. PICK e : e = [c EXCEPT !.pc = "bad", !.page = 0]
  OBVIOUS
<1>4. /\ e.pc = "bad" /\ e.new = c.new /\ e.old = c.old /\ e.page = 0
      /\ e = call'[p] /\ \A q \in Proc \ {p} : call'[q] = call[q]
  BY <1>3 DEF Call, Types, Undo
<1>5. e \in Call
  BY <1>4 DEF Types
<1>6. \A x \in S : \E q \in Proc : Var(5, q) = x
  BY VarIs
<1>7. ASSUME NEW m \in 1 .. 5, NEW r \in Proc
      PROVE  Var(m, r)' = IF Var(m, r) \in S THEN 0 ELSE Var(m, r)
  <2>1. kstack' = kstack /\ pgdir' = pgdir
    OBVIOUS
  <2>2. CASE m = 5 /\ r = p
    <3>1. Var(m, r) = c.page /\ Var(m, r)' = 0
      BY <2>2, <1>4, VarIs, VarIsNext
    <3> QED
      BY <3>1
  <2>3. CASE ~(m = 5 /\ r = p)
    <3>1. Var(m, r)' = Var(m, r)
      <4>1. CASE r = p
        BY <2>1, <2>3, <4>1, <1>4 DEF Var
      <4>2. CASE r # p
        BY <2>1, <4>2, <1>4 DEF Var
      <4> QED
        BY <4>1, <4>2
    <3>2. Var(m, r) \notin S
      <4>1. \A k, l \in 1 .. 5, u, q \in Proc :
              Var(k, u) = Var(l, q) /\ Var(k, u) # 0 => k = l /\ u = q
        BY Unique DEF Own
      <4>2. Var(5, p) = c.page
        BY VarIs
      <4> QED
        BY <2>3, <4>1, <4>2
    <3> QED
      BY <3>1, <3>2
  <2> QED
    BY <2>2, <2>3
<1>8. Own' /\ \A g \in Page : IsDir(g) => Kept(g)
  <2>1. CASE c.op = "fork"
    <3>1. kfree(S) /\ lost' = lost
      BY <2>1 DEF Undo
    <3>2. PICK D \in SUBSET Page : D = {}
      OBVIOUS
    <3>3. freevm(D, S)
      <4>1. S \cup UNION {Freed(h) : h \in D} = S /\ lost \cup UNION {KernTables(h) : h \in D} = lost
        BY <3>2
      <4> QED
        BY <3>1, <4>1 DEF freevm
    <3>4. D \cup S = S
      BY <3>2
    <3>5. \A x \in S : \E k \in {1, 5}, q \in Proc : Var(k, q) = x
      BY <1>6
    <3>6. \A m \in 1 .. 5, r \in Proc : Var(m, r)' = IF Var(m, r) \in D \cup S THEN 0 ELSE Var(m, r)
      BY <1>7, <3>4
    <3> QED
      BY <3>2, <3>3, <3>5, <3>6, FreevmMem
  <2>2. CASE c.op # "fork"
    <3>1. deallocuvm(d, c.end, c.lo, S)
      BY <2>2 DEF Undo
    <3>2. c.lo \in Nat /\ c.end \in Nat /\ KERNEND <= c.lo /\ c.end <= USEREND
      BY <1>1, <1>2, Fields, Spaces DEF Bounds
    <3> QED
      BY <1>6, <1>7, <3>1, <3>2, DeallocMem
  <2> QED
    BY <2>1, <2>2
<1>9. \A a \in Nat : a % PAGESIZE = 0 /\ a < NTop(c) => a < NTop(e)
  <2>1. /\ c.va % PAGESIZE = 0 /\ c.va < c.end + PAGESIZE /\ c.va \in Nat /\ c.end \in Nat
        /\ c.end <= USEREND
    BY <1>1, Fields DEF Bounds
  <2>2. NTop(c) = c.va /\ NTop(e) = USEREND
    BY <1>4 DEF NTop
  <2>3. \A a \in Nat : a % PAGESIZE = 0 /\ a < c.va => a < c.end
    BY <2>1, LoopEnd
  <2> QED
    BY <2>1, <2>2, <2>3, Spaces
<1>10. Trees'
  BY <1>2, <1>4, <1>5, <1>8, <1>9, SameTrees DEF Growing
<1> QED
  BY <1>8, <1>10

\* The call ends, and what D and S have goes with it.
LEMMA BadMem ==
  ASSUME Types, Types', Control, Own, Trees, NEW p \in Proc, Bad(p)
  PROVE  Own' /\ Trees'
<1> PICK c \in Call : c = call[p]
  BY DEF Types
<1>1. /\ c.pc = "bad" /\ freevm({c.new} \ {0}, {}) /\ Shape(c, p)
      /\ UNCHANGED <<pgdir, size, kstack>>
  BY DEF Bad, At, proc, Control
<1>2. c.old = 0 /\ c.page = 0
  BY <1>1 DEF Shape
<1>3. PICK e : /\ e = call'[p] /\ e.new = 0 /\ e.old = 0 /\ e.page = 0
               /\ e.pc \in {"unfork", "user"} /\ \A q \in Proc \ {p} : call'[q] = call[q]
  <2>1. CASE c.op = "fork"
    <3>1. PICK e : e = [c EXCEPT !.pc = "unfork", !.new = 0]
      OBVIOUS
    <3>2. call' = [call EXCEPT ![p].pc = "unfork", ![p].new = 0]
      BY <2>1 DEF Bad
    <3>3. e = call'[p] /\ \A q \in Proc \ {p} : call'[q] = call[q]
      BY <3>1, <3>2 DEF Types
    <3>4. e.pc = "unfork" /\ e.new = 0 /\ e.old = c.old /\ e.page = c.page
      BY <3>1 DEF Call
    <3> QED
      BY <1>2, <3>3, <3>4
  <2>2. CASE c.op # "fork"
    <3>1. call' = [call EXCEPT ![p] = User]
      BY <2>2 DEF Bad, Return
    <3>2. call'[p] = User /\ \A q \in Proc \ {p} : call'[q] = call[q]
      BY <3>1 DEF Types
    <3> QED
      BY <3>2, UserIs
  <2> QED
    BY <2>1, <2>2
<1>4. PICK D \in SUBSET Page : D = {c.new} \ {0}
  BY Fields
<1>5. PICK S \in SUBSET Page : S = {}
  OBVIOUS
<1>6. \A x \in D : IsDir(x) /\ Below(x, USEREND)
  <2> SUFFICES ASSUME NEW x \in Page, x = c.new, x # 0 PROVE IsDir(x) /\ Below(x, USEREND)
    BY <1>4
  <2>1. TreesOf(c, p)
    BY DEF Trees
  <2> QED
    BY <1>1, <2>1, DirsDiffer DEF TreesOf, NTop
<1>7. ASSUME NEW m \in 1 .. 5, NEW r \in Proc
      PROVE  Var(m, r)' = IF Var(m, r) \in D THEN 0 ELSE Var(m, r)
  <2>1. kstack' = kstack /\ pgdir' = pgdir
    BY <1>1
  <2>2. CASE m = 3 /\ r = p
    <3>1. Var(m, r) = c.new /\ Var(m, r)' = 0
      BY <2>2, <1>3, VarIs, VarIsNext
    <3> QED
      BY <3>1, <1>4
  <2>3. CASE ~(m = 3 /\ r = p)
    <3>1. Var(m, r)' = Var(m, r)
      <4>1. CASE r = p
        BY <2>1, <2>3, <4>1, <1>2, <1>3 DEF Var
      <4>2. CASE r # p
        BY <2>1, <4>2, <1>3 DEF Var
      <4> QED
        BY <4>1, <4>2
    <3>2. Var(m, r) \notin D
      <4>1. \A k, l \in 1 .. 5, u, q \in Proc :
              Var(k, u) = Var(l, q) /\ Var(k, u) # 0 => k = l /\ u = q
        BY Unique DEF Own
      <4>2. Var(3, p) = c.new
        BY VarIs
      <4> QED
        BY <2>3, <4>1, <4>2, <1>4
    <3> QED
      BY <3>1, <3>2
  <2> QED
    BY <2>2, <2>3
<1>8. Own' /\ \A g \in Page : IsDir(g) /\ g \notin D => Kept(g)
  <2>1. freevm(D, S)
    BY <1>1, <1>4, <1>5
  <2>2. \A m \in 1 .. 5, r \in Proc : Var(m, r)' = IF Var(m, r) \in D \cup S THEN 0 ELSE Var(m, r)
    BY <1>5, <1>7
  <2>3. \A x \in S : \E k \in {1, 5}, q \in Proc : Var(k, q) = x
    BY <1>5
  <2> QED
    BY <1>6, <2>1, <2>2, <2>3, FreevmMem
<1>9. ASSUME NEW q \in Proc PROVE TreesOf(call[q], q)'
  <2>1. ASSUME NEW g \in Page, g \in {pgdir[q], call[q].new, call[q].old}, g # c.new \/ q # p
        PROVE  Kept(g)
    <3>1. IsDir(g)
      BY <2>1, DirsDiffer
    <3>2. g \notin D
      BY <2>1, <1>4, DirsDiffer
    <3> QED
      BY <3>1, <3>2, <1>8
  <2>2. CASE q = p
    <3>1. \A g \in Page : g = pgdir[q] => Kept(g)
      BY <2>1, <2>2, DirsDiffer
    <3> QED
      BY <2>2, <3>1, <1>1, <1>3, RestTrees
  <2>3. CASE q # p
    BY <2>1, <2>3, <1>1, <1>3, OtherTrees
  <2> QED
    BY <2>2, <2>3
<1> QED
  BY <1>8, <1>9 DEF Trees

\* pfree() of the processes of Q, none of which is in a call, and the end of
\* the call of p.
LEMMA PfreeMem ==
  ASSUME Types, Types', Control, Own, Trees, NEW p \in Proc, NEW Q \in SUBSET Proc, pfree(Q),
         p \notin Q, \A q \in Q : stat[q] \in {"SET", "ZOMB"}, call[p].pc \in {"wait", "unfork"},
         call' = [call EXCEPT ![p] = User], size' = size
  PROVE  Own' /\ Trees'
<1>1. /\ \A q \in Q : kstack'[q] = 0 /\ pgdir'[q] = 0
      /\ \A q \in Proc \ Q : kstack'[q] = kstack[q] /\ pgdir'[q] = pgdir[q]
  BY PfreeIs
<1>2. call'[p] = User /\ \A q \in Proc \ {p} : call'[q] = call[q]
  BY UserIs DEF Types
<1>3. call[p].new = 0 /\ call[p].old = 0 /\ call[p].page = 0
  BY DEF Control, Shape
<1>4. ASSUME NEW q \in Q
      PROVE  /\ call[q].pc = "user" /\ call[q].new = 0 /\ call[q].old = 0 /\ call[q].page = 0
             /\ q # p
  BY DEF Control, Shape
<1>5. PICK D \in SUBSET Page, S \in SUBSET Page : D = Pgdirs(Q) /\ S = Kstacks(Q)
  BY PfreeIs
<1>6. freevm(D, S)
  BY <1>5 DEF pfree
<1>7. /\ \A x : x \in D <=> \E q \in Q : pgdir[q] = x /\ x # 0
      /\ \A x : x \in S <=> \E q \in Q : kstack[q] = x /\ x # 0
  BY <1>5 DEF Pgdirs, Kstacks
<1>8. \A d \in D : IsDir(d) /\ Below(d, USEREND)
  <2> SUFFICES ASSUME NEW d \in D, NEW q \in Q, pgdir[q] = d, d # 0
               PROVE  IsDir(d) /\ Below(d, USEREND)
    BY <1>7
  <2>1. IsDir(d)
    BY DirsDiffer
  <2>2. PICK x \in Nat : x = KERNEND + size[q] /\ x <= USEREND
    <3>1. size[q] \in Nat /\ size[q] <= USEREND - KERNEND
      BY DEF Control, Shape, Types
    <3> QED
      BY <3>1, Spaces
  <2>3. Below(d, x)
    <3>1. TreesOf(call[q], q) /\ call[q].pc = "user"
      BY <1>4 DEF Trees
    <3> QED
      BY <2>2, <3>1 DEF TreesOf, PTop
  <2>4. \A a \in Nat : a < x => a < USEREND
    BY <2>2, Spaces
  <2>5. Below(d, USEREND)
    BY <2>3, <2>4, Encode DEF Below
  <2> QED
    BY <2>1, <2>5
<1>9. \A x \in S : \E k \in {1, 5}, q \in Proc : Var(k, q) = x
  BY <1>7, VarIs
<1>10. \A k, l \in 1 .. 5, u, q \in Proc :
         Var(k, u) = Var(l, q) /\ Var(k, u) # 0 => k = l /\ u = q
  BY Unique DEF Own
<1>11. ASSUME NEW m \in 1 .. 5, NEW r \in Proc
       PROVE  Var(m, r) \in D \cup S <=> m \in {1, 2} /\ r \in Q /\ Var(m, r) # 0
  <2>1. \A q \in Proc : Var(1, q) = kstack[q] /\ Var(2, q) = pgdir[q]
    BY VarIs
  <2>2. ASSUME Var(m, r) \in D PROVE m = 2 /\ r \in Q /\ Var(m, r) # 0
    <3>1. PICK q \in Q : pgdir[q] = Var(m, r) /\ Var(m, r) # 0
      BY <2>2, <1>7
    <3>2. Var(2, q) = Var(m, r) /\ 2 \in 1 .. 5 /\ q \in Proc
      BY <3>1, <2>1
    <3> QED
      BY <3>1, <3>2, <1>10
  <2>3. ASSUME Var(m, r) \in S PROVE m = 1 /\ r \in Q /\ Var(m, r) # 0
    <3>1. PICK q \in Q : kstack[q] = Var(m, r) /\ Var(m, r) # 0
      BY <2>3, <1>7
    <3>2. Var(1, q) = Var(m, r) /\ 1 \in 1 .. 5 /\ q \in Proc
      BY <3>1, <2>1
    <3> QED
      BY <3>1, <3>2, <1>10
  <2>4. ASSUME m \in {1, 2}, r \in Q, Var(m, r) # 0 PROVE Var(m, r) \in D \cup S
    BY <2>1, <2>4, <1>7
  <2> QED
    BY <2>2, <2>3, <2>4
<1>12. ASSUME NEW m \in 1 .. 5, NEW r \in Proc
       PROVE  Var(m, r)' = IF Var(m, r) \in D \cup S THEN 0 ELSE Var(m, r)
  <2>1. CASE r \in Q
    <3>1. Var(m, r)' = 0 /\ (m \notin {1, 2} => Var(m, r) = 0)
      BY <2>1, <1>1, <1>2, <1>4 DEF Var
    <3> QED
      BY <2>1, <3>1, <1>11
  <2>2. CASE r = p
    <3>1. Var(m, r)' = Var(m, r)
      BY <2>2, <1>1, <1>2, <1>3, UserIs DEF Var
    <3> QED
      BY <2>2, <3>1, <1>11
  <2>3. CASE r \notin Q /\ r # p
    <3>1. Var(m, r)' = Var(m, r)
      BY <2>3, <1>1, <1>2 DEF Var
    <3> QED
      BY <2>3, <3>1, <1>11
  <2> QED
    BY <2>1, <2>2, <2>3
<1>13. Own' /\ \A g \in Page : IsDir(g) /\ g \notin D => Kept(g)
  BY <1>6, <1>8, <1>9, <1>12, FreevmMem
<1>14. ASSUME NEW q \in Proc PROVE TreesOf(call[q], q)'
  <2>1. ASSUME q \notin Q, NEW g \in Page, g \in {pgdir[q], call[q].new, call[q].old} PROVE Kept(g)
    <3>1. IsDir(g)
      BY <2>1, DirsDiffer
    <3>2. PICK k \in 2 .. 4 : g = Var(k, q)
      BY <2>1, VarIs
    <3>3. g \notin D
      BY <2>1, <3>2, <1>11
    <3> QED
      BY <3>1, <3>3, <1>13
  <2>2. CASE q \in Q
    <3>1. call'[q].new = 0 /\ call'[q].old = 0 /\ pgdir'[q] = 0
      BY <2>2, <1>1, <1>2, <1>4
    <3> QED
      BY <3>1 DEF TreesOf
  <2>3. CASE q = p
    <3>1. \A g \in Page : g = pgdir[q] => Kept(g)
      BY <2>1, <2>3
    <3>2. User = call'[q] /\ pgdir'[q] = pgdir[q] /\ size'[q] = size[q]
      BY <2>3, <1>1, <1>2
    <3>3. call[q].pc \notin {"switch", "freeold"}
      BY <2>3
    <3> QED
      BY <3>1, <3>2, <3>3, UserIs, RestTrees
  <2>4. CASE q \notin Q /\ q # p
    <3>1. call'[q] = call[q] /\ pgdir'[q] = pgdir[q] /\ size'[q] = size[q]
      BY <2>4, <1>1, <1>2
    <3>2. \A g \in Page : g \in {pgdir[q], call[q].new, call[q].old} => Kept(g)
      BY <2>1, <2>4
    <3> QED
      BY <3>1, <3>2, OtherTrees
  <2> QED
    BY <2>2, <2>3, <2>4
<1> QED
  BY <1>13, <1>14 DEF Trees

\* fork() failed: the child's stack goes back.
LEMMA UnforkMem ==
  ASSUME Types, Types', Control, Own, Trees, NEW p \in Proc, Unfork(p)
  PROVE  Own' /\ Trees'
<1>1. /\ stat[p] = "RUN" /\ call[p].pc = "unfork" /\ pfree({call[p].np})
      /\ call' = [call EXCEPT ![p] = User] /\ size' = size
  BY DEF Unfork, At, Running, Return
<1>2. Shape(call[p], p)
  BY DEF Control
<1>3. call[p].op = "fork"
  BY <1>1, <1>2, Fields DEF Shape, Types
<1>4. call[p].np \in Proc /\ stat[call[p].np] = "SET"
  BY <1>2, <1>3 DEF Shape
<1>5. PICK Q \in SUBSET Proc : Q = {call[p].np}
  BY <1>4
<1>6. p \notin Q /\ \A q \in Q : stat[q] \in {"SET", "ZOMB"}
  BY <1>1, <1>4, <1>5
<1> QED
  BY <1>1, <1>5, <1>6, PfreeMem

\* wait() frees the stacks and the directories of the zombies.
LEMMA CollectMem ==
  ASSUME Types, Types', Control, Own, Trees, NEW p \in Proc, Collect(p)
  PROVE  Own' /\ Trees'
<1>1. PICK Q \in SUBSET Proc : Q = {q \in Proc : pproc[q] = p /\ stat[q] = "ZOMB"}
  OBVIOUS
<1>2. /\ stat[p] = "RUN" /\ call[p].pc = "wait" /\ pfree(Q)
      /\ call' = [call EXCEPT ![p] = User] /\ size' = size
  BY <1>1 DEF Collect, At, Running, Return
<1>3. p \notin Q /\ \A q \in Q : stat[q] \in {"SET", "ZOMB"}
  BY <1>1, <1>2
<1> QED
  BY <1>2, <1>3, PfreeMem

\* The old directory goes, and nothing refers to its pages any more.
LEMMA FreeOldMem ==
  ASSUME Types, Types', Control, Own, Trees, NEW p \in Proc, FreeOld(p)
  PROVE  Own' /\ Trees'
<1> PICK c \in Call : c = call[p]
  BY DEF Types
<1>1. /\ c.pc = "freeold" /\ freevm({c.old}, {}) /\ Shape(c, p) /\ Bounds(c, p)
      /\ size' = [size EXCEPT ![p] = c.lo - KERNEND] /\ call' = [call EXCEPT ![p] = User]
      /\ UNCHANGED <<pgdir, kstack>>
  BY DEF FreeOld, At, Return, NewSize, Control
<1> PICK o \in Page : o = c.old
  BY <1>1, Fields DEF Shape
<1>2. c.new = 0 /\ c.page = 0
  BY <1>1 DEF Shape
<1>3. /\ call'[p] = User /\ size'[p] = c.lo - KERNEND
      /\ \A q \in Proc \ {p} : call'[q] = call[q] /\ size'[q] = size[q]
  BY <1>1 DEF Types
<1>4. PICK D \in SUBSET Page, S \in SUBSET Page : D = {o} /\ S = {}
  OBVIOUS
<1>5. TreesOf(c, p) /\ o # 0
  BY Constants DEF Trees
<1>6. \A d \in D : IsDir(d) /\ Below(d, USEREND)
  BY <1>4, <1>5, DirsDiffer DEF TreesOf
<1>7. ASSUME NEW m \in 1 .. 5, NEW r \in Proc
      PROVE  Var(m, r)' = IF Var(m, r) \in D \cup S THEN 0 ELSE Var(m, r)
  <2>1. kstack' = kstack /\ pgdir' = pgdir
    BY <1>1
  <2>2. CASE m = 4 /\ r = p
    <3>1. Var(m, r) = o /\ Var(m, r)' = 0
      BY <2>2, <1>3, UserIs, VarIs, VarIsNext
    <3> QED
      BY <3>1, <1>4
  <2>3. CASE ~(m = 4 /\ r = p)
    <3>1. Var(m, r)' = Var(m, r)
      <4>1. CASE r = p
        BY <2>1, <2>3, <4>1, <1>2, <1>3, UserIs DEF Var
      <4>2. CASE r # p
        BY <2>1, <4>2, <1>3 DEF Var
      <4> QED
        BY <4>1, <4>2
    <3>2. Var(m, r) # o
      <4>1. \A k, l \in 1 .. 5, u, q \in Proc :
              Var(k, u) = Var(l, q) /\ Var(k, u) # 0 => k = l /\ u = q
        BY Unique DEF Own
      <4>2. Var(4, p) = o
        BY VarIs
      <4> QED
        BY <2>3, <4>1, <4>2, <1>5
    <3> QED
      BY <3>1, <3>2, <1>4
  <2> QED
    BY <2>2, <2>3
<1>8. Own' /\ \A g \in Page : IsDir(g) /\ g \notin D => Kept(g)
  <2>1. freevm(D, S)
    BY <1>1, <1>4
  <2>2. \A x \in S : \E k \in {1, 5}, q \in Proc : Var(k, q) = x
    BY <1>4
  <2> QED
    BY <1>6, <1>7, <2>1, <2>2, FreevmMem
<1>9. ASSUME NEW k \in {2, 3, 4}, NEW q \in Proc, ~(k = 4 /\ q = p), NEW g \in Page, g = Var(k, q)
      PROVE  Kept(g)
  <2>1. IsDir(g)
    BY <1>9 DEF IsDir
  <2>2. g # o
    <3>1. \A i, l \in 1 .. 5, u, r \in Proc :
            Var(i, u) = Var(l, r) /\ Var(i, u) # 0 => i = l /\ u = r
      BY Unique DEF Own
    <3>2. Var(4, p) = o /\ k \in 1 .. 5 /\ 4 \in 1 .. 5
      BY VarIs
    <3> QED
      BY <1>5, <1>9, <3>1, <3>2
  <2> QED
    BY <2>1, <2>2, <1>4, <1>8
<1>10. \A q \in Proc \ {p}, g \in Page : g \in {pgdir[q], call[q].new, call[q].old} => Kept(g)
  BY <1>9, VarIs
<1>11. \A q \in Proc \ {p} : TreesOf(call[q], q)'
  <2>1. \A q \in Proc \ {p} : call'[q] = call[q] /\ size'[q] = size[q] /\ pgdir'[q] = pgdir[q]
    BY <1>1, <1>3
  <2> QED
    BY <2>1, <1>10, OtherTrees
<1>12. TreesOf(call[p], p)'
  <2> PICK d \in Page \cup {0}, top \in Nat : d = pgdir[p] /\ top = c.lo
    BY Fields DEF Types
  <2>1. PTop(c, p) = top /\ PTop(User, p)' = top
    <3>1. KERNEND \in Nat /\ top >= KERNEND
      BY <1>1, Spaces DEF Bounds
    <3>2. KERNEND + (top - KERNEND) = top
      BY <3>1
    <3>3. size'[p] = top - KERNEND
      BY <1>3
    <3> QED
      BY <1>1, <3>2, <3>3, UserIs DEF PTop
  <2>2. d # 0 => KernUpto(d, KTABS)' /\ Below(d, top)'
    <3>1. d # 0 => KernUpto(d, KTABS) /\ Below(d, top)
      BY <2>1, <1>5 DEF TreesOf
    <3>2. d # 0 => Kept(d)
      BY <1>9, VarIs
    <3> QED
      BY <3>1, <3>2, KeptTree
  <2>3. pgdir'[p] = d
    BY <1>1
  <2> QED
    BY <2>1, <2>2, <2>3, <1>3, UserIs DEF TreesOf
<1> QED
  BY <1>8, <1>11, <1>12 DEF Trees

\* Memory as uinit() leaves it.
LEMMA InitMem ==
  ASSUME Init
  PROVE  Own /\ Trees
<1> PICK K \in Nat : K = KTABS
  BY Constants
<1> PICK m \in Nat : m = PDX(KERNEND)
  BY Bounded
<1> PICK u \in Page, t \in Page : u = 3 + K /\ t = 4 + K
  BY Constants DEF Page
<1>1. /\ 1 \in Page /\ 2 \in Page /\ Boot \in Proc /\ K >= 1 /\ K <= m /\ m < N /\ N \in Nat
      /\ 0 \notin Page /\ Page = 1 .. NPAGE /\ NPAGE \in Nat /\ t <= NPAGE /\ 0 \in Idx /\ m \in Idx
  BY Constants, Bounded DEF Page, Idx
<1>2. Types
  BY InitControl
<1>3. \A g \in Page, i \in Idx :
        To(g, i) = IF g = 2 /\ i < K THEN 3 + i
                   ELSE IF g = 2 /\ i = m THEN u
                   ELSE IF g = u /\ i = 0 THEN t ELSE 0
  <2>1. mem = [g \in Page |->
          [i \in Idx |->
             IF g = 2 /\ i < K THEN [pa |-> 3 + i, u |-> TRUE]
             ELSE IF g = 2 /\ i = m THEN [pa |-> u, u |-> TRUE]
             ELSE IF g = u /\ i = 0 THEN [pa |-> t, u |-> TRUE]
             ELSE None]]
    BY DEF Init
  <2>2. \A g \in Page, i \in Idx :
          mem[g][i] = IF g = 2 /\ i < K THEN [pa |-> 3 + i, u |-> TRUE]
                      ELSE IF g = 2 /\ i = m THEN [pa |-> u, u |-> TRUE]
                      ELSE IF g = u /\ i = 0 THEN [pa |-> t, u |-> TRUE]
                      ELSE None
    BY <2>1
  <2> SUFFICES ASSUME NEW g \in Page, NEW i \in Idx
               PROVE  To(g, i) = IF g = 2 /\ i < K THEN 3 + i
                                 ELSE IF g = 2 /\ i = m THEN u
                                 ELSE IF g = u /\ i = 0 THEN t ELSE 0
    OBVIOUS
  <2>3. CASE g = 2 /\ i < K
    <3>1. mem[g][i] = [pa |-> 3 + i, u |-> TRUE]
      BY <2>2, <2>3
    <3> QED
      BY <2>3, <3>1 DEF To
  <2>4. CASE ~(g = 2 /\ i < K) /\ g = 2 /\ i = m
    <3>1. mem[g][i] = [pa |-> u, u |-> TRUE]
      BY <2>2, <2>4
    <3> QED
      BY <2>4, <3>1 DEF To
  <2>5. CASE ~(g = 2 /\ i < K) /\ ~(g = 2 /\ i = m) /\ g = u /\ i = 0
    <3>1. mem[g][i] = [pa |-> t, u |-> TRUE]
      BY <2>2, <2>5
    <3> QED
      BY <2>5, <3>1 DEF To
  <2>6. CASE ~(g = 2 /\ i < K) /\ ~(g = 2 /\ i = m) /\ ~(g = u /\ i = 0)
    <3>1. mem[g][i] = None
      BY <2>2, <2>6
    <3> QED
      BY <2>6, <3>1 DEF To, None
  <2> QED
    BY <2>3, <2>4, <2>5, <2>6
<1>4. \A k \in 1 .. 5, p \in Proc :
        Var(k, p) = IF p = Boot /\ k = 1 THEN 1 ELSE IF p = Boot /\ k = 2 THEN 2 ELSE 0
  <2>1. \A p \in Proc : /\ call[p] = User
                        /\ kstack[p] = IF p = Boot THEN 1 ELSE 0
                        /\ pgdir[p] = IF p = Boot THEN 2 ELSE 0
    BY DEF Init
  <2> QED
    BY <2>1, UserIs DEF Var
<1>5. free = Page \ 1 .. t /\ lost = {}
  BY DEF Init
<1>6. Owned(Refers, free \cup lost)
  <2>1. Refers \in [Slot -> Page \cup {0}]
    BY <1>2, RefersType
  <2> PICK a, b : a = <<1, Boot, 0>> /\ b = <<2, Boot, 0>>
    OBVIOUS
  <2>2. a \in Slot /\ b \in Slot /\ Refers[a] = 1 /\ Refers[b] = 2
    <3>1. 1 \in 1 .. 5 /\ 2 \in 1 .. 5
      OBVIOUS
    <3> QED
      BY <3>1, <1>1, <1>4, Slots, RefersAt
  <2>3. \A k \in 1 .. 5, p \in Proc :
          Refers[<<k, p, 0>>] = 0 \/ <<k, p, 0>> = a \/ <<k, p, 0>> = b
    BY <1>4, RefersAt
  <2>4. ASSUME NEW s \in Slot, Refers[s] # 0
        PROVE  \/ s = a /\ Refers[s] = 1
               \/ s = b /\ Refers[s] = 2
               \/ \E i \in Idx : s = <<0, 2, i>> /\ i < K /\ Refers[s] = 3 + i
               \/ s = <<0, 2, m>> /\ Refers[s] = u
               \/ s = <<0, u, 0>> /\ Refers[s] = t
    <3>1. ASSUME NEW g \in Page, NEW i \in Idx, s = <<0, g, i>>
          PROVE  \/ \E j \in Idx : s = <<0, 2, j>> /\ j < K /\ Refers[s] = 3 + j
                 \/ s = <<0, 2, m>> /\ Refers[s] = u
                 \/ s = <<0, u, 0>> /\ Refers[s] = t
      <4>1. Refers[s] = To(g, i)
        BY <3>1, RefersAt
      <4> QED
        BY <4>1, <3>1, <2>4, <1>3
    <3> QED
      BY <3>1, <2>2, <2>3, <2>4, Slots
  <2>5. \A s, v \in Slot : Refers[s] = Refers[v] /\ Refers[s] # 0 => s = v
    <3> SUFFICES ASSUME NEW s \in Slot, NEW v \in Slot, Refers[s] = Refers[v], Refers[s] # 0
                 PROVE  s = v
      OBVIOUS
    <3> QED
      BY <2>4, <1>1 DEF Idx
  <2>6. \A s \in Slot : Refers[s] \notin free \cup lost
    <3> SUFFICES ASSUME NEW s \in Slot, Refers[s] \in Page PROVE Refers[s] \in 1 .. t
      BY <1>5
    <3> QED
      BY <2>4, <1>1 DEF Idx
  <2>7. ASSUME NEW x \in Page, x \notin free PROVE \E s \in Slot : Refers[s] = x
    <3>1. x \in 1 .. t
      BY <2>7, <1>5
    <3>2. CASE x = 1 \/ x = 2
      BY <2>2, <3>2
    <3>3. CASE x = u
      <4>1. To(2, m) = u /\ <<0, 2, m>> \in Slot
        BY <1>1, <1>3, Slots
      <4> QED
        BY <4>1, <3>3, <1>1, RefersAt
    <3>4. CASE x = t
      <4>1. To(u, 0) = t /\ <<0, u, 0>> \in Slot
        BY <1>1, <1>3, Slots
      <4> QED
        BY <4>1, <3>4, <1>1, RefersAt
    <3>5. CASE x >= 3 /\ x < u
      <4>1. PICK i \in Idx : x = 3 + i /\ i < K
        BY <3>5, <3>1, <1>1 DEF Idx
      <4>2. To(2, i) = x /\ <<0, 2, i>> \in Slot
        BY <4>1, <1>1, <1>3, Slots
      <4> QED
        BY <4>2, <1>1, RefersAt
    <3> QED
      BY <3>1, <3>2, <3>3, <3>4, <3>5, <1>1
  <2> QED
    BY <2>1, <2>5, <2>6, <2>7, <1>5 DEF Owned
<1>7. IsDir(2)
  <2>1. Var(2, Boot) = 2 /\ 2 \in 2 .. 4
    BY <1>1, <1>4
  <2> QED
    BY <2>1, <1>1 DEF IsDir
<1>8. Blank
  <2>1. To(2, m) = u
    BY <1>1, <1>3
  <2>2. m \in UIdx
    BY <1>1 DEF UIdx
  <2>3. IsUTab(u)
    BY <2>1, <2>2, <1>1, <1>7 DEF IsUTab
  <2>4. \A g \in Page, i \in Idx : To(g, i) # 0 => g = 2 \/ g = u
    BY <1>3
  <2> QED
    BY <2>3, <2>4, <1>7 DEF Blank
<1>9. KernUpto(2, KTABS)
  BY <1>1, <1>3, Indexes DEF KernUpto, KIdx
<1>10. Below(2, KERNEND + 1)
  <2> SUFFICES ASSUME NEW i \in UIdx, NEW j \in Idx, To(2, i) # 0, To(To(2, i), j) # 0
               PROVE  Addr(i, j) < KERNEND + 1
    BY DEF Below
  <2>1. i \in Idx /\ i = m /\ To(2, i) = u
    BY <1>1, <1>3, Indexes DEF UIdx
  <2>2. j = 0
    BY <2>1, <1>1, <1>3
  <2>3. (m * N + 0) * PAGESIZE = m * (N * PAGESIZE)
    BY <1>1, Constants
  <2>4. Addr(i, j) = KERNEND /\ KERNEND \in Nat
    BY <2>1, <2>2, <2>3, Bounded DEF Addr
  <2> QED
    BY <2>4
<1>11. ASSUME NEW p \in Proc PROVE TreesOf(call[p], p)
  <2>1. call[p] = User /\ (pgdir[p] # 0 => pgdir[p] = 2 /\ size[p] = 1)
    BY DEF Init
  <2> QED
    BY <2>1, <1>9, <1>10, UserIs DEF TreesOf, PTop
<1> QED
  BY <1>5, <1>6, <1>8, <1>11 DEF Own, Trees

\* The loop takes a page, or gives up.
LEMMA GetPageStep ==
  ASSUME Types, Types', Control, Own, Trees, NEW p \in Proc, GetPage(p)
  PROVE  Own' /\ Trees'
<1>1. CASE free = {}
  <2>1. call[p].pc = "page" /\ Undo(p, {}) /\ UNCHANGED <<pgdir, size, kstack>>
    BY <1>1 DEF GetPage, At, proc
  <2>2. Shape(call[p], p)
    BY DEF Control
  <2>3. call[p].page = 0
    BY <2>1, <2>2 DEF Shape
  <2>4. call[p].pc \in {"page", "map"}
    BY <2>1
  <2>5. {} \in SUBSET Page /\ {} = {call[p].page} \ {0}
    BY <2>3
  <2> QED
    BY <2>1, <2>4, <2>5, UndoMem
<1> QED
  BY <1>1, GetPageMem

\* The loop maps its page, or gives up.
LEMMA MapPageStep ==
  ASSUME Types, Types', Control, Own, Trees, NEW p \in Proc, MapPage(p)
  PROVE  Own' /\ Trees'
<1>1. CASE Table(call[p].new, call[p].va) = 0 /\ free = {}
  <2> PICK S : S = {call[p].page}
    OBVIOUS
  <2>1. call[p].pc = "map" /\ Undo(p, S) /\ UNCHANGED <<pgdir, size, kstack>>
    BY <1>1 DEF MapPage, At, proc
  <2>2. Shape(call[p], p)
    BY DEF Control
  <2>3. call[p].page \in Page /\ call[p].page # 0
    BY <2>1, <2>2, Fields DEF Shape, Types
  <2>4. call[p].pc \in {"page", "map"}
    BY <2>1
  <2>5. S \in SUBSET Page
    BY <2>3
  <2>6. S = {call[p].page} \ {0}
    BY <2>3
  <2> QED
    BY <2>1, <2>4, <2>5, <2>6, UndoMem
<1> QED
  BY <1>1, MapPageMem

\* Every step keeps each page in one place, and the trees.
LEMMA MemNext ==
  ASSUME Types, Types', Control, Own, Trees, [Next]_vars
  PROVE  Own' /\ Trees'
<1>1. CASE UNCHANGED memory
  <2>1. UNCHANGED <<call, pgdir, size, kstack, free, lost, mem>>
    BY <1>1 DEF memory, proc
  <2> QED
    BY <2>1, StillMem
<1>2. CASE \E p \in Proc : Build(p) \/ Process(p) \/ Exec(p) \/ Switch(p)
  <2>1. PICK p \in Proc : Build(p) \/ Process(p) \/ Exec(p) \/ Switch(p)
    BY <1>2
  <2>2. CASE Build(p)
    BY <2>2, NewDirMem, NewKernTableMem, GetPageStep, MapPageStep DEF Build
  <2>3. CASE Process(p)
    <3>1. CASE Exit(p)
      <4>1. UNCHANGED <<call, pgdir, size, kstack, free, lost, mem>>
        BY <3>1 DEF Exit
      <4> QED
        BY <4>1, StillMem
    <3> QED
      BY <2>3, <3>1, ForkMem, ForkedMem, WaitMem, CollectMem, BadMem, UnforkMem DEF Process
  <2>4. CASE Exec(p)
    BY <2>4, ExecvMem, SegmentMem, GrownMem, LoadMem, CommitMem, LoadCr3Mem, FreeOldMem DEF Exec
  <2>5. CASE Switch(p)
    <3>1. UNCHANGED <<call, pgdir, size, kstack, free, lost, mem>>
      BY <2>5 DEF Switch, proc
    <3> QED
      BY <3>1, StillMem
  <2> QED
    BY <2>1, <2>2, <2>3, <2>4, <2>5
<1> QED
  BY <1>1, <1>2, StepIs

VmInv == Types /\ Control /\ Own /\ Trees

\* The invariant of memory.
LEMMA VmInvAlways == Spec => []VmInv
<1>1. Init => VmInv
  BY InitControl, InitMem DEF VmInv
<1>2. VmInv /\ [Next]_vars => VmInv'
  <2> SUFFICES ASSUME VmInv, [Next]_vars PROVE VmInv'
    OBVIOUS
  <2>1. Types' /\ Control'
    BY ControlNext DEF VmInv
  <2>2. Own' /\ Trees'
    BY <2>1, MemNext DEF VmInv
  <2> QED
    BY <2>1, <2>2 DEF VmInv
<1> QED
  BY <1>1, <1>2, PTL DEF Spec

\* What Refs calls the variables.
Names == <<"kstack", "pgdir", "new", "old", "page">>

\* A reference is a slot that holds a page.
LEMMA RefIs ==
  ASSUME Types, NEW r \in Refs
  PROVE  \/ \E g \in Page, i \in Idx : To(g, i) # 0 /\ r = <<"entry", <<g, i>>, To(g, i)>>
         \/ \E k \in 1 .. 5, p \in Proc : Var(k, p) # 0 /\ r = <<Names[k], p, Var(k, p)>>
<1>1. /\ Names[1] = "kstack" /\ Names[2] = "pgdir" /\ Names[3] = "new" /\ Names[4] = "old"
      /\ Names[5] = "page"
  BY DEF Names
<1>2. CASE r \in {<<"entry", g, mem[g[1]][g[2]].pa>> :
                   g \in {h \in Page \X Idx : mem[h[1]][h[2]].pa # 0}}
  <2>1. PICK h \in Page \X Idx : mem[h[1]][h[2]].pa # 0 /\ r = <<"entry", h, mem[h[1]][h[2]].pa>>
    BY <1>2
  <2>2. PICK g \in Page, i \in Idx : h = <<g, i>>
    BY <2>1
  <2> QED
    BY <2>1, <2>2 DEF To
<1>3. CASE \E p \in Proc : r = <<"kstack", p, kstack[p]>> /\ r[3] # 0
  <2>1. PICK p \in Proc : r = <<"kstack", p, kstack[p]>> /\ r[3] # 0
    BY <1>3
  <2>2. Var(1, p) = kstack[p] /\ r[3] = kstack[p]
    BY <2>1 DEF Var
  <2> QED
    BY <1>1, <2>1, <2>2
<1>4. CASE \E p \in Proc : r = <<"pgdir", p, pgdir[p]>> /\ r[3] # 0
  <2>1. PICK p \in Proc : r = <<"pgdir", p, pgdir[p]>> /\ r[3] # 0
    BY <1>4
  <2>2. Var(2, p) = pgdir[p] /\ r[3] = pgdir[p]
    BY <2>1 DEF Var
  <2> QED
    BY <1>1, <2>1, <2>2
<1>5. CASE \E p \in Proc : r = <<"new", p, call[p].new>> /\ r[3] # 0
  <2>1. PICK p \in Proc : r = <<"new", p, call[p].new>> /\ r[3] # 0
    BY <1>5
  <2>2. Var(3, p) = call[p].new /\ r[3] = call[p].new
    BY <2>1 DEF Var
  <2> QED
    BY <1>1, <2>1, <2>2
<1>6. CASE \E p \in Proc : r = <<"old", p, call[p].old>> /\ r[3] # 0
  <2>1. PICK p \in Proc : r = <<"old", p, call[p].old>> /\ r[3] # 0
    BY <1>6
  <2>2. Var(4, p) = call[p].old /\ r[3] = call[p].old
    BY <2>1 DEF Var
  <2> QED
    BY <1>1, <2>1, <2>2
<1>7. CASE \E p \in Proc : r = <<"page", p, call[p].page>> /\ r[3] # 0
  <2>1. PICK p \in Proc : r = <<"page", p, call[p].page>> /\ r[3] # 0
    BY <1>7
  <2>2. Var(5, p) = call[p].page /\ r[3] = call[p].page
    BY <2>1 DEF Var
  <2> QED
    BY <1>1, <2>1, <2>2
<1> QED
  BY <1>2, <1>3, <1>4, <1>5, <1>6, <1>7 DEF Refs

\* Two references are to different pages.
LEMMA RefsDiffer ==
  ASSUME Types, Own, NEW r \in Refs, NEW s \in Refs, r[3] = s[3]
  PROVE  r = s
<1>1. /\ \A g, h \in Page, i, j \in Idx : To(g, i) = To(h, j) /\ To(g, i) # 0 => g = h /\ i = j
      /\ \A g \in Page, i \in Idx, k \in 1 .. 5, p \in Proc : To(g, i) # 0 => To(g, i) # Var(k, p)
      /\ \A k, l \in 1 .. 5, p, q \in Proc :
           Var(k, p) = Var(l, q) /\ Var(k, p) # 0 => k = l /\ p = q
  BY Unique DEF Own
<1>2. CASE \E g \in Page, i \in Idx : To(g, i) # 0 /\ r = <<"entry", <<g, i>>, To(g, i)>>
  <2>1. PICK g \in Page, i \in Idx : To(g, i) # 0 /\ r = <<"entry", <<g, i>>, To(g, i)>>
    BY <1>2
  <2>2. r[3] = To(g, i)
    BY <2>1
  <2>3. CASE \E h \in Page, j \in Idx : To(h, j) # 0 /\ s = <<"entry", <<h, j>>, To(h, j)>>
    <3>1. PICK h \in Page, j \in Idx : To(h, j) # 0 /\ s = <<"entry", <<h, j>>, To(h, j)>>
      BY <2>3
    <3>2. s[3] = To(h, j)
      BY <3>1
    <3>3. g = h /\ i = j
      BY <1>1, <2>1, <2>2, <3>2
    <3> QED
      BY <2>1, <3>1, <3>3
  <2>4. CASE \E k \in 1 .. 5, p \in Proc : Var(k, p) # 0 /\ s = <<Names[k], p, Var(k, p)>>
    <3>1. PICK k \in 1 .. 5, p \in Proc : Var(k, p) # 0 /\ s = <<Names[k], p, Var(k, p)>>
      BY <2>4
    <3>2. s[3] = Var(k, p)
      BY <3>1
    <3> QED
      BY <1>1, <2>1, <2>2, <3>2
  <2> QED
    BY <2>3, <2>4, RefIs
<1>3. CASE \E k \in 1 .. 5, p \in Proc : Var(k, p) # 0 /\ r = <<Names[k], p, Var(k, p)>>
  <2>1. PICK k \in 1 .. 5, p \in Proc : Var(k, p) # 0 /\ r = <<Names[k], p, Var(k, p)>>
    BY <1>3
  <2>2. r[3] = Var(k, p)
    BY <2>1
  <2>3. CASE \E h \in Page, j \in Idx : To(h, j) # 0 /\ s = <<"entry", <<h, j>>, To(h, j)>>
    <3>1. PICK h \in Page, j \in Idx : To(h, j) # 0 /\ s = <<"entry", <<h, j>>, To(h, j)>>
      BY <2>3
    <3>2. To(h, j) = Var(k, p) /\ To(h, j) # 0
      BY <2>2, <3>1
    <3>3. To(h, j) # Var(k, p)
      BY <1>1, <3>2
    <3> QED
      BY <3>2, <3>3
  <2>4. CASE \E l \in 1 .. 5, q \in Proc : Var(l, q) # 0 /\ s = <<Names[l], q, Var(l, q)>>
    <3>1. PICK l \in 1 .. 5, q \in Proc : Var(l, q) # 0 /\ s = <<Names[l], q, Var(l, q)>>
      BY <2>4
    <3>2. s[3] = Var(l, q)
      BY <3>1
    <3>3. k = l /\ p = q
      BY <1>1, <2>1, <2>2, <3>2
    <3> QED
      BY <2>1, <3>1, <3>3
  <2> QED
    BY <2>3, <2>4, RefIs
<1>4. \/ \E g \in Page, i \in Idx : To(g, i) # 0 /\ r = <<"entry", <<g, i>>, To(g, i)>>
      \/ \E k \in 1 .. 5, p \in Proc : Var(k, p) # 0 /\ r = <<Names[k], p, Var(k, p)>>
  BY RefIs
<1> QED
  BY <1>2, <1>3, <1>4

\* A page has one use: no two page tables, stacks or calls refer to it, and
\* none refers to a page of the free list, whatever allocation failed and
\* whoever ran in between (kalloc.c:26-53, vm.c:143-149, 155-182, 261-273).
THEOREM VmOneUse == Spec => []OneUse
<1>1. VmInv => OneUse
  <2> SUFFICES ASSUME Types, Own PROVE OneUse
    BY DEF VmInv
  <2> PICK R, T : R = Refs /\ T = {r[3] : r \in R}
    OBVIOUS
  <2>1. ASSUME NEW r \in R PROVE r[3] \in Page /\ r[3] \notin free \cup lost
    <3>1. CASE \E g \in Page, i \in Idx : To(g, i) # 0 /\ r = <<"entry", <<g, i>>, To(g, i)>>
      <4>1. PICK g \in Page, i \in Idx : To(g, i) # 0 /\ r[3] = To(g, i)
        BY <3>1
      <4> QED
        BY <4>1, Unique, RefersType DEF Own
    <3>2. CASE \E k \in 1 .. 5, p \in Proc : Var(k, p) # 0 /\ r = <<Names[k], p, Var(k, p)>>
      <4>1. PICK k \in 1 .. 5, p \in Proc : Var(k, p) # 0 /\ r[3] = Var(k, p)
        BY <3>2
      <4> QED
        BY <4>1, Unique, RefersType DEF Own
    <3> QED
      BY <3>1, <3>2, RefIs
  <2>2. T \subseteq Page /\ T \cap (free \cup lost) = {}
    BY <2>1
  <2>3. IsFiniteSet(T)
    <3>1. IsFiniteSet(Page)
      BY Constants, FS_Interval DEF Page
    <3> QED
      BY <2>2, <3>1, FS_Subset
  <2> PICK f : f = [r \in R |-> r[3]]
    OBVIOUS
  <2>4. f \in Injection(R, T)
    <3>1. f \in [R -> T]
      OBVIOUS
    <3>2. \A r, s \in R : f[r] = f[s] => r = s
      BY RefsDiffer
    <3> QED
      BY <3>1, <3>2 DEF Injection, IsInjective
  <2>5. f \in Surjection(R, T)
    BY DEF Surjection
  <2>6. Cardinality(R) = Cardinality(T)
    BY <2>3, <2>4, <2>5, FS_Injection
  <2> QED
    BY <2>2, <2>6 DEF OneUse
<1> QED
  BY <1>1, VmInvAlways, PTL

\* The pages of a tree: the directory, its tables, and what they refer to.
LEMMA TreeIs ==
  ASSUME Types, NEW d \in Page, NEW x
  PROVE  x \in Tree(d) <=>
           \/ x = d
           \/ x # 0 /\ \E i \in Idx : To(d, i) = x
           \/ x # 0 /\ \E i \in Idx, j \in Idx : To(d, i) # 0 /\ To(To(d, i), j) = x
<1> PICK T : T = {mem[d][i].pa : i \in Idx} \ {0}
  OBVIOUS
<1>1. T = {To(d, i) : i \in Idx} \ {0} /\ d # 0
  BY Constants DEF To
<1>2. Tree(d) = {d} \cup T \cup ({To(t, i) : t \in T, i \in Idx} \ {0})
  BY <1>1 DEF Tree, To
<1> QED
  BY <1>1, <1>2

\* Every page that is neither free nor lost is held, and no other is.
LEMMA ConservedIs ==
  ASSUME Types, Own
  PROVE  Conserved
<1>1. /\ Owned(Refers, free \cup lost) /\ Blank
      /\ \A g \in Page, i \in Idx : To(g, i) \notin free /\ To(g, i) \notin lost
      /\ \A k \in 1 .. 5, p \in Proc : Var(k, p) \notin free /\ Var(k, p) \notin lost
  BY Unique DEF Own
<1>2. /\ \A g \in Page, i \in Idx : To(g, i) \in Page \cup {0}
      /\ \A k \in 1 .. 5, p \in Proc : Var(k, p) \in Page \cup {0}
  BY RefersType
<1>3. ASSUME NEW p \in Proc, NEW k \in 2 .. 4 PROVE Tree(Var(k, p)) \subseteq Held(p)
  <2>1. Var(k, p) \in {pgdir[p], call[p].new, call[p].old}
    BY DEF Var
  <2> QED
    BY <2>1 DEF Held
<1>4. ASSUME NEW x \in Page, x \notin free \cup lost PROVE \E p \in Proc : x \in Held(p)
  <2>0. x # 0
    BY Constants
  <2>1. PICK s \in Slot : Refers[s] = x
    BY <1>1, <1>4 DEF Owned
  <2>2. CASE \E k \in 1 .. 5, p \in Proc : s = <<k, p, 0>>
    <3>1. PICK k \in 1 .. 5, p \in Proc : Var(k, p) = x
      BY <2>1, <2>2, RefersAt
    <3>2. CASE k \in {1, 5}
      BY <3>1, <3>2, <2>0 DEF Var, Held
    <3>3. CASE k \in 2 .. 4
      <4>1. x \in Tree(x)
        BY TreeIs
      <4> QED
        BY <4>1, <3>1, <3>3, <1>3
    <3> QED
      BY <3>2, <3>3
  <2>3. CASE \E g \in Page, i \in Idx : s = <<0, g, i>>
    <3>1. PICK g \in Page, i \in Idx : To(g, i) = x
      BY <2>1, <2>3, RefersAt
    <3>2. CASE IsDir(g)
      <4>1. PICK k \in 2 .. 4, p \in Proc : Var(k, p) = g
        BY <3>2 DEF IsDir
      <4>2. x \in Tree(g)
        BY <3>1, <2>0, TreeIs
      <4> QED
        BY <4>1, <4>2, <1>3
    <3>3. CASE IsUTab(g)
      <4>1. PICK d \in Page, i2 \in UIdx : IsDir(d) /\ To(d, i2) = g
        BY <3>3 DEF IsUTab
      <4>2. PICK k \in 2 .. 4, p \in Proc : Var(k, p) = d
        BY <4>1 DEF IsDir
      <4>3. i2 \in Idx /\ To(d, i2) # 0 /\ To(To(d, i2), i) = x
        BY <4>1, <3>1, Indexes, Constants
      <4>4. x \in Tree(d)
        BY <4>3, <2>0, TreeIs
      <4> QED
        BY <4>2, <4>4, <1>3
    <3> QED
      BY <3>1, <3>2, <3>3, <1>1, <2>0 DEF Blank
  <2> QED
    BY <2>2, <2>3, Slots
<1>5. ASSUME NEW p \in Proc, NEW x \in Held(p) PROVE x \in Page \ (free \cup lost)
  <2>1. CASE x \in {kstack[p], call[p].page} \ {0}
    <3>1. x # 0 /\ (x = Var(1, p) \/ x = Var(5, p))
      BY <2>1 DEF Var
    <3> QED
      BY <3>1, <1>1, <1>2
  <2>2. CASE \E k \in 2 .. 4 : x \in Tree(Var(k, p))
    <3>1. PICK k \in 2 .. 4 : x \in Tree(Var(k, p))
      BY <2>2
    <3>2. Var(k, p) \in Page
      BY <3>1, <1>2 DEF Tree
    <3>3. CASE x = Var(k, p)
      BY <3>2, <3>3, <1>1
    <3>4. CASE x # 0 /\ \E g \in Page, i \in Idx : To(g, i) = x
      BY <3>4, <1>1, <1>2
    <3> QED
      BY <3>1, <3>2, <3>3, <3>4, <1>2, TreeIs
  <2>3. /\ pgdir[p] = Var(2, p) /\ call[p].new = Var(3, p) /\ call[p].old = Var(4, p)
        /\ 2 \in 2 .. 4 /\ 3 \in 2 .. 4 /\ 4 \in 2 .. 4
    BY DEF Var
  <2> QED
    BY <2>1, <2>2, <2>3 DEF Held
<1> QED
  BY <1>4, <1>5 DEF Conserved

\* No page gets lost but the kernel's page tables of a directory that
\* freevm() freed, which it does not look at (vm.c:267): every other page is
\* free or held.
THEOREM VmConserved == Spec => []Conserved
<1>1. VmInv => Conserved
  BY ConservedIs DEF VmInv
<1> QED
  BY <1>1, VmInvAlways, PTL

\* The CPU runs on a directory that is the running process's and still has
\* the kernel in it: nobody has freed it (execv.c:104-105, proc.c:232).
THEOREM VmCr3Live == Spec => []Cr3Live
<1>1. VmInv => Cr3Live
  <2> SUFFICES ASSUME Types, Control, Own, Trees PROVE Cr3Live
    BY DEF VmInv
  <2>1. cr3 \in Page /\ cr3 # 0 /\ procp \in Proc
    BY Constants DEF Types
  <2>2. TreesOf(call[procp], procp) /\ Cr3Of(call[procp], procp)
    BY <2>1 DEF Control, Trees
  <2>3. cr3 \in {pgdir[procp], call[procp].old} /\ KernUpto(cr3, KTABS)
    BY <2>1, <2>2 DEF Cr3Of, TreesOf
  <2>4. cr3 \notin free
    <3>1. cr3 = Var(2, procp) \/ cr3 = Var(4, procp)
      BY <2>3 DEF Var
    <3> QED
      BY <3>1, <2>1, Unique DEF Own
  <2>5. KTABS \in Nat /\ KTABS <= PDX(KERNEND)
    BY Constants, Bounded
  <2>6. Cardinality(KernTables(cr3)) = KTABS
    BY <2>1, <2>3, <2>5, KernCount
  <2> QED
    BY <2>3, <2>4, <2>6 DEF Cr3Live
<1> QED
  BY <1>1, VmInvAlways, PTL

(***************************************************************************)
(* Images: which addresses a directory maps, and which of them the program *)
(* may use.                                                                *)
(***************************************************************************)

\* Every page from KERNEND to top is there; the program may use all but guard.
Full(d, top) == \A va \in Pages(KERNEND, top) : Mapped(d, va)

Usable(d, top, guard) == \A va \in Pages(KERNEND, top) : Pte(d, va).u <=> va # guard

\* The image of a process, which has a guard page unless it is initcode.
PImage(d, top) ==
  /\ Full(d, top)
  /\ top >= KERNEND + 2 * PAGESIZE =>
       top % PAGESIZE = 0 /\ Usable(d, top, top - 2 * PAGESIZE)

\* What c has built: for fork() the flags are those of the parent's, and for
\* execv() there is no guard page before the stack is there.
Guard(c) == IF c.pc = "commit" THEN c.lo - 2 * PAGESIZE ELSE 0

NImage(c, d) ==
  /\ Full(c.new, NTop(c))
  /\ c.op = "fork" /\ c.pc \in {"page", "map"} =>
       \A va \in Pages(KERNEND, c.va) : Pte(c.new, va).u <=> Pte(d, va).u
  /\ c.op = "execv" /\ c.pc \in Growing => Usable(c.new, NTop(c), Guard(c))

ImageOf(c, p) ==
  /\ pgdir[p] # 0 => PImage(pgdir[p], PTop(c, p))
  /\ c.pc = "ktab" \/ c.pc \in Growing => NImage(c, pgdir[p])

Images == \A p \in Proc : ImageOf(call[p], p)

\* The step leaves the user part of d alone.
Fixed(d) ==
  \A i \in UIdx : /\ To(d, i)' = To(d, i)
                  /\ To(d, i) # 0 => \A j \in Idx : mem'[To(d, i)][j] = mem[To(d, i)][j]

\* The tops are within user space.
LEMMA Tops ==
  ASSUME Types, Control, NEW p \in Proc, NEW c \in Call, c = call[p]
  PROVE  /\ PTop(c, p) \in Nat /\ PTop(c, p) <= USEREND
         /\ c.pc = "ktab" \/ c.pc \in Growing =>
              NTop(c) \in Nat /\ KERNEND <= NTop(c) /\ NTop(c) <= USEREND
         /\ stat[p] = "RUN" => pgdir[p] \in Page
<1>1. Shape(c, p) /\ Bounds(c, p) /\ size[p] \in Nat /\ c.lo \in Nat /\ c.va \in Nat /\ c.end \in Nat
  BY Fields DEF Control, Types
<1>2. PTop(c, p) \in Nat /\ PTop(c, p) <= USEREND
  <2>1. CASE c.pc \in {"switch", "freeold"}
    BY <2>1, <1>1, Spaces DEF PTop, Bounds
  <2>2. CASE c.pc \notin {"switch", "freeold"}
    <3>1. PTop(c, p) = KERNEND + size[p] /\ size[p] <= USEREND - KERNEND
      BY <2>2, <1>1 DEF PTop, Shape
    <3> QED
      BY <3>1, <1>1, Spaces
  <2> QED
    BY <2>1, <2>2
<1>3. ASSUME c.pc = "ktab" \/ c.pc \in Growing
      PROVE  NTop(c) \in Nat /\ KERNEND <= NTop(c) /\ NTop(c) <= USEREND
  <2>1. CASE c.pc = "ktab"
    BY <2>1, Spaces DEF NTop
  <2>2. CASE c.pc \in {"page", "map"}
    <3>1. /\ NTop(c) = c.va /\ c.va % PAGESIZE = 0 /\ c.va >= KERNEND /\ c.end <= USEREND
          /\ c.va < c.end + PAGESIZE
      BY <2>2, <1>1 DEF NTop, Bounds
    <3>2. c.va <= USEREND
      <4> SUFFICES ASSUME USEREND < c.va PROVE FALSE
        BY <1>1, Spaces
      <4>1. USEREND + PAGESIZE <= c.va
        BY <1>1, <3>1, Spaces, Bounded, Multiples
      <4> QED
        BY <4>1, <3>1, <1>1, Spaces
    <3> QED
      BY <3>1, <3>2, <1>1
  <2>3. CASE c.pc \in {"seg", "load", "commit"}
    BY <2>3, <1>1 DEF NTop, Bounds, Growing
  <2> QED
    BY <1>3, <2>1, <2>2, <2>3 DEF Growing
<1>4. stat[p] = "RUN" => pgdir[p] \in Page
  BY <1>1 DEF Shape, Types
<1> QED
  BY <1>2, <1>3, <1>4

\* What a directory maps, a step that leaves it alone does not change.
LEMMA FixedPte ==
  ASSUME Types, Types', NEW d \in Page, Fixed(d), NEW top \in Nat, top <= USEREND,
         NEW va \in Pages(KERNEND, top), Mapped(d, va)
  PROVE  Mapped(d, va)' /\ Pte(d, va)' = Pte(d, va)
<1>1. CASE top <= KERNEND
  BY <1>1, Spaces DEF Pages
<1>2. CASE KERNEND < top
  <2>1. PICK i \in UIdx, j \in Idx : i = PDX(va) /\ j = PTX(va)
    BY <1>2, Spaces, UserAddress
  <2>2. i \in Idx
    BY Indexes
  <2>3. PICK t \in Page : t = To(d, i)
    BY <2>1, <2>2, RefersType DEF Mapped, Table, To
  <2>4. t # 0 /\ To(d, i)' = t /\ mem'[t][j] = mem[t][j]
    BY <2>3, Constants DEF Fixed
  <2>5. Table(d, va) = t /\ Table(d, va)' = t
    BY <2>1, <2>3, <2>4 DEF Table, To
  <2>6. Pte(d, va) = mem[t][j] /\ Pte(d, va)' = mem'[t][j]
    BY <2>1, <2>5 DEF Pte
  <2> QED
    BY <2>4, <2>5, <2>6 DEF Mapped
<1> QED
  BY <1>1, <1>2, Spaces

\* An image, and the flags of its pages, outlast a step that leaves its
\* directory alone.
LEMMA FixedImage ==
  ASSUME Types, Types', NEW d \in Page, Fixed(d), NEW top \in Nat, top <= USEREND, Full(d, top)
  PROVE  /\ Full(d, top)'
         /\ \A va \in Pages(KERNEND, top) : Pte(d, va)' = Pte(d, va)
         /\ \A guard : Usable(d, top, guard) => Usable(d, top, guard)'
<1>1. ASSUME NEW va \in Pages(KERNEND, top) PROVE Mapped(d, va)' /\ Pte(d, va)' = Pte(d, va)
  BY FixedPte DEF Full
<1> QED
  BY <1>1 DEF Full, Usable

\* Fewer pages.
LEMMA Less ==
  ASSUME NEW d, NEW top \in Nat, NEW low \in Nat, Pages(KERNEND, low) \subseteq Pages(KERNEND, top)
  PROVE  /\ Full(d, top) => Full(d, low)
         /\ \A guard : Usable(d, top, guard) => Usable(d, low, guard)
  BY DEF Full, Usable

\* The image of a process that keeps its directory.
LEMMA KeepP ==
  ASSUME Types, Types', NEW d \in Page, Fixed(d), NEW top \in Nat, top <= USEREND, PImage(d, top)
  PROVE  PImage(d, top)'
<1>1. /\ Full(d, top)'
      /\ \A guard : Usable(d, top, guard) => Usable(d, top, guard)'
  BY FixedImage DEF PImage
<1> QED
  BY <1>1 DEF PImage

\* A call that goes on building its directory, and has not mapped more.
LEMMA KeepN ==
  ASSUME Types, Types', Control, Images, NEW p \in Proc, NEW c \in Call, c = call[p],
         NEW e \in Call, c.pc = "ktab" \/ c.pc \in Growing,
         e.new = c.new, e.op = c.op, NTop(e) \in Nat,
         Pages(KERNEND, NTop(e)) \subseteq Pages(KERNEND, NTop(c)),
         c.pc \in Growing <=> e.pc \in Growing, e.pc = "commit" <=> c.pc = "commit",
         c.pc = "commit" => e.lo = c.lo,
         e.op = "fork" /\ e.pc \in {"page", "map"} => c.pc \in {"page", "map"} /\ e.va = c.va,
         NEW b \in Page, b = pgdir[p], NEW d \in Page, d = c.new, Fixed(b), Fixed(d)
  PROVE  NImage(e, b)'
<1> PICK top : top = NTop(c)
  OBVIOUS
<1> PICK low \in Nat : low = NTop(e)
  OBVIOUS
<1>1. top \in Nat /\ top <= USEREND /\ KERNEND <= top
  BY Tops
<1>2. NImage(c, b)
  BY DEF Images, ImageOf
<1>3. Full(d, top) /\ Full(d, top)'
      /\ (\A va \in Pages(KERNEND, top) : Pte(d, va)' = Pte(d, va))
      /\ \A guard : Usable(d, top, guard) => Usable(d, top, guard)'
  BY <1>1, <1>2, FixedImage DEF NImage
<1>4. Full(d, low)'
  BY <1>3 DEF Full
<1>5. ASSUME e.op = "fork", e.pc \in {"page", "map"}
      PROVE  \A va \in Pages(KERNEND, e.va) : Pte(d, va)'.u <=> Pte(b, va)'.u
  <2>1. c.op = "fork" /\ c.pc \in {"page", "map"} /\ e.va = c.va
    BY <1>5
  <2>2. Shape(c, p) /\ Bounds(c, p)
    BY DEF Control
  <2>3. /\ c.end = KERNEND + size[p] /\ c.va % PAGESIZE = 0 /\ c.va < c.end + PAGESIZE
        /\ c.va \in Nat /\ c.end \in Nat
    BY <2>1, <2>2, Fields DEF Bounds
  <2>4. PTop(c, p) = c.end /\ PTop(c, p) \in Nat /\ PTop(c, p) <= USEREND
    BY <2>1, <2>3, Tops DEF PTop
  <2>5. Full(b, c.end)
    BY <2>4, Constants DEF Images, ImageOf, PImage
  <2>6. \A va \in Pages(KERNEND, c.end) : Pte(b, va)' = Pte(b, va)
    BY <2>3, <2>4, <2>5, FixedImage
  <2>7. ASSUME NEW va \in Pages(KERNEND, c.va) PROVE Pte(d, va)'.u <=> Pte(b, va)'.u
    <3>1. va \in Nat /\ va % PAGESIZE = 0 /\ va < c.va /\ KERNEND <= va
      BY <2>3, Spaces DEF Pages
    <3>2. va < c.end
      BY <2>3, <3>1, LoopEnd
    <3>3. va \in Pages(KERNEND, c.end) /\ va \in Pages(KERNEND, top)
      BY <2>1, <2>3, <3>1, <3>2, Spaces DEF Pages, NTop
    <3>4. Pte(d, va).u <=> Pte(b, va).u
      BY <2>1, <1>2, <2>7 DEF NImage
    <3> QED
      BY <3>3, <3>4, <2>6, <1>3
  <2> QED
    BY <2>1, <2>7
<1>6. e.op = "execv" /\ e.pc \in Growing => Usable(d, low, Guard(e))'
  <2> SUFFICES ASSUME e.op = "execv", e.pc \in Growing PROVE Usable(d, low, Guard(e))'
    OBVIOUS
  <2>1. Usable(d, top, Guard(c)) /\ Guard(e) = Guard(c)
    BY <1>2 DEF NImage, Guard
  <2>2. PICK g : g = Guard(c)
    OBVIOUS
  <2>3. Usable(d, top, g)'
    BY <2>1, <2>2, <1>3
  <2> QED
    BY <2>1, <2>2, <2>3 DEF Usable
<1> QED
  BY <1>4, <1>5, <1>6 DEF NImage

\* A page of the tree of a directory of X.
InTree(X, g) ==
  \E d \in X : \/ g = d
               \/ \E n \in Idx : To(d, n) = g
               \/ \E n \in UIdx, j \in Idx : To(d, n) # 0 /\ To(To(d, n), j) = g

\* A step that changes free pages, stacks, pages of calls and the trees of X
\* leaves the other directories alone.
LEMMA Untouched ==
  ASSUME Types, Own, NEW X,
         \A g \in Page, i \in Idx :
           \/ mem'[g][i] = mem[g][i]
           \/ g \in free \/ InTree(X, g) \/ \E k \in {1, 5}, q \in Proc : Var(k, q) = g,
         \A d \in X : d \in Page /\ IsDir(d)
  PROVE  \A e \in Page : IsDir(e) /\ e \notin X => Fixed(e)
<1> SUFFICES ASSUME NEW e \in Page, IsDir(e), e \notin X PROVE Fixed(e)
  OBVIOUS
<1>1. \A g \in Page, i \in Idx : To(g, i) \in Page \cup {0}
  BY RefersType
<1>2. /\ \A g, h \in Page, i, j \in Idx : To(g, i) = To(h, j) /\ To(g, i) # 0 => g = h /\ i = j
      /\ \A g \in Page, i \in Idx, k \in 1 .. 5, p \in Proc : To(g, i) # 0 => To(g, i) # Var(k, p)
      /\ \A k, l \in 1 .. 5, p, q \in Proc :
           Var(k, p) = Var(l, q) /\ Var(k, p) # 0 => k = l /\ p = q
      /\ \A g \in Page, i \in Idx : To(g, i) \notin free
      /\ \A k \in 1 .. 5, p \in Proc : Var(k, p) \notin free
  BY Unique DEF Own
<1>3. \A g \in Page, n \in Idx : To(g, n) # 0 => ~IsDir(To(g, n))
  BY Blanks
<1>4. e # 0 /\ e \notin free /\ \A k \in {1, 5}, q \in Proc : Var(k, q) # e
  <2>1. PICK l \in 2 .. 4, r \in Proc : Var(l, r) = e
    BY DEF IsDir
  <2>2. e # 0 /\ l \in 1 .. 5
    BY Constants
  <2> QED
    BY <2>1, <2>2, <1>2
<1>5. ~InTree(X, e)
  <2> SUFFICES ASSUME InTree(X, e) PROVE FALSE
    OBVIOUS
  <2>1. PICK d \in X : \/ e = d
                       \/ \E n \in Idx : To(d, n) = e
                       \/ \E n \in UIdx, j \in Idx : To(d, n) # 0 /\ To(To(d, n), j) = e
    BY DEF InTree
  <2>2. \A n \in Idx : To(d, n) # e
    BY <1>3, <1>4
  <2>3. \A n \in UIdx, j \in Idx : To(d, n) # 0 => To(To(d, n), j) # e
    BY <1>1, <1>3, <1>4, Indexes
  <2> QED
    BY <2>1, <2>2, <2>3
<1>6. \A i \in Idx : mem'[e][i] = mem[e][i]
  BY <1>4, <1>5
<1>7. ASSUME NEW i \in UIdx, To(e, i) # 0, NEW j \in Idx
      PROVE  mem'[To(e, i)][j] = mem[To(e, i)][j]
  <2> PICK t \in Page : t = To(e, i)
    BY <1>1, <1>7, Indexes
  <2>1. t \notin free /\ t # 0 /\ ~IsDir(t) /\ \A k \in {1, 5}, q \in Proc : Var(k, q) # t
    BY <1>2, <1>3, <1>7, Indexes
  <2>2. ~InTree(X, t)
    <3> SUFFICES ASSUME InTree(X, t) PROVE FALSE
      OBVIOUS
    <3>1. PICK d \in X : \/ t = d
                         \/ \E n \in Idx : To(d, n) = t
                         \/ \E n \in UIdx, h \in Idx : To(d, n) # 0 /\ To(To(d, n), h) = t
      BY DEF InTree
    <3>2. t # d
      BY <2>1
    <3>3. \A n \in Idx : To(d, n) # t
      BY <1>2, <2>1, Indexes
    <3>4. ASSUME NEW n \in UIdx, NEW h \in Idx, To(d, n) # 0, To(To(d, n), h) = t PROVE FALSE
      <4>1. To(d, n) \in Page /\ ~IsDir(To(d, n))
        BY <1>1, <1>3, <3>4, Indexes
      <4>2. To(d, n) = e
        BY <1>2, <2>1, <3>4, <4>1, Indexes
      <4> QED
        BY <4>1, <4>2
    <3> QED
      BY <3>1, <3>2, <3>3, <3>4
  <2> QED
    BY <2>1, <2>2
<1> QED
  BY <1>6, <1>7, Indexes DEF Fixed, To

\* A step that leaves memory alone.
LEMMA MemFixed ==
  ASSUME mem' = mem
  PROVE  \A e : Fixed(e)
  BY DEF Fixed, To

\* A process that the step leaves alone.
LEMMA RestImage ==
  ASSUME Types, Types', Control, Images, NEW q \in Proc, call'[q] = call[q],
         pgdir'[q] = pgdir[q], size'[q] = size[q],
         \A d \in Page : d \in {pgdir[q], call[q].new} => Fixed(d)
  PROVE  ImageOf(call[q], q)'
<1> PICK c \in Call, b \in Page \cup {0} : c = call[q] /\ b = pgdir[q]
  BY DEF Types
<1> PICK top : top = PTop(c, q)
  OBVIOUS
<1>1. PTop(c, q)' = top
  BY DEF PTop
<1>2. top \in Nat /\ top <= USEREND
  BY Tops
<1>3. Shape(c, q) /\ ImageOf(c, q)
  BY DEF Control, Images
<1>4. b # 0 => PImage(b, top)'
  BY <1>2, <1>3, KeepP DEF ImageOf
<1>5. ASSUME c.pc = "ktab" \/ c.pc \in Growing PROVE NImage(c, b)'
  <2>1. c.new # 0 /\ stat[q] = "RUN"
    BY <1>3, <1>5 DEF Shape, Growing
  <2>2. b \in Page
    BY <2>1, Tops
  <2>3. PICK d \in Page : d = c.new
    BY <2>1, Fields
  <2>4. NTop(c) \in Nat
    BY <1>5, Tops
  <2> QED
    BY <1>5, <2>2, <2>3, <2>4, KeepN
<1>6. PImage(b, top)' /\ b # 0 => PImage(pgdir[q], PTop(call[q], q))'
  BY <1>1
<1>7. call'[q] = c /\ pgdir'[q] = b
  OBVIOUS
<1> QED
  BY <1>1, <1>4, <1>5, <1>7 DEF ImageOf

\* A step of p's call that keeps its directory: the others keep theirs too.
LEMMA BuildImage ==
  ASSUME Types, Types', Control, Own, Images, NEW p \in Proc, NEW c \in Call, c = call[p],
         NEW e \in Call, e = call'[p], \A q \in Proc \ {p} : call'[q] = call[q],
         pgdir' = pgdir, size' = size,
         c.pc \notin {"switch", "freeold"}, e.pc \notin {"switch", "freeold"},
         \A d \in Page : IsDir(d) /\ d # c.new => Fixed(d),
         e.pc = "ktab" \/ e.pc \in Growing => NImage(e, pgdir[p])'
  PROVE  Images'
<1>1. ASSUME NEW q \in Proc, q # p PROVE ImageOf(call[q], q)'
  <2>1. ASSUME NEW d \in Page, d \in {pgdir[q], call[q].new} PROVE Fixed(d)
    <3>1. IsDir(d)
      BY <2>1, DirsDiffer
    <3>2. d # c.new
      BY <1>1, <2>1, DirsDiffer
    <3> QED
      BY <3>1, <3>2
  <2> QED
    BY <1>1, <2>1, RestImage
<1>2. ImageOf(call[p], p)'
  <2> PICK b \in Page \cup {0} : b = pgdir[p]
    BY DEF Types
  <2> PICK top : top = PTop(c, p)
    OBVIOUS
  <2>1. PTop(e, p)' = top
    BY DEF PTop
  <2>2. top \in Nat /\ top <= USEREND
    BY Tops
  <2>3. b # 0 => PImage(b, top)
    BY DEF Images, ImageOf
  <2>4. b # 0 => PImage(b, top)'
    <3> SUFFICES ASSUME b # 0 PROVE PImage(b, top)'
      OBVIOUS
    <3>1. IsDir(b) /\ b # c.new
      BY DirsDiffer
    <3>2. Fixed(b)
      BY <3>1
    <3> QED
      BY <2>2, <2>3, <3>2, KeepP
  <2>5. call'[p] = e /\ pgdir'[p] = b
    OBVIOUS
  <2> QED
    BY <2>1, <2>4, <2>5 DEF ImageOf
<1> QED
  BY <1>1, <1>2 DEF Images

\* There is no page below KERNEND to have.
LEMMA StartImage ==
  ASSUME NEW e, NEW b, NTop(e) = KERNEND, e.pc = "page" => e.va = KERNEND, e.pc # "map"
  PROVE  NImage(e, b)'
<1>1. Pages(KERNEND, KERNEND) = {}
  BY Spaces DEF Pages
<1>2. NTop(e)' = KERNEND
  BY DEF NTop
<1> QED
  BY <1>1, <1>2 DEF NImage, Full, Usable

\* A step by which p's call has, and builds, no directory, or gives up.
LEMMA IdleImage ==
  ASSUME Types, Types', Control, Own, Images, NEW p \in Proc,
         call'[p].pc \in {"user", "wait", "dir", "bad", "unfork"},
         \A q \in Proc \ {p} : call'[q] = call[q],
         UNCHANGED <<pgdir, size>>, call[p].pc \notin {"switch", "freeold"},
         \A d \in Page : IsDir(d) /\ d # call[p].new => Fixed(d)
  PROVE  Images'
<1> PICK c \in Call, e \in Call : c = call[p] /\ e = call'[p]
  BY DEF Types
<1>1. ~(e.pc = "ktab" \/ e.pc \in Growing) /\ e.pc \notin {"switch", "freeold"}
  BY DEF Growing
<1> QED
  BY <1>1, BuildImage

\* setupkvm()'s directory has nothing of user space.
LEMMA NewDirImage ==
  ASSUME Types, Types', Control, Own, Images, NEW p \in Proc, NewDir(p)
  PROVE  Images'
<1> PICK c \in Call : c = call[p]
  BY DEF Types
<1>1. c.pc = "dir" /\ UNCHANGED <<pgdir, size>>
  BY DEF NewDir, At, proc
<1>2. CASE free = {}
  <2>1. call' = [call EXCEPT ![p].pc = "bad"] /\ mem' = mem
    BY <1>2 DEF NewDir, Goto
  <2>2. call'[p].pc = "bad" /\ \A q \in Proc \ {p} : call'[q] = call[q]
    BY <2>1 DEF Types, Call
  <2> QED
    BY <1>1, <2>1, <2>2, MemFixed, IdleImage
<1>3. CASE free # {}
  <2>1. PICK k \in free : k = kalloc /\ k \in Page
    BY <1>3, KallocIs
  <2>2. /\ mem' = [mem EXCEPT ![k] = Zero]
        /\ call' = [call EXCEPT ![p].new = k, ![p].pc = "ktab"]
    BY <1>3, <2>1 DEF NewDir
  <2>3. PICK e \in Call : e = [c EXCEPT !.new = k, !.pc = "ktab"]
    BY <2>1 DEF Call
  <2>4. e.pc = "ktab" /\ e = call'[p] /\ \A q \in Proc \ {p} : call'[q] = call[q]
    BY <2>2, <2>3 DEF Call, Types
  <2>5. \A g \in Page, i \in Idx : mem'[g][i] = mem[g][i] \/ g \in free
    BY <2>1, <2>2 DEF Types
  <2>6. \A d \in Page : IsDir(d) => Fixed(d)
    <3> PICK X : X = {}
      OBVIOUS
    <3> QED
      BY <2>5, Untouched
  <2>7. NImage(e, pgdir[p])'
    BY <2>4, StartImage DEF NTop
  <2> QED
    BY <1>1, <2>4, <2>6, <2>7, BuildImage
<1> QED
  BY <1>2, <1>3

\* A table of the kernel changes nothing of user space.
LEMMA NewKernTableImage ==
  ASSUME Types, Types', Control, Own, Trees, Images, NEW p \in Proc, NewKernTable(p)
  PROVE  Images'
<1> PICK c \in Call : c = call[p]
  BY DEF Types
<1>1. c.pc = "ktab" /\ UNCHANGED <<pgdir, size>>
  BY DEF NewKernTable, At, proc
<1>2. CASE free = {}
  <2>1. call' = [call EXCEPT ![p].pc = "bad"] /\ mem' = mem
    BY <1>2 DEF NewKernTable, Goto
  <2>2. call'[p].pc = "bad" /\ \A q \in Proc \ {p} : call'[q] = call[q]
    BY <2>1 DEF Types, Call
  <2> QED
    BY <1>1, <2>1, <2>2, MemFixed, IdleImage
<1>3. CASE free # {}
  <2> PICK d \in Page : d = c.new /\ IsDir(d)
    BY <1>1, NewTree
  <2>1. PICK k \in free : k = kalloc /\ k \in Page
    BY <1>3, KallocIs
  <2> PICK n : n = Cardinality(KernTables(d))
    OBVIOUS
  <2> PICK r : r = [pa |-> k, u |-> TRUE]
    OBVIOUS
  <2>2. /\ mem' = [mem EXCEPT ![k] = Zero, ![d][n] = r]
        /\ call' = IF n + 1 < KTABS THEN call
                   ELSE [call EXCEPT ![p].pc = AfterSetup(p).pc, ![p].lo = KERNEND,
                                     ![p].va = KERNEND, ![p].end = AfterSetup(p).end]
    BY <1>3, <2>1 DEF NewKernTable
  <2>3. \A g \in Page, i \in Idx : mem'[g][i] = mem[g][i] \/ g \in free \/ g = d
    BY <2>1, <2>2 DEF Types
  <2>4. \A g \in Page : IsDir(g) /\ g # d => Fixed(g)
    <3> PICK X : X = {d}
      OBVIOUS
    <3>1. \A g \in Page, i \in Idx : mem'[g][i] = mem[g][i] \/ g \in free \/ InTree(X, g)
      BY <2>3 DEF InTree
    <3>2. \A x \in X : x \in Page /\ IsDir(x)
      OBVIOUS
    <3>3. \A g \in Page : IsDir(g) /\ g \notin X => Fixed(g)
      BY <3>1, <3>2, Untouched
    <3> QED
      BY <3>3
  <2>5. PICK e \in Call :
          /\ e = call'[p] /\ NTop(e) = KERNEND /\ e.pc \in {"ktab", "page", "seg"}
          /\ e.pc = "page" => e.va = KERNEND
          /\ \A q \in Proc \ {p} : call'[q] = call[q]
    <3>1. CASE n + 1 < KTABS
      BY <1>1, <2>2, <3>1 DEF NTop
    <3>2. CASE ~(n + 1 < KTABS)
      <4>1. PICK a, x : a = AfterSetup(p).pc /\ x = AfterSetup(p).end /\ a \in {"page", "seg"}
        BY DEF AfterSetup
      <4>2. call' = [call EXCEPT ![p].pc = a, ![p].lo = KERNEND, ![p].va = KERNEND, ![p].end = x]
        BY <2>2, <3>2, <4>1
      <4>3. PICK e : e = [c EXCEPT !.pc = a, !.lo = KERNEND, !.va = KERNEND, !.end = x]
        OBVIOUS
      <4>4. e.pc = a /\ e.lo = KERNEND /\ e.va = KERNEND
        BY <4>3 DEF Call
      <4>5. e = call'[p] /\ \A q \in Proc \ {p} : call'[q] = call[q]
        BY <4>2, <4>3 DEF Types
      <4>6. e \in Call
        BY <4>5 DEF Types
      <4> QED
        BY <4>1, <4>4, <4>5, <4>6 DEF NTop
    <3> QED
      BY <3>1, <3>2
  <2>6. NImage(e, pgdir[p])'
    BY <2>5, StartImage
  <2> QED
    BY <1>1, <2>4, <2>5, <2>6, BuildImage
<1> QED
  BY <1>2, <1>3

\* The call that asks for a page has the same image after it.
LEMMA GetPageImage ==
  ASSUME Types, Types', Control, Own, Trees, Images, NEW p \in Proc, GetPage(p), free # {}
  PROVE  Images'
<1> PICK c \in Call : c = call[p]
  BY DEF Types
<1>1. /\ c.pc = "page" /\ UNCHANGED <<pgdir, size>> /\ mem' = [mem EXCEPT ![kalloc] = Zero]
      /\ call' = [call EXCEPT ![p].page = kalloc, ![p].pc = "map"] /\ stat[p] = "RUN"
  BY DEF GetPage, At, Running, proc
<1>2. PICK k \in free : k = kalloc /\ k \in Page
  BY KallocIs
<1>3. PICK e \in Call : e = [c EXCEPT !.page = k, !.pc = "map"]
  BY <1>2 DEF Call
<1>4. /\ e.pc = "map" /\ e.new = c.new /\ e.op = c.op /\ e.va = c.va
      /\ e = call'[p] /\ \A q \in Proc \ {p} : call'[q] = call[q]
  BY <1>1, <1>2, <1>3 DEF Call, Types
<1>5. \A g \in Page, i \in Idx : mem'[g][i] = mem[g][i] \/ g \in free
  BY <1>1, <1>2 DEF Types
<1>6. \A d \in Page : IsDir(d) => Fixed(d)
  <2> PICK X : X = {}
    OBVIOUS
  <2> QED
    BY <1>5, Untouched
<1> PICK d \in Page, b \in Page : d = c.new /\ b = pgdir[p]
  BY <1>1, NewTree, Tops DEF Growing
<1>7. IsDir(d) /\ IsDir(b)
  BY DirsDiffer
<1>8. NTop(e) = NTop(c) /\ NTop(e) \in Nat
  BY <1>1, <1>4, Tops DEF NTop, Growing
<1>9. c.pc \in Growing /\ e.pc \in Growing /\ e.pc # "commit"
  BY <1>1, <1>4 DEF Growing
<1>10. NImage(e, b)'
  BY <1>1, <1>4, <1>6, <1>7, <1>8, <1>9, KeepN
<1> QED
  BY <1>1, <1>4, <1>6, <1>10, BuildImage

\* The call that maps its page has one page more, with its flags.
LEMMA MoreImage ==
  ASSUME Types, Types', Control, Own, Trees, Images, NEW p \in Proc, NEW c \in Call, c = call[p],
         c.pc = "map", NEW e \in Call, e = call'[p], e.pc = "page", e.op = c.op, e.new = c.new,
         e.va = c.va + PAGESIZE, pgdir' = pgdir, size' = size,
         \A q \in Proc \ {p} : call'[q] = call[q],
         NEW d \in Page, d = c.new, \A x \in Page : IsDir(x) /\ x # d => Fixed(x),
         Pte(d, c.va)'.pa # 0, Table(d, c.va)' # 0,
         Pte(d, c.va)'.u <=> (c.op = "fork" => Pte(pgdir[p], c.va).u),
         \A va \in Pages(KERNEND, c.va) :
           Table(d, va)' = Table(d, va) /\ Pte(d, va)' = Pte(d, va)
  PROVE  Images'
<1> PICK va \in Nat, end \in Nat : va = c.va /\ end = c.end
  BY Fields
<1>1. Shape(c, p) /\ Bounds(c, p) /\ stat[p] = "RUN"
  BY Fields DEF Control, Shape
<1>2. /\ va % PAGESIZE = 0 /\ KERNEND <= va /\ va < end /\ end <= USEREND
      /\ c.op = "fork" => end = KERNEND + size[p]
  BY <1>1 DEF Bounds
<1> PICK b \in Page : b = pgdir[p]
  BY <1>1, Tops
<1>3. IsDir(b) /\ b # d /\ Fixed(b)
  BY DirsDiffer
<1>4. NImage(c, b) /\ NTop(c) = va /\ NTop(e) = va + PAGESIZE
  BY DEF Images, ImageOf, Growing, NTop
<1>5. Pages(KERNEND, va + PAGESIZE) = Pages(KERNEND, va) \cup {va}
  <2>1. va \in Pages(KERNEND, va + PAGESIZE)
    BY <1>2, Spaces DEF Pages
  <2>2. Pages(KERNEND, va) \subseteq Pages(KERNEND, va + PAGESIZE)
    BY Spaces DEF Pages
  <2>3. ASSUME NEW w \in Pages(KERNEND, va + PAGESIZE), w \notin Pages(KERNEND, va) PROVE w = va
    <3>1. w \in Nat /\ w % PAGESIZE = 0 /\ w < va + PAGESIZE /\ KERNEND <= w /\ va <= w
      BY <2>3, Spaces DEF Pages
    <3> SUFFICES ASSUME va < w PROVE FALSE
      BY <3>1
    <3>2. va + PAGESIZE <= w
      BY <3>1, <1>2, Spaces, Multiples
    <3> QED
      BY <3>1, <3>2, Spaces
  <2> QED
    BY <2>1, <2>2, <2>3
<1>6. Full(d, va + PAGESIZE)'
  <2>1. \A w \in Pages(KERNEND, va) : Mapped(d, w)
    BY <1>4 DEF NImage, Full
  <2>2. \A w \in Pages(KERNEND, va) : Mapped(d, w)'
    BY <2>1 DEF Mapped
  <2>3. Mapped(d, va)'
    BY DEF Mapped
  <2> QED
    BY <2>2, <2>3, <1>5 DEF Full
<1>7. ASSUME e.op = "fork"
      PROVE  \A w \in Pages(KERNEND, va + PAGESIZE) : Pte(d, w)'.u <=> Pte(b, w)'.u
  <2>1. PTop(c, p) = end
    BY <1>2, <1>7 DEF PTop
  <2>2. Full(b, end)
    BY <2>1, Constants DEF Images, ImageOf, PImage
  <2>3. \A w \in Pages(KERNEND, end) : Pte(b, w)' = Pte(b, w)
    BY <2>2, <1>2, <1>3, FixedImage
  <2>4. \A w \in Pages(KERNEND, va) \cup {va} : w \in Pages(KERNEND, end)
    BY <1>2, Spaces DEF Pages
  <2>5. \A w \in Pages(KERNEND, va) : Pte(d, w).u <=> Pte(b, w).u
    BY <1>4, <1>7 DEF NImage
  <2> QED
    BY <2>3, <2>4, <2>5, <1>5, <1>7
<1>8. ASSUME e.op = "execv" PROVE Usable(d, va + PAGESIZE, 0)'
  <2>1. \A w \in Pages(KERNEND, va) : Pte(d, w).u <=> w # 0
    BY <1>4, <1>8 DEF NImage, Usable, Guard, Growing
  <2>2. Pte(d, va)'.u /\ va # 0
    BY <1>2, <1>8, Bounded
  <2> QED
    BY <2>1, <2>2, <1>5 DEF Usable
<1>9. NImage(e, b)'
  BY <1>4, <1>6, <1>7, <1>8 DEF NImage, Guard
<1> QED
  BY <1>9, BuildImage

\* The page of the call is mapped.
LEMMA MapPageImage ==
  ASSUME Types, Types', Control, Own, Trees, Images, NEW p \in Proc, MapPage(p),
         ~(Table(call[p].new, call[p].va) = 0 /\ free = {})
  PROVE  Images'
<1> PICK c \in Call : c = call[p]
  BY DEF Types
<1> PICK f : f = Flags(p)
  OBVIOUS
<1>1. /\ c.pc = "map" /\ UNCHANGED <<pgdir, size>> /\ Shape(c, p) /\ Bounds(c, p) /\ stat[p] = "RUN"
      /\ call' = [call EXCEPT ![p].page = 0, ![p].va = c.va + PAGESIZE, ![p].pc = "page"]
      /\ f <=> (c.op = "fork" => Pte(pgdir[p], c.va).u)
  BY DEF MapPage, At, Running, proc, Control, Flags
<1> PICK d \in Page, va \in Nat, g0 \in Page : d = c.new /\ va = c.va /\ g0 = c.page
  BY <1>1, Fields DEF Shape, Growing
<1>2. IsDir(d) /\ Below(d, va) /\ d \notin free
  BY <1>1, NewTree DEF Growing, NTop
<1>3. /\ va % PAGESIZE = 0 /\ KERNEND <= va /\ va < USEREND /\ va < TablesEnd
  <2>1. KERNEND <= va /\ va < c.end /\ c.end <= USEREND /\ c.end \in Nat /\ va % PAGESIZE = 0
    BY <1>1, Fields DEF Bounds
  <2> QED
    BY <2>1, Bounded
<1> PICK n \in UIdx, j \in Idx : n = PDX(va) /\ j = PTX(va)
  BY <1>3, Decode
<1>4. n \in Idx /\ Addr(n, j) = va
  BY <1>3, Decode, Indexes
<1> PICK t \in Page \cup {0} : t = To(d, n)
  BY <1>4, RefersType
<1>5. t = Table(c.new, c.va)
  BY DEF Table, To
<1>6. PICK e : e = [c EXCEPT !.page = 0, !.va = va + PAGESIZE, !.pc = "page"]
  OBVIOUS
<1>7. /\ e.pc = "page" /\ e.new = d /\ e.op = c.op /\ e.va = va + PAGESIZE
      /\ e = call'[p] /\ \A q \in Proc \ {p} : call'[q] = call[q]
  BY <1>1, <1>6 DEF Call, Types
<1>8. e \in Call
  BY <1>7 DEF Types
<1>9. PICK r : r = [pa |-> g0, u |-> f]
  OBVIOUS
<1>10. r.pa = g0 /\ (r.u <=> f) /\ g0 # 0
  BY <1>9, Constants
<1>11. \A i \in Idx : To(d, i) # 0 => To(d, i) \in Page /\ To(d, i) # d /\ To(d, i) \notin free
  BY <1>2, Blanks, RefersType, Unique DEF Own
\* What is mapped already.
<1>12. ASSUME NEW w \in Pages(KERNEND, va)
       PROVE  \E i \in UIdx, h \in Idx, s \in Page :
                /\ i = PDX(w) /\ h = PTX(w) /\ i \in Idx /\ Addr(i, h) = w /\ w < va
                /\ s = To(d, i) /\ s # 0 /\ To(s, h) # 0 /\ s # d /\ s \notin free
                /\ Table(d, w) = s /\ Pte(d, w) = mem[s][h]
  <2>1. /\ w \in Nat /\ w < va /\ PDX(w) \in UIdx /\ PTX(w) \in Idx
        /\ Addr(PDX(w), PTX(w)) = w
    BY <1>3, Spaces, UserAddress
  <2>2. PICK i \in UIdx, h \in Idx : i = PDX(w) /\ h = PTX(w) /\ i \in Idx
    BY <2>1, Indexes
  <2>3. NImage(c, pgdir[p]) /\ NTop(c) = va
    BY <1>1 DEF Images, ImageOf, Growing, NTop
  <2>4. Mapped(d, w)
    BY <2>3 DEF NImage, Full
  <2>5. To(d, i) = Table(d, w) /\ Table(d, w) # 0 /\ Pte(d, w).pa # 0
    BY <2>2, <2>4 DEF Mapped, To, Table
  <2>6. PICK s \in Page : s = To(d, i) /\ s # 0 /\ s # d /\ s \notin free
    BY <2>2, <2>5, <1>11
  <2>7. Pte(d, w) = mem[s][h] /\ To(s, h) # 0
    BY <2>2, <2>5, <2>6 DEF Pte, To
  <2> QED
    BY <2>1, <2>2, <2>5, <2>6, <2>7
<1>13. /\ c.pc = "map" /\ d = c.new /\ e.new = c.new /\ e.va = c.va + PAGESIZE
       /\ pgdir' = pgdir /\ size' = size
  BY <1>1, <1>7
<1>14. CASE t # 0
  <2>1. mem' = [mem EXCEPT ![t][j] = r] /\ t \in Page /\ t # d
    BY <1>1, <1>4, <1>5, <1>9, <1>11, <1>14 DEF MapPage
  <2>2. \A g \in Page, i \in Idx : mem'[g][i] = IF g = t /\ i = j THEN r ELSE mem[g][i]
    BY <2>1 DEF Types
  <2>3. To(t, j) = 0
    <3> SUFFICES ASSUME To(t, j) # 0 PROVE FALSE
      OBVIOUS
    <3>1. Addr(n, j) < va
      BY <1>2, <1>4, <1>14 DEF Below
    <3> QED
      BY <3>1, <1>4
  <2>4. Table(d, va)' = t /\ Pte(d, va)' = r
    <3>1. mem'[d][n] = mem[d][n] /\ mem'[t][j] = r
      BY <2>1, <2>2, <1>4
    <3> QED
      BY <3>1 DEF Table, Pte, To
  <2>5. ASSUME NEW w \in Pages(KERNEND, va)
        PROVE  Table(d, w)' = Table(d, w) /\ Pte(d, w)' = Pte(d, w)
    <3>1. PICK i \in UIdx, h \in Idx, s \in Page :
            /\ i = PDX(w) /\ h = PTX(w) /\ i \in Idx
            /\ s = To(d, i) /\ To(s, h) # 0
            /\ Table(d, w) = s /\ Pte(d, w) = mem[s][h]
      BY <1>12
    <3>2. mem'[d][i] = mem[d][i] /\ mem'[s][h] = mem[s][h]
      BY <3>1, <2>1, <2>2, <2>3
    <3> QED
      BY <3>1, <3>2 DEF Table, Pte, To
  <2>6. \A x \in Page : IsDir(x) /\ x # d => Fixed(x)
    <3> PICK X : X = {d}
      OBVIOUS
    <3>1. \A g \in Page, i \in Idx : mem'[g][i] = mem[g][i] \/ g \in free \/ InTree(X, g)
      BY <2>2, <1>4 DEF InTree
    <3>2. \A x \in X : x \in Page /\ IsDir(x)
      BY <1>2
    <3>3. \A g \in Page : IsDir(g) /\ g \notin X => Fixed(g)
      BY <3>1, <3>2, Untouched
    <3> QED
      BY <3>3
  <2>7. /\ Pte(d, c.va)'.pa # 0 /\ Table(d, c.va)' # 0
        /\ Pte(d, c.va)'.u <=> (c.op = "fork" => Pte(pgdir[p], c.va).u)
    BY <2>4, <1>1, <1>10, <1>14
  <2>8. \A w \in Pages(KERNEND, c.va) :
           Table(d, w)' = Table(d, w) /\ Pte(d, w)' = Pte(d, w)
    BY <2>5
  <2> QED
    BY <1>7, <1>8, <1>13, <2>6, <2>7, <2>8, MoreImage
<1>15. CASE t = 0
  <2>1. PICK k \in free : k = kalloc /\ k \in Page /\ k # 0
    BY <1>5, <1>15, KallocIs
  <2>2. PICK z : z = [Zero EXCEPT ![j] = r]
    OBVIOUS
  <2>3. z[j] = r
    BY <2>2 DEF Zero
  <2>4. PICK y : y = [pa |-> k, u |-> TRUE]
    OBVIOUS
  <2>5. y.pa = k /\ k # d
    BY <2>1, <2>4, <1>2
  <2>6. mem' = [mem EXCEPT ![k] = z, ![d][n] = y]
    BY <1>1, <1>5, <1>9, <1>15, <2>1, <2>2, <2>4 DEF MapPage
  <2>7. /\ \A g \in Page, i \in Idx : g # k /\ ~(g = d /\ i = n) => mem'[g][i] = mem[g][i]
        /\ mem'[d][n] = y /\ mem'[k] = z
    BY <2>1, <2>5, <2>6, <1>4 DEF Types
  <2>8. Table(d, va)' = k /\ Pte(d, va)' = r
    BY <2>3, <2>5, <2>7 DEF Table, Pte
  <2>9. ASSUME NEW w \in Pages(KERNEND, va)
        PROVE  Table(d, w)' = Table(d, w) /\ Pte(d, w)' = Pte(d, w)
    <3>1. PICK i \in UIdx, h \in Idx, s \in Page :
            /\ i = PDX(w) /\ h = PTX(w) /\ i \in Idx
            /\ s = To(d, i) /\ s # 0 /\ s # d /\ s \notin free
            /\ Table(d, w) = s /\ Pte(d, w) = mem[s][h]
      BY <1>12
    <3>2. mem'[d][i] = mem[d][i] /\ mem'[s][h] = mem[s][h]
      BY <3>1, <2>1, <2>5, <2>7, <1>15
    <3> QED
      BY <3>1, <3>2 DEF Table, Pte, To
  <2>10. \A x \in Page : IsDir(x) /\ x # d => Fixed(x)
    <3> PICK X : X = {d}
      OBVIOUS
    <3>1. \A g \in Page, i \in Idx : mem'[g][i] = mem[g][i] \/ g \in free \/ InTree(X, g)
      BY <2>1, <2>7 DEF InTree
    <3>2. \A x \in X : x \in Page /\ IsDir(x)
      BY <1>2
    <3>3. \A g \in Page : IsDir(g) /\ g \notin X => Fixed(g)
      BY <3>1, <3>2, Untouched
    <3> QED
      BY <3>3
  <2>11. /\ Pte(d, c.va)'.pa # 0 /\ Table(d, c.va)' # 0
         /\ Pte(d, c.va)'.u <=> (c.op = "fork" => Pte(pgdir[p], c.va).u)
    BY <2>1, <2>8, <1>1, <1>10
  <2>12. \A w \in Pages(KERNEND, c.va) :
           Table(d, w)' = Table(d, w) /\ Pte(d, w)' = Pte(d, w)
    BY <2>9
  <2> QED
    BY <1>7, <1>8, <1>13, <2>10, <2>11, <2>12, MoreImage
<1> QED
  BY <1>14, <1>15

\* freevm() leaves the directories alone that it does not free.
LEMMA FreevmImage ==
  ASSUME Types, Own, NEW D \in SUBSET Page, NEW S \in SUBSET Page, freevm(D, S),
         \A d \in D : IsDir(d) /\ Below(d, USEREND),
         \A x \in S : \E k \in {1, 5}, q \in Proc : Var(k, q) = x
  PROVE  \A e \in Page : IsDir(e) /\ e \notin D => Fixed(e)
<1> PICK G : G = S \cup UNION {Freed(d) : d \in D}
  OBVIOUS
<1>1. mem' = [g \in Page |-> IF g \in G THEN Zero ELSE mem[g]]
  BY DEF freevm, kfree
<1>2. ASSUME NEW d \in D, NEW x \in Freed(d) PROVE InTree(D, x)
  <2>1. \/ x = d
        \/ \E i \in UIdx : To(d, i) = x
        \/ \E i \in UIdx, j \in Idx : To(d, i) # 0 /\ To(To(d, i), j) = x
    BY WithinIs
  <2> QED
    BY <2>1, Indexes DEF InTree
<1>3. \A g \in Page, i \in Idx :
        \/ mem'[g][i] = mem[g][i]
        \/ g \in free \/ InTree(D, g) \/ \E k \in {1, 5}, q \in Proc : Var(k, q) = g
  <2> SUFFICES ASSUME NEW g \in Page, NEW i \in Idx, mem'[g][i] # mem[g][i]
               PROVE  InTree(D, g) \/ \E k \in {1, 5}, q \in Proc : Var(k, q) = g
    OBVIOUS
  <2>1. g \in G
    BY <1>1
  <2> QED
    BY <2>1, <1>2
<1>4. \A d \in D : d \in Page /\ IsDir(d)
  OBVIOUS
<1> QED
  BY <1>3, <1>4, Untouched

\* deallocuvm() leaves the other directories alone.
LEMMA DeallocImage ==
  ASSUME Types, Own, NEW d \in Page, IsDir(d), NEW lo \in Nat, NEW hi \in Nat,
         KERNEND <= lo, hi <= USEREND, NEW S \in SUBSET Page, deallocuvm(d, hi, lo, S),
         \A x \in S : \E q \in Proc : Var(5, q) = x
  PROVE  \A e \in Page : IsDir(e) /\ e # d => Fixed(e)
<1> PICK gone : gone = {va \in Pages(lo, hi) : Mapped(d, va)}
  OBVIOUS
<1> PICK G : G = {Pte(d, va).pa : va \in gone} \cup S
  OBVIOUS
<1>1. mem' = [g \in Page |->
        IF g \in G THEN Zero
        ELSE [i \in Idx |-> IF \E va \in gone : g = Table(d, va) /\ i = PTX(va)
                            THEN None ELSE mem[g][i]]]
  BY DEF deallocuvm
<1> PICK X : X = {d}
  OBVIOUS
<1>2. ASSUME NEW va \in gone PROVE InTree(X, Table(d, va)) /\ InTree(X, Pte(d, va).pa)
  <2>1. PICK n \in UIdx, j \in Idx : n = PDX(va) /\ j = PTX(va) /\ n \in Idx
    BY UserAddress, Indexes
  <2>2. PICK t \in Page : t = Table(d, va) /\ t # 0
    BY MappedIs DEF Mapped
  <2>3. To(d, n) = t
    BY <2>1, <2>2 DEF Table, To
  <2>4. Pte(d, va).pa = To(t, j)
    BY <2>1, <2>2 DEF Pte, To
  <2> QED
    BY <2>1, <2>2, <2>3, <2>4 DEF InTree
<1>3. \A g \in Page, i \in Idx :
        \/ mem'[g][i] = mem[g][i]
        \/ g \in free \/ InTree(X, g) \/ \E k \in {1, 5}, q \in Proc : Var(k, q) = g
  <2> SUFFICES ASSUME NEW g \in Page, NEW i \in Idx, mem'[g][i] # mem[g][i]
               PROVE  InTree(X, g) \/ \E k \in {1, 5}, q \in Proc : Var(k, q) = g
    OBVIOUS
  <2>1. g \in G \/ \E va \in gone : g = Table(d, va) /\ i = PTX(va)
    BY <1>1
  <2> QED
    BY <2>1, <1>2
<1>4. \A x \in X : x \in Page /\ IsDir(x)
  OBVIOUS
<1>5. \A e \in Page : IsDir(e) /\ e \notin X => Fixed(e)
  BY <1>3, <1>4, Untouched
<1> QED
  BY <1>5

\* The loop gives up.
LEMMA UndoImage ==
  ASSUME Types, Types', Control, Own, Trees, Images, NEW p \in Proc,
         call[p].pc \in {"page", "map"}, NEW S \in SUBSET Page, S = {call[p].page} \ {0},
         Undo(p, S), UNCHANGED <<pgdir, size>>
  PROVE  Images'
<1> PICK c \in Call : c = call[p]
  BY DEF Types
<1>1. Shape(c, p) /\ Bounds(c, p) /\ c.pc \in Growing
  BY DEF Control, Growing
<1> PICK d \in Page : d = c.new /\ IsDir(d)
  BY <1>1, NewTree
<1>2. call'[p].pc = "bad" /\ \A q \in Proc \ {p} : call'[q] = call[q]
  BY DEF Call, Types, Undo
<1>3. \A x \in S : \E q \in Proc : Var(5, q) = x
  BY VarIs
<1>4. \A g \in Page : IsDir(g) /\ g # d => Fixed(g)
  <2>1. CASE c.op = "fork"
    <3>1. kfree(S) /\ lost' = lost
      BY <2>1 DEF Undo
    <3>2. PICK D \in SUBSET Page : D = {}
      OBVIOUS
    <3>3. freevm(D, S)
      <4>1. S \cup UNION {Freed(h) : h \in D} = S /\ lost \cup UNION {KernTables(h) : h \in D} = lost
        BY <3>2
      <4> QED
        BY <3>1, <4>1 DEF freevm
    <3>4. \A x \in S : \E k \in {1, 5}, q \in Proc : Var(k, q) = x
      BY <1>3
    <3>5. \A g \in D : IsDir(g) /\ Below(g, USEREND)
      BY <3>2
    <3>6. \A e \in Page : IsDir(e) /\ e \notin D => Fixed(e)
      BY <3>3, <3>4, <3>5, FreevmImage
    <3> QED
      BY <3>2, <3>6
  <2>2. CASE c.op # "fork"
    <3>1. deallocuvm(d, c.end, c.lo, S)
      BY <2>2 DEF Undo
    <3>2. c.lo \in Nat /\ c.end \in Nat /\ KERNEND <= c.lo /\ c.end <= USEREND
      BY <1>1, Fields, Spaces DEF Bounds
    <3> QED
      BY <1>3, <3>1, <3>2, DeallocImage
  <2> QED
    BY <2>1, <2>2
<1>5. call'[p].pc \in {"user", "wait", "dir", "bad", "unfork"}
  BY <1>2
<1>6. call[p].pc \notin {"switch", "freeold"}
  OBVIOUS
<1>7. \A g \in Page : IsDir(g) /\ g # call[p].new => Fixed(g)
  BY <1>4
<1> QED
  BY <1>2, <1>5, <1>6, <1>7, IdleImage

\* The loop asks for a page.
LEMMA GetPageImages ==
  ASSUME Types, Types', Control, Own, Trees, Images, NEW p \in Proc, GetPage(p)
  PROVE  Images'
<1>1. CASE free = {}
  <2>1. call[p].pc = "page" /\ Undo(p, {}) /\ UNCHANGED <<pgdir, size>>
    BY <1>1 DEF GetPage, At, proc
  <2>2. Shape(call[p], p)
    BY DEF Control
  <2>3. call[p].page = 0
    BY <2>1, <2>2 DEF Shape
  <2>4. call[p].pc \in {"page", "map"}
    BY <2>1
  <2>5. {} \in SUBSET Page /\ {} = {call[p].page} \ {0}
    BY <2>3
  <2> QED
    BY <2>1, <2>4, <2>5, UndoImage
<1> QED
  BY <1>1, GetPageImage

\* The loop maps its page, or gives up.
LEMMA MapPageImages ==
  ASSUME Types, Types', Control, Own, Trees, Images, NEW p \in Proc, MapPage(p)
  PROVE  Images'
<1>1. CASE Table(call[p].new, call[p].va) = 0 /\ free = {}
  <2> PICK S : S = {call[p].page}
    OBVIOUS
  <2>1. call[p].pc = "map" /\ Undo(p, S) /\ UNCHANGED <<pgdir, size>>
    BY <1>1 DEF MapPage, At, proc
  <2>2. Shape(call[p], p)
    BY DEF Control
  <2>3. call[p].page \in Page /\ call[p].page # 0
    BY <2>1, <2>2, Fields DEF Shape, Types
  <2>4. call[p].pc \in {"page", "map"}
    BY <2>1
  <2>5. S \in SUBSET Page /\ S = {call[p].page} \ {0}
    BY <2>3
  <2> QED
    BY <2>1, <2>4, <2>5, UndoImage
<1> QED
  BY <1>1, MapPageImage

\* A step that changes neither memory nor directories, sizes and calls.
LEMMA StillImage ==
  ASSUME Types, Types', Control, Images, UNCHANGED <<call, pgdir, size, mem>>
  PROVE  Images'
<1>1. \A d : Fixed(d)
  BY MemFixed
<1>2. \A q \in Proc : call'[q] = call[q] /\ pgdir'[q] = pgdir[q] /\ size'[q] = size[q]
  OBVIOUS
<1>3. \A q \in Proc : ImageOf(call[q], q)'
  BY <1>1, <1>2, RestImage
<1> QED
  BY <1>3 DEF Images

\* A step by which p goes to e without touching memory, and has the same
\* pages to show for it, or none.
LEMMA QuietImage ==
  ASSUME Types, Types', Control, Own, Images, NEW p \in Proc, NEW c \in Call, c = call[p],
         NEW e \in Call, e = call'[p], \A q \in Proc \ {p} : call'[q] = call[q],
         UNCHANGED <<pgdir, size, mem>>, stat[p] = "RUN",
         c.pc \notin {"switch", "freeold"}, e.pc \notin {"switch", "freeold", "ktab"},
         e.pc \in Growing =>
           /\ c.pc \in Growing /\ e.new = c.new /\ e.op = c.op /\ c.op = "execv"
           /\ NTop(e) \in Nat /\ Pages(KERNEND, NTop(e)) \subseteq Pages(KERNEND, NTop(c))
           /\ e.pc # "commit" /\ c.pc # "commit"
  PROVE  Images'
<1>1. \A d : Fixed(d)
  BY MemFixed
<1>2. ASSUME e.pc \in Growing PROVE NImage(e, pgdir[p])'
  <2>1. PICK b \in Page : b = pgdir[p]
    BY Tops
  <2>2. Shape(c, p) /\ c.pc \in Growing
    BY <1>2 DEF Control
  <2>3. PICK d \in Page : d = c.new
    BY <2>2, Fields DEF Shape
  <2>4. e.new = c.new /\ e.op = c.op /\ NTop(e) \in Nat /\ e.op # "fork"
        /\ Pages(KERNEND, NTop(e)) \subseteq Pages(KERNEND, NTop(c))
        /\ e.pc # "commit" /\ c.pc # "commit"
    BY <1>2
  <2>5. NImage(e, b)'
    BY <1>1, <1>2, <2>2, <2>1, <2>3, <2>4, KeepN
  <2> QED
    BY <2>1, <2>5
<1>3. \A d \in Page : IsDir(d) /\ d # c.new => Fixed(d)
  BY <1>1
<1>4. pgdir' = pgdir /\ size' = size /\ e.pc # "ktab"
  OBVIOUS
<1> QED
  BY <1>2, <1>3, <1>4, BuildImage

\* A process goes to sleep in wait().
LEMMA WaitImage ==
  ASSUME Types, Types', Control, Own, Images, NEW p \in Proc, Wait(p)
  PROVE  Images'
<1>1. /\ call[p].pc = "user" /\ call' = [call EXCEPT ![p].pc = "wait"]
      /\ UNCHANGED <<pgdir, size, mem>>
  BY DEF Wait, At, Goto
<1>2. call'[p].pc = "wait" /\ \A q \in Proc \ {p} : call'[q] = call[q]
  BY <1>1 DEF Types, Call
<1>3. \A d \in Page : IsDir(d) /\ d # call[p].new => Fixed(d)
  BY <1>1, MemFixed
<1> QED
  BY <1>1, <1>2, <1>3, IdleImage

\* execv() begins.
LEMMA ExecvImage ==
  ASSUME Types, Types', Control, Own, Images, NEW p \in Proc, NEW img, Execv(p, img)
  PROVE  Images'
<1>1. /\ call[p].pc = "user" /\ UNCHANGED <<pgdir, size, mem>>
      /\ call' = [call EXCEPT ![p] = [User EXCEPT !.op = "execv", !.pc = "dir", !.img = img]]
  BY DEF Execv, At, proc
<1>2. call'[p].pc = "dir" /\ \A q \in Proc \ {p} : call'[q] = call[q]
  BY <1>1 DEF Types, User
<1>3. \A d \in Page : IsDir(d) /\ d # call[p].new => Fixed(d)
  BY <1>1, MemFixed
<1> QED
  BY <1>1, <1>2, <1>3, IdleImage

\* The call gives up, and touches no memory.
LEMMA FailImage ==
  ASSUME Types, Types', Control, Own, Images, NEW p \in Proc,
         call[p].pc \notin {"switch", "freeold"}, call' = [call EXCEPT ![p].pc = "bad"],
         UNCHANGED <<pgdir, size, mem>>
  PROVE  Images'
<1>1. call'[p].pc = "bad" /\ \A q \in Proc \ {p} : call'[q] = call[q]
  BY DEF Types, Call
<1>2. \A d \in Page : IsDir(d) /\ d # call[p].new => Fixed(d)
  BY MemFixed
<1> QED
  BY <1>1, <1>2, IdleImage

\* Rounding up skips no page.
LEMMA RoundPages ==
  ASSUME NEW a \in Nat
  PROVE  Pages(KERNEND, PGROUNDUP(a)) \subseteq Pages(KERNEND, a)
<1> PICK r : r = PGROUNDUP(a)
  OBVIOUS
<1>1. r \in Nat /\ r % PAGESIZE = 0 /\ r < a + PAGESIZE
  BY RoundUp
<1>2. \A va \in Nat : va % PAGESIZE = 0 /\ va < r => va < a
  BY <1>1, LoopEnd
<1>3. ASSUME NEW va \in Pages(KERNEND, r) PROVE va \in Pages(KERNEND, a)
  <2>1. va \in Nat /\ va % PAGESIZE = 0 /\ va < r /\ KERNEND <= va
    BY <1>1, Spaces DEF Pages
  <2>2. va < a
    BY <2>1, <1>2
  <2> QED
    BY <2>1, <2>2, Spaces DEF Pages
<1> QED
  BY <1>3

\* allocuvm() begins, or has nothing to do: nothing is mapped.
LEMMA AllocImage ==
  ASSUME Types, Types', Control, Own, Images, NEW p \in Proc,
         call[p].pc = "seg", stat[p] = "RUN", NEW lo \in Nat, lo = call[p].lo,
         NEW old \in {lo, PGROUNDUP(lo)}, NEW new, NEW after \in {"load", "bad"},
         allocuvm(p, old, new, after), UNCHANGED <<pgdir, size, mem>>
  PROVE  Images'
<1> PICK c \in Call : c = call[p]
  BY DEF Types
<1>1. Shape(c, p) /\ c.pc = "seg"
  BY DEF Control
<1>2. c.op = "execv" /\ NTop(c) = lo
  BY <1>1, Fields DEF Shape, NTop
<1>3. CASE call' = [call EXCEPT ![p].pc = "bad"]
  BY <1>1, <1>3, FailImage
<1>4. CASE call' = [call EXCEPT ![p].pc = "load"]
  <2>1. PICK e : e = [c EXCEPT !.pc = "load"]
    OBVIOUS
  <2>2. /\ e.pc = "load" /\ e.new = c.new /\ e.op = c.op /\ e.lo = c.lo
        /\ e = call'[p] /\ \A q \in Proc \ {p} : call'[q] = call[q]
    BY <1>4, <2>1 DEF Call, Types
  <2>3. e \in Call /\ NTop(e) = lo
    BY <2>2 DEF Types, NTop
  <2>4. e.pc \in Growing =>
           /\ c.pc \in Growing /\ e.new = c.new /\ e.op = c.op /\ c.op = "execv"
           /\ NTop(e) \in Nat /\ Pages(KERNEND, NTop(e)) \subseteq Pages(KERNEND, NTop(c))
           /\ e.pc # "commit" /\ c.pc # "commit"
    BY <1>1, <1>2, <2>2, <2>3 DEF Growing
  <2> QED
    BY <1>1, <2>2, <2>3, <2>4, QuietImage
<1>5. CASE call' = [call EXCEPT ![p].pc = "page", ![p].lo = old, ![p].va = PGROUNDUP(old),
                                ![p].end = new]
  <2>1. PICK e : e = [c EXCEPT !.pc = "page", !.lo = old, !.va = PGROUNDUP(old), !.end = new]
    OBVIOUS
  <2>2. /\ e.pc = "page" /\ e.new = c.new /\ e.op = c.op /\ e.va = PGROUNDUP(old)
        /\ e = call'[p] /\ \A q \in Proc \ {p} : call'[q] = call[q]
    BY <1>5, <2>1 DEF Call, Types
  <2>3. PGROUNDUP(old) = PGROUNDUP(lo) /\ PGROUNDUP(lo) \in Nat
    BY RoundUp
  <2>4. e \in Call /\ NTop(e) = PGROUNDUP(lo)
    BY <2>2, <2>3 DEF Types, NTop
  <2>5. e.pc \in Growing =>
           /\ c.pc \in Growing /\ e.new = c.new /\ e.op = c.op /\ c.op = "execv"
           /\ NTop(e) \in Nat /\ Pages(KERNEND, NTop(e)) \subseteq Pages(KERNEND, NTop(c))
           /\ e.pc # "commit" /\ c.pc # "commit"
    BY <1>1, <1>2, <2>2, <2>3, <2>4, RoundPages DEF Growing
  <2> QED
    BY <1>1, <2>2, <2>4, <2>5, QuietImage
<1> QED
  BY <1>3, <1>4, <1>5 DEF allocuvm

\* execv() comes to a segment, or to the stack.
LEMMA SegmentImage ==
  ASSUME Types, Types', Control, Own, Images, NEW p \in Proc, Segment(p)
  PROVE  Images'
<1> PICK lo \in Nat : lo = call[p].lo
  BY Fields DEF Types
<1>1. call[p].pc = "seg" /\ UNCHANGED <<pgdir, size, mem>> /\ stat[p] = "RUN"
  BY DEF Segment, At, proc, Running
<1>2. CASE call' = [call EXCEPT ![p].pc = "bad"]
  BY <1>1, <1>2, FailImage
<1>3. ASSUME NEW old \in {lo, PGROUNDUP(lo)}, NEW new, NEW after \in {"load", "bad"},
             allocuvm(p, old, new, after)
      PROVE  Images'
  BY <1>1, <1>3, AllocImage
<1>4. CASE Goto(p, "bad")
  BY <1>2, <1>4 DEF Goto
<1>5. CASE \E new : allocuvm(p, lo, new, "load")
  BY <1>3, <1>5
<1>6. CASE \E new : allocuvm(p, PGROUNDUP(lo), new, "bad")
  BY <1>3, <1>6
<1> QED
  BY <1>4, <1>5, <1>6 DEF Segment

\* A segment is loaded.
LEMMA LoadImage ==
  ASSUME Types, Types', Control, Own, Images, NEW p \in Proc, Load(p)
  PROVE  Images'
<1> PICK c \in Call : c = call[p]
  BY DEF Types
<1>1. /\ c.pc = "load" /\ UNCHANGED <<pgdir, size, mem>> /\ Shape(c, p) /\ stat[p] = "RUN"
      /\ c.lo \in Nat
  BY Fields DEF Load, At, proc, Control, Running
<1>2. CASE call' = [call EXCEPT ![p].pc = "bad"]
  BY <1>1, <1>2, FailImage
<1>3. CASE call' = [call EXCEPT ![p].pc = "seg", ![p].img = Tail(@)]
  <2>1. PICK e : e = [c EXCEPT !.pc = "seg", !.img = Tail(c.img)]
    OBVIOUS
  <2>2. /\ e.pc = "seg" /\ e.new = c.new /\ e.op = c.op /\ e.lo = c.lo
        /\ e = call'[p] /\ \A q \in Proc \ {p} : call'[q] = call[q]
    BY <1>3, <2>1 DEF Call, Types
  <2>3. e \in Call /\ NTop(e) = c.lo /\ NTop(c) = c.lo /\ c.op = "execv"
    BY <1>1, <2>2, Fields DEF Types, NTop, Shape
  <2>4. e.pc \in Growing =>
           /\ c.pc \in Growing /\ e.new = c.new /\ e.op = c.op /\ c.op = "execv"
           /\ NTop(e) \in Nat /\ Pages(KERNEND, NTop(e)) \subseteq Pages(KERNEND, NTop(c))
           /\ e.pc # "commit" /\ c.pc # "commit"
    BY <1>1, <2>2, <2>3 DEF Growing
  <2> QED
    BY <1>1, <2>2, <2>3, <2>4, QuietImage
<1> QED
  BY <1>2, <1>3 DEF Load, Goto

\* The CPU goes over to the new directory.
LEMMA LoadCr3Image ==
  ASSUME Types, Types', Control, Images, NEW p \in Proc, LoadCr3(p)
  PROVE  Images'
<1> PICK c \in Call : c = call[p]
  BY DEF Types
<1>1. PICK e : e = [c EXCEPT !.pc = "freeold"]
  OBVIOUS
<1>2. c.pc = "switch" /\ UNCHANGED <<pgdir, size, mem>>
  BY DEF LoadCr3, At, proc
<1>3. /\ e.pc = "freeold" /\ e.lo = c.lo
      /\ e = call'[p] /\ \A q \in Proc \ {p} : call'[q] = call[q]
  BY <1>1 DEF Call, Types, LoadCr3, Goto
<1>4. \A d : Fixed(d)
  BY <1>2, MemFixed
<1>5. ASSUME NEW q \in Proc, q # p PROVE ImageOf(call[q], q)'
  <2>1. call'[q] = call[q] /\ pgdir'[q] = pgdir[q] /\ size'[q] = size[q]
    BY <1>2, <1>3, <1>5
  <2> QED
    BY <2>1, <1>4, RestImage
<1>6. ImageOf(call[p], p)'
  <2> PICK b \in Page \cup {0} : b = pgdir[p]
    BY DEF Types
  <2> PICK top : top = PTop(c, p)
    OBVIOUS
  <2>1. top \in Nat /\ top <= USEREND
    BY Tops
  <2>2. b # 0 => PImage(b, top)
    BY DEF Images, ImageOf
  <2>3. b # 0 => PImage(b, top)'
    BY <1>4, <2>1, <2>2, KeepP
  <2>4. PTop(e, p)' = top
    BY <1>2, <1>3 DEF PTop
  <2>5. call'[p] = e /\ pgdir'[p] = b
    BY <1>2, <1>3
  <2> QED
    BY <1>3, <2>3, <2>4, <2>5 DEF ImageOf, Growing
<1> QED
  BY <1>5, <1>6 DEF Images

\* allocuvm() is done.  Below the stack ustack() leaves a guard page.
LEMMA GrownImage ==
  ASSUME Types, Types', Control, Own, Trees, Images, NEW p \in Proc, Grown(p)
  PROVE  Images'
<1> PICK c \in Call : c = call[p]
  BY DEF Types
<1>1. /\ c.pc = "page" /\ UNCHANGED <<pgdir, size>> /\ stat[p] = "RUN" /\ c.op = "execv"
      /\ Shape(c, p) /\ Bounds(c, p) /\ c.va >= c.end
  BY DEF Grown, At, proc, Control, Running
<1> PICK lo \in Nat, va \in Nat, end \in Nat : lo = c.lo /\ va = c.va /\ end = c.end
  BY Fields
<1>2. /\ end <= va /\ va % PAGESIZE = 0 /\ va <= USEREND /\ NTop(c) = va /\ KERNEND <= lo
      /\ end <= USEREND
  BY <1>1, Tops DEF Bounds, Growing, NTop
<1>3. Pages(KERNEND, end) \subseteq Pages(KERNEND, va)
  BY <1>2, Spaces DEF Pages
<1>4. CASE c.img # << >>
  <2>1. call' = [call EXCEPT ![p].pc = "load", ![p].lo = end] /\ mem' = mem
    BY <1>4 DEF Grown
  <2>2. PICK e : e = [c EXCEPT !.pc = "load", !.lo = end]
    OBVIOUS
  <2>3. /\ e.pc = "load" /\ e.new = c.new /\ e.op = c.op /\ e.lo = end
        /\ e = call'[p] /\ \A q \in Proc \ {p} : call'[q] = call[q]
    BY <2>1, <2>2 DEF Call, Types
  <2>4. e \in Call /\ NTop(e) = end
    BY <2>3 DEF Types, NTop
  <2>5. e.pc \in Growing =>
           /\ c.pc \in Growing /\ e.new = c.new /\ e.op = c.op /\ c.op = "execv"
           /\ NTop(e) \in Nat /\ Pages(KERNEND, NTop(e)) \subseteq Pages(KERNEND, NTop(c))
           /\ e.pc # "commit" /\ c.pc # "commit"
    BY <1>1, <1>2, <1>3, <2>3, <2>4 DEF Growing
  <2> QED
    BY <1>1, <2>1, <2>3, <2>4, <2>5, QuietImage
<1>5. CASE c.img = << >>
  <2>1. end = lo + 2 * PAGESIZE /\ lo % PAGESIZE = 0
    BY <1>1, <1>5 DEF Bounds
  <2>2. lo \in Pages(KERNEND, va) /\ lo < TablesEnd
    BY <1>2, <2>1, Spaces, Bounded DEF Pages
  <2> PICK d \in Page, b \in Page : d = c.new /\ b = pgdir[p]
    BY <1>1, NewTree, Tops DEF Growing
  <2>3. IsDir(d)
    BY DirsDiffer
  <2>4. Full(d, va) /\ Usable(d, va, 0)
    BY <1>1, <1>2 DEF Images, ImageOf, NImage, Growing, Guard
  <2>5. PICK n \in UIdx, j \in Idx : n = PDX(lo) /\ j = PTX(lo) /\ Addr(n, j) = lo /\ n \in Idx
    BY <1>2, <2>1, <2>2, Decode, Indexes
  <2>6. Table(d, lo) = To(d, n) /\ To(d, n) # 0
    BY <2>2, <2>4, <2>5 DEF Full, Mapped, Table, To
  <2>7. PICK t \in Page : t = To(d, n) /\ t = Table(d, lo) /\ t # 0
    BY <2>5, <2>6, RefersType
  <2>8. t # d
    <3>1. \A x \in Page, i \in Idx : To(x, i) # 0 => ~IsDir(To(x, i))
      BY Blanks
    <3> QED
      BY <3>1, <2>3, <2>5, <2>7
  <2>9. /\ call' = [call EXCEPT ![p].pc = "commit", ![p].lo = end]
        /\ mem' = [mem EXCEPT ![t][j].u = FALSE]
    BY <1>5, <2>5, <2>7 DEF Grown
  <2>10. PICK e : e = [c EXCEPT !.pc = "commit", !.lo = end]
    OBVIOUS
  <2>11. /\ e.pc = "commit" /\ e.new = d /\ e.op = c.op /\ e.lo = end
         /\ e = call'[p] /\ \A q \in Proc \ {p} : call'[q] = call[q]
    BY <2>9, <2>10 DEF Call, Types
  <2>12. e \in Call
    BY <2>11 DEF Types
  <2>13. /\ \A g \in Page, i \in Idx : ~(g = t /\ i = j) => mem'[g][i] = mem[g][i]
         /\ mem'[t][j].pa = mem[t][j].pa /\ ~mem'[t][j].u
    <3>1. PICK m : m = mem[t][j]
      OBVIOUS
    <3>2. m \in [pa : Page \cup {0}, u : BOOLEAN]
      BY <3>1 DEF Types
    <3>3. mem'[t][j] = [m EXCEPT !.u = FALSE]
      BY <2>9, <3>1 DEF Types
    <3>4. \A g \in Page, i \in Idx : ~(g = t /\ i = j) => mem'[g][i] = mem[g][i]
      BY <2>9 DEF Types
    <3> QED
      BY <3>1, <3>2, <3>3, <3>4
  <2>14. ASSUME NEW w \in Pages(KERNEND, va)
         PROVE  Mapped(d, w)' /\ (Pte(d, w)'.u <=> w # lo)
    <3>1. w \in Nat /\ PDX(w) \in UIdx /\ PTX(w) \in Idx /\ Addr(PDX(w), PTX(w)) = w /\ KERNEND <= w
      BY <1>2, Spaces, UserAddress
    <3>2. PICK i \in UIdx, h \in Idx : i = PDX(w) /\ h = PTX(w) /\ i \in Idx /\ Addr(i, h) = w
      BY <3>1, Indexes
    <3>3. Mapped(d, w) /\ Pte(d, w).u
      BY <2>4, <3>1, Bounded DEF Full, Usable
    <3>4. PICK s \in Page : s = To(d, i) /\ s = Table(d, w) /\ s # 0
      BY <3>2, <3>3, RefersType DEF Mapped, Table, To
    <3>5. Pte(d, w) = mem[s][h]
      BY <3>2, <3>4 DEF Pte
    <3>6. Table(d, w)' = s /\ Pte(d, w)' = mem'[s][h]
      <4>1. mem'[d][i] = mem[d][i]
        BY <2>8, <2>13, <3>2
      <4>2. Table(d, w)' = s
        BY <4>1, <3>2, <3>4 DEF Table, To
      <4> QED
        BY <4>2, <3>2 DEF Pte
    <3>7. s = t => i = n
      <4>1. \A g, f \in Page, k, l \in Idx : To(g, k) = To(f, l) /\ To(g, k) # 0 => g = f /\ k = l
        BY Unique DEF Own
      <4>2. s = t => To(d, i) = To(d, n) /\ To(d, i) # 0
        BY <3>4, <2>7
      <4> QED
        BY <4>1, <4>2, <3>2, <2>5
    <3>8. w = lo => s = t /\ h = j
      BY <2>5, <2>7, <3>2, <3>4
    <3>9. s = t /\ h = j => w = lo
      BY <2>5, <3>2, <3>7
    <3>10. mem'[s][h].pa = mem[s][h].pa /\ (mem'[s][h].u <=> mem[s][h].u /\ w # lo)
      BY <2>13, <3>8, <3>9
    <3>11. mem[s][h].pa # 0
      BY <3>3, <3>5 DEF Mapped
    <3>12. mem[s][h].u
      BY <3>3, <3>5
    <3> QED
      BY <3>4, <3>6, <3>10, <3>11, <3>12 DEF Mapped
  <2>15. \A x \in Page : IsDir(x) /\ x # d => Fixed(x)
    <3> PICK X : X = {d}
      OBVIOUS
    <3>1. \A g \in Page, i \in Idx : mem'[g][i] = mem[g][i] \/ g \in free \/ InTree(X, g)
      BY <2>5, <2>7, <2>13 DEF InTree
    <3>2. \A x \in X : x \in Page /\ IsDir(x)
      BY <2>3
    <3>3. \A g \in Page : IsDir(g) /\ g \notin X => Fixed(g)
      BY <3>1, <3>2, Untouched
    <3> QED
      BY <3>3
  <2>16. NTop(e) = end /\ Guard(e) = lo
    <3>1. end - 2 * PAGESIZE = lo
      BY <2>1, Constants
    <3> QED
      BY <2>11, <3>1 DEF NTop, Guard
  <2>17. NImage(e, pgdir[p])'
    <3>1. Full(d, end)' /\ Usable(d, end, lo)'
      BY <2>14, <1>3 DEF Full, Usable
    <3>2. e.op # "fork"
      BY <2>11, <1>1
    <3> QED
      BY <2>11, <2>16, <3>1, <3>2 DEF NImage
  <2>18. e.pc \notin {"switch", "freeold"} /\ c.pc \notin {"switch", "freeold"}
    BY <1>1, <2>11
  <2> QED
    BY <1>1, <2>11, <2>12, <2>15, <2>17, <2>18, BuildImage
<1> QED
  BY <1>4, <1>5

\* A process whose call builds nothing and keeps its directory.
LEMMA IdleRest ==
  ASSUME Types, Types', Control, Images, NEW q \in Proc, NEW e, e = call'[q],
         e.pc \in {"user", "wait", "dir", "bad", "unfork"}, call[q].pc \notin {"switch", "freeold"},
         pgdir'[q] = pgdir[q], size'[q] = size[q], \A d \in Page : d = pgdir[q] => Fixed(d)
  PROVE  ImageOf(call[q], q)'
<1> PICK c \in Call : c = call[q]
  BY DEF Types
<1> PICK b \in Page \cup {0} : b = pgdir[q]
  BY DEF Types
<1> PICK top : top = PTop(c, q)
  OBVIOUS
<1>1. top \in Nat /\ top <= USEREND
  BY Tops
<1>2. b # 0 => PImage(b, top)
  BY DEF Images, ImageOf
<1>3. b # 0 => PImage(b, top)'
  BY <1>1, <1>2, KeepP
<1>4. PTop(e, q)' = top
  BY DEF PTop
<1>5. call'[q] = e /\ pgdir'[q] = b
  OBVIOUS
<1> QED
  BY <1>3, <1>4, <1>5 DEF ImageOf, Growing

\* A process without memory.
LEMMA NoImage ==
  ASSUME NEW q \in Proc, pgdir'[q] = 0, call'[q].pc = "user"
  PROVE  ImageOf(call[q], q)'
  BY DEF ImageOf, Growing

\* The call fails, and its directory goes.
LEMMA BadImage ==
  ASSUME Types, Types', Control, Own, Trees, Images, NEW p \in Proc, Bad(p)
  PROVE  Images'
<1> PICK c \in Call : c = call[p]
  BY DEF Types
<1>1. c.pc = "bad" /\ freevm({c.new} \ {0}, {}) /\ UNCHANGED <<pgdir, size>>
  BY DEF Bad, At, proc
<1>2. call'[p].pc \in {"unfork", "user"} /\ \A q \in Proc \ {p} : call'[q] = call[q]
  <2>1. CASE c.op = "fork"
    <3>1. call' = [call EXCEPT ![p].pc = "unfork", ![p].new = 0]
      BY <2>1 DEF Bad
    <3> QED
      BY <3>1 DEF Types, Call
  <2>2. CASE c.op # "fork"
    <3>1. call' = [call EXCEPT ![p] = User]
      BY <2>2 DEF Bad, Return
    <3> QED
      BY <3>1, UserIs DEF Types
  <2> QED
    BY <2>1, <2>2
<1>3. PICK D \in SUBSET Page, S \in SUBSET Page : D = {c.new} \ {0} /\ S = {}
  BY Fields
<1>4. \A x \in D : IsDir(x) /\ Below(x, USEREND)
  <2> SUFFICES ASSUME NEW x \in Page, x = c.new, x # 0 PROVE IsDir(x) /\ Below(x, USEREND)
    BY <1>3
  <2>1. TreesOf(c, p)
    BY DEF Trees
  <2> QED
    BY <1>1, <2>1, DirsDiffer DEF TreesOf, NTop
<1>5. \A e \in Page : IsDir(e) /\ e \notin D => Fixed(e)
  <2>1. freevm(D, S) /\ \A x \in S : \E k \in {1, 5}, q \in Proc : Var(k, q) = x
    BY <1>1, <1>3
  <2> QED
    BY <1>4, <2>1, FreevmImage
<1>6. \A d \in Page : IsDir(d) /\ d # call[p].new => Fixed(d)
  BY <1>3, <1>5
<1> QED
  BY <1>1, <1>2, <1>6, IdleImage

\* fork() begins: the child has no memory yet.
LEMMA ForkImage ==
  ASSUME Types, Types', Control, Images, NEW p \in Proc, Fork(p)
  PROVE  Images'
<1> PICK n : n = CHOOSE q \in Unused : \A r \in Unused : q <= r
  OBVIOUS
<1>1. n \in Proc /\ stat[n] = "UNUSED" /\ stat[p] = "RUN" /\ call[p].pc = "user"
  <2>1. PICK q \in Unused : \A r \in Unused : q <= r
    <3>1. Unused \subseteq Nat /\ Unused # {}
      BY DEF Fork, Unused, Proc
    <3> QED
      BY <3>1, Least
  <2>2. n \in Unused
    BY <2>1
  <2> QED
    BY <2>2 DEF Unused, Fork, At, Running
<1>2. n # p
  BY <1>1
<1>3. PICK e : e = [User EXCEPT !.op = "fork", !.pc = "dir", !.np = n]
  OBVIOUS
<1>4. /\ UNCHANGED <<mem, pgdir>> /\ size' = [size EXCEPT ![n] = 0]
      /\ call' = [call EXCEPT ![p] = e, ![n] = User]
  BY <1>3 DEF Fork
<1>5. e.pc = "dir"
  BY <1>3 DEF User
<1>6. /\ call'[p] = e /\ call'[n] = User
      /\ \A q \in Proc \ {p, n} : call'[q] = call[q]
      /\ \A q \in Proc \ {n} : size'[q] = size[q]
  BY <1>1, <1>2, <1>4 DEF Types
<1>7. pgdir[n] = 0
  <2>1. Shape(call[n], n)
    BY <1>1 DEF Control
  <2> QED
    BY <1>1, <2>1 DEF Shape
<1>8. \A d : Fixed(d)
  BY <1>4, MemFixed
<1>9. ASSUME NEW q \in Proc PROVE ImageOf(call[q], q)'
  <2>1. CASE q = p
    <3>1. e = call'[q] /\ pgdir'[q] = pgdir[q] /\ size'[q] = size[q] /\ call[q].pc = "user"
      BY <2>1, <1>1, <1>2, <1>4, <1>6
    <3> QED
      BY <3>1, <1>5, <1>8, IdleRest
  <2>2. CASE q = n
    <3>1. pgdir'[q] = 0 /\ call'[q].pc = "user"
      BY <2>2, <1>4, <1>6, <1>7, UserIs
    <3> QED
      BY <3>1, NoImage
  <2>3. CASE q # p /\ q # n
    <3>1. call'[q] = call[q] /\ pgdir'[q] = pgdir[q] /\ size'[q] = size[q]
      BY <2>3, <1>4, <1>6
    <3> QED
      BY <3>1, <1>8, RestImage
  <2> QED
    BY <2>1, <2>2, <2>3
<1> QED
  BY <1>9 DEF Images

\* The child has the pages of its parent, and its guard page.
LEMMA ForkedImage ==
  ASSUME Types, Types', Control, Own, Trees, Images, NEW p \in Proc, Forked(p)
  PROVE  Images'
<1> PICK c \in Call : c = call[p]
  BY DEF Types
<1> PICK n : n = c.np
  OBVIOUS
<1>1. /\ stat[p] = "RUN" /\ c.pc = "page" /\ c.op = "fork" /\ c.va >= c.end
      /\ pgdir' = [pgdir EXCEPT ![n] = c.new] /\ size' = [size EXCEPT ![n] = size[p]]
      /\ call' = [call EXCEPT ![p] = User] /\ mem' = mem
  BY DEF Forked, At, Running, Return
<1>2. Shape(c, p) /\ Bounds(c, p)
  BY DEF Control
<1>3. n \in Proc /\ stat[n] = "SET" /\ n # p
  BY <1>1, <1>2 DEF Shape
<1> PICK d \in Page, b \in Page : d = c.new /\ b = pgdir[p]
  BY <1>1, NewTree, Tops DEF Growing
<1>4. /\ call'[p] = User /\ pgdir'[n] = d /\ size'[n] = size[p]
      /\ \A q \in Proc \ {p} : call'[q] = call[q]
      /\ \A q \in Proc \ {n} : pgdir'[q] = pgdir[q] /\ size'[q] = size[q]
  BY <1>1, <1>3 DEF Types
<1>5. call[n].pc = "user"
  <2>1. Shape(call[n], n)
    BY <1>3 DEF Control
  <2> QED
    BY <1>3, <2>1 DEF Shape
<1>6. \A g : Fixed(g)
  BY <1>1, MemFixed
<1> PICK top \in Nat, va \in Nat : top = c.end /\ va = c.va
  BY Fields
<1>7. top = KERNEND + size[p] /\ top <= va /\ top <= USEREND
  BY <1>1, <1>2 DEF Bounds
<1>8. PImage(b, top)
  <2>1. ImageOf(c, p) /\ b # 0
    BY Constants DEF Images
  <2>2. PTop(c, p) = top
    BY <1>1, <1>7 DEF PTop
  <2> QED
    BY <2>1, <2>2 DEF ImageOf
<1>9. Full(d, va) /\ \A w \in Pages(KERNEND, va) : Pte(d, w).u <=> Pte(b, w).u
  BY <1>1 DEF Images, ImageOf, NImage, Growing, NTop
<1>10. Pages(KERNEND, top) \subseteq Pages(KERNEND, va)
  BY <1>7, Spaces DEF Pages
<1>11. PImage(d, top)
  BY <1>8, <1>9, <1>10 DEF PImage, Full, Usable
<1>12. PImage(d, top)'
  BY <1>6, <1>7, <1>11, KeepP
<1>13. ASSUME NEW q \in Proc PROVE ImageOf(call[q], q)'
  <2>1. CASE q = p
    <3>1. pgdir'[q] = pgdir[q] /\ size'[q] = size[q] /\ call[q].pc = "page" /\ call'[q] = User
      BY <2>1, <1>1, <1>3, <1>4
    <3>2. User.pc = "user"
      BY UserIs
    <3> QED
      BY <3>1, <3>2, <1>6, IdleRest
  <2>2. CASE q = n
    <3>1. call'[n] = call[n] /\ call'[n].pc = "user"
      BY <1>3, <1>4, <1>5
    <3>2. PTop(call[n], n)' = top
      BY <3>1, <1>4, <1>7 DEF PTop
    <3> QED
      BY <2>2, <3>1, <3>2, <1>4, <1>12 DEF ImageOf, Growing
  <2>3. CASE q # p /\ q # n
    <3>1. call'[q] = call[q] /\ pgdir'[q] = pgdir[q] /\ size'[q] = size[q]
      BY <2>3, <1>4
    <3> QED
      BY <3>1, <1>6, RestImage
  <2> QED
    BY <2>1, <2>2, <2>3
<1> QED
  BY <1>13 DEF Images

\* The image that execv() built becomes the process's.
LEMMA CommitImage ==
  ASSUME Types, Types', Control, Own, Trees, Images, NEW p \in Proc, Commit(p)
  PROVE  Images'
<1> PICK c \in Call : c = call[p]
  BY DEF Types
<1> PICK d \in Page, b \in Page \cup {0} : d = c.new /\ b = pgdir[p]
  BY NewTree DEF Commit, At, Growing, Types
<1>1. /\ c.pc = "commit" /\ pgdir' = [pgdir EXCEPT ![p] = d]
      /\ call' = [call EXCEPT ![p].new = 0, ![p].old = b, ![p].pc = "switch"]
      /\ UNCHANGED <<mem, size>> /\ Shape(c, p) /\ Bounds(c, p)
  BY DEF Commit, At, Control
<1>2. PICK e : e = [c EXCEPT !.new = 0, !.old = b, !.pc = "switch"]
  OBVIOUS
<1>3. /\ e.pc = "switch" /\ e.lo = c.lo
      /\ e = call'[p] /\ \A q \in Proc \ {p} : call'[q] = call[q]
  BY <1>1, <1>2 DEF Call, Types
<1>4. pgdir'[p] = d /\ \A q \in Proc \ {p} : pgdir'[q] = pgdir[q]
  BY <1>1 DEF Types
<1>5. \A g : Fixed(g)
  BY <1>1, MemFixed
<1>6. ASSUME NEW q \in Proc, q # p PROVE ImageOf(call[q], q)'
  <2>1. call'[q] = call[q] /\ pgdir'[q] = pgdir[q] /\ size'[q] = size[q]
    BY <1>1, <1>3, <1>4, <1>6
  <2> QED
    BY <2>1, <1>5, RestImage
<1>7. ImageOf(call[p], p)'
  <2> PICK top \in Nat : top = c.lo
    BY Fields
  <2>1. top <= USEREND /\ top % PAGESIZE = 0 /\ c.op = "execv"
    BY <1>1, Fields DEF Bounds, Growing, Shape
  <2>2. NImage(c, b) /\ NTop(c) = top /\ Guard(c) = top - 2 * PAGESIZE
    BY <1>1 DEF Images, ImageOf, Growing, NTop, Guard
  <2>3. PImage(d, top)
    BY <1>1, <2>1, <2>2 DEF NImage, PImage, Growing
  <2>4. PImage(d, top)'
    BY <1>5, <2>1, <2>3, KeepP
  <2>5. PTop(e, p)' = top
    BY <1>3 DEF PTop
  <2> QED
    BY <1>3, <1>4, <2>4, <2>5 DEF ImageOf, Growing
<1> QED
  BY <1>6, <1>7 DEF Images

\* The old directory goes; the size is now that of the new image.
LEMMA FreeOldImage ==
  ASSUME Types, Types', Control, Own, Trees, Images, NEW p \in Proc, FreeOld(p)
  PROVE  Images'
<1> PICK c \in Call : c = call[p]
  BY DEF Types
<1>1. /\ c.pc = "freeold" /\ freevm({c.old}, {}) /\ Shape(c, p) /\ Bounds(c, p)
      /\ size' = [size EXCEPT ![p] = c.lo - KERNEND] /\ call' = [call EXCEPT ![p] = User]
      /\ pgdir' = pgdir
  BY DEF FreeOld, At, Return, NewSize, Control
<1> PICK o \in Page : o = c.old
  BY <1>1, Fields DEF Shape
<1>2. /\ call'[p] = User /\ size'[p] = c.lo - KERNEND
      /\ \A q \in Proc \ {p} : call'[q] = call[q] /\ size'[q] = size[q]
  BY <1>1 DEF Types
<1>3. PICK D \in SUBSET Page, S \in SUBSET Page : D = {o} /\ S = {}
  OBVIOUS
<1>4. TreesOf(c, p) /\ o # 0
  BY Constants DEF Trees
<1>5. \A d \in D : IsDir(d) /\ Below(d, USEREND)
  BY <1>3, <1>4, DirsDiffer DEF TreesOf
<1>6. \A g \in Page : IsDir(g) /\ g \notin D => Fixed(g)
  <2>1. freevm(D, S) /\ \A x \in S : \E k \in {1, 5}, q \in Proc : Var(k, q) = x
    BY <1>1, <1>3
  <2> QED
    BY <1>5, <2>1, FreevmImage
<1>7. ASSUME NEW k \in {2, 3, 4}, NEW q \in Proc, ~(k = 4 /\ q = p), NEW g \in Page, g = Var(k, q)
      PROVE  Fixed(g)
  <2>1. IsDir(g)
    BY <1>7 DEF IsDir
  <2>2. g # o
    <3>1. \A i, l \in 1 .. 5, u, r \in Proc :
            Var(i, u) = Var(l, r) /\ Var(i, u) # 0 => i = l /\ u = r
      BY Unique DEF Own
    <3>2. Var(4, p) = o /\ k \in 1 .. 5 /\ 4 \in 1 .. 5
      BY VarIs
    <3> QED
      BY <1>4, <1>7, <3>1, <3>2
  <2> QED
    BY <2>1, <2>2, <1>3, <1>6
<1>8. \A q \in Proc \ {p}, g \in Page : g \in {pgdir[q], call[q].new} => Fixed(g)
  BY <1>7, VarIs
<1>9. \A q \in Proc \ {p} : ImageOf(call[q], q)'
  <2>1. \A q \in Proc \ {p} : call'[q] = call[q] /\ size'[q] = size[q] /\ pgdir'[q] = pgdir[q]
    BY <1>1, <1>2
  <2> QED
    BY <2>1, <1>8, RestImage
<1>10. ImageOf(call[p], p)'
  <2> PICK d \in Page \cup {0}, top \in Nat : d = pgdir[p] /\ top = c.lo
    BY Fields DEF Types
  <2>1. PTop(c, p) = top /\ PTop(User, p)' = top /\ top <= USEREND
    <3>1. KERNEND \in Nat /\ top >= KERNEND /\ top <= USEREND
      BY <1>1, Spaces DEF Bounds
    <3>2. KERNEND + (top - KERNEND) = top
      BY <3>1
    <3>3. size'[p] = top - KERNEND
      BY <1>2
    <3> QED
      BY <1>1, <3>1, <3>2, <3>3, UserIs DEF PTop
  <2>2. d # 0 => PImage(d, top)'
    <3>1. d # 0 => PImage(d, top)
      <4>1. ImageOf(c, p)
        BY DEF Images
      <4> QED
        BY <2>1, <4>1 DEF ImageOf
    <3>2. d # 0 => Fixed(d)
      BY <1>7, VarIs
    <3> QED
      BY <2>1, <3>1, <3>2, KeepP
  <2>3. pgdir'[p] = d
    BY <1>1
  <2> QED
    BY <2>1, <2>2, <2>3, <1>2, UserIs DEF ImageOf, Growing
<1> QED
  BY <1>9, <1>10 DEF Images

\* pfree() of processes that are in no call.
LEMMA PfreeImage ==
  ASSUME Types, Types', Control, Own, Trees, Images,
         NEW p \in Proc, NEW Q \in SUBSET Proc, pfree(Q),
         p \notin Q, \A q \in Q : stat[q] \in {"SET", "ZOMB"}, call[p].pc \in {"wait", "unfork"},
         call' = [call EXCEPT ![p] = User], size' = size
  PROVE  Images'
<1>1. /\ \A q \in Q : pgdir'[q] = 0
      /\ \A q \in Proc \ Q : pgdir'[q] = pgdir[q]
  BY PfreeIs
<1>2. call'[p] = User /\ \A q \in Proc \ {p} : call'[q] = call[q]
  BY UserIs DEF Types
<1>3. ASSUME NEW q \in Q PROVE call[q].pc = "user" /\ q # p
  BY DEF Control, Shape
<1>4. PICK D \in SUBSET Page, S \in SUBSET Page : D = Pgdirs(Q) /\ S = Kstacks(Q)
  BY PfreeIs
<1>5. freevm(D, S)
  BY <1>4 DEF pfree
<1>6. /\ \A x : x \in D <=> \E q \in Q : pgdir[q] = x /\ x # 0
      /\ \A x : x \in S <=> \E q \in Q : kstack[q] = x /\ x # 0
  BY <1>4 DEF Pgdirs, Kstacks
<1>7. \A d \in D : IsDir(d) /\ Below(d, USEREND)
  <2> SUFFICES ASSUME NEW d \in D, NEW q \in Q, pgdir[q] = d, d # 0
               PROVE  IsDir(d) /\ Below(d, USEREND)
    BY <1>6
  <2>1. IsDir(d)
    BY DirsDiffer
  <2>2. PICK x \in Nat : x = KERNEND + size[q] /\ x <= USEREND
    <3>1. size[q] \in Nat /\ size[q] <= USEREND - KERNEND
      BY DEF Control, Shape, Types
    <3> QED
      BY <3>1, Spaces
  <2>3. Below(d, x)
    <3>1. TreesOf(call[q], q) /\ call[q].pc = "user"
      BY <1>3 DEF Trees
    <3> QED
      BY <2>2, <3>1 DEF TreesOf, PTop
  <2>4. \A a \in Nat : a < x => a < USEREND
    BY <2>2, Spaces
  <2>5. Below(d, USEREND)
    BY <2>3, <2>4, Encode DEF Below
  <2> QED
    BY <2>1, <2>5
<1>8. \A x \in S : \E k \in {1, 5}, q \in Proc : Var(k, q) = x
  BY <1>6, VarIs
<1>9. \A g \in Page : IsDir(g) /\ g \notin D => Fixed(g)
  BY <1>5, <1>7, <1>8, FreevmImage
<1>10. ASSUME NEW r \in Proc, r \notin Q, NEW m \in 2 .. 4, NEW g \in Page, g = Var(m, r)
       PROVE  Fixed(g)
  <2>1. IsDir(g)
    BY <1>10 DEF IsDir
  <2>2. g \notin D
    <3> SUFFICES ASSUME g \in D PROVE FALSE
      OBVIOUS
    <3>1. PICK q \in Q : pgdir[q] = g /\ g # 0
      BY <1>6
    <3>2. Var(2, q) = Var(m, r) /\ Var(2, q) # 0 /\ 2 \in 1 .. 5 /\ m \in 1 .. 5 /\ q \in Proc
      BY <3>1, <1>10, VarIs
    <3>3. \A k, l \in 1 .. 5, u, w \in Proc :
            Var(k, u) = Var(l, w) /\ Var(k, u) # 0 => k = l /\ u = w
      BY Unique DEF Own
    <3> QED
      BY <3>2, <3>3, <1>10
  <2> QED
    BY <2>1, <2>2, <1>9
<1>11. ASSUME NEW q \in Proc PROVE ImageOf(call[q], q)'
  <2>1. ASSUME q \notin Q, NEW g \in Page, g \in {pgdir[q], call[q].new} PROVE Fixed(g)
    <3>1. PICK k \in 2 .. 4 : g = Var(k, q)
      BY <2>1, VarIs
    <3> QED
      BY <2>1, <3>1, <1>10
  <2>2. CASE q \in Q
    <3>1. pgdir'[q] = 0 /\ call'[q].pc = "user"
      BY <2>2, <1>1, <1>2, <1>3
    <3> QED
      BY <3>1, NoImage
  <2>3. CASE q = p
    <3>1. \A g \in Page : g = pgdir[q] => Fixed(g)
      BY <2>1, <2>3
    <3>2. User = call'[q] /\ pgdir'[q] = pgdir[q] /\ size'[q] = size[q]
      BY <2>3, <1>1, <1>2
    <3>3. call[q].pc \notin {"switch", "freeold"} /\ User.pc = "user"
      BY <2>3, UserIs
    <3> QED
      BY <3>1, <3>2, <3>3, IdleRest
  <2>4. CASE q \notin Q /\ q # p
    <3>1. call'[q] = call[q] /\ pgdir'[q] = pgdir[q] /\ size'[q] = size[q]
      BY <2>4, <1>1, <1>2
    <3>2. \A g \in Page : g \in {pgdir[q], call[q].new} => Fixed(g)
      BY <2>1, <2>4
    <3> QED
      BY <3>1, <3>2, RestImage
  <2> QED
    BY <2>2, <2>3, <2>4
<1> QED
  BY <1>11 DEF Images

\* fork() failed.
LEMMA UnforkImage ==
  ASSUME Types, Types', Control, Own, Trees, Images, NEW p \in Proc, Unfork(p)
  PROVE  Images'
<1>1. /\ stat[p] = "RUN" /\ call[p].pc = "unfork" /\ pfree({call[p].np})
      /\ call' = [call EXCEPT ![p] = User] /\ size' = size
  BY DEF Unfork, At, Running, Return
<1>2. Shape(call[p], p)
  BY DEF Control
<1>3. call[p].op = "fork"
  BY <1>1, <1>2, Fields DEF Shape, Types
<1>4. call[p].np \in Proc /\ stat[call[p].np] = "SET"
  BY <1>2, <1>3 DEF Shape
<1>5. PICK Q \in SUBSET Proc : Q = {call[p].np}
  BY <1>4
<1>6. p \notin Q /\ \A q \in Q : stat[q] \in {"SET", "ZOMB"}
  BY <1>1, <1>4, <1>5
<1> QED
  BY <1>1, <1>5, <1>6, PfreeImage

\* wait() collects the zombies.
LEMMA CollectImage ==
  ASSUME Types, Types', Control, Own, Trees, Images, NEW p \in Proc, Collect(p)
  PROVE  Images'
<1>1. PICK Q \in SUBSET Proc : Q = {q \in Proc : pproc[q] = p /\ stat[q] = "ZOMB"}
  OBVIOUS
<1>2. /\ stat[p] = "RUN" /\ call[p].pc = "wait" /\ pfree(Q)
      /\ call' = [call EXCEPT ![p] = User] /\ size' = size
  BY <1>1 DEF Collect, At, Running, Return
<1>3. p \notin Q /\ \A q \in Q : stat[q] \in {"SET", "ZOMB"}
  BY <1>1, <1>2
<1> QED
  BY <1>2, <1>3, PfreeImage

\* The image of initcode: one page, no stack, no guard page.
LEMMA InitImage ==
  ASSUME Init
  PROVE  Images
<1> PICK K \in Nat, m \in Nat : K = KTABS /\ m = PDX(KERNEND)
  BY Constants, Bounded
<1> PICK u \in Page, t \in Page : u = 3 + K /\ t = 4 + K
  BY Constants DEF Page
<1>1. /\ 2 \in Page /\ u # 2 /\ K <= m /\ m < N /\ N \in Nat /\ 0 \in Idx /\ m \in Idx /\ m \in UIdx
      /\ u # 0 /\ t # 0 /\ K >= 1
  BY Constants, Bounded DEF Page, Idx, UIdx
<1>2. mem = [g \in Page |->
        [i \in Idx |->
           IF g = 2 /\ i < K THEN [pa |-> 3 + i, u |-> TRUE]
           ELSE IF g = 2 /\ i = m THEN [pa |-> u, u |-> TRUE]
           ELSE IF g = u /\ i = 0 THEN [pa |-> t, u |-> TRUE]
           ELSE None]]
  BY DEF Init
<1>3. mem[2][m].pa = u /\ mem[u][0].pa = t
  <2>1. mem[2][m] = [pa |-> u, u |-> TRUE]
    BY <1>1, <1>2
  <2>2. mem[u][0] = [pa |-> t, u |-> TRUE]
    BY <1>1, <1>2
  <2> QED
    BY <2>1, <2>2
<1>4. PTX(KERNEND) = 0
  <2>1. Addr(m, 0) = KERNEND
    <3>1. (m * N + 0) * PAGESIZE = m * (N * PAGESIZE)
      BY <1>1, Constants
    <3> QED
      BY <3>1, Bounded DEF Addr
  <2> QED
    BY <1>1, <2>1, Encode
<1>5. Mapped(2, KERNEND)
  BY <1>1, <1>3, <1>4 DEF Mapped, Table, Pte
<1>6. PImage(2, KERNEND + 1)
  <2>1. \A va \in Pages(KERNEND, KERNEND + 1) : va = KERNEND
    BY Spaces DEF Pages
  <2>2. ~(KERNEND + 1 >= KERNEND + 2 * PAGESIZE)
    BY Spaces
  <2> QED
    BY <1>5, <2>1, <2>2 DEF PImage, Full
<1>7. ASSUME NEW p \in Proc PROVE ImageOf(call[p], p)
  <2>1. call[p] = User /\ (pgdir[p] # 0 => pgdir[p] = 2 /\ size[p] = 1)
    BY DEF Init
  <2> QED
    BY <2>1, <1>6, UserIs DEF ImageOf, PTop, Growing
<1> QED
  BY <1>7 DEF Images

\* Every step keeps the images.
LEMMA ImagesNext ==
  ASSUME Types, Types', Control, Own, Trees, Images, [Next]_vars
  PROVE  Images'
<1>1. CASE UNCHANGED memory
  <2>1. UNCHANGED <<call, pgdir, size, mem>>
    BY <1>1 DEF memory, proc
  <2> QED
    BY <2>1, StillImage
<1>2. CASE \E p \in Proc : Build(p) \/ Process(p) \/ Exec(p) \/ Switch(p)
  <2>1. PICK p \in Proc : Build(p) \/ Process(p) \/ Exec(p) \/ Switch(p)
    BY <1>2
  <2>2. CASE Build(p)
    BY <2>2, NewDirImage, NewKernTableImage, GetPageImages, MapPageImages DEF Build
  <2>3. CASE Process(p)
    <3>1. CASE Exit(p)
      <4>1. UNCHANGED <<call, pgdir, size, mem>>
        BY <3>1 DEF Exit
      <4> QED
        BY <4>1, StillImage
    <3> QED
      BY <2>3, <3>1, ForkImage, ForkedImage, WaitImage, CollectImage, BadImage, UnforkImage
         DEF Process
  <2>4. CASE Exec(p)
    BY <2>4, ExecvImage, SegmentImage, GrownImage, LoadImage, CommitImage, LoadCr3Image,
       FreeOldImage DEF Exec
  <2>5. CASE Switch(p)
    <3>1. UNCHANGED <<call, pgdir, size, mem>>
      BY <2>5 DEF Switch, proc
    <3> QED
      BY <3>1, StillImage
  <2> QED
    BY <2>1, <2>2, <2>3, <2>4, <2>5
<1> QED
  BY <1>1, <1>2, StepIs

\* The invariant of the images.
LEMMA ImagesAlways == Spec => [](VmInv /\ Images)
<1>1. Init => Images
  BY InitImage
<1>2. VmInv /\ VmInv' /\ Images /\ [Next]_vars => Images'
  BY ImagesNext DEF VmInv
<1>3. Spec => []VmInv
  BY VmInvAlways
<1> QED
  BY <1>1, <1>2, <1>3, PTL DEF Spec

\* Where the image of a process ends that has no old directory.
LEMMA WholeIs ==
  ASSUME VmInv, Images, NEW p \in Proc, pgdir[p] # 0, call[p].old = 0
  PROVE  \E d \in Page, top \in Nat :
           /\ d = pgdir[p] /\ top = KERNEND + size[p] /\ top <= USEREND
           /\ PImage(d, top) /\ Below(d, top)
<1> PICK c \in Call : c = call[p]
  BY DEF VmInv, Types
<1>1. Shape(c, p) /\ TreesOf(c, p) /\ ImageOf(c, p)
  BY DEF VmInv, Control, Trees, Images
<1>2. PTop(c, p) = KERNEND + size[p]
  BY <1>1 DEF Shape, PTop
<1>3. PTop(c, p) \in Nat /\ PTop(c, p) <= USEREND
  BY Tops DEF VmInv
<1>4. pgdir[p] \in Page
  BY DEF VmInv, Types
<1> QED
  BY <1>1, <1>2, <1>3, <1>4 DEF TreesOf, ImageOf

\* A page that is mapped is below the end of its directory.
LEMMA MappedBelow ==
  ASSUME Types, NEW d \in Page, NEW top, Below(d, top),
         NEW va \in Nat, va % PAGESIZE = 0, KERNEND <= va, va < TablesEnd, Mapped(d, va)
  PROVE  va < top
<1>1. PICK n \in UIdx, j \in Idx : n = PDX(va) /\ j = PTX(va) /\ Addr(n, j) = va /\ n \in Idx
  BY Decode, Indexes
<1>2. PICK s \in Page \cup {0} : s = To(d, n)
  BY <1>1, RefersType
<1>3. Table(d, va) = s /\ s # 0
  BY <1>1, <1>2 DEF Mapped, Table, To
<1>4. Pte(d, va) = mem[s][j]
  BY <1>1, <1>3 DEF Pte
<1>5. To(s, j) # 0
  BY <1>4 DEF Mapped, To
<1> QED
  BY <1>1, <1>2, <1>3, <1>5 DEF Below

\* For every size of memory and every program: a process outside execv()'s
\* last steps has all pages of its image and no other, so that what copyuvm()
\* relies on holds, and whatever failed left no page behind (vm.c:124-131,
\* execv.c:102-118).
THEOREM VmImageWhole == Spec => []ImageWhole
<1>1. VmInv /\ Images => ImageWhole
  <2> SUFFICES ASSUME VmInv, Images, NEW p \in Proc, pgdir[p] # 0, call[p].old = 0
               PROVE  {va \in Pages(KERNEND, USEREND) : Mapped(pgdir[p], va)}
                        = Pages(KERNEND, KERNEND + size[p])
    BY DEF ImageWhole
  <2>1. PICK d \in Page, top \in Nat :
          /\ d = pgdir[p] /\ top = KERNEND + size[p] /\ top <= USEREND
          /\ PImage(d, top) /\ Below(d, top)
    BY WholeIs
  <2>2. ASSUME NEW va \in Pages(KERNEND, USEREND), Mapped(d, va) PROVE va \in Pages(KERNEND, top)
    <3>1. va \in Nat /\ va % PAGESIZE = 0 /\ KERNEND <= va /\ va < USEREND
      BY Spaces DEF Pages
    <3>2. va < TablesEnd
      BY <3>1, Bounded
    <3>3. va < top
      BY <2>1, <2>2, <3>1, <3>2, MappedBelow DEF VmInv
    <3> QED
      BY <3>1, <3>3, Spaces DEF Pages
  <2>3. ASSUME NEW va \in Pages(KERNEND, top)
        PROVE  va \in Pages(KERNEND, USEREND) /\ Mapped(d, va)
    <3>1. va \in Pages(KERNEND, USEREND)
      BY <2>1, Spaces DEF Pages
    <3> QED
      BY <2>1, <3>1 DEF PImage, Full
  <2> QED
    BY <2>1, <2>2, <2>3
<1> QED
  BY <1>1, ImagesAlways, PTL

\* For every size of memory and every program: the page below the stack, and
\* no other, is out of reach for the program, and the child of fork() has the
\* guard page of its parent (vm.c:249-259, 133-137).
THEOREM VmGuardPage == Spec => []GuardPage
<1>1. VmInv /\ Images => GuardPage
  <2> SUFFICES ASSUME VmInv, Images, NEW p \in Proc, pgdir[p] # 0, call[p].old = 0,
                      size[p] >= 2 * PAGESIZE
               PROVE  {va \in Pages(KERNEND, KERNEND + size[p]) : ~Pte(pgdir[p], va).u}
                        = {KERNEND + size[p] - 2 * PAGESIZE}
    BY DEF GuardPage
  <2>1. PICK d \in Page, top \in Nat :
          /\ d = pgdir[p] /\ top = KERNEND + size[p] /\ top <= USEREND /\ PImage(d, top)
    BY WholeIs
  <2>2. KERNEND \in Nat /\ PAGESIZE \in Nat \ {0} /\ size[p] \in Nat
    BY Spaces DEF VmInv, Types
  <2>3. top >= KERNEND + 2 * PAGESIZE
    BY <2>1, <2>2
  <2>4. top % PAGESIZE = 0 /\ Usable(d, top, top - 2 * PAGESIZE)
    BY <2>1, <2>3 DEF PImage
  <2>5. PICK g \in Nat : g = top - 2 * PAGESIZE
    BY <2>2, <2>3
  <2>6. g % PAGESIZE = 0
    <3>1. PICK q \in Nat : top = q * PAGESIZE
      BY <2>2, <2>4, Exact
    <3>2. q >= 2
      <4> SUFFICES ASSUME q <= 1 PROVE FALSE
        BY <3>1
      <4>1. q * PAGESIZE <= 1 * PAGESIZE /\ 1 * PAGESIZE = PAGESIZE
        BY <2>2, Product
      <4> QED
        BY <4>1, <3>1, <2>2, <2>3
    <3>3. PICK r \in Nat : r + 2 = q
      BY <3>2
    <3>4. r * PAGESIZE \in Nat /\ (r + 2) * PAGESIZE = r * PAGESIZE + 2 * PAGESIZE
      BY <2>2, <3>3
    <3>5. g = r * PAGESIZE + 0
      BY <2>2, <2>5, <3>1, <3>3, <3>4
    <3>6. 0 \in 0 .. PAGESIZE - 1
      BY <2>2
    <3> QED
      BY <2>2, <3>5, <3>6, Divided
  <2>7. g \in Pages(KERNEND, top)
    BY <2>2, <2>3, <2>5, <2>6 DEF Pages
  <2>8. \A va \in Pages(KERNEND, top) : Pte(d, va).u <=> va # g
    BY <2>4, <2>5 DEF Usable
  <2>9. {va \in Pages(KERNEND, top) : ~Pte(d, va).u} = {g}
    BY <2>7, <2>8
  <2>10. KERNEND + size[p] - 2 * PAGESIZE = g
    BY <2>1, <2>2, <2>5
  <2>11. {va \in Pages(KERNEND, KERNEND + size[p]) : ~Pte(pgdir[p], va).u} = {g}
    BY <2>1, <2>9
  <2> QED
    BY <2>10, <2>11
<1> QED
  BY <1>1, ImagesAlways, PTL

\* For every size of memory, every program and all arguments: copyuvm() finds its
\* parent's pages, mappages() no page, loaduvm() and copyout() every page of the
\* segments and from KERNEND to the top of the stack, and switchuvm() a stack
\* and a directory.  The one panic reached is copyout()'s, for arguments that
\* take more than all of that (vm.c:93-98, 125-130, 228-230, 280-286, 338-340).
THEOREM OnlyArgsPanics == Spec => []OnlyArgsPanic
<1>1. VmInv /\ Images => OnlyArgsPanic
  <2> SUFFICES ASSUME VmInv, Images, NEW p \in Proc, NEW c, c = call[p]
               PROVE  /\ c.op = "fork" /\ c.pc \in {"page", "map"} /\ c.va < c.end =>
                           Mapped(pgdir[p], c.va)
                      /\ c.pc = "map" => ~Mapped(c.new, c.va)
                      /\ c.pc = "load" =>
                           \A va \in Pages(c.img[1].vaddr, c.img[1].vaddr + c.img[1].memsz) :
                             Mapped(c.new, va)
                      /\ c.pc = "commit" => \A va \in Pages(KERNEND, c.lo) : Mapped(c.new, va)
                      /\ stat[p] \in {"RUN", "SLEEP"} => kstack[p] # 0 /\ pgdir[p] # 0
    BY DEF OnlyArgsPanic
  <2>1. Types /\ Control /\ Own /\ Trees /\ c \in Call
    BY DEF VmInv, Types
  <2>2. Shape(c, p) /\ Bounds(c, p) /\ ImageOf(c, p)
    BY <2>1 DEF Control, Images
  <2>3. c.lo \in Nat /\ c.va \in Nat /\ c.end \in Nat
    BY <2>1, Fields
  <2>4. c.pc \in Growing => Full(c.new, NTop(c)) /\ Below(c.new, NTop(c)) /\ c.new \in Page
    BY <2>1, <2>2, NewTree DEF ImageOf, NImage
  <2>5. ASSUME c.op = "fork", c.pc \in {"page", "map"}, c.va < c.end PROVE Mapped(pgdir[p], c.va)
    <3>1. c.va % PAGESIZE = 0 /\ KERNEND <= c.va /\ c.end = KERNEND + size[p]
      BY <2>2, <2>5 DEF Bounds
    <3>2. PTop(c, p) = c.end /\ pgdir[p] # 0
      BY <2>2, <2>5, <3>1 DEF PTop, Shape
    <3>3. Full(pgdir[p], c.end)
      BY <2>2, <3>2 DEF ImageOf, PImage
    <3>4. c.va \in Pages(KERNEND, c.end)
      BY <2>3, <2>5, <3>1, Spaces DEF Pages
    <3> QED
      BY <3>3, <3>4 DEF Full
  <2>6. ASSUME c.pc = "map", Mapped(c.new, c.va) PROVE FALSE
    <3>1. c.va % PAGESIZE = 0 /\ KERNEND <= c.va /\ c.va < c.end /\ c.end <= USEREND
      BY <2>2, <2>6 DEF Bounds
    <3>2. c.va < TablesEnd
      BY <2>3, <3>1, Bounded
    <3>3. Below(c.new, c.va) /\ c.new \in Page
      BY <2>4, <2>6 DEF Growing, NTop
    <3>4. c.va < c.va
      BY <2>1, <2>3, <2>6, <3>1, <3>2, <3>3, MappedBelow
    <3> QED
      BY <2>3, <3>4
  <2>7. ASSUME c.pc = "load", NEW va \in Pages(c.img[1].vaddr, c.img[1].vaddr + c.img[1].memsz)
        PROVE  Mapped(c.new, va)
    <3>1. /\ c.img # << >> /\ c.img[1].vaddr + c.img[1].memsz <= c.lo
          /\ \A k \in 1 .. Len(c.img) : c.img[k].vaddr >= KERNEND
      BY <2>2, <2>7 DEF Bounds
    <3>2. c.img \in Seq([vaddr : Nat, memsz : Nat])
      BY <2>1, Fields
    <3>3. 1 \in 1 .. Len(c.img) /\ c.img[1] \in [vaddr : Nat, memsz : Nat]
      <4>1. c.img[1] \in [vaddr : Nat, memsz : Nat]
        BY <3>1, <3>2, TailOf
      <4>2. Len(c.img) >= 1
        BY <3>1, <3>2
      <4> QED
        BY <3>2, <4>1, <4>2
    <3>4. PICK lo \in Nat, hi \in Nat :
            /\ lo = c.img[1].vaddr /\ hi = c.img[1].vaddr + c.img[1].memsz
            /\ KERNEND <= lo /\ hi <= c.lo
      BY <3>1, <3>3
    <3>5. va \in Pages(KERNEND, c.lo)
      BY <2>3, <2>7, <3>4, Spaces DEF Pages
    <3>6. Full(c.new, c.lo)
      BY <2>4, <2>7 DEF Growing, NTop
    <3> QED
      BY <3>5, <3>6 DEF Full
  <2>8. ASSUME c.pc = "commit", NEW va \in Pages(KERNEND, c.lo) PROVE Mapped(c.new, va)
    <3>1. Full(c.new, c.lo)
      BY <2>4, <2>8 DEF Growing, NTop
    <3> QED
      BY <2>8, <3>1 DEF Full
  <2>9. stat[p] \in {"RUN", "SLEEP"} => kstack[p] # 0 /\ pgdir[p] # 0
    BY <2>2 DEF Shape
  <2> QED
    BY <2>5, <2>6, <2>7, <2>8, <2>9
<1> QED
  BY <1>1, ImagesAlways, PTL

(***************************************************************************)
(* What a process holds, and how it gets on in the ledger.                 *)
(***************************************************************************)

\* x is one of the pages that p's variables refer to, or hangs on one of its
\* directories.
Holds(p, x) ==
  /\ x # 0
  /\ \/ \E k \in 1 .. 5 : Var(k, p) = x
     \/ \E k \in 2 .. 4, i \in Idx : Var(k, p) # 0 /\ To(Var(k, p), i) = x
     \/ \E k \in 2 .. 4, i, j \in Idx :
          /\ Var(k, p) # 0 /\ To(Var(k, p), i) # 0
          /\ To(To(Var(k, p), i), j) = x

\* These are the pages that p holds.
LEMMA HeldIs ==
  Types => \A p \in Proc : \A x : x \in Held(p) <=> Holds(p, x)
<1> SUFFICES ASSUME Types, NEW p \in Proc, NEW x PROVE x \in Held(p) <=> Holds(p, x)
  OBVIOUS
<1>1. /\ Var(1, p) = kstack[p] /\ Var(2, p) = pgdir[p] /\ Var(3, p) = call[p].new
      /\ Var(4, p) = call[p].old /\ Var(5, p) = call[p].page
  BY VarIs
<1>2. \A k \in 1 .. 5 : Var(k, p) \in Page \cup {0}
  BY RefersType
<1>3. \A k \in 2 .. 4 : k \in 1 .. 5
  OBVIOUS
<1>4. ASSUME NEW k \in 2 .. 4
      PROVE  x \in Tree(Var(k, p)) <=>
               /\ x # 0 /\ Var(k, p) # 0
               /\ \/ Var(k, p) = x
                  \/ \E i \in Idx : To(Var(k, p), i) = x
                  \/ \E i, j \in Idx : To(Var(k, p), i) # 0 /\ To(To(Var(k, p), i), j) = x
  <2>1. CASE Var(k, p) = 0
    BY <2>1 DEF Tree
  <2>2. CASE Var(k, p) # 0
    <3>1. PICK d \in Page : d = Var(k, p)
      BY <2>2, <1>2, <1>3
    <3>2. d # 0
      BY Constants
    <3> QED
      BY <3>1, <3>2, TreeIs
  <2> QED
    BY <2>1, <2>2
<1>5. x \in Held(p) <=> \/ x # 0 /\ (x = Var(1, p) \/ x = Var(5, p))
                        \/ \E k \in 2 .. 4 : x \in Tree(Var(k, p))
  <2>1. Held(p) = ({Var(1, p), Var(5, p)} \ {0}) \cup Tree(Var(2, p)) \cup Tree(Var(3, p))
                    \cup Tree(Var(4, p))
    BY <1>1 DEF Held
  <2>2. (\E k \in 2 .. 4 : x \in Tree(Var(k, p))) <=>
          x \in Tree(Var(2, p)) \/ x \in Tree(Var(3, p)) \/ x \in Tree(Var(4, p))
    <3>1. \A k : k \in 2 .. 4 <=> k = 2 \/ k = 3 \/ k = 4
      OBVIOUS
    <3> QED
      BY <3>1
  <2> QED
    BY <2>1, <2>2
<1>6. (\E k \in 1 .. 5 : Var(k, p) = x) <=>
        Var(1, p) = x \/ Var(5, p) = x \/ \E k \in 2 .. 4 : Var(k, p) = x
  <2>1. \A k : k \in 1 .. 5 <=> k = 1 \/ k = 5 \/ k \in 2 .. 4
    OBVIOUS
  <2> QED
    BY <2>1
<1>7. (\E k \in 2 .. 4 : x \in Tree(Var(k, p))) <=>
        /\ x # 0
        /\ \/ \E k \in 2 .. 4 : Var(k, p) = x
           \/ \E k \in 2 .. 4, i \in Idx : Var(k, p) # 0 /\ To(Var(k, p), i) = x
           \/ \E k \in 2 .. 4, i, j \in Idx :
                Var(k, p) # 0 /\ To(Var(k, p), i) # 0 /\ To(To(Var(k, p), i), j) = x
  <2>1. \A k \in 2 .. 4 : x # 0 /\ Var(k, p) = x => Var(k, p) # 0
    OBVIOUS
  <2> QED
    BY <1>4, <2>1
<1> QED
  BY <1>5, <1>6, <1>7 DEF Holds

\* The same after a step.
LEMMA HeldIsNext ==
  Types' => \A p \in Proc : \A x : x \in Held(p)' <=> Holds(p, x)'
<1>1. (Types => \A p \in Proc : \A x : x \in Held(p) <=> Holds(p, x))'
  BY HeldIs, PTL
<1> QED
  BY <1>1

\* Every page is free, or lost, or held by one process.
Shares ==
  /\ free \subseteq Page /\ lost \subseteq Page /\ free \cap lost = {}
  /\ \A p \in Proc : Held(p) \subseteq Page \ (free \cup lost)
  /\ \A x \in Page \ (free \cup lost) : \E p \in Proc : x \in Held(p)
  /\ \A p, q \in Proc : p # q => Held(p) \cap Held(q) = {}

\* Two processes hold nothing in common.
LEMMA HeldOnce ==
  ASSUME Types, Own, NEW p \in Proc, NEW q \in Proc, NEW x, Holds(p, x), Holds(q, x)
  PROVE  p = q
<1>1. /\ \A g, h \in Page, i, j \in Idx : To(g, i) = To(h, j) /\ To(g, i) # 0 => g = h
      /\ \A g \in Page, i \in Idx, k \in 1 .. 5, r \in Proc : To(g, i) # 0 => To(g, i) # Var(k, r)
      /\ \A k, l \in 1 .. 5, r, s \in Proc : Var(k, r) = Var(l, s) /\ Var(k, r) # 0 => r = s
  BY Unique DEF Own
<1>2. \A g, h \in Page, i, j \in Idx : To(g, i) = To(h, j) /\ To(g, i) # 0 => g = h
  BY <1>1
<1>3. \A g \in Page, i \in Idx, k \in 1 .. 5, r \in Proc : To(g, i) # 0 => To(g, i) # Var(k, r)
  BY <1>1
<1>4. \A k, l \in 1 .. 5, r, s \in Proc : Var(k, r) = Var(l, s) /\ Var(k, r) # 0 => r = s
  BY <1>1
<1>5. /\ \A g \in Page, i \in Idx : To(g, i) \in Page \cup {0}
      /\ \A k \in 1 .. 5, r \in Proc : Var(k, r) \in Page \cup {0}
      /\ \A k \in 2 .. 4 : k \in 1 .. 5
  BY RefersType
<1> DEFINE Root(r)  == \E k \in 1 .. 5 : Var(k, r) = x
           Table1(r) == \E d \in Page, i \in Idx, k \in 1 .. 5 : d = Var(k, r) /\ To(d, i) = x
           Page1(r)  == \E d \in Page, i \in Idx, t \in Page, j \in Idx, k \in 1 .. 5 :
                          d = Var(k, r) /\ t = To(d, i) /\ To(t, j) = x
<1>6. x # 0
  BY DEF Holds
<1>7. ASSUME NEW r \in Proc, Holds(r, x) PROVE Root(r) \/ Table1(r) \/ Page1(r)
  <2>1. ASSUME NEW k \in 2 .. 4, NEW i \in Idx, Var(k, r) # 0, To(Var(k, r), i) = x PROVE Table1(r)
    <3>1. Var(k, r) \in Page /\ k \in 1 .. 5
      BY <1>5, <2>1
    <3> QED
      BY <2>1, <3>1
  <2>2. ASSUME NEW k \in 2 .. 4, NEW i \in Idx, NEW j \in Idx,
               Var(k, r) # 0, To(Var(k, r), i) # 0, To(To(Var(k, r), i), j) = x
        PROVE  Page1(r)
    <3>1. Var(k, r) \in Page /\ k \in 1 .. 5
      BY <1>5, <2>2
    <3>2. To(Var(k, r), i) \in Page
      BY <1>5, <2>2, <3>1
    <3> QED
      BY <2>2, <3>1, <3>2
  <2> QED
    BY <1>7, <2>1, <2>2 DEF Holds
<1>8. ASSUME NEW r \in Proc, NEW s \in Proc, Root(r), Root(s) PROVE r = s
  BY <1>1, <1>6, <1>8
<1>9. ASSUME NEW r \in Proc, NEW s \in Proc, Root(r), Table1(s) \/ Page1(s) PROVE FALSE
  BY <1>1, <1>6, <1>9
<1>10. ASSUME NEW r \in Proc, NEW s \in Proc, Table1(r), Table1(s) PROVE r = s
  <2>1. PICK d \in Page, i \in Idx, k \in 1 .. 5 : d = Var(k, r) /\ To(d, i) = x
    BY <1>10
  <2>2. PICK e \in Page, j \in Idx, l \in 1 .. 5 : e = Var(l, s) /\ To(e, j) = x
    BY <1>10
  <2>3. d = e /\ d # 0
    BY <1>2, <1>6, <2>1, <2>2, Constants
  <2>4. Var(k, r) = Var(l, s) /\ Var(k, r) # 0
    BY <2>1, <2>2, <2>3
  <2> QED
    BY <1>4, <2>4
<1>11. ASSUME NEW r \in Proc, NEW s \in Proc, Table1(r), Page1(s) PROVE FALSE
  <2>1. PICK d \in Page, i \in Idx, k \in 1 .. 5 : d = Var(k, r) /\ To(d, i) = x
    BY <1>11
  <2>2. PICK e \in Page, m \in Idx, t \in Page, j \in Idx : t = To(e, m) /\ To(t, j) = x
    BY <1>11
  <2>3. d = t /\ t # 0
    BY <1>2, <1>6, <2>1, <2>2, Constants
  <2>4. To(e, m) = Var(k, r) /\ To(e, m) # 0
    BY <2>1, <2>2, <2>3
  <2> QED
    BY <1>3, <2>4
<1>12. ASSUME NEW r \in Proc, NEW s \in Proc, Page1(r), Page1(s) PROVE r = s
  <2>1. PICK d \in Page, i \in Idx, t \in Page, j \in Idx, k \in 1 .. 5 :
          d = Var(k, r) /\ t = To(d, i) /\ To(t, j) = x
    BY <1>12
  <2>2. PICK e \in Page, m \in Idx, u \in Page, n \in Idx, l \in 1 .. 5 :
          e = Var(l, s) /\ u = To(e, m) /\ To(u, n) = x
    BY <1>12
  <2>3. t = u /\ t # 0
    BY <1>2, <1>6, <2>1, <2>2, Constants
  <2>4. To(d, i) = To(e, m) /\ To(d, i) # 0
    BY <2>1, <2>2, <2>3
  <2>5. d = e /\ d # 0
    BY <1>2, <2>4, Constants
  <2>6. Var(k, r) = Var(l, s) /\ Var(k, r) # 0
    BY <2>1, <2>2, <2>5
  <2> QED
    BY <1>4, <2>6
<1> HIDE DEF Root, Table1, Page1
<1> QED
  BY <1>7, <1>8, <1>9, <1>10, <1>11, <1>12

\* So the pages are shared out.
LEMMA SharesIs == Types /\ Own => Shares
<1> SUFFICES ASSUME Types, Own PROVE Shares
  OBVIOUS
<1>1. free \subseteq Page /\ lost \subseteq Page /\ free \cap lost = {}
  BY DEF Types, Own
<1>2. Page \ (free \cup lost) = UNION {Held(p) : p \in Proc}
  BY ConservedIs DEF Conserved
<1>3. ASSUME NEW p \in Proc PROVE Held(p) \subseteq Page \ (free \cup lost)
  BY <1>2
<1>4. ASSUME NEW x \in Page \ (free \cup lost) PROVE \E p \in Proc : x \in Held(p)
  BY <1>2
<1>5. \A p, q \in Proc : p # q => Held(p) \cap Held(q) = {}
  BY HeldIs, HeldOnce
<1> QED
  BY <1>1, <1>3, <1>4, <1>5 DEF Shares

\* The same after a step.
LEMMA SharesNext == Types' /\ Own' => Shares'
<1>1. (Types /\ Own => Shares)'
  BY SharesIs, PTL
<1> QED
  BY <1>1

\* A process whose variables stay, and whose pages nobody writes to, holds
\* what it held.
LEMMA HeldFrame ==
  ASSUME Types, Types', NEW q \in Proc, \A k \in 1 .. 5 : Var(k, q)' = Var(k, q),
         \A g \in Page : g \in Held(q) => mem'[g] = mem[g]
  PROVE  Held(q)' = Held(q)
<1>1. /\ \A g \in Page, i \in Idx : To(g, i) \in Page \cup {0}
      /\ \A k \in 1 .. 5 : Var(k, q) \in Page \cup {0}
      /\ \A k \in 2 .. 4 : k \in 1 .. 5
  BY RefersType
<1>2. \A x : x \in Held(q) <=> Holds(q, x)
  BY HeldIs
<1>3. ASSUME NEW k \in 2 .. 4, NEW i \in Idx, Var(k, q) # 0
      PROVE  /\ To(Var(k, q), i)' = To(Var(k, q), i)
             /\ To(Var(k, q), i) # 0 =>
                  \A j \in Idx : To(To(Var(k, q), i), j)' = To(To(Var(k, q), i), j)
  <2>1. PICK d \in Page : d = Var(k, q)
    BY <1>1, <1>3
  <2>2. d \in Held(q) /\ Var(k, q)' = d
    BY <1>1, <1>2, <1>3, <2>1 DEF Holds
  <2>3. mem'[d] = mem[d]
    BY <2>2
  <2>4. To(Var(k, q), i)' = To(d, i)
    BY <2>2, <2>3 DEF To
  <2>5. ASSUME To(d, i) # 0, NEW j \in Idx PROVE To(To(Var(k, q), i), j)' = To(To(d, i), j)
    <3>1. PICK t \in Page : t = To(d, i)
      BY <1>1, <2>5
    <3>2. t \in Held(q)
      BY <1>2, <1>3, <2>1, <2>5, <3>1 DEF Holds
    <3>3. mem'[t] = mem[t] /\ To(Var(k, q), i)' = t
      BY <3>1, <3>2, <2>4
    <3> QED
      BY <3>1, <3>3 DEF To
  <2> QED
    BY <2>1, <2>4, <2>5
<1>4. ASSUME NEW x PROVE Holds(q, x)' <=> Holds(q, x)
  BY <1>1, <1>3 DEF Holds
<1> QED
  BY <1>2, <1>4, HeldIsNext

\* Only processes of Q get or lose pages.
Apart(Q) == \A q \in Proc \ Q : Held(q)' = Held(q)

\* That is so when a step writes only to pages that they hold, and to free
\* ones, and changes only their variables.
LEMMA ApartIs ==
  ASSUME Types, Types', Shares, NEW Q \in SUBSET Proc,
         \A q \in Proc \ Q : \A k \in 1 .. 5 : Var(k, q)' = Var(k, q),
         \A g \in Page : mem'[g] = mem[g] \/ g \in free \/ \E r \in Q : g \in Held(r)
  PROVE  Apart(Q)
<1> SUFFICES ASSUME NEW q \in Proc \ Q PROVE Held(q)' = Held(q)
  BY DEF Apart
<1>1. \A k \in 1 .. 5 : Var(k, q)' = Var(k, q)
  OBVIOUS
<1>2. ASSUME NEW g \in Page, g \in Held(q) PROVE mem'[g] = mem[g]
  <2>1. g \notin free
    BY <1>2 DEF Shares
  <2>2. \A r \in Q : g \notin Held(r)
    BY <1>2 DEF Shares
  <2> QED
    BY <2>1, <2>2
<1> QED
  BY <1>1, <1>2, HeldFrame

\* What held is in the ledger.
Whose == UNION {{<<p, x>> : x \in Held(p)} : p \in Proc}

\* Its pairs.
LEMMA WhoseIs ==
  /\ \A h \in Whose : \E p \in Proc : \E x \in Held(p) : h = <<p, x>>
  /\ \A p \in Proc : \A x : <<p, x>> \in Whose <=> x \in Held(p)
<1>1. \A h : h \in Whose <=> \E p \in Proc : \E x \in Held(p) : h = <<p, x>>
  BY DEF Whose
<1> QED
  BY <1>1

\* The same after a step.
LEMMA WhoseNext ==
  /\ \A h \in Whose' : \E p \in Proc : \E x \in Held(p)' : h = <<p, x>>
  /\ \A p \in Proc : \A x : <<p, x>> \in Whose' <=> x \in Held(p)'
<1>1. (/\ \A h \in Whose : \E p \in Proc : \E x \in Held(p) : h = <<p, x>>
       /\ \A p \in Proc : \A x : <<p, x>> \in Whose <=> x \in Held(p))'
  BY WhoseIs, PTL
<1> QED
  BY <1>1

\* PageLedger counts as Vm does.
LEMMA SameCount == \A S : Ledger!Cardinality(S) = Cardinality(S)
  BY DEF Ledger!Cardinality, Cardinality

\* The ledger's actions, with what is taken and given.
LEMMA LedgerIs ==
  ASSUME \/ Whose \ Whose' = {} /\ \E p \in Proc : Ledger!Take(p, Whose' \ Whose)
         \/ Whose' \ Whose = {} /\ \E p \in Proc : Ledger!Return(p, Whose \ Whose')
         \/ Whose' \ Whose = {} /\ \E Q \in SUBSET Proc : Ledger!Reap(Q, Whose \ Whose')
         \/ \E p, q \in Proc : Ledger!Endow(p, q, Whose \ Whose', Whose' \ Whose)
  PROVE  Ledger!Next
  BY DEF Ledger!Next, Ledger!Given, Ledger!Taken, Whose

\* Pairs are as many as their pages, at most.
LEMMA PairCount ==
  ASSUME Shares, NEW H \in SUBSET Whose, NEW G, IsFiniteSet(G), \A h \in H : h[2] \in G
  PROVE  IsFiniteSet(H) /\ Cardinality(H) <= Cardinality(G)
<1> PICK f : f = [h \in H |-> h[2]]
  OBVIOUS
<1>1. f \in [H -> G]
  OBVIOUS
<1>2. ASSUME NEW h \in H, NEW k \in H, f[h] = f[k] PROVE h = k
  <2>1. PICK p \in Proc : \E x \in Held(p) : h = <<p, x>>
    BY WhoseIs
  <2>2. PICK x \in Held(p) : h = <<p, x>>
    BY <2>1
  <2>3. PICK q \in Proc : \E y \in Held(q) : k = <<q, y>>
    BY WhoseIs
  <2>4. PICK y \in Held(q) : k = <<q, y>>
    BY <2>3
  <2>5. x = y
    BY <1>2, <2>2, <2>4
  <2>6. p = q
    BY <2>5 DEF Shares
  <2> QED
    BY <2>2, <2>4, <2>5, <2>6
<1>3. f \in Injection(H, G)
  BY <1>1, <1>2 DEF Injection, IsInjective
<1> QED
  BY <1>3, FS_Injection

\* Pages are finitely many.
LEMMA PagesFinite ==
  ASSUME NEW S \in SUBSET Page
  PROVE  IsFiniteSet(S) /\ Cardinality(S) \in Nat
<1>1. IsFiniteSet(Page)
  BY Constants, FS_Interval DEF Page
<1>2. IsFiniteSet(S)
  BY <1>1, FS_Subset
<1> QED
  BY <1>2, FS_CardinalityType

\* What p holds after a step in which nobody else gets or loses pages.
LEMMA HeldNext ==
  ASSUME Shares, Shares', NEW p \in Proc, Apart({p})
  PROVE  \A x : x \in Held(p)' <=>
           x \in free \cup lost \cup Held(p) /\ x \notin free' \cup lost'
<1>1. \A r \in Proc \ {p} : Held(r)' = Held(r)
  BY DEF Apart
<1>2. \A x \in Page : x \in free \cup lost \cup Held(p) <=> \A r \in Proc \ {p} : x \notin Held(r)
  BY DEF Shares
<1>3. \A x \in Page : x \in Held(p)' <=>
        x \notin free' \cup lost' /\ \A r \in Proc \ {p} : x \notin Held(r)'
  BY DEF Shares
<1>4. Held(p) \subseteq Page /\ Held(p)' \subseteq Page /\ free \subseteq Page /\ lost \subseteq Page
  BY DEF Shares
<1> QED
  BY <1>1, <1>2, <1>3, <1>4

\* p moves pages among its own, or does nothing.
LEMMA LedgerStill ==
  ASSUME Shares, Shares', NEW p \in Proc, Apart({p}), free' = free, lost' = lost
  PROVE  UNCHANGED <<free, Whose>>
<1>1. \A x : x \in Held(p)' <=> x \in Held(p)
  BY HeldNext DEF Shares
<1>2. \A q \in Proc : Held(q)' = Held(q)
  BY <1>1 DEF Apart
<1> QED
  BY <1>2 DEF Whose

\* What becomes of the pairs when only p gets or loses pages.
LEMMA WhoseChange ==
  ASSUME NEW p \in Proc, Apart({p})
  PROVE  /\ Whose \ Whose' = {<<p, x>> : x \in Held(p) \ Held(p)'}
         /\ Whose' \ Whose = {<<p, x>> : x \in Held(p)' \ Held(p)}
<1>1. \A r \in Proc \ {p} : Held(r)' = Held(r)
  BY DEF Apart
<1>2. ASSUME NEW h \in Whose \ Whose' PROVE h \in {<<p, x>> : x \in Held(p) \ Held(p)'}
  <2>1. PICK r \in Proc : \E x \in Held(r) : h = <<r, x>>
    BY WhoseIs
  <2>2. PICK x \in Held(r) : h = <<r, x>>
    BY <2>1
  <2>3. x \notin Held(r)'
    BY <2>2, WhoseNext
  <2> QED
    BY <2>2, <2>3, <1>1
<1>3. ASSUME NEW h \in Whose' \ Whose PROVE h \in {<<p, x>> : x \in Held(p)' \ Held(p)}
  <2>1. PICK r \in Proc : \E x \in Held(r)' : h = <<r, x>>
    BY WhoseNext
  <2>2. PICK x \in Held(r)' : h = <<r, x>>
    BY <2>1
  <2>3. x \notin Held(r)
    BY <2>2, WhoseIs
  <2> QED
    BY <2>2, <2>3, <1>1
<1> QED
  BY <1>2, <1>3, WhoseIs, WhoseNext

\* p takes the page k.
LEMMA LedgerTake ==
  ASSUME Shares, Shares', NEW p \in Proc, Apart({p}), NEW k \in free, free' = free \ {k},
         lost' = lost
  PROVE  Ledger!Next
<1>1. k \in Page /\ k \notin Held(p) /\ k \notin lost
  BY DEF Shares
<1>2. Held(p)' \ Held(p) = {k} /\ Held(p) \ Held(p)' = {}
  BY <1>1, HeldNext DEF Shares
<1>3. Whose \ Whose' = {} /\ Whose' \ Whose = {<<p, k>>}
  BY <1>2, WhoseChange
<1>4. Ledger!Take(p, Whose' \ Whose)
  BY <1>3 DEF Ledger!Take
<1> QED
  BY <1>3, <1>4, LedgerIs

\* p returns the pages of F, and those of L get lost.
LEMMA LedgerReturn ==
  ASSUME Shares, Shares', NEW p \in Proc, Apart({p}), NEW F \in SUBSET Page, NEW L \in SUBSET Page,
         F \subseteq Held(p), free' = free \cup F, lost' = lost \cup L, Cardinality(L) <= KTABS
  PROVE  Ledger!Next
<1>1. F \cap free = {}
  BY DEF Shares
<1>2. Held(p)' \ Held(p) = {} /\ Held(p) \ Held(p)' \subseteq F \cup L /\ F \subseteq Held(p) \ Held(p)'
  BY HeldNext DEF Shares
<1>3. /\ Whose' \ Whose = {}
      /\ Whose \ Whose' = {<<p, x>> : x \in Held(p) \ Held(p)'}
  BY <1>2, WhoseChange
<1> PICK given : given = Whose \ Whose'
  OBVIOUS
<1>4. given \subseteq Ledger!Of({p})
  BY <1>3 DEF Ledger!Of, Whose
<1>5. free' \ free = F
  BY <1>1
<1>6. F \subseteq Ledger!Pages(given)
  <2> SUFFICES ASSUME NEW x \in F PROVE \E h \in given : x = h[2]
    BY DEF Ledger!Pages
  <2>1. <<p, x>> \in given /\ <<p, x>>[2] = x
    BY <1>2, <1>3
  <2> QED
    BY <2>1
<1>7. Cardinality(given) <= Cardinality(F) + KTABS
  <2>1. IsFiniteSet(F) /\ IsFiniteSet(L) /\ Cardinality(F) \in Nat /\ Cardinality(L) \in Nat
    BY PagesFinite
  <2>2. F \cap L \in SUBSET Page
    OBVIOUS
  <2>3. Cardinality(F \cap L) \in Nat
    BY <2>2, PagesFinite
  <2>4. /\ IsFiniteSet(F \cup L)
        /\ Cardinality(F \cup L) = Cardinality(F) + Cardinality(L) - Cardinality(F \cap L)
    BY <2>1, FS_Union
  <2>5. given \in SUBSET Whose /\ \A h \in given : h[2] \in F \cup L
    BY <1>2, <1>3
  <2>6. IsFiniteSet(given) /\ Cardinality(given) <= Cardinality(F \cup L)
    BY <2>4, <2>5, PairCount
  <2>7. Cardinality(given) \in Nat
    BY <2>6, FS_CardinalityType
  <2> QED
    BY <2>1, <2>3, <2>4, <2>6, <2>7, Constants
<1>8. Ledger!Return(p, given)
  BY <1>4, <1>5, <1>6, <1>7, SameCount DEF Ledger!Return, Ledger!GiveBack
<1> QED
  BY <1>3, <1>8, LedgerIs

\* The processes of Q return all they have, but for the pages of L.
LEMMA LedgerReap ==
  ASSUME Shares, Shares', NEW Q \in SUBSET Proc, Apart(Q), \A q \in Q : Held(q)' = {},
         NEW F \in SUBSET Page, NEW L \in SUBSET Page, \A x \in F : \E q \in Q : x \in Held(q),
         free' = free \cup F, lost' = lost \cup L, Cardinality(L) <= KTABS * Cardinality(Q)
  PROVE  Ledger!Next
<1>1. F \cap free = {}
  BY DEF Shares
<1>2. ASSUME NEW q \in Q, NEW x \in Held(q) PROVE x \in F \cup L
  <2>1. x \in Page /\ x \notin free \cup lost
    BY DEF Shares
  <2>2. \A r \in Proc \ Q : x \notin Held(r)'
    BY DEF Shares, Apart
  <2>3. x \in free' \cup lost'
    BY <2>1, <2>2 DEF Shares
  <2> QED
    BY <2>1, <2>3
<1>3. Whose' \ Whose = {}
  <2> SUFFICES ASSUME NEW h \in Whose' PROVE h \in Whose
    OBVIOUS
  <2>1. PICK r \in Proc : \E x \in Held(r)' : h = <<r, x>>
    BY WhoseNext
  <2>2. PICK x \in Held(r)' : h = <<r, x>>
    BY <2>1
  <2>3. r \notin Q
    BY <2>2
  <2> QED
    BY <2>2, <2>3, WhoseIs DEF Apart
<1> PICK given : given = Whose \ Whose'
  OBVIOUS
<1>4. Ledger!Of(Q) = {h \in Whose : h[1] \in Q}
  BY DEF Ledger!Of, Whose
<1>5. \A h \in Whose : h[1] \in Q <=> h \notin Whose'
  <2> SUFFICES ASSUME NEW h \in Whose PROVE h[1] \in Q <=> h \notin Whose'
    OBVIOUS
  <2>1. PICK r \in Proc : \E x \in Held(r) : h = <<r, x>>
    BY WhoseIs
  <2>2. PICK x \in Held(r) : h = <<r, x>>
    BY <2>1
  <2>3. r \in Q => h \notin Whose'
    BY <2>2, WhoseNext
  <2>4. r \notin Q => h \in Whose'
    BY <2>2, WhoseNext DEF Apart
  <2> QED
    BY <2>2, <2>3, <2>4
<1>6. given = Ledger!Of(Q)
  BY <1>4, <1>5
<1>7. free' \ free = F
  BY <1>1
<1>8. F \subseteq Ledger!Pages(given)
  <2> SUFFICES ASSUME NEW x \in F PROVE \E h \in given : x = h[2]
    BY DEF Ledger!Pages
  <2>1. PICK q \in Q : x \in Held(q)
    OBVIOUS
  <2>2. <<q, x>> \in Whose /\ <<q, x>>[1] = q /\ <<q, x>>[2] = x
    BY <2>1, WhoseIs
  <2>3. <<q, x>> \in given
    BY <2>2, <1>5
  <2> QED
    BY <2>2, <2>3
<1>9. Cardinality(given) <= Cardinality(F) + KTABS * Cardinality(Q)
  <2>1. IsFiniteSet(F) /\ IsFiniteSet(L) /\ Cardinality(F) \in Nat /\ Cardinality(L) \in Nat
    BY PagesFinite
  <2>2. F \cap L \in SUBSET Page
    OBVIOUS
  <2>3. Cardinality(F \cap L) \in Nat
    BY <2>2, PagesFinite
  <2>4. /\ IsFiniteSet(F \cup L)
        /\ Cardinality(F \cup L) = Cardinality(F) + Cardinality(L) - Cardinality(F \cap L)
    BY <2>1, FS_Union
  <2>5. given \in SUBSET Whose
    OBVIOUS
  <2>6. ASSUME NEW h \in given PROVE h[2] \in F \cup L
    <3>1. PICK r \in Proc : \E x \in Held(r) : h = <<r, x>>
      BY WhoseIs
    <3>2. PICK x \in Held(r) : h = <<r, x>>
      BY <3>1
    <3>3. r \in Q
      BY <3>2, <1>5
    <3> QED
      BY <3>2, <3>3, <1>2
  <2>7. IsFiniteSet(given) /\ Cardinality(given) <= Cardinality(F \cup L)
    BY <2>4, <2>5, <2>6, PairCount
  <2>8. Cardinality(given) \in Nat
    BY <2>7, FS_CardinalityType
  <2>9. PICK n : n = KTABS * Cardinality(Q)
    OBVIOUS
  <2>10. n \in Nat
    <3>1. IsFiniteSet(Proc)
      BY Constants, FS_Interval DEF Proc
    <3>2. Cardinality(Q) \in Nat
      BY <3>1, FS_Subset, FS_CardinalityType
    <3> QED
      BY <2>9, <3>2, Constants
  <2> QED
    BY <2>1, <2>3, <2>4, <2>7, <2>8, <2>9, <2>10
<1>10. Ledger!GiveBack(Q, KTABS * Cardinality(Q), given)
  BY <1>6, <1>7, <1>8, <1>9, SameCount DEF Ledger!GiveBack
<1>11. Ledger!Reap(Q, given)
  BY <1>6, <1>10, SameCount DEF Ledger!Reap
<1> QED
  BY <1>3, <1>11, LedgerIs

\* p hands what it does not keep to q, which has had a page alone.
LEMMA LedgerEndow ==
  ASSUME Shares, Shares', NEW p \in Proc, NEW q \in Proc, p # q, Apart({p, q}),
         free' = free, lost' = lost, NEW s \in Page, Held(q) = {s},
         Held(p)' \subseteq Held(p), Held(q) \subseteq Held(q)'
  PROVE  Ledger!Next
<1>1. Held(q)' \ Held(q) = Held(p) \ Held(p)'
  <2>1. \A x \in Page : x \in Held(p) \/ x \in Held(q) <=>
          x \notin free \cup lost /\ \A r \in Proc \ {p, q} : x \notin Held(r)
    BY DEF Shares
  <2>2. \A x \in Page : x \in Held(p)' \/ x \in Held(q)' <=>
          x \notin free' \cup lost' /\ \A r \in Proc \ {p, q} : x \notin Held(r)'
    BY DEF Shares
  <2>3. \A x \in Page : x \in Held(p) \/ x \in Held(q) <=> x \in Held(p)' \/ x \in Held(q)'
    BY <2>1, <2>2 DEF Apart
  <2>4. /\ Held(p) \cap Held(q) = {} /\ Held(p)' \cap Held(q)' = {}
        /\ Held(p) \subseteq Page /\ Held(p)' \subseteq Page
        /\ Held(q) \subseteq Page /\ Held(q)' \subseteq Page
    BY DEF Shares
  <2> QED
    BY <2>3, <2>4
<1> PICK G : G = Held(p) \ Held(p)'
  OBVIOUS
<1>2. Whose \ Whose' = {<<p, x>> : x \in G}
  <2>1. ASSUME NEW h \in Whose \ Whose' PROVE h \in {<<p, x>> : x \in G}
    <3>1. PICK r \in Proc : \E x \in Held(r) : h = <<r, x>>
      BY WhoseIs
    <3>2. PICK x \in Held(r) : h = <<r, x>>
      BY <3>1
    <3>3. x \notin Held(r)'
      BY <3>2, WhoseNext
    <3>4. r = p
      BY <3>3 DEF Apart
    <3> QED
      BY <3>2, <3>3, <3>4
  <2> QED
    BY <2>1, WhoseIs, WhoseNext
<1>3. Whose' \ Whose = {<<q, x>> : x \in G}
  <2>1. ASSUME NEW h \in Whose' \ Whose PROVE h \in {<<q, x>> : x \in G}
    <3>1. PICK r \in Proc : \E x \in Held(r)' : h = <<r, x>>
      BY WhoseNext
    <3>2. PICK x \in Held(r)' : h = <<r, x>>
      BY <3>1
    <3>3. x \notin Held(r)
      BY <3>2, WhoseIs
    <3>4. r = q
      BY <3>3 DEF Apart
    <3> QED
      BY <3>2, <3>3, <3>4, <1>1
  <2>2. ASSUME NEW x \in G PROVE <<q, x>> \in Whose' \ Whose
    BY <1>1, <2>2, WhoseIs, WhoseNext
  <2> QED
    BY <2>1, <2>2
<1>4. Ledger!Pages(Whose \ Whose') = G
  <2>1. \A x \in G : <<p, x>> \in Whose \ Whose' /\ <<p, x>>[2] = x
    BY <1>2
  <2>2. \A h \in Whose \ Whose' : h[2] \in G
    BY <1>2
  <2> QED
    BY <2>1, <2>2 DEF Ledger!Pages
<1>5. Whose \ Whose' \subseteq Ledger!Of({p})
  BY <1>2 DEF Ledger!Of, Whose
<1>6. Cardinality(Ledger!Of({q})) = 1
  <2>1. Ledger!Of({q}) = {h \in Whose : h[1] \in {q}}
    BY DEF Ledger!Of, Whose
  <2>2. <<q, s>> \in Whose
    BY WhoseIs
  <2>3. ASSUME NEW h \in Whose, h[1] = q PROVE h = <<q, s>>
    <3>1. PICK r \in Proc : \E x \in Held(r) : h = <<r, x>>
      BY WhoseIs
    <3> QED
      BY <3>1, <2>3
  <2>4. Ledger!Of({q}) = {<<q, s>>}
    BY <2>1, <2>2, <2>3
  <2> QED
    BY <2>4, FS_Singleton
<1>7. Ledger!Endow(p, q, Whose \ Whose', Whose' \ Whose)
  BY <1>3, <1>4, <1>5, <1>6, SameCount DEF Ledger!Endow
<1> QED
  BY <1>7, LedgerIs

\* A step of Vm in the ledger.
LedgerStep == Ledger!Next \/ UNCHANGED <<free, Whose>>

\* A directory of p, its tables and their pages are p's.
LEMMA DirHeld ==
  ASSUME Types, NEW p \in Proc, NEW d \in Page,
         d \in {pgdir[p], call[p].new, call[p].old}
  PROVE  /\ d \in Held(p)
         /\ \A i \in Idx : To(d, i) # 0 => To(d, i) \in Held(p)
         /\ \A i, j \in Idx : To(d, i) # 0 /\ To(To(d, i), j) # 0 => To(To(d, i), j) \in Held(p)
<1>1. PICK k \in 2 .. 4 : Var(k, p) = d
  BY VarIs
<1>2. k \in 1 .. 5 /\ d # 0
  BY Constants
<1>3. \A x : x \in Held(p) <=> Holds(p, x)
  BY HeldIs
<1> QED
  BY <1>1, <1>2, <1>3 DEF Holds

\* The stack of p and the page of its call are p's.
LEMMA PageHeld ==
  ASSUME NEW p \in Proc, NEW x \in Page, x = kstack[p] \/ x = call[p].page
  PROVE  x \in Held(p)
  BY Constants DEF Held

\* A process that a step leaves alone.
LEMMA VarSame ==
  ASSUME NEW q \in Proc, call'[q] = call[q], kstack'[q] = kstack[q], pgdir'[q] = pgdir[q]
  PROVE  \A k \in 1 .. 5 : Var(k, q)' = Var(k, q)
  BY DEF Var

\* A step that takes a page for p at most.
LEMMA LedgerCall ==
  ASSUME Types, Types', Shares, Shares', NEW p \in Proc,
         \A q \in Proc \ {p} : \A k \in 1 .. 5 : Var(k, q)' = Var(k, q),
         \A g \in Page : mem'[g] = mem[g] \/ g \in free \/ g \in Held(p),
         free' = free \/ \E k \in free : free' = free \ {k}, lost' = lost
  PROVE  LedgerStep
<1>1. Apart({p})
  <2> PICK Q \in SUBSET Proc : Q = {p}
    OBVIOUS
  <2>1. \A q \in Proc \ Q : \A k \in 1 .. 5 : Var(k, q)' = Var(k, q)
    OBVIOUS
  <2>2. \A g \in Page : mem'[g] = mem[g] \/ g \in free \/ \E r \in Q : g \in Held(r)
    OBVIOUS
  <2>3. Apart(Q)
    BY <2>1, <2>2, ApartIs
  <2> QED
    BY <2>3
<1>2. CASE free' = free
  BY <1>1, <1>2, LedgerStill DEF LedgerStep
<1>3. CASE \E k \in free : free' = free \ {k}
  <2>1. PICK k \in free : free' = free \ {k}
    BY <1>3
  <2> QED
    BY <1>1, <2>1, LedgerTake DEF LedgerStep
<1> QED
  BY <1>2, <1>3

\* A step that changes no entry, and no variable of another process than p.
LEMMA LedgerQuiet ==
  ASSUME Types, Types', Shares, Shares', NEW p \in Proc, UNCHANGED <<free, lost, mem, kstack>>,
         \A q \in Proc \ {p} : call'[q] = call[q] /\ pgdir'[q] = pgdir[q]
  PROVE  LedgerStep
<1>1. \A q \in Proc \ {p} : \A k \in 1 .. 5 : Var(k, q)' = Var(k, q)
  BY VarSame
<1>2. \A g \in Page : mem'[g] = mem[g] \/ g \in free \/ g \in Held(p)
  OBVIOUS
<1> QED
  BY <1>1, <1>2, LedgerCall

\* setupkvm() takes the directory.
LEMMA NewDirLedger ==
  ASSUME Types, Types', Shares, Shares', NEW p \in Proc, NewDir(p)
  PROVE  LedgerStep
<1>1. UNCHANGED <<pgdir, kstack, lost>>
  BY DEF NewDir, proc
<1>2. \A q \in Proc \ {p} : call'[q] = call[q]
  BY DEF NewDir, Goto, Types
<1>3. \A q \in Proc \ {p} : \A k \in 1 .. 5 : Var(k, q)' = Var(k, q)
  BY <1>1, <1>2, VarSame
<1>4. CASE free = {}
  <2>1. UNCHANGED <<free, mem>>
    BY <1>4 DEF NewDir
  <2> QED
    BY <2>1, <1>1, <1>3, LedgerCall
<1>5. CASE free # {}
  <2>1. PICK k \in free : k = kalloc
    BY <1>5, KallocIs
  <2>2. free' = free \ {k} /\ mem' = [mem EXCEPT ![k] = Zero]
    BY <1>5, <2>1 DEF NewDir
  <2>3. \A g \in Page : mem'[g] = mem[g] \/ g \in free
    BY <2>2 DEF Types
  <2> QED
    BY <2>2, <2>3, <1>1, <1>3, LedgerCall
<1> QED
  BY <1>4, <1>5

\* setupkvm() takes a table.
LEMMA NewKernTableLedger ==
  ASSUME VmInv, Types', Shares, Shares', NEW p \in Proc, NewKernTable(p)
  PROVE  LedgerStep
<1> USE DEF VmInv
<1> PICK c \in Call : c = call[p]
  BY DEF Types
<1>1. c.pc = "ktab" /\ UNCHANGED <<pgdir, kstack, lost>>
  BY DEF NewKernTable, At, proc
<1>2. \A q \in Proc \ {p} : call'[q] = call[q]
  BY DEF NewKernTable, Goto, Types
<1>3. \A q \in Proc \ {p} : \A k \in 1 .. 5 : Var(k, q)' = Var(k, q)
  BY <1>1, <1>2, VarSame
<1>4. CASE free = {}
  <2>1. UNCHANGED <<free, mem>>
    BY <1>4 DEF NewKernTable
  <2> QED
    BY <2>1, <1>1, <1>3, LedgerCall
<1>5. CASE free # {}
  <2>1. PICK d \in Page : d = c.new
    BY <1>1, NewTree
  <2>2. PICK k \in free : k = kalloc
    BY <1>5, KallocIs
  <2>3. PICK n : n = Cardinality(KernTables(d))
    OBVIOUS
  <2>4. free' = free \ {k} /\ mem' = [mem EXCEPT ![k] = Zero, ![d][n] = [pa |-> k, u |-> TRUE]]
    BY <1>5, <2>1, <2>2, <2>3 DEF NewKernTable
  <2>5. \A g \in Page : g # k /\ g # d => mem'[g] = mem[g]
    BY <2>4 DEF Types
  <2>6. d \in Held(p)
    BY <2>1, DirHeld
  <2>7. \A g \in Page : mem'[g] = mem[g] \/ g \in free \/ g \in Held(p)
    BY <2>5, <2>6
  <2> QED
    BY <2>4, <2>7, <1>1, <1>3, LedgerCall
<1> QED
  BY <1>4, <1>5

\* A step that returns what is in F, and loses what is in L.
LEMMA LedgerDrop ==
  ASSUME Types, Types', Shares, Shares', NEW p \in Proc,
         \A q \in Proc \ {p} : \A k \in 1 .. 5 : Var(k, q)' = Var(k, q),
         \A g \in Page : mem'[g] = mem[g] \/ g \in free \/ g \in Held(p),
         NEW F \in SUBSET Page, NEW L \in SUBSET Page, F \subseteq Held(p),
         free' = free \cup F, lost' = lost \cup L, Cardinality(L) <= KTABS
  PROVE  LedgerStep
<1> PICK Q \in SUBSET Proc : Q = {p}
  OBVIOUS
<1>1. \A q \in Proc \ Q : \A k \in 1 .. 5 : Var(k, q)' = Var(k, q)
  OBVIOUS
<1>2. \A g \in Page : mem'[g] = mem[g] \/ g \in free \/ \E r \in Q : g \in Held(r)
  OBVIOUS
<1>3. Apart(Q)
  BY <1>1, <1>2, ApartIs
<1>4. Apart({p})
  BY <1>3
<1> QED
  BY <1>4, LedgerReturn DEF LedgerStep

\* deallocuvm() writes to tables of d, and frees pages of its image.
LEMMA DeallocHeld ==
  ASSUME Types, NEW p \in Proc, NEW d \in Page, d \in {pgdir[p], call[p].new, call[p].old},
         NEW lo \in Nat, NEW hi \in Nat, KERNEND <= lo, hi <= USEREND,
         NEW S \in SUBSET Page, S \subseteq Held(p), deallocuvm(d, hi, lo, S)
  PROVE  /\ \E F \in SUBSET Page : F \subseteq Held(p) /\ free' = free \cup F
         /\ lost' = lost
         /\ \A g \in Page : mem'[g] = mem[g] \/ g \in Held(p)
<1> PICK gone : gone = {va \in Pages(lo, hi) : Mapped(d, va)}
  OBVIOUS
<1> PICK G : G = {Pte(d, va).pa : va \in gone} \cup S
  OBVIOUS
<1>1. free' = free \cup G /\ lost' = lost
  BY DEF deallocuvm
<1>2. mem' = [g \in Page |->
        IF g \in G THEN Zero
        ELSE [i \in Idx |-> IF \E va \in gone : g = Table(d, va) /\ i = PTX(va)
                            THEN None ELSE mem[g][i]]]
  BY DEF deallocuvm
<1>3. /\ \A i \in Idx : To(d, i) # 0 => To(d, i) \in Held(p)
      /\ \A i, j \in Idx : To(d, i) # 0 /\ To(To(d, i), j) # 0 => To(To(d, i), j) \in Held(p)
  BY DirHeld
<1>4. ASSUME NEW va \in gone
      PROVE  /\ Table(d, va) \in Held(p) /\ Pte(d, va).pa \in Held(p) /\ Pte(d, va).pa \in Page
  <2>1. va \in Pages(lo, hi) /\ Mapped(d, va)
    OBVIOUS
  <2>2. PDX(va) \in Idx /\ PTX(va) \in Idx
    BY <2>1, UserAddress, Indexes
  <2>3. PICK i \in Idx, j \in Idx : i = PDX(va) /\ j = PTX(va)
    BY <2>2
  <2>4. Table(d, va) = To(d, i) /\ Pte(d, va).pa = To(To(d, i), j)
    BY <2>3 DEF Table, Pte, To
  <2>5. Pte(d, va).pa \in Page
    BY <2>1, MappedIs
  <2>6. To(d, i) # 0 /\ To(To(d, i), j) # 0
    BY <2>1, <2>4 DEF Mapped
  <2> QED
    BY <1>3, <2>4, <2>5, <2>6
<1>5. G \subseteq Held(p) /\ G \in SUBSET Page
  BY <1>4
<1>6. ASSUME NEW g \in Page, g \notin Held(p) PROVE mem'[g] = mem[g]
  <2>1. g \notin G /\ \A va \in gone : g # Table(d, va)
    BY <1>4, <1>5, <1>6
  <2>2. mem'[g] = [i \in Idx |-> mem[g][i]]
    BY <1>2, <2>1
  <2> QED
    BY <2>2 DEF Types
<1> QED
  BY <1>1, <1>5, <1>6

\* The loop gives up what it has in hand, and for execv() what it has mapped.
LEMMA UndoLedger ==
  ASSUME VmInv, Types', Shares, Shares', NEW p \in Proc, call[p].pc \in {"page", "map"},
         NEW S \in SUBSET Page, S = {call[p].page} \ {0}, Undo(p, S), UNCHANGED <<pgdir, kstack>>
  PROVE  LedgerStep
<1> USE DEF VmInv
<1>1. \A q \in Proc \ {p} : call'[q] = call[q]
  BY DEF Undo, Types
<1>2. \A q \in Proc \ {p} : \A k \in 1 .. 5 : Var(k, q)' = Var(k, q)
  BY <1>1, VarSame
<1>3. S \subseteq Held(p)
  BY PageHeld
<1>4. PICK L \in SUBSET Page : L = {}
  OBVIOUS
<1>5. Cardinality(L) <= KTABS
  BY <1>4, FS_EmptySet, Constants
<1>6. /\ \E F \in SUBSET Page : F \subseteq Held(p) /\ free' = free \cup F
      /\ lost' = lost
      /\ \A g \in Page : mem'[g] = mem[g] \/ g \in Held(p)
  <2>1. CASE call[p].op = "fork"
    <3>1. kfree(S) /\ lost' = lost
      BY <2>1 DEF Undo
    <3> QED
      BY <3>1, <1>3 DEF kfree
  <2>2. CASE call[p].op # "fork"
    <3>1. PICK c \in Call : c = call[p]
      BY DEF Types
    <3>2. PICK d \in Page : d = c.new
      BY <3>1, NewTree DEF Growing
    <3>3. deallocuvm(d, c.end, c.lo, S)
      BY <2>2, <3>1, <3>2 DEF Undo
    <3>4. Bounds(c, p)
      BY <3>1 DEF Control
    <3>5. c.lo \in Nat /\ c.end \in Nat /\ KERNEND <= c.lo /\ c.end <= USEREND
      BY <3>1, <3>4, Fields, Spaces DEF Bounds, Growing
    <3>6. d \in {pgdir[p], call[p].new, call[p].old}
      BY <3>1, <3>2
    <3> QED
      BY <1>3, <3>3, <3>5, <3>6, DeallocHeld
  <2> QED
    BY <2>1, <2>2
<1>7. PICK F \in SUBSET Page : F \subseteq Held(p) /\ free' = free \cup F
  BY <1>6
<1>8. lost' = lost \cup L
  BY <1>4, <1>6
<1>9. \A g \in Page : mem'[g] = mem[g] \/ g \in free \/ g \in Held(p)
  BY <1>6
<1> QED
  BY <1>2, <1>5, <1>7, <1>8, <1>9, LedgerDrop

\* The loop takes a page, or gives up.
LEMMA GetPageLedger ==
  ASSUME VmInv, Types', Shares, Shares', NEW p \in Proc, GetPage(p)
  PROVE  LedgerStep
<1> USE DEF VmInv
<1>1. call[p].pc = "page" /\ UNCHANGED <<pgdir, kstack>>
  BY DEF GetPage, At, proc
<1>2. CASE free = {}
  <2>1. Undo(p, {})
    BY <1>2 DEF GetPage
  <2>2. Shape(call[p], p)
    BY DEF Control
  <2>3. call[p].page = 0
    BY <1>1, <2>2 DEF Shape
  <2>4. PICK S \in SUBSET Page : S = {}
    OBVIOUS
  <2>5. S = {call[p].page} \ {0} /\ Undo(p, S)
    BY <2>1, <2>3, <2>4
  <2> QED
    BY <1>1, <2>5, UndoLedger
<1>3. CASE free # {}
  <2>1. PICK k \in free : k = kalloc
    BY <1>3, KallocIs
  <2>2. /\ free' = free \ {k} /\ mem' = [mem EXCEPT ![k] = Zero] /\ lost' = lost
        /\ call' = [call EXCEPT ![p].page = kalloc, ![p].pc = "map"]
    BY <1>3, <2>1 DEF GetPage
  <2>3. \A q \in Proc \ {p} : call'[q] = call[q]
    BY <2>2 DEF Types
  <2>4. \A q \in Proc \ {p} : \A l \in 1 .. 5 : Var(l, q)' = Var(l, q)
    BY <1>1, <2>3, VarSame
  <2>5. \A g \in Page : mem'[g] = mem[g] \/ g \in free \/ g \in Held(p)
    BY <2>2 DEF Types
  <2> QED
    BY <2>2, <2>4, <2>5, LedgerCall
<1> QED
  BY <1>2, <1>3

\* The loop maps its page, with a new table or not, or gives up.
LEMMA MapPageLedger ==
  ASSUME VmInv, Types', Shares, Shares', NEW p \in Proc, MapPage(p)
  PROVE  LedgerStep
<1> USE DEF VmInv
<1> PICK c \in Call : c = call[p]
  BY DEF Types
<1>1. c.pc = "map" /\ UNCHANGED <<pgdir, kstack>> /\ Shape(c, p) /\ Bounds(c, p)
  BY DEF MapPage, At, proc, Control
<1> PICK d \in Page : d = c.new
  BY <1>1, NewTree DEF Growing
<1> PICK t : t = Table(d, c.va)
  OBVIOUS
<1>2. CASE t = 0 /\ free = {}
  <2>1. Undo(p, {c.page})
    BY <1>2 DEF MapPage
  <2>2. c.page \in Page /\ c.page # 0
    BY <1>1, Fields DEF Shape
  <2>3. PICK S \in SUBSET Page : S = {c.page}
    BY <2>2
  <2>4. S = {call[p].page} \ {0} /\ Undo(p, S)
    BY <2>1, <2>2, <2>3
  <2>5. call[p].pc \in {"page", "map"}
    BY <1>1
  <2> QED
    BY <1>1, <2>4, <2>5, UndoLedger
<1>3. CASE ~(t = 0 /\ free = {})
  <2>1. lost' = lost /\ call' = [call EXCEPT ![p].page = 0, ![p].va = c.va + PAGESIZE, ![p].pc = "page"]
    BY <1>3 DEF MapPage
  <2>2. \A q \in Proc \ {p} : call'[q] = call[q]
    BY <2>1 DEF Types
  <2>3. \A q \in Proc \ {p} : \A l \in 1 .. 5 : Var(l, q)' = Var(l, q)
    BY <1>1, <2>2, VarSame
  <2>4. d \in Held(p)
    BY DirHeld
  <2>5. CASE t # 0
    <3>1. PDX(c.va) \in Idx
      <4>1. /\ c.va \in Nat /\ c.end \in Nat /\ c.va % PAGESIZE = 0 /\ KERNEND <= c.va
            /\ c.va < c.end /\ c.end <= USEREND
        BY <1>1, Fields DEF Bounds
      <4>2. c.va < TablesEnd
        BY <4>1, Bounded
      <4> QED
        BY <4>1, <4>2, Decode, Indexes
    <3>2. PICK i \in Idx : i = PDX(c.va)
      BY <3>1
    <3>3. t = To(d, i)
      BY <3>2 DEF Table, To
    <3>4. t \in Held(p)
      BY <2>5, <3>3, DirHeld
    <3>5. PICK j, e : mem' = [mem EXCEPT ![t][j] = e] /\ free' = free
      BY <2>5 DEF MapPage
    <3>6. \A g \in Page : mem'[g] = mem[g] \/ g \in free \/ g \in Held(p)
      BY <3>4, <3>5 DEF Types
    <3> QED
      BY <2>1, <2>3, <3>5, <3>6, LedgerCall
  <2>6. CASE t = 0
    <3>1. PICK k \in free : k = kalloc
      BY <1>3, <2>6, KallocIs
    <3> PICK b, e : b = [pa |-> c.page, u |-> Flags(p)] /\ e = [pa |-> k, u |-> TRUE]
      OBVIOUS
    <3> PICK z, i : z = [Zero EXCEPT ![PTX(c.va)] = b] /\ i = PDX(c.va)
      OBVIOUS
    <3>2. mem' = [mem EXCEPT ![k] = z, ![d][i] = e] /\ free' = free \ {k}
      BY <1>3, <2>6, <3>1 DEF MapPage
    <3>3. \A g \in Page : g # k /\ g # d => mem'[g] = mem[g]
      BY <3>2 DEF Types
    <3>4. \A g \in Page : mem'[g] = mem[g] \/ g \in free \/ g \in Held(p)
      BY <3>3, <2>4
    <3> QED
      BY <2>1, <2>3, <3>2, <3>4, LedgerCall
  <2> QED
    BY <2>5, <2>6
<1> QED
  BY <1>2, <1>3

\* execv() has its stack, and takes away the flag of the page below.
LEMMA GrownLedger ==
  ASSUME VmInv, Types', Shares, Shares', NEW p \in Proc, Grown(p)
  PROVE  LedgerStep
<1> USE DEF VmInv
<1> PICK c \in Call : c = call[p]
  BY DEF Types
<1>1. c.pc = "page" /\ UNCHANGED <<pgdir, kstack, free, lost>> /\ Shape(c, p) /\ Bounds(c, p)
  BY DEF Grown, At, proc, Control
<1>2. \A q \in Proc \ {p} : call'[q] = call[q]
  BY DEF Grown, Types
<1>3. \A q \in Proc \ {p} : \A k \in 1 .. 5 : Var(k, q)' = Var(k, q)
  BY <1>1, <1>2, VarSame
<1> PICK d \in Page : d = c.new
  BY <1>1, NewTree DEF Growing
<1>4. CASE c.img # << >>
  <2>1. mem' = mem
    BY <1>4 DEF Grown
  <2> QED
    BY <2>1, <1>1, <1>3, LedgerCall
<1>5. CASE c.img = << >>
  <2>1. c.lo \in Nat /\ KERNEND <= c.lo /\ c.lo < USEREND
    <3>1. /\ c.lo \in Nat /\ c.end \in Nat /\ KERNEND <= c.lo /\ c.end <= USEREND
          /\ c.end = c.lo + 2 * PAGESIZE
      <4>1. c.op = "execv"
        BY DEF Grown
      <4> QED
        BY <1>1, <1>5, <4>1, Fields DEF Bounds, Growing
    <3> QED
      BY <3>1, Spaces
  <2>2. PDX(c.lo) \in Idx
    <3>1. c.lo % PAGESIZE = 0
      <4>1. c.op = "execv"
        BY DEF Grown
      <4> QED
        BY <1>1, <1>5, <4>1 DEF Bounds
    <3>2. c.lo < TablesEnd
      BY <2>1, Bounded
    <3> QED
      BY <2>1, <3>1, <3>2, Decode, Indexes
  <2>3. PICK i \in Idx : i = PDX(c.lo)
    BY <2>2
  <2>4. PICK t : t = Table(d, c.lo) /\ t = To(d, i)
    BY <2>3 DEF Table, To
  <2>5. PICK j : mem' = [mem EXCEPT ![t][j].u = FALSE]
    BY <1>5, <2>4 DEF Grown
  <2>6. \A g \in Page : g # t => mem'[g] = mem[g]
    BY <2>5 DEF Types
  <2>7. t # 0 => t \in Held(p)
    BY <2>4, DirHeld
  <2>8. \A g \in Page : mem'[g] = mem[g] \/ g \in free \/ g \in Held(p)
    BY <2>6, <2>7, Constants
  <2> QED
    BY <2>8, <1>1, <1>3, LedgerCall
<1> QED
  BY <1>4, <1>5

\* The other steps that neither take nor return a page.
LEMMA QuietLedger ==
  ASSUME Types, Types', Shares, Shares', NEW p \in Proc,
         \/ Exit(p) \/ Wait(p) \/ (\E img \in Image : Execv(p, img)) \/ Segment(p) \/ Load(p)
         \/ Commit(p) \/ LoadCr3(p) \/ Switch(p)
  PROVE  LedgerStep
<1>1. UNCHANGED <<free, lost, mem, kstack>>
  BY DEF Exit, Wait, Execv, Segment, Load, Commit, LoadCr3, Switch, proc
<1>2. \A q \in Proc \ {p} : call'[q] = call[q]
  <2>1. CASE Exit(p) \/ Switch(p)
    BY <2>1 DEF Exit, Switch
  <2>2. CASE Wait(p) \/ Load(p) \/ LoadCr3(p) \/ Commit(p)
    BY <2>2 DEF Wait, Load, LoadCr3, Commit, Goto, Types
  <2>3. CASE \E img \in Image : Execv(p, img)
    BY <2>3 DEF Execv, Types
  <2>4. CASE Segment(p)
    BY <2>4 DEF Segment, allocuvm, Goto, Types
  <2> QED
    BY <2>1, <2>2, <2>3, <2>4
<1>3. \A q \in Proc \ {p} : pgdir'[q] = pgdir[q]
  BY DEF Exit, Wait, Execv, Segment, Load, Commit, LoadCr3, Switch, proc, Types
<1> QED
  BY <1>1, <1>2, <1>3, LedgerQuiet

\* fork() takes the child's stack.
LEMMA ForkLedger ==
  ASSUME VmInv, Types', Shares, Shares', NEW p \in Proc, Fork(p)
  PROVE  LedgerStep
<1> USE DEF VmInv
<1> PICK n : n = CHOOSE q \in Unused : \A r \in Unused : q <= r
  OBVIOUS
<1>1. n \in Proc /\ stat[n] = "UNUSED" /\ stat[p] = "RUN" /\ call[p].pc = "user"
  <2>1. PICK q \in Unused : \A r \in Unused : q <= r
    <3>1. Unused \subseteq Nat /\ Unused # {}
      BY DEF Fork, Unused, Proc
    <3> QED
      BY <3>1, Least
  <2>2. n \in Unused
    BY <2>1
  <2> QED
    BY <2>2 DEF Unused, Fork, At, Running
<1>2. n # p
  BY <1>1
<1>3. PICK k \in free : k = kalloc
  BY KallocIs DEF Fork
<1>4. PICK e : e = [User EXCEPT !.op = "fork", !.pc = "dir", !.np = n]
  OBVIOUS
<1>5. /\ free' = free \ {k} /\ UNCHANGED <<mem, pgdir, lost>> /\ kstack' = [kstack EXCEPT ![n] = k]
      /\ call' = [call EXCEPT ![p] = e, ![n] = User]
  BY <1>3, <1>4 DEF Fork
<1>6. e.new = 0 /\ e.old = 0 /\ e.page = 0
  BY <1>4 DEF User
<1>7. /\ call'[p] = e /\ \A q \in Proc \ {p, n} : call'[q] = call[q]
      /\ \A q \in Proc \ {n} : kstack'[q] = kstack[q]
  BY <1>1, <1>2, <1>5 DEF Types
<1>8. call[p].new = 0 /\ call[p].old = 0 /\ call[p].page = 0
  <2>1. Shape(call[p], p)
    BY DEF Control
  <2> QED
    BY <2>1, <1>1 DEF Shape
<1>9. ASSUME NEW q \in Proc \ {n}, NEW l \in 1 .. 5 PROVE Var(l, q)' = Var(l, q)
  <2>1. kstack'[q] = kstack[q] /\ pgdir'[q] = pgdir[q]
    BY <1>5, <1>7
  <2>2. CASE q = p
    BY <2>1, <2>2, <1>6, <1>7, <1>8 DEF Var
  <2>3. CASE q # p
    BY <2>1, <2>3, <1>7 DEF Var
  <2> QED
    BY <2>2, <2>3
<1>10. \A g \in Page : mem'[g] = mem[g] \/ g \in free \/ g \in Held(n)
  BY <1>5
<1> QED
  BY <1>1, <1>5, <1>9, <1>10, LedgerCall

\* The child gets the address space.
LEMMA ForkedLedger ==
  ASSUME VmInv, Types', Shares, Shares', NEW p \in Proc, Forked(p)
  PROVE  LedgerStep
<1> USE DEF VmInv
<1> PICK c \in Call : c = call[p]
  BY DEF Types
<1> PICK n : n = c.np
  OBVIOUS
<1>1. /\ stat[p] = "RUN" /\ c.pc = "page" /\ c.op = "fork"
      /\ pgdir' = [pgdir EXCEPT ![n] = c.new]
      /\ call' = [call EXCEPT ![p] = User] /\ UNCHANGED <<free, mem, kstack, lost>>
  BY DEF Forked, At, Running, Return
<1>2. Shape(c, p)
  BY DEF Control
<1>3. n \in Proc /\ stat[n] = "SET" /\ n # p
  BY <1>1, <1>2 DEF Shape
<1>4. /\ call'[p] = User /\ \A q \in Proc \ {p} : call'[q] = call[q]
      /\ \A q \in Proc \ {n} : pgdir'[q] = pgdir[q]
  BY <1>1, <1>3 DEF Types
<1>5. /\ pgdir[n] = 0 /\ call[n].new = 0 /\ call[n].old = 0 /\ call[n].page = 0
      /\ kstack[n] # 0
  <2>1. Shape(call[n], n)
    BY <1>3 DEF Control
  <2>2. call[n].pc = "user"
    BY <1>3, <2>1 DEF Shape
  <2> QED
    BY <1>3, <2>1, <2>2 DEF Shape
<1> PICK s \in Page : s = kstack[n]
  BY <1>3, <1>5 DEF Types
<1>6. Held(n) = {s}
  <2>1. /\ Held(n) = ({kstack[n], call[n].page} \ {0})
                       \cup Tree(pgdir[n]) \cup Tree(call[n].new) \cup Tree(call[n].old)
        /\ Tree(pgdir[n]) = {} /\ Tree(call[n].new) = {} /\ Tree(call[n].old) = {}
    BY <1>5 DEF Held, Tree
  <2> QED
    BY <2>1, <1>5
<1>7. Held(n) \subseteq Held(n)'
  <2>1. kstack'[n] = s /\ s # 0
    BY <1>1, <1>5
  <2>2. s \in Held(n)'
    BY <2>1 DEF Held
  <2> QED
    BY <2>2, <1>6
<1>8. Held(p)' \subseteq Held(p)
  <2>1. Tree(pgdir[p])' = Tree(pgdir[p])
    <3>1. mem' = mem /\ pgdir'[p] = pgdir[p]
      BY <1>1, <1>3, <1>4
    <3> QED
      BY <3>1 DEF Tree
  <2>2. Tree(call[p].new)' = {} /\ Tree(call[p].old)' = {} /\ call'[p].page = 0
    BY <1>4, UserIs DEF Tree
  <2>3. kstack'[p] = kstack[p]
    BY <1>1
  <2> QED
    BY <2>1, <2>2, <2>3 DEF Held
<1>9. Apart({p, n})
  <2>1. PICK Q \in SUBSET Proc : Q = {p, n}
    BY <1>3
  <2>2. \A q \in Proc \ Q : \A k \in 1 .. 5 : Var(k, q)' = Var(k, q)
    <3> SUFFICES ASSUME NEW q \in Proc, q # p, q # n PROVE \A k \in 1 .. 5 : Var(k, q)' = Var(k, q)
      BY <2>1
    <3>1. call'[q] = call[q] /\ kstack'[q] = kstack[q] /\ pgdir'[q] = pgdir[q]
      BY <1>1, <1>4
    <3> QED
      BY <3>1, VarSame
  <2>3. \A g \in Page : mem'[g] = mem[g] \/ g \in free \/ \E r \in Q : g \in Held(r)
    BY <1>1
  <2>4. Apart(Q)
    BY <2>2, <2>3, ApartIs
  <2> QED
    BY <2>1, <2>4
<1> QED
  BY <1>1, <1>3, <1>6, <1>7, <1>8, <1>9, LedgerEndow DEF LedgerStep

\* freevm() of directories of the processes of Q, with other pages of theirs.
LEMMA FreevmHeld ==
  ASSUME Types, NEW Q \in SUBSET Proc, NEW D \in SUBSET Page, NEW S \in SUBSET Page, freevm(D, S),
         \A d \in D : /\ Below(d, USEREND)
                      /\ \E q \in Q : d \in {pgdir[q], call[q].new, call[q].old},
         \A x \in S : \E q \in Q : x \in Held(q)
  PROVE  /\ \E F \in SUBSET Page : /\ \A x \in F : \E q \in Q : x \in Held(q)
                                   /\ free' = free \cup F
         /\ lost' = lost \cup UNION {KernTables(d) : d \in D}
         /\ UNION {KernTables(d) : d \in D} \subseteq Page
         /\ \A g \in Page : mem'[g] = mem[g] \/ \E q \in Q : g \in Held(q)
<1> PICK F : F = S \cup UNION {Freed(d) : d \in D}
  OBVIOUS
<1>1. /\ free' = free \cup F /\ lost' = lost \cup UNION {KernTables(d) : d \in D}
      /\ mem' = [g \in Page |-> IF g \in F THEN Zero ELSE mem[g]]
  BY DEF freevm, kfree
<1>2. ASSUME NEW d \in D, NEW x \in Freed(d) PROVE x \in Page /\ \E q \in Q : x \in Held(q)
  <2>1. PICK q \in Q : d \in {pgdir[q], call[q].new, call[q].old}
    OBVIOUS
  <2>2. /\ d \in Held(q)
        /\ \A i \in Idx : To(d, i) # 0 => To(d, i) \in Held(q)
        /\ \A i, j \in Idx : To(d, i) # 0 /\ To(To(d, i), j) # 0 => To(To(d, i), j) \in Held(q)
    BY <2>1, DirHeld
  <2>3. /\ x \in Page
        /\ \/ x = d
           \/ \E i \in UIdx : To(d, i) = x
           \/ \E i \in UIdx, j \in Idx : To(d, i) # 0 /\ To(To(d, i), j) = x
    BY WithinIs
  <2>4. x # 0 /\ UIdx \subseteq Idx
    BY <2>3, Constants, Indexes
  <2> QED
    BY <2>2, <2>3, <2>4
<1>3. F \subseteq Page /\ \A x \in F : \E q \in Q : x \in Held(q)
  BY <1>2
<1>4. UNION {KernTables(d) : d \in D} \subseteq Page
  BY FreedPages
<1>5. \A g \in Page : mem'[g] = mem[g] \/ \E q \in Q : g \in Held(q)
  BY <1>1, <1>3
<1> QED
  BY <1>1, <1>3, <1>4, <1>5

\* freevm() of one directory of p, or of none: the end of a call.
LEMMA FreevmLedger ==
  ASSUME VmInv, Types', Shares, Shares', NEW p \in Proc, NEW o \in Page \cup {0},
         freevm({o} \ {0}, {}),
         o # 0 => /\ o \in {pgdir[p], call[p].new, call[p].old}
                  /\ Below(o, USEREND) /\ \E n \in 0 .. KTABS : KernUpto(o, n),
         \A q \in Proc \ {p} : call'[q] = call[q], UNCHANGED <<pgdir, kstack>>
  PROVE  LedgerStep
<1> USE DEF VmInv
<1>1. \A q \in Proc \ {p} : \A k \in 1 .. 5 : Var(k, q)' = Var(k, q)
  BY VarSame
<1>2. PICK D \in SUBSET Page, S \in SUBSET Page, Q \in SUBSET Proc : D = {o} \ {0} /\ S = {} /\ Q = {p}
  OBVIOUS
<1>3. freevm(D, S)
  BY <1>2
<1>4. \A d \in D : Below(d, USEREND) /\ \E q \in Q : d \in {pgdir[q], call[q].new, call[q].old}
  BY <1>2
<1>5. \A x \in S : \E q \in Q : x \in Held(q)
  BY <1>2
<1>6. PICK L : L = UNION {KernTables(d) : d \in D}
  OBVIOUS
<1>7. /\ \E F \in SUBSET Page : /\ \A x \in F : \E q \in Q : x \in Held(q)
                                /\ free' = free \cup F
      /\ lost' = lost \cup UNION {KernTables(d) : d \in D}
      /\ UNION {KernTables(d) : d \in D} \subseteq Page
      /\ \A g \in Page : mem'[g] = mem[g] \/ \E q \in Q : g \in Held(q)
  BY <1>3, <1>4, <1>5, FreevmHeld, Zenon
<1>8. /\ \E F \in SUBSET Page : /\ \A x \in F : \E q \in Q : x \in Held(q)
                                /\ free' = free \cup F
      /\ lost' = lost \cup L /\ L \subseteq Page
      /\ \A g \in Page : mem'[g] = mem[g] \/ \E q \in Q : g \in Held(q)
  BY <1>6, <1>7, Zenon
<1>9. PICK F \in SUBSET Page : F \subseteq Held(p) /\ free' = free \cup F
  BY <1>2, <1>8
<1>10. \A g \in Page : mem'[g] = mem[g] \/ g \in free \/ g \in Held(p)
  BY <1>2, <1>8
<1>11. Cardinality(L) <= KTABS
  <2>1. CASE o = 0
    <3>1. L = {}
      BY <1>2, <1>6, <2>1
    <3> QED
      BY <3>1, FS_EmptySet, Constants
  <2>2. CASE o # 0
    <3>1. L = KernTables(o) /\ o \in Page
      BY <1>2, <1>6, <2>2
    <3>2. PICK n \in 0 .. KTABS : KernUpto(o, n)
      BY <2>2
    <3>3. n \in Nat /\ n <= KTABS /\ n <= PDX(KERNEND)
      BY <3>2, Constants, Bounded
    <3>4. Cardinality(KernTables(o)) = n
      BY <3>1, <3>2, <3>3, KernCount
    <3> QED
      BY <3>1, <3>3, <3>4
  <2> QED
    BY <2>1, <2>2
<1> QED
  BY <1>1, <1>8, <1>9, <1>10, <1>11, LedgerDrop

\* A call that failed returns the directory it was building.
LEMMA BadLedger ==
  ASSUME VmInv, Types', Shares, Shares', NEW p \in Proc, Bad(p)
  PROVE  LedgerStep
<1> USE DEF VmInv
<1> PICK c \in Call : c = call[p]
  BY DEF Types
<1>1. c.pc = "bad" /\ freevm({c.new} \ {0}, {}) /\ UNCHANGED <<pgdir, kstack>> /\ TreesOf(c, p)
  BY DEF Bad, At, proc, Trees
<1>2. \A q \in Proc \ {p} : call'[q] = call[q]
  BY DEF Bad, Return, Types
<1> PICK d \in Page \cup {0} : d = c.new
  BY Fields
<1>3. ASSUME d # 0
      PROVE  /\ d \in {pgdir[p], call[p].new, call[p].old}
             /\ Below(d, USEREND) /\ \E n \in 0 .. KTABS : KernUpto(d, n)
  <2>1. KernOf(c) /\ Below(d, NTop(c)) /\ NTop(c) = USEREND
    BY <1>1, <1>3 DEF TreesOf, NTop
  <2> QED
    BY <2>1 DEF KernOf
<1> QED
  BY <1>1, <1>2, <1>3, FreevmLedger

\* execv() returns the directory it has replaced.
LEMMA FreeOldLedger ==
  ASSUME VmInv, Types', Shares, Shares', NEW p \in Proc, FreeOld(p)
  PROVE  LedgerStep
<1> USE DEF VmInv
<1> PICK c \in Call : c = call[p]
  BY DEF Types
<1>1. /\ c.pc = "freeold" /\ freevm({c.old}, {}) /\ UNCHANGED <<pgdir, kstack>>
      /\ TreesOf(c, p) /\ Shape(c, p)
  BY DEF FreeOld, At, Trees, Control
<1>2. \A q \in Proc \ {p} : call'[q] = call[q]
  BY DEF FreeOld, Return, Types
<1> PICK d \in Page : d = c.old
  BY <1>1, Fields DEF Shape
<1>3. d # 0 /\ {d} \ {0} = {d}
  BY Constants
<1>4. freevm({d} \ {0}, {})
  BY <1>1, <1>3
<1>5. d \in {pgdir[p], call[p].new, call[p].old} /\ Below(d, USEREND) /\ KernUpto(d, KTABS)
  BY <1>1, <1>3 DEF TreesOf
<1>6. \E n \in 0 .. KTABS : KernUpto(d, n)
  BY <1>5, Constants
<1> QED
  BY <1>1, <1>2, <1>4, <1>5, <1>6, FreevmLedger

\* Each directory has as many tables of the kernel as it should.
LEMMA KernTotal ==
  ASSUME VmInv, NEW Q \in SUBSET Proc, NEW D \in SUBSET Page,
         \A d \in D : \E q \in Q : d = pgdir[q]
  PROVE  Cardinality(UNION {KernTables(d) : d \in D}) <= KTABS * Cardinality(Q)
<1> USE DEF VmInv
<1> PICK m \in Nat : m = KTABS - 1 /\ KTABS = m + 1
  BY Constants
<1> PICK R : R = {r \in Q \X (0 .. m) : pgdir[r[1]] \in D}
  OBVIOUS
<1> PICK L : L = UNION {KernTables(d) : d \in D}
  OBVIOUS
<1> PICK f : f = [r \in R |-> To(pgdir[r[1]], r[2])]
  OBVIOUS
<1>1. ASSUME NEW q \in Q, pgdir[q] \in D
      PROVE  \A x : x \in KernTables(pgdir[q]) <=> \E i \in 0 .. m : x = To(pgdir[q], i)
  <2>1. PICK d \in Page : d = pgdir[q]
    BY <1>1
  <2>2. KernUpto(d, KTABS)
    <3>1. TreesOf(call[q], q) /\ d # 0
      BY <2>1, Constants DEF Trees
    <3> QED
      BY <2>1, <3>1 DEF TreesOf
  <2>3. KernTables(d) = {To(d, i) : i \in KIdx} \ {0}
    BY DEF KernTables, To, KIdx
  <2>4. /\ \A i \in 0 .. m : i \in KIdx /\ i < KTABS
        /\ \A i \in KIdx : i < KTABS => i \in 0 .. m
    <3>1. PDX(KERNEND) \in Nat /\ m < PDX(KERNEND)
      BY Bounded, Constants
    <3>2. PICK k \in Nat : k = PDX(KERNEND) /\ m < k
      BY <3>1
    <3> QED
      BY <3>2 DEF KIdx
  <2>5. \A i \in KIdx : To(d, i) # 0 <=> i < KTABS
    BY <2>2 DEF KernUpto
  <2> QED
    BY <2>1, <2>3, <2>4, <2>5
<1>2. ASSUME NEW r \in R PROVE f[r] \in L
  <2>1. PICK q \in Q, i \in 0 .. m : r = <<q, i>>
    OBVIOUS
  <2>2. pgdir[q] \in D /\ f[r] = To(pgdir[q], i)
    BY <2>1
  <2>3. f[r] \in KernTables(pgdir[q])
    BY <1>1, <2>2
  <2> QED
    BY <2>2, <2>3
<1>3. ASSUME NEW x \in L PROVE \E r \in R : f[r] = x
  <2>1. PICK d \in D : x \in KernTables(d)
    OBVIOUS
  <2>2. PICK q \in Q : d = pgdir[q]
    OBVIOUS
  <2>3. PICK i \in 0 .. m : x = To(pgdir[q], i)
    BY <1>1, <2>1, <2>2
  <2>4. <<q, i>> \in R /\ <<q, i>>[1] = q /\ <<q, i>>[2] = i
    BY <2>2
  <2> QED
    BY <2>3, <2>4
<1>4. f \in Surjection(R, L)
  BY <1>2, <1>3 DEF Surjection
<1>5. IsFiniteSet(Q) /\ Cardinality(Q) \in Nat
  <2>1. IsFiniteSet(Proc)
    BY Constants, FS_Interval DEF Proc
  <2> QED
    BY <2>1, FS_Subset, FS_CardinalityType
<1>6. IsFiniteSet(0 .. m) /\ Cardinality(0 .. m) = KTABS
  BY FS_Interval
<1>7. IsFiniteSet(Q \X (0 .. m)) /\ Cardinality(Q \X (0 .. m)) = Cardinality(Q) * KTABS
  BY <1>5, <1>6, FS_Product
<1>8. R \in SUBSET (Q \X (0 .. m))
  OBVIOUS
<1>9. IsFiniteSet(R) /\ Cardinality(R) <= Cardinality(Q) * KTABS
  BY <1>7, <1>8, FS_Subset
<1>10. IsFiniteSet(L) /\ Cardinality(L) <= Cardinality(R)
  BY <1>4, <1>9, FS_Surjection
<1> PICK a, b, n : a = Cardinality(L) /\ b = Cardinality(R) /\ n = Cardinality(Q)
  OBVIOUS
<1>11. a \in Nat /\ b \in Nat /\ n \in Nat /\ KTABS \in Nat
  BY <1>5, <1>9, <1>10, FS_CardinalityType, Constants
<1>12. n * KTABS = KTABS * n /\ n * KTABS \in Nat
  BY <1>11
<1> QED
  BY <1>9, <1>10, <1>11, <1>12

\* pfree() of the processes of Q, none of which is in a call.
LEMMA PfreeLedger ==
  ASSUME VmInv, Types', Shares, Shares', NEW p \in Proc, NEW Q \in SUBSET Proc, pfree(Q),
         p \notin Q, \A q \in Q : stat[q] \in {"SET", "ZOMB"}, call[p].pc \in {"wait", "unfork"},
         call' = [call EXCEPT ![p] = User]
  PROVE  LedgerStep
<1> USE DEF VmInv
<1>1. /\ \A q \in Q : kstack'[q] = 0 /\ pgdir'[q] = 0
      /\ \A q \in Proc \ Q : kstack'[q] = kstack[q] /\ pgdir'[q] = pgdir[q]
  BY PfreeIs
<1>2. call'[p] = User /\ \A q \in Proc \ {p} : call'[q] = call[q]
  BY UserIs DEF Types
<1>3. call[p].new = 0 /\ call[p].old = 0 /\ call[p].page = 0
  BY DEF Control, Shape
<1>4. ASSUME NEW q \in Q
      PROVE  /\ call[q].pc = "user" /\ call[q].new = 0 /\ call[q].old = 0 /\ call[q].page = 0
             /\ q # p
  BY DEF Control, Shape
<1>5. PICK D \in SUBSET Page, S \in SUBSET Page : D = Pgdirs(Q) /\ S = Kstacks(Q)
  BY PfreeIs
<1>6. freevm(D, S)
  BY <1>5 DEF pfree
<1>7. /\ \A x : x \in D <=> \E q \in Q : pgdir[q] = x /\ x # 0
      /\ \A x : x \in S <=> \E q \in Q : kstack[q] = x /\ x # 0
  BY <1>5 DEF Pgdirs, Kstacks
<1>8. \A d \in D : Below(d, USEREND) /\ \E q \in Q : d \in {pgdir[q], call[q].new, call[q].old}
  <2> SUFFICES ASSUME NEW d \in D, NEW q \in Q, pgdir[q] = d, d # 0
               PROVE  Below(d, USEREND)
    BY <1>7
  <2>1. PICK x \in Nat : x = KERNEND + size[q] /\ x <= USEREND
    <3>1. size[q] \in Nat /\ size[q] <= USEREND - KERNEND
      BY DEF Control, Shape, Types
    <3> QED
      BY <3>1, Spaces
  <2>2. Below(d, x)
    <3>1. TreesOf(call[q], q) /\ call[q].pc = "user"
      BY <1>4 DEF Trees
    <3> QED
      BY <2>1, <3>1 DEF TreesOf, PTop
  <2>3. \A a \in Nat : a < x => a < USEREND
    BY <2>1, Spaces
  <2> QED
    BY <2>2, <2>3, Encode DEF Below
<1>9. \A x \in S : \E q \in Q : x \in Held(q)
  BY <1>7, PageHeld
<1> PICK L : L = UNION {KernTables(d) : d \in D}
  OBVIOUS
<1>10. /\ \E F \in SUBSET Page : /\ \A x \in F : \E q \in Q : x \in Held(q)
                                 /\ free' = free \cup F
       /\ lost' = lost \cup L /\ L \subseteq Page
       /\ \A g \in Page : mem'[g] = mem[g] \/ \E q \in Q : g \in Held(q)
  BY <1>6, <1>8, <1>9, FreevmHeld
<1>11. PICK F \in SUBSET Page : (\A x \in F : \E q \in Q : x \in Held(q)) /\ free' = free \cup F
  BY <1>10
<1>12. Cardinality(L) <= KTABS * Cardinality(Q)
  <2>1. \A d \in D : \E q \in Q : d = pgdir[q]
    BY <1>7
  <2> QED
    BY <2>1, KernTotal
<1>13. Apart(Q)
  <2>1. ASSUME NEW q \in Proc \ Q PROVE \A k \in 1 .. 5 : Var(k, q)' = Var(k, q)
    <3>1. CASE q = p
      BY <3>1, <1>1, <1>2, <1>3, UserIs DEF Var
    <3>2. CASE q # p
      BY <3>2, <1>1, <1>2 DEF Var
    <3> QED
      BY <3>1, <3>2
  <2>2. \A g \in Page : mem'[g] = mem[g] \/ g \in free \/ \E r \in Q : g \in Held(r)
    BY <1>10
  <2> QED
    BY <2>1, <2>2, ApartIs
<1>14. ASSUME NEW q \in Q PROVE Held(q)' = {}
  <2>1. kstack'[q] = 0 /\ pgdir'[q] = 0 /\ call'[q].new = 0 /\ call'[q].old = 0 /\ call'[q].page = 0
    BY <1>1, <1>2, <1>4
  <2>2. Tree(pgdir[q])' = {} /\ Tree(call[q].new)' = {} /\ Tree(call[q].old)' = {}
    BY <2>1 DEF Tree
  <2> QED
    BY <2>1, <2>2 DEF Held
<1>15. L \in SUBSET Page /\ lost' = lost \cup L
  BY <1>10
<1> QED
  BY <1>11, <1>12, <1>13, <1>14, <1>15, LedgerReap DEF LedgerStep

\* fork() failed: the child's stack goes back.
LEMMA UnforkLedger ==
  ASSUME VmInv, Types', Shares, Shares', NEW p \in Proc, Unfork(p)
  PROVE  LedgerStep
<1> USE DEF VmInv
<1>1. /\ stat[p] = "RUN" /\ call[p].pc = "unfork" /\ pfree({call[p].np})
      /\ call' = [call EXCEPT ![p] = User]
  BY DEF Unfork, At, Running, Return
<1>2. Shape(call[p], p)
  BY DEF Control
<1>3. call[p].op = "fork"
  BY <1>1, <1>2, Fields DEF Shape, Types
<1>4. call[p].np \in Proc /\ stat[call[p].np] = "SET"
  BY <1>2, <1>3 DEF Shape
<1>5. PICK Q \in SUBSET Proc : Q = {call[p].np}
  BY <1>4
<1>6. p \notin Q /\ \A q \in Q : stat[q] \in {"SET", "ZOMB"}
  BY <1>1, <1>4, <1>5
<1> QED
  BY <1>1, <1>5, <1>6, PfreeLedger

\* wait() frees the stacks and the directories of the zombies.
LEMMA CollectLedger ==
  ASSUME VmInv, Types', Shares, Shares', NEW p \in Proc, Collect(p)
  PROVE  LedgerStep
<1>1. PICK Q \in SUBSET Proc : Q = {q \in Proc : pproc[q] = p /\ stat[q] = "ZOMB"}
  OBVIOUS
<1>2. /\ stat[p] = "RUN" /\ call[p].pc = "wait" /\ pfree(Q)
      /\ call' = [call EXCEPT ![p] = User]
  BY <1>1 DEF Collect, At, Running, Return
<1>3. p \notin Q /\ \A q \in Q : stat[q] \in {"SET", "ZOMB"}
  BY <1>1, <1>2
<1> QED
  BY <1>2, <1>3, PfreeLedger

\* At first one process has all pages that are not free.
LEMMA InitLedger ==
  ASSUME Init
  PROVE  Ledger!Init
<1>1. Types /\ Own
  BY InitControl, InitMem
<1>2. Shares /\ free \subseteq Page /\ lost = {} /\ Boot \in Proc
  BY <1>1, SharesIs, Constants DEF Init, Shares
<1>3. ASSUME NEW q \in Proc, q # Boot PROVE Held(q) = {}
  <2>1. kstack[q] = 0 /\ pgdir[q] = 0 /\ call[q] = User
    BY <1>3 DEF Init
  <2>2. Tree(pgdir[q]) = {} /\ Tree(call[q].new) = {} /\ Tree(call[q].old) = {} /\ call[q].page = 0
    BY <2>1, UserIs DEF Tree
  <2> QED
    BY <2>1, <2>2 DEF Held
<1>4. Held(Boot) = Page \ free
  BY <1>2, <1>3 DEF Shares
<1>5. Whose = {<<Boot, x>> : x \in Page \ free}
  BY <1>2, <1>3, <1>4 DEF Whose
<1> QED
  BY <1>2, <1>5 DEF Ledger!Init, Whose

\* Every step is one of the ledger, or changes nothing there.
LEMMA NextLedger ==
  ASSUME VmInv, VmInv', [Next]_vars
  PROVE  LedgerStep
<1>1. Types /\ Types' /\ Shares /\ Shares'
  BY SharesIs, SharesNext DEF VmInv
<1>2. CASE UNCHANGED memory
  <2>1. UNCHANGED <<free, lost, mem, kstack, pgdir, call>>
    BY <1>2 DEF memory, proc
  <2> QED
    BY <2>1, <1>1, Constants, LedgerQuiet
<1>3. CASE \E p \in Proc : Build(p) \/ Process(p) \/ Exec(p) \/ Switch(p)
  <2>1. PICK p \in Proc : Build(p) \/ Process(p) \/ Exec(p) \/ Switch(p)
    BY <1>3
  <2>2. CASE Build(p)
    BY <2>2, <1>1, NewDirLedger, NewKernTableLedger, GetPageLedger, MapPageLedger DEF Build
  <2>3. CASE Process(p)
    BY <2>3, <1>1, ForkLedger, ForkedLedger, QuietLedger, CollectLedger, BadLedger, UnforkLedger
       DEF Process
  <2>4. CASE Exec(p)
    BY <2>4, <1>1, QuietLedger, GrownLedger, FreeOldLedger DEF Exec
  <2>5. CASE Switch(p)
    BY <2>5, <1>1, QuietLedger
  <2> QED
    BY <2>1, <2>2, <2>3, <2>4, <2>5
<1> QED
  BY <1>2, <1>3, StepIs

\* Fork, execv, exit and wait, taken apart at every allocation, keep the
\* ledger, for every number of processes and pages, every size of page and
\* table, and every program: a page that a process holds stays its own
\* whatever the others do, a call that fails returns what it took, and a
\* reaped process leaves nothing but the tables that freevm() forgets
\* (kalloc.c:26-53, vm.c:100-157, 184-212, 261-273, proc.c:123-149).
THEOREM VmLedger == Spec => LedgerSpec
<1>1. Init => Ledger!Init
  BY InitLedger
<1>2. VmInv /\ VmInv' /\ [Next]_vars => [Ledger!Next]_Ledger!ledger
  BY NextLedger DEF LedgerStep, Ledger!ledger, Whose
<1> QED
  BY <1>1, <1>2, VmInvAlways, PTL DEF Spec, LedgerSpec, Ledger!Spec
=============================================================================
