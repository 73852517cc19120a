------------------------------ MODULE FsProofs ------------------------------
(***************************************************************************)
(* Proofs about Fs, for every disk, every set of processes and of open     *)
(* files: read() copies the bytes of its own file, within the file, and    *)
(* processes that share a file get consecutive parts of it.                *)
(***************************************************************************)
EXTENDS Fs, MkfsProofs, SequenceTheorems

(***************************************************************************)
(* The inductive invariant.                                                *)
(***************************************************************************)
FileT == [inode : {0} \cup Ino, offset : 0 .. NADDR * SECTSIZE]
BufT  == [valid : BOOLEAN, data : DataT]
CallT == [op : {"none", "read", "write", "open"}, pc : {"user", "bread", "disk", "end", "load"},
          f : {0} \cup File, start : Nat, size : Nat, cnt : Nat, i : {0} \cup Ino]

FsTypes ==
  /\ file \in [File -> FileT] /\ buf \in [Block -> BufT]
  /\ inode \in [Ino -> {"out", "reading", "read"}] /\ lock \in [Ino -> {0} \cup Proc]
  /\ call \in [Proc -> CallT] /\ got \in [Proc -> Seq(Int \X Int)]
  /\ unread \in {"no", "used", "believed"}

\* The system runs once mkfs is done.
Idle ==
  mk # "done" =>
    /\ \A p \in Proc : call[p] = User
    /\ \A f \in File : file[f].inode = 0
    /\ \A b \in Block : buf[b] = Absent

\* Open files have inodes that are in use.
Opened == \A f \in File : file[f].inode # 0 => file[f].inode \in InUse

\* Position a * SECTSIZE + k of the file i is byte k of its block a, in the data d.
Holds(d, i, a) ==
  \A k \in Byte : SECTSIZE * a + k < dinode[i].size => d[k] = <<i, SECTSIZE * a + k>>

\* A buffer that is valid holds the bytes of the file its block belongs to.
Buffers ==
  \A i \in InUse, a \in Addr : LET b == dinode[i].addr[a]
                               IN b # 0 /\ buf[b].valid => Holds(buf[b].data, i, a)

\* Where a process is in its call.
Place(p) ==
  /\ call[p].cnt <= call[p].size /\ call[p].start + call[p].size <= NADDR * SECTSIZE
  /\ call[p].op = "none" => call[p].pc = "user"
  /\ call[p].op = "open" => /\ call[p].pc \in {"bread", "disk", "load"}
                            /\ call[p].pc = "load" => call[p].i \in InUse
  /\ p \in InLoop => /\ call[p].pc \in {"bread", "disk", "end"}
                     /\ call[p].pc \in {"bread", "disk"} => call[p].cnt < call[p].size

\* A read() or write() works on an open file, whose inode it has locked and whose
\* offset stays.
Holder(p) ==
  p \in InLoop => /\ call[p].f \in File /\ ip(p) \in InUse /\ lock[ip(p)] = p
                 /\ call[p].start = file[call[p].f].offset

\* What read() has copied.
Right(p) ==
  p \in InLoop /\ call[p].op = "read" =>
    /\ call[p].start + call[p].size <= dinode[ip(p)].size
    /\ ip(p) # sysfs.rootdir \/ unread = "no"
         => got[p] = [j \in 1 .. call[p].cnt |-> <<ip(p), call[p].start + j - 1>>]

Good(p) == Place(p) /\ Holder(p) /\ Right(p)

FsInv == MkInv /\ FsTypes /\ Idle /\ Opened /\ Buffers /\ \A p \in Proc : Good(p)

(***************************************************************************)
(* The operators of the model.                                             *)
(***************************************************************************)
\* The n bytes of file i from s on.
Part(i, s, n) == [j \in 1 .. n |-> <<i, s + j - 1>>]

\* The bytes from s on, c of them and then m more.
LEMMA Concat ==
  ASSUME NEW i \in Int, NEW s \in Nat, NEW c \in Nat, NEW m \in Nat
  PROVE  Part(i, s, c) \o Part(i, s + c, m) = Part(i, s, c + m)
<1> DEFINE A == [j \in 1 .. c |-> <<i, s + j - 1>>]
           B == [k \in 1 .. m |-> <<i, s + c + k - 1>>]
           C == [j \in 1 .. c + m |-> <<i, s + j - 1>>]
<1>1. A \in Seq(Int \X Int) /\ Len(A) = c
  OBVIOUS
<1>2. B \in Seq(Int \X Int) /\ Len(B) = m
  OBVIOUS
<1>3. C \in Seq(Int \X Int) /\ Len(C) = c + m
  OBVIOUS
<1>4. /\ \A j \in 1 .. c : A[j] = <<i, s + j - 1>>
      /\ \A j \in 1 .. m : B[j] = <<i, s + c + j - 1>>
      /\ \A j \in 1 .. c + m : C[j] = <<i, s + j - 1>>
  OBVIOUS
<1> HIDE DEF A, B, C
<1>5. PICK T : T = Int \X Int
  OBVIOUS
<1>6. A \in Seq(T) /\ B \in Seq(T) /\ C \in Seq(T)
  BY <1>1, <1>2, <1>3, <1>5
<1>7. PICK D : D = A \o B
  OBVIOUS
<1>8. /\ D \in Seq(T) /\ Len(D) = c + m
      /\ \A j \in 1 .. c + m : D[j] = IF j <= c THEN A[j] ELSE B[j - c]
  BY <1>1, <1>2, <1>7, <1>6, ConcatProperties
<1>9. ASSUME NEW j \in 1 .. c + m PROVE D[j] = C[j]
  <2>1. CASE j <= c
    <3>1. D[j] = A[j] /\ j \in 1 .. c
      BY <1>8, <2>1
    <3> QED
      BY <3>1, <1>4
  <2>2. CASE j > c
    <3>1. D[j] = B[j - c] /\ j - c \in 1 .. m /\ s + c + (j - c) - 1 = s + j - 1
      BY <1>8, <2>2
    <3>2. B[j - c] = <<i, s + c + (j - c) - 1>>
      BY <3>1, <1>4
    <3> QED
      BY <3>1, <3>2, <1>4
  <2> QED
    BY <2>1, <2>2
<1>10. D = C
  BY <1>3, <1>8, <1>9, <1>6, SeqEqual
<1>11. Part(i, s, c) = A /\ Part(i, s + c, m) = B /\ Part(i, s, c + m) = C
  BY DEF Part, A, B, C
<1> QED
  BY <1>7, <1>10, <1>11

\* What a call that has copied nothing has got.
LEMMA EmptyIs ==
  ASSUME NEW i, NEW s
  PROVE  <<>> = [j \in 1 .. 0 |-> <<i, s + j - 1>>]
  OBVIOUS

\* The bytes of one chunk are a sequence.
LEMMA ChunkIsSeq ==
  ASSUME NEW i \in Int, NEW s \in Nat, NEW m \in Nat
  PROVE  Part(i, s, m) \in Seq(Int \X Int)
  BY DEF Part

\* A process outside its calls.
LEMMA UserT == /\ User \in CallT /\ User.pc = "user" /\ User.cnt = 0 /\ User.size = 0
               /\ User.op = "none" /\ User.start = 0 /\ User.f = 0
  BY DEF User, CallT

\* A buffer that bget() took for another block.
LEMMA AbsentT == Absent \in BufT /\ ~Absent.valid
<1>1. Junk \in DataT
  BY DEF Junk, DataT
<1> QED
  BY <1>1 DEF Absent, BufT

\* A chunk is not empty, within what is left and within its block.
LEMMA ChunkIs ==
  ASSUME NEW p, NEW left \in Nat \ {0}, left = call[p].size - call[p].cnt,
         NEW off \in Nat, off = Pos(p)
  PROVE  /\ Chunk(p) \in Nat \ {0} /\ Chunk(p) <= left
         /\ off % SECTSIZE \in Nat /\ off \div SECTSIZE \in Nat
         /\ (off % SECTSIZE) + Chunk(p) <= SECTSIZE
         /\ off = SECTSIZE * (off \div SECTSIZE) + (off % SECTSIZE)
<1>1. SECTSIZE \in Nat \ {0}
  BY Constants
<1>2. /\ off % SECTSIZE \in Nat /\ off \div SECTSIZE \in Nat /\ off % SECTSIZE < SECTSIZE
      /\ off = SECTSIZE * (off \div SECTSIZE) + (off % SECTSIZE)
  BY <1>1, DivMod
<1>3. PICK r \in Nat : r = off % SECTSIZE
  BY <1>2
<1>4. Chunk(p) = IF left < SECTSIZE - r THEN left ELSE SECTSIZE - r
  BY <1>3 DEF Chunk
<1>5. r < SECTSIZE
  BY <1>2, <1>3
<1>6. Chunk(p) \in Nat \ {0} /\ Chunk(p) <= left /\ r + Chunk(p) <= SECTSIZE
  BY <1>1, <1>4, <1>5
<1> QED
  BY <1>2, <1>3, <1>6

\* Byte k of block a of a file is its position a * SECTSIZE + k.
LEMMA AddressIs ==
  ASSUME MkInv, NEW i \in InUse, NEW a \in Addr
  PROVE  /\ dinode[i].addr[a] \in Block /\ dinode[i].size \in 0 .. NADDR * SECTSIZE
         /\ \A k \in Byte : SECTSIZE * a + k < dinode[i].size =>
              /\ SECTSIZE * a + k \in 0 .. dinode[i].size - 1
              /\ (SECTSIZE * a + k) \div SECTSIZE = a /\ (SECTSIZE * a + k) % SECTSIZE = k
<1>1. dinode[i] \in DinodeT
  BY DEF MkInv, MkTypes, InUse
<1>2. SECTSIZE \in Nat \ {0} /\ NADDR \in Nat /\ a \in Nat
  BY Constants DEF Addr
<1>3. dinode[i].size \in 0 .. NADDR * SECTSIZE /\ dinode[i].addr[a] \in Block
  BY <1>1 DEF DinodeT
<1>4. ASSUME NEW k \in Byte, SECTSIZE * a + k < dinode[i].size
      PROVE  /\ SECTSIZE * a + k \in 0 .. dinode[i].size - 1
             /\ (SECTSIZE * a + k) \div SECTSIZE = a /\ (SECTSIZE * a + k) % SECTSIZE = k
  <2>1. k \in Nat /\ k < SECTSIZE
    BY <1>2 DEF Byte
  <2>2. (SECTSIZE * a + k) \div SECTSIZE = a /\ (SECTSIZE * a + k) % SECTSIZE = k
    BY <1>2, <2>1, Divided
  <2>3. SECTSIZE * a + k \in Nat /\ dinode[i].size \in Nat
    BY <1>2, <1>3, <2>1
  <2> QED
    BY <2>2, <2>3, <1>4
<1> QED
  BY <1>3, <1>4

\* A block of a file is no other's.
LEMMA ApartIs ==
  ASSUME MkInv, NEW i \in InUse, NEW a \in Addr, NEW j \in InUse, NEW c \in Addr, NEW b,
         b # 0, b = dinode[i].addr[a], b = dinode[j].addr[c]
  PROVE  j = i /\ c = a
<1>1. Apart
  BY DEF MkInv
<1>2. \A d, e \in Addr :
        dinode[i].addr[d] = dinode[j].addr[e] /\ dinode[i].addr[d] # 0 => i = j /\ d = e
  BY <1>1, Zenon DEF Apart
<1>3. dinode[i].addr[a] = dinode[j].addr[c] /\ dinode[i].addr[a] # 0 => i = j /\ a = c
  BY <1>2, Zenon
<1>4. dinode[i].addr[a] = dinode[j].addr[c]
  OBVIOUS
<1>5. dinode[i].addr[a] # 0
  OBVIOUS
<1>6. i = j /\ a = c
  BY <1>3, <1>4, <1>5, Zenon
<1> QED
  BY <1>6

\* A position within a file has an address.
LEMMA UsedAddress ==
  ASSUME MkInv, NEW i \in InUse, NEW pos \in 0 .. dinode[i].size - 1
  PROVE  dinode[i].addr[pos \div SECTSIZE] # 0
<1>1. dinode[i] \in DinodeT
  BY DEF MkInv, MkTypes, InUse
<1>2. dinode[i].size \in 0 .. NADDR * SECTSIZE
  BY <1>1 DEF DinodeT
<1>3. pos \div SECTSIZE \in Addr /\ pos \div SECTSIZE < Blocks(dinode[i].size)
  BY <1>2, PositionIs
<1>4. PICK m \in Nat, n \in Nat : Given(m, n)
  BY DEF MkInv
<1>5. dinode[i].addr[pos \div SECTSIZE] \in FIRSTDATA .. n - 1
  BY <1>3, <1>4 DEF Given
<1>6. FIRSTDATA > 0 /\ FIRSTDATA \in Nat
  BY Constants
<1> QED
  BY <1>5, <1>6

\* The data on the disk is that of the files.
LEMMA DiskHolds ==
  ASSUME MkInv, NEW i \in InUse, NEW a \in Addr
  PROVE  Holds(bin[dinode[i].addr[a]], i, a)
<1> SUFFICES ASSUME NEW k \in Byte, SECTSIZE * a + k < dinode[i].size
             PROVE  bin[dinode[i].addr[a]][k] = <<i, SECTSIZE * a + k>>
  BY DEF Holds
<1>1. PICK pos : pos = SECTSIZE * a + k
  OBVIOUS
<1>2. pos \in 0 .. dinode[i].size - 1 /\ pos \div SECTSIZE = a /\ pos % SECTSIZE = k
  BY <1>1, AddressIs
<1>3. bin[dinode[i].addr[pos \div SECTSIZE]][pos % SECTSIZE] = <<i, pos>>
  BY <1>2 DEF MkInv, Stores
<1> QED
  BY <1>1, <1>2, <1>3

\* The disk stays as it is while the system runs.
LEMMA DiskStays ==
  ASSUME FsInv, mk = "done", UNCHANGED mkvars
  PROVE  MkInv' /\ mk' = "done" /\ InUse' = InUse /\ UNCHANGED <<dinode, bin, sysfs>> /\ Idle'
<1>1. UNCHANGED <<mk, dinode, bin, sysfs>>
  BY DEF mkvars
<1>2. MkInv'
  BY MkStutterStep DEF FsInv
<1> QED
  BY <1>1, <1>2 DEF InUse, Idle

\* A step that puts data of the files into a buffer, or nothing.
LEMMA BufferStep ==
  ASSUME FsInv, mk = "done", UNCHANGED mkvars, NEW b \in Block, NEW v \in BufT,
         buf' = [buf EXCEPT ![b] = v],
         v.valid => \A i \in InUse, a \in Addr :
                      b # 0 /\ dinode[i].addr[a] = b => Holds(v.data, i, a)
  PROVE  buf' \in [Block -> BufT] /\ Buffers'
<1>1. buf \in [Block -> BufT]
  BY DEF FsInv, FsTypes
<1>2. InUse' = InUse /\ dinode' = dinode
  BY DiskStays
<1>3. buf'[b] = v /\ \A c \in Block : c # b => buf'[c] = buf[c]
  BY <1>1
<1>4. \A d, i, a : Holds(d, i, a)' = Holds(d, i, a)
  BY <1>2 DEF Holds
<1>5. ASSUME NEW i \in InUse, NEW a \in Addr, dinode[i].addr[a] # 0, buf'[dinode[i].addr[a]].valid
      PROVE  Holds(buf'[dinode[i].addr[a]].data, i, a)
  <2>1. dinode[i].addr[a] \in Block
    BY AddressIs DEF FsInv
  <2>2. CASE dinode[i].addr[a] = b
    BY <1>3, <1>5, <2>2
  <2>3. CASE dinode[i].addr[a] # b
    BY <1>3, <1>5, <2>1, <2>3 DEF FsInv, Buffers
  <2> QED
    BY <2>2, <2>3
<1>6. Buffers'
  <2> SUFFICES ASSUME NEW i \in InUse', NEW a \in Addr,
                      dinode'[i].addr[a] # 0, buf'[dinode'[i].addr[a]].valid
               PROVE  Holds(buf[dinode[i].addr[a]].data, i, a)'
    BY DEF Buffers
  <2>1. Holds(buf'[dinode[i].addr[a]].data, i, a)
    BY <1>2, <1>5
  <2> QED
    BY <2>1, <1>2 DEF Holds
<1> QED
  BY <1>1, <1>6

\* A step of another process, for a process that it leaves alone.
LEMMA Kept ==
  ASSUME FsInv, mk = "done", UNCHANGED mkvars, NEW q \in Proc,
         call'[q] = call[q], got'[q] = got[q], unread' = "no" => unread = "no",
         q \in InLoop => /\ file'[call[q].f] = file[call[q].f]
                        /\ lock'[ip(q)] = lock[ip(q)]
  PROVE  Good(q)'
<1>1. Good(q)
  BY DEF FsInv
<1>2. InUse' = InUse /\ dinode' = dinode /\ sysfs' = sysfs
  BY DiskStays
<1>3. (q \in InLoop)' <=> q \in InLoop
  BY DEF InLoop
<1>4. q \in InLoop => ip(q)' = ip(q)
  BY DEF ip
<1>5. Place(q)'
  BY <1>1, <1>2, <1>3 DEF Good, Place
<1>6. Holder(q)'
  BY <1>1, <1>2, <1>3, <1>4 DEF Good, Holder
<1>7. Right(q)'
  BY <1>1, <1>2, <1>3, <1>4 DEF Good, Right
<1> QED
  BY <1>5, <1>6, <1>7 DEF Good

\* What the parts of the invariant that a step does not touch need.
LEMMA Rest ==
  ASSUME FsInv, mk = "done", UNCHANGED mkvars
  PROVE  /\ MkInv' /\ Idle'
         /\ UNCHANGED file => Opened'
         /\ UNCHANGED buf => Buffers'
<1>1. MkInv' /\ Idle' /\ InUse' = InUse /\ dinode' = dinode
  BY DiskStays
<1>2. UNCHANGED file => Opened'
  BY <1>1 DEF FsInv, Opened
<1>3. UNCHANGED buf => Buffers'
  BY <1>1 DEF FsInv, Buffers, Holds
<1> QED
  BY <1>1, <1>2, <1>3

\* A process that is back in user mode.
LEMMA Back ==
  ASSUME NEW p \in Proc, call'[p] = User
  PROVE  Good(p)'
<1>1. ~(p \in InLoop)'
  BY UserT DEF InLoop
<1>2. 0 <= NADDR * SECTSIZE
  BY Constants
<1>3. Place(p)'
  BY <1>1, <1>2, UserT DEF Place
<1> QED
  BY <1>1, <1>3 DEF Good, Holder, Right

\* An entry of file[] is taken for an inode in use: nobody was using it.
LEMMA FallocIs ==
  ASSUME FsInv, mk = "done", UNCHANGED mkvars, NEW i \in InUse, Falloc(i)
  PROVE  /\ file' \in [File -> FileT] /\ Opened'
         /\ \A q \in InLoop : file'[call[q].f] = file[call[q].f]
<1>1. file \in [File -> FileT]
  BY DEF FsInv, FsTypes
<1>2. InUse' = InUse /\ 0 \notin InUse /\ i \in Ino /\ 0 \in 0 .. NADDR * SECTSIZE
  BY DiskStays, Constants DEF InUse, Ino
<1>3. \A q \in InLoop : call[q].f \in File /\ file[call[q].f].inode # 0
  BY <1>2 DEF FsInv, Good, Holder, ip, InLoop
<1>4. CASE UNCHANGED file
  BY <1>1, <1>2, <1>4 DEF FsInv, Opened
<1>5. ASSUME NEW f \in File, file[f].inode = 0,
             file' = [file EXCEPT ![f] = [inode |-> i, offset |-> 0]]
      PROVE  /\ file' \in [File -> FileT] /\ Opened'
             /\ \A q \in InLoop : file'[call[q].f] = file[call[q].f]
  <2>1. [inode |-> i, offset |-> 0] \in FileT
    BY <1>2 DEF FileT
  <2>2. file' \in [File -> FileT]
    BY <1>1, <1>5, <2>1
  <2>3. file'[f].inode = i /\ \A g \in File : g # f => file'[g] = file[g]
    BY <1>1, <1>5
  <2>4. Opened'
    BY <1>2, <2>3 DEF FsInv, Opened
  <2> QED
    BY <1>3, <1>5, <2>2, <2>3, <2>4
<1> QED
  BY <1>4, <1>5 DEF Falloc

\* What a turn of the loop of readi() or writei() works on.
LEMMA TurnIs ==
  ASSUME FsInv, NEW p \in InLoop, call[p].pc \in {"bread", "disk"}
  PROVE  /\ call[p] \in CallT /\ ip(p) \in InUse
         /\ Pos(p) \in Nat /\ Pos(p) < call[p].start + call[p].size
         /\ Chunk(p) \in Nat \ {0} /\ call[p].cnt + Chunk(p) \in Nat
         /\ call[p].cnt + Chunk(p) <= call[p].size
         /\ Pos(p) \div SECTSIZE \in Addr /\ Pos(p) % SECTSIZE \in Nat
         /\ (Pos(p) % SECTSIZE) + Chunk(p) <= SECTSIZE
         /\ Pos(p) = SECTSIZE * (Pos(p) \div SECTSIZE) + (Pos(p) % SECTSIZE)
         /\ Blk(p) = dinode[ip(p)].addr[Pos(p) \div SECTSIZE] /\ Blk(p) \in Block
<1>1. p \in Proc /\ call[p] \in CallT /\ call[p].op # "open"
  BY DEF FsInv, FsTypes, InLoop
<1>2. /\ ip(p) \in InUse /\ call[p].cnt < call[p].size
      /\ call[p].start + call[p].size <= NADDR * SECTSIZE
  BY <1>1 DEF FsInv, Good, Place, Holder
<1>3. call[p].start \in Nat /\ call[p].size \in Nat /\ call[p].cnt \in Nat
  BY <1>1 DEF CallT
<1>4. PICK off \in Nat, left \in Nat \ {0} :
        /\ off = Pos(p) /\ off = call[p].start + call[p].cnt
        /\ left = call[p].size - call[p].cnt
  BY <1>2, <1>3 DEF Pos
<1>5. off < call[p].start + call[p].size
  BY <1>2, <1>3, <1>4
<1>6. /\ Chunk(p) \in Nat \ {0} /\ Chunk(p) <= left
      /\ off % SECTSIZE \in Nat
      /\ (off % SECTSIZE) + Chunk(p) <= SECTSIZE
      /\ off = SECTSIZE * (off \div SECTSIZE) + (off % SECTSIZE)
  BY <1>4, ChunkIs
<1>7. off \div SECTSIZE \in Addr
  <2>1. SECTSIZE \in Nat \ {0} /\ NADDR \in Nat /\ NADDR * SECTSIZE \in Nat
        /\ NADDR * SECTSIZE = SECTSIZE * NADDR
    BY Constants
  <2>2. off < SECTSIZE * NADDR
    BY <1>2, <1>3, <1>5, <2>1
  <2>3. off \div SECTSIZE < NADDR /\ off \div SECTSIZE \in Nat
    BY <1>4, <2>1, <2>2, DivLess, DivMod
  <2> QED
    BY <2>1, <2>3 DEF Addr
<1>8. call[p].cnt + Chunk(p) \in Nat /\ call[p].cnt + Chunk(p) <= call[p].size
  BY <1>3, <1>4, <1>6
<1>9. Blk(p) = dinode[ip(p)].addr[off \div SECTSIZE]
  BY <1>1, <1>4 DEF Blk
<1>10. Blk(p) \in Block
  BY <1>2, <1>7, <1>9, AddressIs DEF FsInv
<1> QED
  BY <1>1, <1>2, <1>4, <1>5, <1>6, <1>7, <1>8, <1>9, <1>10

\* A buffer is that of a block an inode in use has the address of.
LEMMA BlkIs ==
  ASSUME FsInv, mk = "done", NEW p \in Having
  PROVE  Blk(p) \in Block /\ \E i \in InUse, a \in Addr : Blk(p) = dinode[i].addr[a]
<1>1. p \in Proc /\ call[p] \in CallT /\ Place(p)
  BY DEF FsInv, FsTypes, Having, Good
<1>2. CASE p \in InLoop
  <2>1. call[p].pc \in {"bread", "disk"}
    BY <1>1, <1>2 DEF Having, Place
  <2> QED
    BY <1>2, <2>1, TurnIs
<1>3. CASE p \notin InLoop
  <2>1. call[p].op = "open"
    BY <1>1, <1>3 DEF Having, Place, InLoop, CallT
  <2>2. Blk(p) = dinode[sysfs.rootdir].addr[0]
    BY <2>1 DEF Blk
  <2>3. sysfs.rootdir \in InUse /\ 0 \in Addr
    BY Constants DEF FsInv, MkInv, Named, Addr
  <2> QED
    BY <2>2, <2>3, AddressIs DEF FsInv
<1> QED
  BY <1>2, <1>3

\* After a turn of the loop, for all but the data.
LEMMA AfterTurn ==
  ASSUME FsInv, NEW p \in InLoop, call[p].pc = "bread", Copied(p)
  PROVE  /\ call' \in [Proc -> CallT] /\ \A q \in Proc : q # p => call'[q] = call[q]
         /\ call'[p].cnt = call[p].cnt + Chunk(p)
         /\ call'[p].start = call[p].start /\ call'[p].size = call[p].size
         /\ call'[p].op = call[p].op /\ call'[p].f = call[p].f
         /\ call'[p].pc \in {"bread", "end"}
         /\ call'[p].pc = "bread" => call'[p].cnt < call'[p].size
<1>1. p \in Proc /\ call \in [Proc -> CallT] /\ call[p] \in CallT
  BY DEF FsInv, FsTypes, InLoop
<1>2. PICK n : n = call[p].cnt + Chunk(p)
  OBVIOUS
<1>3. n \in Nat
  BY <1>2, TurnIs
<1>4. PICK x : x = Turn(n, call[p].size)
  OBVIOUS
<1>5. x \in {"bread", "end"} /\ (x = "bread" => n < call[p].size)
  BY <1>4 DEF Turn
<1>6. PICK c : c = [call[p] EXCEPT !.cnt = n, !.pc = x]
  OBVIOUS
<1>7. c \in CallT
  BY <1>1, <1>3, <1>5, <1>6 DEF CallT
<1>8. /\ c.cnt = n /\ c.pc = x /\ c.start = call[p].start /\ c.size = call[p].size
      /\ c.op = call[p].op /\ c.f = call[p].f
  BY <1>1, <1>6 DEF CallT
<1>9. call' = [call EXCEPT ![p] = c]
  BY <1>2, <1>4, <1>6 DEF Copied
<1>10. call'[p] = c /\ call' \in [Proc -> CallT] /\ \A q \in Proc : q # p => call'[q] = call[q]
  BY <1>1, <1>7, <1>9
<1> QED
  BY <1>2, <1>5, <1>8, <1>10

\* The same, for the invariant of the process.
LEMMA TurnKeeps ==
  ASSUME FsInv, mk = "done", UNCHANGED <<mkvars, file, lock>>,
         NEW p \in InLoop, call[p].pc = "bread", Copied(p)
  PROVE  Place(p)' /\ Holder(p)' /\ ip(p)' = ip(p)
<1>1. p \in Proc /\ Place(p) /\ Holder(p) /\ InUse' = InUse
  BY DiskStays DEF FsInv, Good, InLoop
<1>2. /\ call'[p].cnt = call[p].cnt + Chunk(p)
      /\ call'[p].start = call[p].start /\ call'[p].size = call[p].size
      /\ call'[p].op = call[p].op /\ call'[p].f = call[p].f
      /\ call'[p].pc \in {"bread", "end"}
      /\ call'[p].pc = "bread" => call'[p].cnt < call'[p].size
  BY AfterTurn
<1>3. call[p].cnt + Chunk(p) <= call[p].size
  BY TurnIs
<1>4. (p \in InLoop)' /\ ip(p)' = ip(p) /\ call[p].op \in {"read", "write"}
  BY <1>1, <1>2 DEF InLoop, ip
<1>5. Place(p)'
  BY <1>1, <1>2, <1>3, <1>4 DEF Place
<1>6. Holder(p)'
  BY <1>1, <1>2, <1>4 DEF Holder
<1> QED
  BY <1>4, <1>5, <1>6

(***************************************************************************)
(* The steps of the system.                                                *)
(***************************************************************************)
LEMMA RecycleStep ==
  ASSUME FsInv, NEW b \in Block, Recycle(b)
  PROVE  FsInv'
<1>1. /\ mk = "done" /\ UNCHANGED mkvars
      /\ UNCHANGED <<file, inode, lock, call, got, unread>>
      /\ buf' = [buf EXCEPT ![b] = Absent]
  BY DEF Recycle, Runs
<1>2. MkInv' /\ Idle' /\ Opened'
  BY <1>1, Rest
<1>3. buf' \in [Block -> BufT] /\ Buffers'
  BY <1>1, AbsentT, BufferStep
<1>4. FsTypes'
  BY <1>1, <1>3 DEF FsInv, FsTypes
<1>5. \A q \in Proc : Good(q)'
  BY <1>1, Kept
<1> QED
  BY <1>2, <1>3, <1>4, <1>5 DEF FsInv

\* open() of "/" takes an entry of file[].
LEMMA OpenRootStep ==
  ASSUME FsInv, NEW p \in Proc, OpenRoot(p)
  PROVE  FsInv'
<1>1. /\ mk = "done" /\ UNCHANGED mkvars /\ Falloc(sysfs.rootdir)
      /\ UNCHANGED <<inode, buf, lock, call, got, unread>>
  BY DEF OpenRoot, At, Runs
<1>2. sysfs.rootdir \in InUse
  BY <1>1 DEF FsInv, MkInv, Named
<1>3. /\ file' \in [File -> FileT] /\ Opened'
      /\ \A q \in InLoop : file'[call[q].f] = file[call[q].f]
  BY <1>1, <1>2, FallocIs
<1>4. MkInv' /\ Idle' /\ Buffers'
  BY <1>1, Rest
<1>5. FsTypes'
  BY <1>1, <1>3 DEF FsInv, FsTypes
<1>6. \A q \in Proc : Good(q)'
  BY <1>1, <1>3, Kept
<1> QED
  BY <1>3, <1>4, <1>5, <1>6 DEF FsInv

\* open() gets the directory's buffer.
LEMMA OpenStep ==
  ASSUME FsInv, NEW p \in Proc, Open(p)
  PROVE  FsInv'
<1>1. PICK c : c = [User EXCEPT !.op = "open", !.pc = "bread"]
  OBVIOUS
<1>2. /\ mk = "done" /\ UNCHANGED mkvars
      /\ UNCHANGED <<file, inode, buf, lock, got, unread>>
      /\ call' = [call EXCEPT ![p] = c]
  BY <1>1 DEF Open, At, Runs
<1>3. c \in CallT /\ c.op = "open" /\ c.pc = "bread" /\ c.cnt = 0 /\ c.size = 0 /\ c.start = 0
  BY <1>1 DEF User, CallT
<1>4. /\ call' \in [Proc -> CallT] /\ call'[p] = c
      /\ \A q \in Proc : q # p => call'[q] = call[q]
  BY <1>2, <1>3 DEF FsInv, FsTypes
<1>5. MkInv' /\ Idle' /\ Opened' /\ Buffers'
  BY <1>2, Rest
<1>6. FsTypes'
  BY <1>2, <1>4 DEF FsInv, FsTypes
<1>7. \A q \in Proc : q # p => Good(q)'
  BY <1>2, <1>4, Kept
<1>8. Good(p)'
  <2>1. 0 <= NADDR * SECTSIZE
    BY Constants
  <2>2. ~(p \in InLoop)'
    BY <1>3, <1>4 DEF InLoop
  <2>3. Place(p)'
    BY <1>3, <1>4, <2>1, <2>2 DEF Place
  <2> QED
    BY <2>2, <2>3 DEF Good, Holder, Right
<1> QED
  BY <1>5, <1>6, <1>7, <1>8 DEF FsInv

\* readi() and writei() take the inode's lock and cut the size to the file's.
LEMMA CallStep ==
  ASSUME FsInv, NEW p \in Proc, NEW op \in {"read", "write"}, NEW f \in File,
         NEW n \in 0 .. MaxSize, Call(p, op, f, n)
  PROVE  FsInv'
<1>1. /\ mk = "done" /\ UNCHANGED mkvars /\ UNCHANGED <<file, inode, buf>>
      /\ call[p].pc = "user" /\ file[f].inode # 0 /\ lock[file[f].inode] = 0
  BY DEF Call, At, Runs, MayLock
<1>2. MkInv' /\ Idle' /\ Opened' /\ Buffers' /\ InUse' = InUse /\ dinode' = dinode /\ sysfs' = sysfs
  BY <1>1, Rest, DiskStays
<1>3. CASE unread' = "believed" /\ UNCHANGED <<lock, call, got>>
  <2>1. FsTypes'
    BY <1>1, <1>3 DEF FsInv, FsTypes
  <2>2. \A q \in Proc : Good(q)'
    BY <1>1, <1>3, Kept
  <2> QED
    BY <1>2, <2>1, <2>2 DEF FsInv
<1>4. PICK i : i = file[f].inode
  OBVIOUS
<1>5. PICK off : off = file[f].offset
  OBVIOUS
<1>6. PICK size : size = dinode[i].size
  OBVIOUS
<1>7. PICK left : left = IF op = "read" /\ off + n > size THEN size - off ELSE n
  OBVIOUS
<1>8. PICK c : c = [op |-> op, pc |-> Turn(0, left), f |-> f, start |-> off,
                    size |-> left, cnt |-> 0, i |-> 0]
  OBVIOUS
<1>9. CASE /\ Checked(op, off, n, size)
           /\ lock' = [lock EXCEPT ![i] = p] /\ call' = [call EXCEPT ![p] = c]
           /\ got' = [got EXCEPT ![p] = <<>>] /\ UNCHANGED unread
  <2>1. i \in InUse /\ i \in Ino /\ n \in Nat
    BY <1>1, <1>4, FsConstants DEF FsInv, Opened, InUse
  <2>2. PICK lim \in Nat : lim = NADDR * SECTSIZE
    BY Constants
  <2>3. off \in Nat /\ size \in Nat /\ size <= lim
    <3>1. file[f] \in FileT /\ dinode[i] \in DinodeT
      BY <2>1 DEF FsInv, FsTypes, MkInv, MkTypes
    <3> QED
      BY <1>5, <1>6, <2>2, <3>1 DEF FileT, DinodeT
  <2>4. /\ left \in Nat /\ off + left <= lim /\ off + left <= NADDR * SECTSIZE
        /\ op = "read" => off + left <= size
    <3>1. off <= size /\ (op = "write" => off + n <= lim)
      BY <1>9, <2>2 DEF Checked
    <3> QED
      BY <1>7, <2>1, <2>2, <2>3, <3>1
  <2>5. /\ Turn(0, left) \in {"bread", "end"}
        /\ Turn(0, left) = "bread" => 0 < left
    BY DEF Turn
  <2>6. c \in CallT
    BY <1>8, <2>3, <2>4, <2>5 DEF CallT
  <2>7. /\ c.op = op /\ c.pc = Turn(0, left) /\ c.f = f /\ c.start = off
        /\ c.size = left /\ c.cnt = 0
    BY <1>8
  <2>8. /\ call' \in [Proc -> CallT] /\ call'[p] = c
        /\ \A q \in Proc : q # p => call'[q] = call[q]
    BY <1>9, <2>6 DEF FsInv, FsTypes
  <2>9. /\ lock' \in [Ino -> {0} \cup Proc] /\ lock'[i] = p
        /\ \A j \in Ino : j # i => lock'[j] = lock[j]
    BY <1>9, <2>1 DEF FsInv, FsTypes
  <2>10. /\ got' \in [Proc -> Seq(Int \X Int)] /\ got'[p] = <<>>
         /\ \A q \in Proc : q # p => got'[q] = got[q]
    <3>1. got \in [Proc -> Seq(Int \X Int)] /\ <<>> \in Seq(Int \X Int)
      BY EmptySeq DEF FsInv, FsTypes
    <3> QED
      BY <1>9, <3>1
  <2>11. FsTypes'
    BY <1>1, <1>9, <2>8, <2>9, <2>10 DEF FsInv, FsTypes
  <2>12. ASSUME NEW q \in Proc, q # p PROVE Good(q)'
    <3>1. q \in InLoop => lock'[ip(q)] = lock[ip(q)]
      <4> SUFFICES ASSUME q \in InLoop PROVE lock'[ip(q)] = lock[ip(q)]
        OBVIOUS
      <4>1. ip(q) \in Ino /\ lock[ip(q)] = q /\ q # 0
        BY FsConstants DEF FsInv, Good, Holder, InUse
      <4>2. ip(q) # i
        BY <1>1, <1>4, <4>1
      <4> QED
        BY <2>9, <4>1, <4>2
    <3>2. /\ call'[q] = call[q] /\ got'[q] = got[q] /\ (unread' = "no" => unread = "no")
          /\ file'[call[q].f] = file[call[q].f]
      BY <1>1, <1>9, <2>8, <2>10, <2>12
    <3> QED
      BY <1>1, <3>1, <3>2, Kept
  <2>13. Good(p)'
    <3>1. ip(p)' = i /\ (p \in InLoop)'
      BY <1>1, <1>4, <2>7, <2>8 DEF ip, InLoop
    <3>2. Place(p)'
      BY <2>3, <2>4, <2>5, <2>7, <2>8 DEF Place
    <3>3. Holder(p)'
      BY <1>1, <1>2, <1>5, <2>1, <2>7, <2>8, <2>9, <3>1 DEF Holder
    <3>4. got'[p] = [j \in 1 .. c.cnt |-> <<ip(p)', c.start + j - 1>>]
      BY <2>7, <2>10, EmptyIs
    <3>5. Right(p)'
      BY <1>2, <1>6, <2>4, <2>7, <2>8, <3>1, <3>4 DEF Right
    <3> QED
      BY <3>2, <3>3, <3>5 DEF Good
  <2> QED
    BY <1>2, <2>11, <2>12, <2>13 DEF FsInv
<1> QED
  BY <1>3, <1>4, <1>5, <1>6, <1>7, <1>8, <1>9 DEF Call

\* Waiting for the disk, or being done with that.
LEMMA PcStep ==
  ASSUME FsInv, mk = "done", UNCHANGED <<mkvars, file, lock, got, unread>>, NEW p \in Having,
         call[p].pc \in {"bread", "disk"},
         NEW pc \in {"bread", "disk"}, call' = [call EXCEPT ![p].pc = pc]
  PROVE  call' \in [Proc -> CallT] /\ \A q \in Proc : Good(q)'
<1>1. p \in Proc /\ call \in [Proc -> CallT] /\ call[p] \in CallT
  BY DEF FsInv, FsTypes, Having
<1>2. PICK c : c = [call[p] EXCEPT !.pc = pc]
  OBVIOUS
<1>3. c \in CallT
  BY <1>1, <1>2 DEF CallT
<1>4. /\ c.pc = pc /\ c.start = call[p].start /\ c.size = call[p].size
      /\ c.op = call[p].op /\ c.f = call[p].f /\ c.cnt = call[p].cnt
  BY <1>1, <1>2 DEF CallT
<1>5. /\ call' \in [Proc -> CallT] /\ call'[p] = c
      /\ \A q \in Proc : q # p => call'[q] = call[q]
  BY <1>1, <1>2, <1>3
<1>6. \A q \in Proc : q # p => Good(q)'
  BY <1>5, Kept
<1>7. Good(p)'
  <2>1. Good(p) /\ InUse' = InUse /\ dinode' = dinode /\ sysfs' = sysfs
    BY <1>1, DiskStays DEF FsInv
  <2>2. ip(p)' = ip(p) /\ (p \in InLoop)' = (p \in InLoop)
    BY <1>1, <1>4, <1>5 DEF ip, InLoop
  <2>3. Place(p)'
    BY <1>4, <1>5, <2>1, <2>2 DEF Good, Place
  <2>4. Holder(p)'
    BY <1>4, <1>5, <2>1, <2>2 DEF Good, Holder
  <2>5. Right(p)'
    BY <1>4, <1>5, <2>1, <2>2 DEF Good, Right
  <2> QED
    BY <2>3, <2>4, <2>5 DEF Good
<1> QED
  BY <1>5, <1>6, <1>7

\* bread() asks the disk.
LEMMA IderwStep ==
  ASSUME FsInv, NEW p \in Proc, Iderw(p)
  PROVE  FsInv'
<1>1. /\ mk = "done" /\ UNCHANGED mkvars /\ call[p].pc = "bread"
      /\ UNCHANGED <<file, inode, buf, lock, got, unread>>
      /\ call' = [call EXCEPT ![p].pc = "disk"]
  BY DEF Iderw, At, Runs
<1>2. p \in Having
  BY <1>1 DEF Having
<1>3. call' \in [Proc -> CallT] /\ \A q \in Proc : Good(q)'
  BY <1>1, <1>2, PcStep
<1>4. MkInv' /\ Idle' /\ Opened' /\ Buffers'
  BY <1>1, Rest
<1>5. FsTypes'
  BY <1>1, <1>3 DEF FsInv, FsTypes
<1> QED
  BY <1>3, <1>4, <1>5 DEF FsInv

\* The disk has put the block into its buffer.
LEMMA DiskStep ==
  ASSUME FsInv, NEW p \in Proc, Disk(p)
  PROVE  FsInv'
<1>1. PICK b : b = Blk(p)
  OBVIOUS
<1>2. PICK v : v = [valid |-> TRUE, data |-> bin[b]]
  OBVIOUS
<1>3. /\ mk = "done" /\ UNCHANGED mkvars /\ call[p].pc = "disk"
      /\ UNCHANGED <<file, inode, lock, got, unread>>
      /\ buf' = [buf EXCEPT ![b] = v]
      /\ call' = [call EXCEPT ![p].pc = "bread"]
  BY <1>1, <1>2 DEF Disk, At, Runs
<1>4. p \in Having
  BY <1>3 DEF Having
<1>5. b \in Block
  BY <1>1, <1>3, <1>4, BlkIs
<1>6. v \in BufT
  <2>1. bin[b] \in DataT
    BY <1>5 DEF FsInv, MkInv, MkTypes
  <2> QED
    BY <1>2, <2>1 DEF BufT
<1>7. \A i \in InUse, a \in Addr : b # 0 /\ dinode[i].addr[a] = b => Holds(v.data, i, a)
  <2>1. \A i \in InUse, a \in Addr : dinode[i].addr[a] = b => Holds(bin[b], i, a)
    BY DiskHolds DEF FsInv
  <2> QED
    BY <1>2, <2>1
<1>8. buf' \in [Block -> BufT] /\ Buffers'
  BY <1>3, <1>5, <1>6, <1>7, BufferStep
<1>9. call' \in [Proc -> CallT] /\ \A q \in Proc : Good(q)'
  BY <1>3, <1>4, PcStep
<1>10. MkInv' /\ Idle' /\ Opened'
  BY <1>3, Rest
<1>11. FsTypes'
  BY <1>3, <1>8, <1>9 DEF FsInv, FsTypes
<1> QED
  BY <1>8, <1>9, <1>10, <1>11 DEF FsInv

\* Within a file that is not the directory nobody else has the buffer: whoever
\* else is in a file is in another.
LEMMA Alone ==
  ASSUME FsInv, mk = "done", NEW p \in InLoop, call[p].pc = "bread",
         Pos(p) < dinode[ip(p)].size, ip(p) # sysfs.rootdir
  PROVE  ~Shared(p)
<1> SUFFICES ASSUME NEW q \in Having, q # p, Blk(q) = Blk(p)
             PROVE  FALSE
  BY DEF Shared
<1>1. PICK i : i = ip(p)
  OBVIOUS
<1>2. PICK a : a = Pos(p) \div SECTSIZE
  OBVIOUS
<1>3. i \in InUse /\ a \in Addr /\ Blk(p) = dinode[i].addr[a] /\ Pos(p) \in Nat
  BY <1>1, <1>2, TurnIs
<1>4. Blk(p) # 0
  <2>1. PICK n \in Nat : n = dinode[i].size
    BY <1>3, AddressIs, Constants DEF FsInv
  <2>2. Pos(p) \in 0 .. dinode[i].size - 1
    BY <1>1, <1>3, <2>1
  <2> QED
    BY <1>2, <1>3, <2>2, UsedAddress DEF FsInv
<1>5. \A j \in InUse, c \in Addr : Blk(p) = dinode[j].addr[c] => j = i
  <2>1. MkInv
    BY DEF FsInv
  <2> QED
    BY <1>3, <1>4, <2>1, ApartIs
<1>6. CASE q \in InLoop
  <2>1. call[q].pc \in {"bread", "disk"}
    BY <1>6 DEF Having, FsInv, Good, Place, InLoop
  <2>2. ip(q) \in InUse /\ Pos(q) \div SECTSIZE \in Addr /\ Blk(q) = dinode[ip(q)].addr[Pos(q) \div SECTSIZE]
    BY <1>6, <2>1, TurnIs
  <2>3. ip(q) = i
    BY <1>5, <2>2
  <2>4. lock[ip(q)] = q /\ lock[ip(p)] = p
    BY <1>6 DEF FsInv, Good, Holder, InLoop
  <2> QED
    BY <1>1, <2>3, <2>4
<1>7. CASE q \notin InLoop
  <2>1. q \in Proc /\ call[q] \in CallT /\ Place(q)
    BY DEF FsInv, FsTypes, Having, Good
  <2>2. call[q].op = "open"
    BY <1>7, <2>1 DEF Having, Place, InLoop, CallT
  <2>3. Blk(q) = dinode[sysfs.rootdir].addr[0]
    BY <2>2 DEF Blk
  <2>4. sysfs.rootdir \in InUse /\ 0 \in Addr
    BY Constants DEF FsInv, MkInv, Named, Addr
  <2>5. sysfs.rootdir = i
    BY <1>5, <2>3, <2>4
  <2> QED
    BY <1>1, <2>5
<1> QED
  BY <1>6, <1>7

\* One turn of the loop of readi(): the next bytes of the file, if the buffer is
\* valid.
LEMMA ReadiStep ==
  ASSUME FsInv, NEW p \in Proc, Readi(p)
  PROVE  FsInv'
<1>1. PICK a : a = Pos(p) \div SECTSIZE
  OBVIOUS
<1>2. PICK r : r = Pos(p) % SECTSIZE
  OBVIOUS
<1>3. PICK b : b = Blk(p)
  OBVIOUS
<1>4. PICK m : m = Chunk(p)
  OBVIOUS
<1>5. PICK i : i = ip(p)
  OBVIOUS
<1>6. PICK v : v = buf[b]
  OBVIOUS
<1>7. PICK s : s = [k \in 1 .. m |-> v.data[r + k - 1]]
  OBVIOUS
<1>8. /\ mk = "done" /\ call[p].op = "read" /\ call[p].pc = "bread"
      /\ UNCHANGED mkvars /\ UNCHANGED <<file, inode, buf, lock>>
      /\ Copied(p) /\ p \in InLoop
  BY DEF Readi, Bread, At, Runs, InLoop
<1>9. got' = [got EXCEPT ![p] = @ \o s]
  BY <1>2, <1>3, <1>4, <1>6, <1>7 DEF Readi
<1>10. /\ call[p] \in CallT /\ i \in InUse
       /\ Pos(p) \in Nat /\ Pos(p) < call[p].start + call[p].size
       /\ m \in Nat \ {0} /\ call[p].cnt + m \in Nat /\ call[p].cnt + m <= call[p].size
       /\ a \in Addr /\ r \in Nat /\ r + m <= SECTSIZE /\ Pos(p) = SECTSIZE * a + r
       /\ b \in Block /\ b = dinode[i].addr[a]
  BY <1>1, <1>2, <1>3, <1>4, <1>5, <1>8, TurnIs
<1>11. v \in BufT
  BY <1>6, <1>10 DEF FsInv, FsTypes
<1>12. call[p].start + call[p].size <= dinode[i].size
  BY <1>5, <1>8 DEF FsInv, Good, Right
<1>13. call[p].start \in Nat /\ call[p].size \in Nat /\ call[p].cnt \in Nat /\ i \in Int /\ dinode[i].size \in Nat
  <2>1. call[p].start \in Nat /\ call[p].size \in Nat /\ call[p].cnt \in Nat
    BY <1>10 DEF CallT
  <2>2. i \in Int
    BY <1>10, Constants DEF InUse, Ino
  <2>3. dinode[i].size \in Nat
    BY <1>10, AddressIs, Constants DEF FsInv
  <2> QED
    BY <2>1, <2>2, <2>3
<1>14. PICK st \in Nat, ct \in Nat : st = call[p].start /\ ct = call[p].cnt
  BY <1>13
<1>15. Pos(p) = st + ct /\ Pos(p) < dinode[i].size /\ st + ct + m <= dinode[i].size
  <2>1. /\ Pos(p) < call[p].start + call[p].size /\ call[p].cnt + m <= call[p].size
        /\ m \in Nat /\ Pos(p) \in Nat /\ dinode[i].size \in Nat /\ call[p].size \in Nat
    BY <1>10, <1>13
  <2>2. Pos(p) = st + ct
    BY <1>14 DEF Pos
  <2> QED
    BY <2>1, <2>2, <1>12, <1>14
<1>16. /\ s \in Seq(Int \X Int)
       /\ \A k \in 1 .. m : r + k - 1 \in Byte
  <2>1. \A k \in 1 .. m : r + k - 1 \in Byte
    BY <1>10, Constants DEF Byte
  <2>2. \A k \in 1 .. m : v.data[r + k - 1] \in Int \X Int
    BY <1>11, <2>1 DEF BufT, DataT
  <2>3. s \in [1 .. m -> Int \X Int] /\ m \in Nat
    BY <1>7, <1>10, <2>2
  <2> QED
    BY <2>1, <2>3
<1>17. /\ got' \in [Proc -> Seq(Int \X Int)] /\ got'[p] = got[p] \o s
       /\ \A q \in Proc : q # p => got'[q] = got[q]
  <2>1. got \in [Proc -> Seq(Int \X Int)]
    BY DEF FsInv, FsTypes
  <2>2. got[p] \o s \in Seq(Int \X Int)
    BY <2>1, <1>16, ConcatProperties
  <2> QED
    BY <1>9, <2>1, <2>2
<1>18. /\ call' \in [Proc -> CallT] /\ \A q \in Proc : q # p => call'[q] = call[q]
       /\ call'[p].cnt = call[p].cnt + m
       /\ call'[p].start = call[p].start /\ call'[p].size = call[p].size
       /\ call'[p].op = call[p].op
  BY <1>4, <1>8, AfterTurn
<1>19. Place(p)' /\ Holder(p)' /\ ip(p)' = i
  <2>1. Place(p)' /\ Holder(p)' /\ ip(p)' = ip(p)
    BY <1>8, TurnKeeps
  <2> QED
    BY <1>5, <2>1
<1>20. unread' \in {"no", "used", "believed"} /\ (unread' = "no" => unread = "no" /\ v.valid)
  <2>1. unread' = IF v.valid THEN unread ELSE "used"
    BY <1>3, <1>6 DEF Readi
  <2> QED
    BY <2>1 DEF FsInv, FsTypes
<1>21. MkInv' /\ Idle' /\ Opened' /\ Buffers' /\ dinode' = dinode /\ sysfs' = sysfs
  BY <1>8, Rest, DiskStays
<1>22. FsTypes'
  BY <1>8, <1>17, <1>18, <1>20 DEF FsInv, FsTypes
<1>23. ASSUME NEW q \in Proc, q # p PROVE Good(q)'
  BY <1>8, <1>17, <1>18, <1>20, <1>23, Kept
<1>24. ASSUME i # sysfs.rootdir \/ unread' = "no"
       PROVE  got'[p] = [j \in 1 .. ct + m |-> <<i, st + j - 1>>]
  <2>1. v.valid
    <3>1. CASE i # sysfs.rootdir
      <4>1. ~Shared(p)
        BY <3>1, <1>5, <1>8, <1>15, Alone
      <4>2. ~Whole(p) /\ Bread(p)
        BY <1>8 DEF Whole, Readi
      <4> QED
        BY <4>1, <4>2, <1>3, <1>6 DEF Bread
    <3>2. CASE unread' = "no"
      BY <3>2, <1>20
    <3> QED
      BY <3>1, <3>2, <1>24
  <2>2. b # 0
    <3>1. Pos(p) \in 0 .. dinode[i].size - 1
      BY <1>10, <1>13, <1>15
    <3> QED
      BY <3>1, <1>1, <1>10, UsedAddress DEF FsInv
  <2>3. Holds(v.data, i, a)
    BY <2>1, <2>2, <1>6, <1>10 DEF FsInv, Buffers
  <2>4. s = [k \in 1 .. m |-> <<i, st + ct + k - 1>>]
    <3>1. ASSUME NEW k \in 1 .. m
          PROVE  v.data[r + k - 1] = <<i, st + ct + k - 1>>
      <4>1. PICK e : e = r + k - 1
        OBVIOUS
      <4>2. e \in Byte
        BY <4>1, <1>16
      <4>3. SECTSIZE * a + e = st + ct + k - 1
        <5>1. PICK x \in Int : x = SECTSIZE * a
          BY <1>10, Constants DEF Addr
        <5> QED
          BY <5>1, <4>1, <1>10, <1>15
      <4>4. st + ct + k - 1 < dinode[i].size
        <5>1. m \in Nat /\ dinode[i].size \in Nat
          BY <1>10, <1>13
        <5> QED
          BY <5>1, <1>15
      <4>5. SECTSIZE * a + e < dinode[i].size
        BY <4>3, <4>4
      <4>6. v.data[e] = <<i, SECTSIZE * a + e>>
        BY <4>2, <4>5, <2>3 DEF Holds
      <4> QED
        BY <4>1, <4>3, <4>6
    <3> QED
      BY <1>7, <3>1
  <2>5. got[p] = [j \in 1 .. ct |-> <<i, st + j - 1>>]
    BY <1>5, <1>8, <1>14, <1>20, <1>24 DEF FsInv, Good, Right
  <2>6. got[p] \o s = [j \in 1 .. ct + m |-> <<i, st + j - 1>>]
    <3>1. i \in Int /\ m \in Nat
      BY <1>10, <1>13
    <3>2. Part(i, st, ct) \o Part(i, st + ct, m) = Part(i, st, ct + m)
      BY <3>1, Concat
    <3>3. got[p] = Part(i, st, ct)
      BY <2>5 DEF Part
    <3>4. s = Part(i, st + ct, m)
      BY <2>4 DEF Part
    <3>5. Part(i, st, ct + m) = [j \in 1 .. ct + m |-> <<i, st + j - 1>>]
      BY DEF Part
    <3> QED
      BY <3>2, <3>3, <3>4, <3>5, Zenon
  <2> QED
    BY <2>6, <1>17
<1>25. Right(p)'
  <2>1. call'[p].start = st /\ call'[p].cnt = ct + m /\ call'[p].start + call'[p].size <= dinode'[i].size
    BY <1>12, <1>14, <1>18, <1>21
  <2> QED
    BY <2>1, <1>19, <1>21, <1>24 DEF Right
<1>26. Good(p)'
  BY <1>19, <1>25 DEF Good
<1> QED
  BY <1>21, <1>22, <1>23, <1>26 DEF FsInv

\* One turn of the loop of writei(): no byte goes to another file's block.
LEMMA WriteiStep ==
  ASSUME FsInv, NEW p \in Proc, Writei(p)
  PROVE  FsInv'
<1>1. PICK a : a = Pos(p) \div SECTSIZE
  OBVIOUS
<1>2. PICK r : r = Pos(p) % SECTSIZE
  OBVIOUS
<1>3. PICK b : b = Blk(p)
  OBVIOUS
<1>4. PICK m : m = Chunk(p)
  OBVIOUS
<1>5. PICK i : i = ip(p)
  OBVIOUS
<1>6. PICK bp : bp = buf[b]
  OBVIOUS
<1>7. PICK off : off = Pos(p)
  OBVIOUS
<1>8. PICK d : d = [k \in Byte |-> IF k \in r .. r + m - 1 THEN <<i, off - r + k>> ELSE bp.data[k]]
  OBVIOUS
<1>9. PICK v : v = [bp EXCEPT !.data = d]
  OBVIOUS
<1>10. /\ mk = "done" /\ call[p].op = "write" /\ call[p].pc = "bread"
       /\ UNCHANGED mkvars /\ UNCHANGED <<file, inode, lock, got, unread>>
       /\ Copied(p) /\ p \in InLoop
  BY DEF Writei, Bread, At, Runs, InLoop
<1>11. /\ i \in InUse /\ off \in Nat
       /\ m \in Nat \ {0} /\ a \in Addr /\ r \in Nat /\ off = SECTSIZE * a + r
       /\ b \in Block /\ b = dinode[i].addr[a]
  BY <1>1, <1>2, <1>3, <1>4, <1>5, <1>7, <1>10, TurnIs
<1>12. buf' = [buf EXCEPT ![b] = v]
  BY <1>2, <1>3, <1>4, <1>5, <1>6, <1>7, <1>8, <1>9 DEF Writei
<1>13. /\ bp \in BufT
       /\ bp.valid => \A j \in InUse, c \in Addr :
                        b # 0 /\ dinode[j].addr[c] = b => Holds(bp.data, j, c)
  BY <1>6, <1>11 DEF FsInv, FsTypes, Buffers
<1>14. d \in DataT
  <2>1. ASSUME NEW k \in Byte
        PROVE  (IF k \in r .. r + m - 1 THEN <<i, off - r + k>> ELSE bp.data[k]) \in Int \X Int
    <3>1. <<i, off - r + k>> \in Int \X Int
      <4>1. i \in Int
        BY <1>11, Constants DEF InUse, Ino
      <4>2. off - r + k \in Int
        BY <1>11, Constants DEF Byte
      <4> QED
        BY <4>1, <4>2
    <3>2. bp.data[k] \in Int \X Int
      BY <1>13 DEF BufT, DataT
    <3> QED
      BY <3>1, <3>2
  <2> QED
    BY <2>1, <1>8 DEF DataT
<1>15. v \in BufT /\ v.data = d /\ v.valid = bp.valid
  BY <1>9, <1>13, <1>14 DEF BufT
<1>16. ASSUME v.valid, NEW j \in InUse, NEW c \in Addr, b # 0, dinode[j].addr[c] = b
       PROVE  Holds(v.data, j, c)
  <2>1. j = i /\ c = a
    <3>1. MkInv
      BY DEF FsInv
    <3> QED
      BY <3>1, <1>11, <1>16, ApartIs
  <2>2. Holds(bp.data, i, a)
    BY <2>1, <1>13, <1>15, <1>16
  <2>3. ASSUME NEW k \in Byte, SECTSIZE * a + k < dinode[i].size
        PROVE  d[k] = <<i, SECTSIZE * a + k>>
    <3>1. CASE k \in r .. r + m - 1
      <4>1. PICK x \in Int : x = SECTSIZE * a
        BY <1>11, Constants DEF Addr
      <4>2. off - r + k = SECTSIZE * a + k
        BY <4>1, <1>11 DEF Byte
      <4>3. d[k] = <<i, off - r + k>>
        BY <3>1, <1>8
      <4> QED
        BY <4>2, <4>3
    <3>2. CASE k \notin r .. r + m - 1
      BY <2>2, <2>3, <3>2, <1>8 DEF Holds
    <3> QED
      BY <3>1, <3>2
  <2> QED
    BY <2>1, <2>3, <1>15 DEF Holds
<1>17. buf' \in [Block -> BufT] /\ Buffers'
  BY <1>10, <1>11, <1>12, <1>15, <1>16, BufferStep
<1>18. MkInv' /\ Idle' /\ Opened'
  BY <1>10, Rest
<1>19. /\ call' \in [Proc -> CallT] /\ \A q \in Proc : q # p => call'[q] = call[q]
       /\ call'[p].op = call[p].op
  BY <1>10, AfterTurn
<1>20. FsTypes'
  BY <1>10, <1>17, <1>19 DEF FsInv, FsTypes
<1>21. ASSUME NEW q \in Proc, q # p PROVE Good(q)'
  BY <1>10, <1>19, <1>21, Kept
<1>22. Good(p)'
  <2>1. Place(p)' /\ Holder(p)'
    BY <1>10, TurnKeeps
  <2>2. Right(p)'
    BY <1>10, <1>19 DEF Right
  <2> QED
    BY <2>1, <2>2 DEF Good
<1> QED
  BY <1>17, <1>18, <1>20, <1>21, <1>22 DEF FsInv

\* open() finds the name, or not, or sees what nobody has read.
LEMMA DirlookupStep ==
  ASSUME FsInv, NEW p \in Proc, NEW i \in Ino, Dirlookup(p, i)
  PROVE  FsInv'
<1>1. /\ mk = "done" /\ UNCHANGED mkvars /\ UNCHANGED <<buf, lock, got>>
      /\ call[p].op = "open"
  BY DEF Dirlookup, Bread, At, Runs
<1>2. MkInv' /\ Idle' /\ Buffers' /\ (UNCHANGED file => Opened') /\ InUse' = InUse
  BY <1>1, Rest, DiskStays
<1>3. p \notin InLoop /\ call \in [Proc -> CallT]
  BY <1>1 DEF InLoop, FsInv, FsTypes
<1>4. call' = [call EXCEPT ![p] = User] =>
        /\ call' \in [Proc -> CallT] /\ call'[p] = User
        /\ \A q \in Proc : q # p => call'[q] = call[q]
  BY <1>3, UserT
<1>5. CASE call' = [call EXCEPT ![p] = User] /\ UNCHANGED <<file, inode, unread>>
  <2>1. FsTypes'
    BY <1>1, <1>4, <1>5 DEF FsInv, FsTypes
  <2>2. \A q \in Proc : q # p => Good(q)'
    BY <1>1, <1>4, <1>5, Kept
  <2>3. Good(p)'
    BY <1>4, <1>5, Back
  <2> QED
    BY <1>2, <1>5, <2>1, <2>2, <2>3 DEF FsInv
<1>6. CASE unread' = "believed" /\ UNCHANGED <<file, inode, call>>
  <2>1. FsTypes'
    BY <1>1, <1>6 DEF FsInv, FsTypes
  <2>2. \A q \in Proc : Good(q)'
    BY <1>1, <1>6, Kept
  <2> QED
    BY <1>2, <1>6, <2>1, <2>2 DEF FsInv
<1>7. ASSUME \E d \in 1 .. NDIRENT : i = dir[d]
      PROVE  i \in InUse
  BY <1>7, Constants DEF FsInv, MkInv, Named, Ino
<1>8. CASE /\ \E d \in 1 .. NDIRENT : i = dir[d]
           /\ Falloc(i) /\ call' = [call EXCEPT ![p] = User] /\ UNCHANGED <<inode, unread>>
  <2>1. /\ file' \in [File -> FileT] /\ Opened'
        /\ \A q \in InLoop : file'[call[q].f] = file[call[q].f]
    BY <1>1, <1>7, <1>8, FallocIs
  <2>2. FsTypes'
    BY <1>1, <1>4, <1>8, <2>1 DEF FsInv, FsTypes
  <2>3. \A q \in Proc : q # p => Good(q)'
    BY <1>1, <1>4, <1>8, <2>1, Kept
  <2>4. Good(p)'
    BY <1>4, <1>8, Back
  <2> QED
    BY <1>2, <2>1, <2>2, <2>3, <2>4 DEF FsInv
<1>9. CASE /\ \E d \in 1 .. NDIRENT : i = dir[d]
           /\ inode' = [inode EXCEPT ![i] = "reading"]
           /\ call' = [call EXCEPT ![p].pc = "load", ![p].i = i] /\ UNCHANGED <<file, unread>>
  <2>1. PICK c : c = [call[p] EXCEPT !.pc = "load", !.i = i]
    OBVIOUS
  <2>2. c \in CallT
    BY <1>3, <2>1 DEF CallT
  <2>3. /\ c.pc = "load" /\ c.i = i /\ c.op = "open" /\ c.cnt = call[p].cnt
        /\ c.size = call[p].size /\ c.start = call[p].start
    BY <1>1, <1>3, <2>1 DEF CallT
  <2>4. /\ call' \in [Proc -> CallT] /\ call'[p] = c
        /\ \A q \in Proc : q # p => call'[q] = call[q]
    BY <1>3, <1>9, <2>1, <2>2
  <2>5. inode' \in [Ino -> {"out", "reading", "read"}]
    BY <1>9 DEF FsInv, FsTypes
  <2>6. FsTypes'
    BY <1>1, <1>9, <2>4, <2>5 DEF FsInv, FsTypes
  <2>7. \A q \in Proc : q # p => Good(q)'
    BY <1>1, <1>9, <2>4, Kept
  <2>8. Good(p)'
    <3>1. Place(p) /\ ~(p \in InLoop)'
      BY <2>3, <2>4 DEF FsInv, Good, InLoop
    <3>2. i \in InUse'
      BY <1>2, <1>7, <1>9
    <3>3. call[p].cnt <= call[p].size /\ call[p].start + call[p].size <= NADDR * SECTSIZE
      BY <3>1 DEF Place
    <3>4. Place(p)'
      BY <2>3, <2>4, <3>1, <3>2, <3>3 DEF Place
    <3> QED
      BY <3>1, <3>4 DEF Good, Holder, Right
  <2> QED
    BY <1>2, <1>9, <2>6, <2>7, <2>8 DEF FsInv
<1> QED
  BY <1>5, <1>6, <1>8, <1>9 DEF Dirlookup

\* iget() has read the inode.
LEMMA LoadStep ==
  ASSUME FsInv, NEW p \in Proc, Load(p)
  PROVE  FsInv'
<1>1. PICK i : i = call[p].i
  OBVIOUS
<1>2. /\ mk = "done" /\ UNCHANGED mkvars /\ UNCHANGED <<buf, lock, got, unread>>
      /\ call[p].pc = "load" /\ Falloc(i)
      /\ inode' = [inode EXCEPT ![i] = "read"] /\ call' = [call EXCEPT ![p] = User]
  BY <1>1 DEF Load, At, Runs
<1>3. i \in InUse
  <2>1. call[p] \in CallT /\ Place(p)
    BY DEF FsInv, FsTypes, Good
  <2>2. call[p].op = "open"
    BY <1>2, <2>1 DEF Place, InLoop, CallT
  <2> QED
    BY <1>1, <1>2, <2>1, <2>2 DEF Place
<1>4. /\ file' \in [File -> FileT] /\ Opened'
      /\ \A q \in InLoop : file'[call[q].f] = file[call[q].f]
  BY <1>2, <1>3, FallocIs
<1>5. MkInv' /\ Idle' /\ Buffers'
  BY <1>2, Rest
<1>6. /\ call' \in [Proc -> CallT] /\ call'[p] = User
      /\ \A q \in Proc : q # p => call'[q] = call[q]
  BY <1>2, UserT DEF FsInv, FsTypes
<1>7. inode' \in [Ino -> {"out", "reading", "read"}]
  BY <1>2 DEF FsInv, FsTypes
<1>8. FsTypes'
  BY <1>2, <1>4, <1>6, <1>7 DEF FsInv, FsTypes
<1>9. \A q \in Proc : q # p => Good(q)'
  BY <1>2, <1>4, <1>6, Kept
<1>10. Good(p)'
  BY <1>6, Back
<1> QED
  BY <1>4, <1>5, <1>8, <1>9, <1>10 DEF FsInv

\* The offset moves, and the lock is given back.
LEMMA ReturnStep ==
  ASSUME FsInv, NEW p \in Proc, Return(p)
  PROVE  FsInv'
<1>1. /\ mk = "done" /\ call[p].pc = "end" /\ UNCHANGED mkvars /\ UNCHANGED <<inode, buf, unread>>
      /\ file' = [file EXCEPT ![call[p].f].offset = @ + call[p].size]
      /\ lock' = [lock EXCEPT ![ip(p)] = 0]
      /\ call' = [call EXCEPT ![p] = User]
      /\ got'  = [got EXCEPT ![p] = <<>>]
  BY DEF Return, At, Runs
<1>2. MkInv' /\ Idle' /\ Buffers' /\ InUse' = InUse
  BY <1>1, Rest, DiskStays
<1>3. p \in InLoop
  <2>1. call[p] \in CallT /\ Place(p)
    BY DEF FsInv, FsTypes, Good
  <2> QED
    BY <1>1, <2>1 DEF Place, CallT, InLoop
<1>4. PICK f : f = call[p].f
  OBVIOUS
<1>5. PICK off : off = file[f].offset
  OBVIOUS
<1>6. /\ f \in File /\ file \in [File -> FileT] /\ file[f] \in FileT
      /\ ip(p) \in InUse /\ ip(p) \in Ino /\ lock[ip(p)] = p /\ call[p].start = off
  BY <1>3, <1>4, <1>5 DEF FsInv, FsTypes, Good, Holder, InUse
<1>7. off + call[p].size \in 0 .. NADDR * SECTSIZE
  <2>1. PICK lim \in Nat : lim = NADDR * SECTSIZE
    BY Constants
  <2>2. call[p].start + call[p].size <= lim
    BY <2>1 DEF FsInv, Good, Place
  <2>3. call[p].start \in Nat /\ call[p].size \in Nat
    BY DEF FsInv, FsTypes, CallT
  <2> QED
    BY <1>6, <2>1, <2>2, <2>3
<1>8. PICK e : e = [file[f] EXCEPT !.offset = off + call[p].size]
  OBVIOUS
<1>9. e \in FileT /\ e.inode = file[f].inode
  BY <1>6, <1>7, <1>8 DEF FileT
<1>10. /\ file' \in [File -> FileT]
       /\ \A g \in File : g # f => file'[g] = file[g]
       /\ \A g \in File : file'[g].inode = file[g].inode
  <2>1. file' = [file EXCEPT ![f] = e]
    BY <1>1, <1>4, <1>5, <1>8
  <2> QED
    BY <2>1, <1>6, <1>9
<1>11. /\ call' \in [Proc -> CallT] /\ call'[p] = User
       /\ \A q \in Proc : q # p => call'[q] = call[q]
  BY <1>1, UserT DEF FsInv, FsTypes
<1>12. /\ lock' \in [Ino -> {0} \cup Proc]
       /\ \A i \in Ino : i # ip(p) => lock'[i] = lock[i]
  BY <1>1, <1>6 DEF FsInv, FsTypes
<1>13. /\ got' \in [Proc -> Seq(Int \X Int)] /\ \A q \in Proc : q # p => got'[q] = got[q]
  <2>1. got \in [Proc -> Seq(Int \X Int)] /\ <<>> \in Seq(Int \X Int)
    BY EmptySeq DEF FsInv, FsTypes
  <2> QED
    BY <1>1, <2>1
<1>14. FsTypes'
  BY <1>1, <1>10, <1>11, <1>12, <1>13 DEF FsInv, FsTypes
<1>15. Opened'
  BY <1>2, <1>10 DEF FsInv, Opened
<1>16. ASSUME NEW q \in Proc, q # p PROVE Good(q)'
  <2>1. ASSUME q \in InLoop PROVE file'[call[q].f] = file[call[q].f] /\ lock'[ip(q)] = lock[ip(q)]
    <3>1. ip(q) \in Ino /\ lock[ip(q)] = q /\ call[q].f \in File
      BY <2>1 DEF FsInv, Good, Holder, InUse
    <3>2. ip(q) # ip(p)
      BY <1>6, <1>16, <3>1
    <3>3. call[q].f # f
      BY <1>4, <3>2 DEF ip
    <3> QED
      BY <1>10, <1>12, <3>1, <3>2, <3>3
  <2> QED
    BY <1>1, <1>11, <1>13, <1>16, <2>1, Kept
<1>17. Good(p)'
  BY <1>11, Back
<1> QED
  BY <1>2, <1>14, <1>15, <1>16, <1>17 DEF FsInv

\* While mkfs is at work no process runs.
LEMMA MkfsStep ==
  ASSUME FsInv, MkNext, UNCHANGED kvars
  PROVE  FsInv'
<1>1. MkInv'
  BY MkNextInv DEF FsInv
<1>2. mk # "done"
  BY DEF MkNext, MkKernel, MkRootdir, MkFile, MkLists
<1>3. UNCHANGED <<file, inode, buf, lock, call, got, unread>>
  BY DEF kvars
<1>4. /\ \A p \in Proc : call[p] = User /\ call'[p] = User
      /\ \A f \in File : file[f].inode = 0 /\ file'[f].inode = 0
      /\ \A b \in Block : buf[b] = Absent /\ buf'[b] = Absent
  BY <1>2, <1>3 DEF FsInv, Idle
<1>5. FsTypes' /\ Idle' /\ Opened'
  BY <1>3, <1>4 DEF FsInv, FsTypes, Idle, Opened
<1>6. \A p \in Proc : Good(p)'
  BY <1>4, Back
<1>7. Buffers'
  <2>1. ASSUME NEW i \in InUse', NEW a \in Addr PROVE dinode'[i].addr[a] \in Block
    <3>1. dinode' \in [Ino -> DinodeT] /\ i \in Ino
      BY <1>1 DEF MkInv, MkTypes, InUse
    <3> QED
      BY <3>1 DEF DinodeT
  <2>2. \A b \in Block : ~buf'[b].valid
    BY <1>4, AbsentT
  <2> QED
    BY <2>1, <2>2 DEF Buffers
<1> QED
  BY <1>1, <1>5, <1>6, <1>7 DEF FsInv

\* A step that changes nothing.
LEMMA FsStutter ==
  ASSUME FsInv, UNCHANGED vars
  PROVE  FsInv'
<1>1. UNCHANGED <<file, inode, buf, lock, call, got, unread>> /\ UNCHANGED mkvars
  BY DEF vars, kvars
<1>2. MkInv'
  BY <1>1, MkStutterStep DEF FsInv
<1>3. UNCHANGED <<mk, dinode, bin, sysfs>> /\ InUse' = InUse
  BY <1>1 DEF mkvars, InUse
<1>4. FsTypes' /\ Idle' /\ Opened'
  BY <1>1, <1>3 DEF FsInv, FsTypes, Idle, Opened
<1>5. Buffers'
  BY <1>1, <1>3 DEF FsInv, Buffers, Holds
<1>6. InLoop' = InLoop /\ \A p \in Proc : ip(p)' = ip(p)
  BY <1>1 DEF InLoop, ip
<1>7. \A p \in Proc : Good(p)'
  BY <1>1, <1>3, <1>6 DEF FsInv, Good, Place, Holder, Right
<1> QED
  BY <1>2, <1>4, <1>5, <1>7 DEF FsInv

(***************************************************************************)
(* The theorems.                                                           *)
(***************************************************************************)
LEMMA FsInvInit == Init => FsInv
<1> SUFFICES ASSUME Init PROVE FsInv
  OBVIOUS
<1>1. MkInv /\ mk = "kernel"
  BY MkInitInv DEF Init, MkInit
<1>2. /\ \A p \in Proc : call[p] = User
      /\ \A f \in File : file[f].inode = 0
      /\ \A b \in Block : buf[b] = Absent
  BY DEF Init
<1>3. FsTypes
  <2>1. 0 \in 0 .. NADDR * SECTSIZE
    BY Constants
  <2>2. [inode |-> 0, offset |-> 0] \in FileT
    BY <2>1 DEF FileT
  <2>3. <<>> \in Seq(Int \X Int)
    BY EmptySeq
  <2> QED
    BY <2>2, <2>3, UserT, AbsentT DEF Init, FsTypes
<1>4. Idle /\ Opened
  BY <1>2 DEF Idle, Opened
<1>5. ASSUME NEW p \in Proc PROVE Good(p)
  <2>1. p \notin InLoop /\ 0 <= NADDR * SECTSIZE
    BY <1>2, UserT, Constants DEF InLoop
  <2>2. Place(p)
    BY <1>2, <2>1, UserT DEF Place
  <2> QED
    BY <2>1, <2>2 DEF Good, Holder, Right
<1>6. Buffers
  <2>1. \A i \in InUse, a \in Addr : dinode[i].addr[a] \in Block
    BY <1>1, AddressIs
  <2> QED
    BY <2>1, <1>2, AbsentT DEF Buffers
<1> QED
  BY <1>1, <1>3, <1>4, <1>5, <1>6 DEF FsInv

\* Every step keeps the invariant.
LEMMA FsInvNext ==
  ASSUME FsInv, [Next]_vars
  PROVE  FsInv'
<1>1. CASE MkNext /\ UNCHANGED kvars
  BY <1>1, MkfsStep
<1>2. ASSUME NEW b \in Block, Recycle(b) PROVE FsInv'
  BY <1>2, RecycleStep
<1>3. ASSUME NEW p \in Proc, NEW op \in {"read", "write"}, NEW f \in File,
             NEW n \in 0 .. MaxSize, Call(p, op, f, n)
      PROVE  FsInv'
  BY <1>3, CallStep
<1>4. ASSUME NEW p \in Proc, \/ Iderw(p) \/ Disk(p) \/ Readi(p) \/ Writei(p) \/ Return(p)
                             \/ OpenRoot(p) \/ Open(p) \/ Load(p)
      PROVE  FsInv'
  BY <1>4, IderwStep, DiskStep, ReadiStep, WriteiStep, ReturnStep, OpenRootStep, OpenStep, LoadStep
<1>5. ASSUME NEW p \in Proc, NEW i \in Ino, Dirlookup(p, i) PROVE FsInv'
  BY <1>5, DirlookupStep
<1>6. CASE UNCHANGED vars
  BY <1>6, FsStutter
<1> QED
  BY <1>1, <1>2, <1>3, <1>4, <1>5, <1>6 DEF Next

\* The inductive invariant holds of mkfs, and of open(), read() and write() after
\* it, however the processes take turns and whichever buffers are recycled.
THEOREM FsSafe == Spec => []FsInv
<1>1. FsInv /\ [Next]_vars => FsInv'
  BY FsInvNext
<1> QED
  BY <1>1, FsInvInit, PTL DEF Spec

\* The fields keep their types: neither a read() nor a write() goes on past what
\* the addresses of an inode reach, so that none takes an address from beyond
\* the inode's sector.
THEOREM FsTypeOK == Spec => []TypeOK
<1>1. FsInv => TypeOK
  <2> SUFFICES ASSUME FsInv PROVE TypeOK
    OBVIOUS
  <2>1. /\ mk \in {"kernel", "rootdir", "files", "done"}
        /\ \A k \in DOMAIN sysfs : sysfs[k] \in 0 .. NBLOCK - 1
        /\ \A d \in 1 .. NDIRENT : dir[d] \in {0} \cup Ino
    BY DEF FsInv, MkInv, MkTypes
  <2>2. used \subseteq 0 .. NBLOCK - 1
    <3>1. PICK m \in Nat, n \in Nat : Given(m, n)
      BY DEF FsInv, MkInv
    <3> QED
      BY <3>1, Constants DEF Given
  <2>3. \A i \in Ino : dinode[i] \in DinodeT /\ lock[i] \in {0} \cup Proc
    BY DEF FsInv, MkInv, MkTypes, FsTypes
  <2>4. \A i \in Ino : /\ dinode[i].type \in {"none", "dir", "file"}
                       /\ dinode[i].size \in 0 .. NADDR * SECTSIZE
                       /\ \A a \in Addr : dinode[i].addr[a] \in Block
    BY <2>3 DEF DinodeT
  <2>5. \A f \in File : /\ file[f].inode \in {0} \cup Ino
                        /\ file[f].offset \in 0 .. NADDR * SECTSIZE
    BY DEF FsInv, FsTypes, FileT
  <2>6. \A b \in Block : buf[b].valid \in BOOLEAN /\ DOMAIN buf[b].data = Byte
    BY DEF FsInv, FsTypes, BufT, DataT
  <2>7. ASSUME NEW p \in Proc
        PROVE  /\ call[p].pc \in {"user", "bread", "disk", "end", "load"}
               /\ call[p].op \in {"none", "read", "write", "open"} /\ call[p].i \in {0} \cup Ino
               /\ call[p].start \in Nat /\ call[p].size \in Nat /\ call[p].cnt \in 0 .. call[p].size
               /\ call[p].start + call[p].size <= NADDR * SECTSIZE
    <3>1. call[p] \in CallT
      BY DEF FsInv, FsTypes
    <3>2. call[p].cnt <= call[p].size /\ call[p].start + call[p].size <= NADDR * SECTSIZE
      BY DEF FsInv, Good, Place
    <3> QED
      BY <3>1, <3>2 DEF CallT
  <2>8. /\ \A i \in Ino : inode[i] \in {"out", "reading", "read"}
        /\ unread \in {"no", "used", "believed"}
    BY DEF FsInv, FsTypes
  <2> QED
    BY <2>1, <2>2, <2>3, <2>4, <2>5, <2>6, <2>7, <2>8 DEF TypeOK
<1> QED
  BY <1>1, FsSafe, PTL

\* What mkfs puts on the disk stays where its address says, and neither an inode
\* nor a block of it is in the lists of what is free.
THEOREM LayoutKept == Spec => []Layout
<1>1. FsInv => Layout
  BY LayoutHolds DEF FsInv
<1> QED
  BY <1>1, FsSafe, PTL

\* read() copies the bytes of its own file, all of them within the file.
THEOREM ReadsTheFile == Spec => []ReadsOwn
<1>1. FsInv => ReadsOwn
  BY DEF FsInv, Good, Right, ReadsOwn, InLoop
<1> QED
  BY <1>1, FsSafe, PTL

\* Processes that share a file get consecutive parts of it: the offset is moved
\* under the inode's lock.
THEOREM OffsetMoves == Spec => []OffsetExact
<1>1. FsInv => OffsetExact
  BY DEF FsInv, Good, Holder, OffsetExact, InLoop
<1> QED
  BY <1>1, FsSafe, PTL
=============================================================================
