----------------------------- MODULE MkfsProofs -----------------------------
(***************************************************************************)
(* Proofs about Mkfs, for every size of a disk and of the files on it:     *)
(* what mkfs writes stays where its address says, and only the rest is in  *)
(* the lists of what is free.                                              *)
(***************************************************************************)
EXTENDS Mkfs, TLAPS

DinodeT == [type : {"none", "dir", "file"}, size : 0 .. NADDR * SECTSIZE, addr : [Addr -> Block]]
DataT   == [Byte -> Int \X Int]

MkTypes ==
  /\ mk \in {"kernel", "rootdir", "files", "done"}
  /\ sysfs \in [kernel : 0 .. NBLOCK - 1, rootdir : 0 .. NBLOCK - 1,
                inodeblock : 0 .. NBLOCK - 1, freeblock : 0 .. NBLOCK - 1]
  /\ dinode \in [Ino -> DinodeT]
  /\ dir \in [1 .. NDIRENT -> {0} \cup Ino]
  /\ bin \in [Block -> DataT]

\* ialloc() has given the inodes below m, balloc() the blocks below n.
Given(m, n) ==
  /\ m \in 2 .. FIRSTDATA /\ n \in FIRSTDATA .. NBLOCK
  /\ used = {0} \cup 2 .. m - 1 \cup FIRSTDATA .. n - 1
  /\ \A i \in InUse : i < m
  /\ \A i \in InUse, a \in Addr :
       IF a < Blocks(dinode[i].size) THEN dinode[i].addr[a] \in FIRSTDATA .. n - 1
                                     ELSE dinode[i].addr[a] = 0
  /\ \A b \in Block : b >= n => bin[b] = Zeros
  /\ mk # "kernel" => sysfs.kernel >= FIRSTDATA /\ sysfs.kernel + Blocks(KernelSize) <= n

\* How much of the disk is given at most, and the entries of the directory, which
\* are filled in the order of the inodes.
Room(m, n) ==
  /\ mk = "kernel"  => m = 2 /\ n = FIRSTDATA
  /\ mk = "rootdir" => m = 2 /\ n <= FIRSTDATA + Blocks(KernelSize)
  /\ mk = "files"   =>
       /\ m >= 3 /\ m <= NDIRENT + 3
       /\ n <= FIRSTDATA + Blocks(KernelSize) + SECTSIZE + NADDR * (m - 3)
       /\ \A d \in 1 .. NDIRENT : dir[d] = IF d + 2 < m THEN d + 2 ELSE 0

\* No block belongs to two files, or twice to one.
Apart ==
  \A i, j \in InUse, a, c \in Addr :
    dinode[i].addr[a] = dinode[j].addr[c] /\ dinode[i].addr[a] # 0 => i = j /\ a = c

\* What a path can lead to is an inode in use.
Named ==
  /\ mk \in {"files", "done"} => sysfs.rootdir \in InUse
  /\ \A d \in 1 .. NDIRENT : dir[d] # 0 => dir[d] \in InUse

\* The lists start past what is in use.
Listed ==
  mk = "done" =>
    /\ sysfs.inodeblock \in Ino /\ sysfs.freeblock \in FIRSTDATA .. NBLOCK - 1
    /\ \A i \in InUse : i < sysfs.inodeblock
    /\ \A b \in Block : b >= sysfs.freeblock => bin[b] = Zeros

MkInv ==
  /\ MkTypes /\ Apart /\ Named /\ Stores /\ Listed
  /\ \E m, n \in Nat : Given(m, n) /\ Room(m, n)

(***************************************************************************)
(* Division.                                                               *)
(***************************************************************************)
\* A position is a block and a byte of it.
LEMMA DivMod ==
  ASSUME NEW s \in Nat \ {0}, NEW a \in Nat
  PROVE  /\ a \div s \in Nat /\ a % s \in Nat /\ a % s < s
         /\ a = s * (a \div s) + (a % s)
<1>1. a \div s \in Nat
  OBVIOUS
<1>2. a % s \in Nat /\ a % s < s
  OBVIOUS
<1>3. PICK q \in Nat : q = a \div s
  BY <1>1
<1>4. PICK r \in Nat : r = a % s
  BY <1>2
<1>5. a = s * q + r
  BY <1>3, <1>4
<1> QED
  BY <1>1, <1>2, <1>3, <1>4, <1>5

\* A block and a byte of it are one position.
LEMMA Divided ==
  ASSUME NEW s \in Nat \ {0}, NEW q \in Nat, NEW r \in Nat, r < s
  PROVE  (s * q + r) \div s = q /\ (s * q + r) % s = r
  OBVIOUS

\* What is below q blocks is in one of the first q.
LEMMA DivLess ==
  ASSUME NEW s \in Nat \ {0}, NEW a \in Nat, NEW q \in Nat, a < s * q
  PROVE  a \div s < q
<1>1. PICK d \in Nat : d = a \div s
  BY DivMod
<1>2. s * d <= a
  BY <1>1, DivMod
<1>3. ASSUME q <= d PROVE FALSE
  <2>1. s * q <= s * d
    BY <1>3
  <2> QED
    BY <2>1, <1>2
<1> QED
  BY <1>1, <1>3

\* Blocks() rounds up.
LEMMA BlocksIs ==
  ASSUME NEW size \in Nat
  PROVE  /\ Blocks(size) \in Nat
         /\ \A pos \in 0 .. size - 1 : pos \div SECTSIZE < Blocks(size)
         /\ Blocks(size) <= size
         /\ \A k \in Nat : size <= k * SECTSIZE => Blocks(size) <= k
<1>1. SECTSIZE \in Nat \ {0}
  BY MkfsConstants
<1>2. PICK s \in Nat \ {0} : s = SECTSIZE
  BY <1>1
<1>3. PICK a \in Nat : a = size + s - 1
  BY <1>2
<1>4. PICK q \in Nat : q = a \div s
  BY <1>2, DivMod
<1>5. PICK r \in Nat : r = a % s /\ r < s
  BY <1>2, DivMod
<1>6. a = s * q + r /\ Blocks(size) = q
  BY <1>2, <1>3, <1>4, <1>5, DivMod DEF Blocks
<1>7. size <= s * q
  BY <1>3, <1>5, <1>6
<1>8. \A pos \in 0 .. size - 1 : pos \div s < q
  BY <1>7, DivLess
<1>9. \A k \in Nat : size <= k * s => q <= k
  <2> SUFFICES ASSUME NEW k \in Nat, size <= k * s, q > k PROVE FALSE
    BY <1>4
  <2>1. s * q >= s * (k + 1)
    OBVIOUS
  <2>2. s * (k + 1) = k * s + s
    OBVIOUS
  <2> QED
    BY <2>1, <2>2, <1>3, <1>6
<1>10. size <= size * s
  OBVIOUS
<1> QED
  BY <1>2, <1>6, <1>8, <1>9, <1>10

\* The constants as facts of arithmetic.
LEMMA Constants ==
  /\ SECTSIZE \in Nat \ {0} /\ NADDR \in Nat \ {0} /\ NLIST \in Nat \ {0}
  /\ NDIRENT \in Nat \ {0} /\ KernelSize \in Nat \ {0}
  /\ FIRSTDATA \in Nat /\ FIRSTDATA >= NDIRENT + 4
  /\ Sizes \subseteq 0 .. NADDR * SECTSIZE
  /\ NBLOCK \in Nat /\ NADDR * NDIRENT \in Nat
  /\ Blocks(KernelSize) \in Nat
  /\ NBLOCK >= FIRSTDATA + 2 * SECTSIZE + NADDR * NDIRENT + Blocks(KernelSize)
<1>1. KernelSize \in Nat
  BY MkfsConstants
<1>2. Blocks(KernelSize) \in Nat
  BY <1>1, BlocksIs
<1> QED
  BY <1>2, MkfsConstants

\* The same of the kernel.
LEMMA KernelBlocks ==
  /\ KernelSize \in Nat /\ Blocks(KernelSize) \in Nat /\ Blocks(KernelSize) <= KernelSize
  /\ \A pos \in 0 .. KernelSize - 1 :
       /\ pos \in Nat /\ pos \div SECTSIZE \in Nat
       /\ pos \div SECTSIZE < Blocks(KernelSize)
<1>1. KernelSize \in Nat /\ SECTSIZE \in Nat \ {0}
  BY Constants
<1>2. \A pos \in 0 .. KernelSize - 1 : pos \in Nat /\ pos \div SECTSIZE \in Nat
  BY <1>1, DivMod
<1>3. /\ Blocks(KernelSize) \in Nat /\ Blocks(KernelSize) <= KernelSize
      /\ \A pos \in 0 .. KernelSize - 1 : pos \div SECTSIZE < Blocks(KernelSize)
  BY <1>1, BlocksIs
<1> QED
  BY <1>1, <1>2, <1>3

(***************************************************************************)
(* The operators of the model.                                             *)
(***************************************************************************)
\* ialloc() and balloc() give the first that is left.
LEMMA Allocated ==
  ASSUME NEW m \in Nat, NEW n \in Nat, Given(m, n)
  PROVE  /\ m < FIRSTDATA => ialloc = m
         /\ n < NBLOCK => balloc = n
<1>1. ASSUME NEW S, NEW x \in S \ used, S \subseteq Nat, \A y \in S \ used : x <= y
      PROVE  FirstFree(S) = x
  <2>1. ~(S \subseteq used)
    BY <1>1
  <2>2. \A y \in S \ used : (\A z \in S \ used : y <= z) => y = x
    BY <1>1
  <2> QED
    BY <1>1, <2>1, <2>2 DEF FirstFree
<1>2. ASSUME m < FIRSTDATA PROVE ialloc = m
  <2>1. m \in Ino \ used /\ \A y \in Ino \ used : m <= y
    BY <1>2, Constants DEF Given, Ino
  <2>2. Ino \subseteq Nat
    BY DEF Ino
  <2> QED
    BY <1>1, <2>1, <2>2 DEF ialloc
<1>3. ASSUME n < NBLOCK PROVE balloc = n
  <2>1. n \in (Block \ {0}) \ used /\ \A y \in (Block \ {0}) \ used : n <= y
    BY <1>3, Constants DEF Given, Block
  <2>2. Block \ {0} \subseteq Nat
    BY Constants DEF Block
  <2> QED
    BY <1>1, <2>1, <2>2 DEF balloc
<1> QED
  BY <1>2, <1>3

\* fread() puts each byte of a file where its position says, and leaves the
\* other blocks alone.
LEMMA StoredIs ==
  ASSUME NEW b \in FIRSTDATA .. NBLOCK - 1, NEW ino \in Nat, NEW size \in Nat,
         b + Blocks(size) <= NBLOCK, bin \in [Block -> DataT]
  PROVE  /\ Stored(b, ino, size) \in [Block -> DataT]
         /\ \A pos \in 0 .. size - 1 :
              Stored(b, ino, size)[b + pos \div SECTSIZE][pos % SECTSIZE] = <<ino, pos>>
         /\ \A c \in Block : c \notin b .. b + Blocks(size) - 1 => Stored(b, ino, size)[c] = bin[c]
<1> DEFINE Part(c) == [k \in Byte |-> LET pos == (c - b) * SECTSIZE + k
                                      IN IF pos < size THEN <<ino, pos>> ELSE ZeroByte]
<1>1. Blocks(size) \in Nat /\ SECTSIZE \in Nat \ {0}
  BY BlocksIs, Constants
<1>2. \A c \in Block : Stored(b, ino, size)[c] = IF c \in b .. b + Blocks(size) - 1 THEN Part(c) ELSE bin[c]
  BY DEF Stored
<1>3. ASSUME NEW c \in Block PROVE Part(c) \in DataT
  <2>1. \A k \in Byte : (c - b) * SECTSIZE + k \in Int
    BY <1>1, Constants DEF Block, Byte
  <2>2. \A pos \in Int : (IF pos < size THEN <<ino, pos>> ELSE ZeroByte) \in Int \X Int
    BY DEF ZeroByte
  <2>3. \A k \in Byte : Part(c)[k] \in Int \X Int
    BY <2>1, <2>2
  <2>4. Part(c) = [k \in Byte |-> Part(c)[k]]
    OBVIOUS
  <2> HIDE DEF Part
  <2> QED
    BY <2>3, <2>4 DEF DataT
<1>4. Stored(b, ino, size) \in [Block -> DataT]
  <2>1. \A c \in Block : Stored(b, ino, size)[c] \in DataT
    BY <1>2, <1>3
  <2> QED
    BY <2>1 DEF Stored
<1>5. ASSUME NEW pos \in 0 .. size - 1
      PROVE  Stored(b, ino, size)[b + pos \div SECTSIZE][pos % SECTSIZE] = <<ino, pos>>
  <2>1. PICK q \in Nat : q = pos \div SECTSIZE
    BY <1>1, DivMod
  <2>2. PICK r \in Nat : r = pos % SECTSIZE
    BY <1>1, DivMod
  <2>3. r < SECTSIZE /\ pos = SECTSIZE * q + r /\ q < Blocks(size)
    <3>1. pos \in Nat
      OBVIOUS
    <3>2. pos = SECTSIZE * q + r /\ r < SECTSIZE
      BY <1>1, <2>1, <2>2, <3>1, DivMod
    <3>3. pos \div SECTSIZE < Blocks(size)
      BY BlocksIs
    <3> QED
      BY <2>1, <3>2, <3>3
  <2>4. b + q \in Block /\ b + q \in b .. b + Blocks(size) - 1
    BY <2>3, <1>1, Constants DEF Block
  <2>5. r \in Byte
    BY <2>3, <1>1 DEF Byte
  <2>6. ((b + q) - b) * SECTSIZE + r = pos
    BY <2>3, <1>1, Constants
  <2>7. Part(b + q)[r] = <<ino, pos>>
    BY <2>5, <2>6
  <2> QED
    BY <1>2, <2>1, <2>2, <2>4, <2>7
<1> QED
  BY <1>2, <1>4, <1>5

\* After the last entry of a block of a list goes on in the block that it names.
LEMMA ListGoesOn ==
  ASSUME NEW first \in Nat, NEW i \in Nat, i >= first
  PROVE  ListBlock(first, i) = first \/ ListIndex(first, ListBlock(first, i)) = NLIST - 1
<1>1. CASE i - first < NLIST
  BY <1>1 DEF ListBlock
<1>2. CASE ~(i - first < NLIST)
  <2>1. PICK s \in Nat \ {0} : s = NLIST
    BY Constants
  <2>2. PICK a \in Nat : a = i - first
    OBVIOUS
  <2>3. PICK q \in Nat : q = a \div s
    BY DivMod
  <2>4. q >= 1
    <3> SUFFICES ASSUME q = 0 PROVE FALSE
      BY <2>3
    <3>1. a = a % s /\ a % s < s
      BY <2>3, DivMod
    <3> QED
      BY <3>1, <1>2, <2>1, <2>2
  <2>5. ListBlock(first, i) = first + q * s - 1
    BY <1>2, <2>1, <2>2, <2>3 DEF ListBlock
  <2>6. PICK t \in Nat : t = q - 1
    BY <2>4
  <2>7. (first + q * s - 1) - first = s * t + (s - 1)
    BY <2>6
  <2>8. (s * t + (s - 1)) % s = s - 1
    BY Divided
  <2> QED
    BY <2>1, <2>5, <2>7, <2>8 DEF ListIndex
<1> QED
  BY <1>1, <1>2

(***************************************************************************)
(* The steps of mkfs.                                                      *)
(***************************************************************************)
LEMMA MkInitInv == MkInit => MkInv
<1> SUFFICES ASSUME MkInit PROVE MkInv
  OBVIOUS
<1>1. /\ mk = "kernel" /\ used = {0} /\ InUse = {}
      /\ dir = [d \in 1 .. NDIRENT |-> 0] /\ \A b \in Block : bin[b] = Zeros
  BY DEF MkInit, InUse, NoInode
<1>2. MkTypes
  <2>1. dinode \in [Ino -> DinodeT]
    <3>1. [a \in Addr |-> 0] \in [Addr -> Block]
      BY DEF Block
    <3>2. 0 \in 0 .. NADDR * SECTSIZE
      BY Constants
    <3>3. NoInode \in DinodeT
      BY <3>1, <3>2 DEF DinodeT, NoInode
    <3> QED
      BY <3>3 DEF MkInit
  <2>2. bin \in [Block -> DataT]
    <3>1. Zeros \in DataT
      BY DEF Zeros, ZeroByte, DataT
    <3> QED
      BY <3>1 DEF MkInit
  <2>3. 0 \in 0 .. NBLOCK - 1
    BY Constants
  <2> QED
    BY <2>1, <2>2, <2>3 DEF MkInit, MkTypes
<1>3. Apart /\ Named /\ Listed /\ Stores
  BY <1>1 DEF Apart, Named, Listed, Stores
<1>4. Given(2, FIRSTDATA) /\ Room(2, FIRSTDATA)
  BY <1>1, Constants DEF Given, Room
<1> QED
  BY <1>2, <1>3, <1>4, Constants DEF MkInv

\* The kernel's image goes to the first data blocks.
LEMMA MkKernelStep ==
  ASSUME MkInv, MkKernel
  PROVE  MkInv'
<1>1. PICK m \in Nat, n \in Nat : Given(m, n) /\ Room(m, n)
  BY DEF MkInv
<1>2. m = 2 /\ n = FIRSTDATA /\ n < NBLOCK /\ balloc = n
  <2>1. m = 2 /\ n = FIRSTDATA
    BY <1>1 DEF MkKernel, Room
  <2>2. FIRSTDATA < NBLOCK
    BY Constants
  <2> QED
    BY <2>1, <2>2, <1>1, Allocated
<1>3. /\ Blocks(KernelSize) \in Nat /\ Blocks(KernelSize) <= KernelSize /\ KernelSize \in Nat
  BY BlocksIs, Constants
<1>4. PICK k \in Nat : k = n + Blocks(KernelSize)
  BY <1>3
<1>5. k <= NBLOCK /\ n <= k /\ n \in FIRSTDATA .. NBLOCK - 1 /\ k <= FIRSTDATA + Blocks(KernelSize)
  BY <1>2, <1>3, <1>4, Constants
<1>6. bin \in [Block -> DataT] /\ KERNEL \in Nat
  BY DEF MkInv, MkTypes, KERNEL
<1>7. /\ bin' \in [Block -> DataT]
      /\ \A pos \in 0 .. KernelSize - 1 :
           bin'[n + pos \div SECTSIZE][pos % SECTSIZE] = <<KERNEL, pos>>
      /\ \A c \in Block : c \notin n .. k - 1 => bin'[c] = bin[c]
  BY <1>2, <1>3, <1>4, <1>5, <1>6, StoredIs DEF MkKernel
<1>8. /\ sysfs' = [sysfs EXCEPT !.kernel = n] /\ sysfs'.kernel = n
      /\ mk' = "rootdir" /\ mk = "kernel" /\ UNCHANGED <<dinode, dir>> /\ InUse' = InUse
  <2>1. sysfs' = [sysfs EXCEPT !.kernel = n]
    BY <1>2 DEF MkKernel
  <2>2. sysfs'.kernel = n
    BY <2>1 DEF MkInv, MkTypes
  <2> QED
    BY <2>1, <2>2 DEF MkKernel, InUse
<1>9. InUse = {}
  BY <1>1, <1>2 DEF Given, InUse, Ino
<1>10. MkTypes'
  <2>1. sysfs' \in [kernel : 0 .. NBLOCK - 1, rootdir : 0 .. NBLOCK - 1,
                    inodeblock : 0 .. NBLOCK - 1, freeblock : 0 .. NBLOCK - 1]
    <3>1. n \in 0 .. NBLOCK - 1
      BY <1>2, Constants
    <3> QED
      BY <1>8, <3>1 DEF MkInv, MkTypes
  <2> QED
    BY <2>1, <1>7, <1>8 DEF MkInv, MkTypes
<1>11. Given(m, k)'
  <2>1. used' = {0} \cup 2 .. m - 1 \cup FIRSTDATA .. k - 1
    BY <1>1, <1>2, <1>3, <1>4, Constants DEF Given, MkKernel, Taken
  <2>2. \A b \in Block : b >= k => bin'[b] = Zeros
    BY <1>1, <1>2, <1>5, <1>7, Constants DEF Given, Block
  <2> QED
    BY <2>1, <2>2, <1>2, <1>3, <1>4, <1>5, <1>8, <1>9, Constants DEF Given
<1>12. Room(m, k)'
  BY <1>2, <1>5, <1>8 DEF Room
<1>13. Apart' /\ Named' /\ Listed' /\ Stores'
  <2>1. Stores'
    BY <1>7, <1>8, <1>9 DEF Stores
  <2>2. Apart'
    BY <1>8, <1>9 DEF Apart
  <2>3. Named'
    BY <1>8, <1>9 DEF Named, MkInv
  <2> QED
    BY <2>1, <2>2, <2>3, <1>8 DEF Listed
<1> QED
  BY <1>10, <1>11, <1>12, <1>13 DEF MkInv

\* A position of a file is in one of its addresses.
LEMMA PositionIs ==
  ASSUME NEW size \in 0 .. NADDR * SECTSIZE, NEW pos \in 0 .. size - 1
  PROVE  /\ pos \in Nat /\ pos \div SECTSIZE \in Addr /\ pos \div SECTSIZE < Blocks(size)
         /\ pos % SECTSIZE \in Byte
<1>1. size \in Nat /\ pos \in Nat /\ SECTSIZE \in Nat \ {0} /\ NADDR \in Nat
  BY Constants
<1>2. pos \div SECTSIZE < Blocks(size)
  BY <1>1, BlocksIs
<1>3. pos < SECTSIZE * NADDR
  BY <1>1
<1>4. pos \div SECTSIZE < NADDR
  BY <1>1, <1>3, DivLess
<1>5. pos \div SECTSIZE \in Nat /\ pos % SECTSIZE \in Nat /\ pos % SECTSIZE < SECTSIZE
  BY <1>1, DivMod
<1> QED
  BY <1>1, <1>2, <1>4, <1>5 DEF Addr, Byte

\* What mkfs does for the directory and for a file: an inode, blocks, the bytes.
LEMMA GiveStep ==
  ASSUME MkInv, NEW m \in Nat, NEW n \in Nat, Given(m, n), m < FIRSTDATA, n < NBLOCK,
         NEW size \in 0 .. NADDR * SECTSIZE, NEW r \in Nat, Blocks(size) <= r, n + r <= NBLOCK,
         NEW type \in {"dir", "file"},
         dinode' = [dinode EXCEPT ![m] =
           [type |-> type, size |-> size,
            addr |-> [a \in Addr |-> IF a < Blocks(size) THEN n + a ELSE 0]]],
         used' = used \cup {m} \cup Taken(n, r), bin' = Stored(n, m, size),
         mk # "kernel", sysfs'.kernel = sysfs.kernel
  PROVE  /\ dinode' \in [Ino -> DinodeT] /\ bin' \in [Block -> DataT]
         /\ InUse' = InUse \cup {m} /\ Given(m + 1, n + r)' /\ Apart' /\ Stores'
<1> DEFINE addr == [a \in Addr |-> IF a < Blocks(size) THEN n + a ELSE 0]
<1>1. /\ m \in 2 .. FIRSTDATA - 1 /\ m \in Ino /\ n \in FIRSTDATA .. NBLOCK - 1
      /\ Blocks(size) \in Nat /\ size \in Nat /\ n + Blocks(size) <= NBLOCK
  <2>1. size \in Nat
    BY Constants
  <2>2. Blocks(size) \in Nat
    BY <2>1, BlocksIs
  <2> QED
    BY <2>1, <2>2, Constants DEF Given, Ino
<1>2. dinode \in [Ino -> DinodeT] /\ bin \in [Block -> DataT]
  BY DEF MkInv, MkTypes
<1>3. addr \in [Addr -> Block] /\ \A a \in Addr : addr[a] = IF a < Blocks(size) THEN n + a ELSE 0
  <2>1. ASSUME NEW a \in Addr PROVE (IF a < Blocks(size) THEN n + a ELSE 0) \in Block
    BY <1>1, Constants DEF Addr, Block
  <2> QED
    BY <2>1
<1>4. /\ dinode'[m] = [type |-> type, size |-> size, addr |-> addr]
      /\ \A i \in Ino : i # m => dinode'[i] = dinode[i]
  BY <1>1, <1>2
<1> HIDE DEF addr
<1>5. dinode' \in [Ino -> DinodeT]
  <2>1. dinode'[m] \in DinodeT
    BY <1>3, <1>4 DEF DinodeT
  <2>2. dinode' = [i \in Ino |-> dinode'[i]]
    BY <1>2
  <2>3. \A i \in Ino : dinode'[i] \in DinodeT
    BY <1>2, <1>4, <2>1
  <2> QED
    BY <2>2, <2>3
<1>6. /\ bin' \in [Block -> DataT]
      /\ \A pos \in 0 .. size - 1 : bin'[n + pos \div SECTSIZE][pos % SECTSIZE] = <<m, pos>>
      /\ \A c \in Block : c \notin n .. n + Blocks(size) - 1 => bin'[c] = bin[c]
  BY <1>1, <1>2, StoredIs
<1>7. InUse' = InUse \cup {m}
  <2>1. dinode'[m].type = type /\ type # "none"
    BY <1>4
  <2>2. \A i \in Ino : i # m => dinode'[i].type = dinode[i].type
    BY <1>4
  <2> QED
    BY <1>1, <2>1, <2>2 DEF InUse
<1>8. \A i \in InUse : i \in Ino /\ i # m /\ dinode'[i] = dinode[i]
  BY <1>1, <1>4 DEF Given, InUse, Ino
<1>9. /\ dinode'[m].size = size
      /\ \A a \in Addr : dinode'[m].addr[a] = IF a < Blocks(size) THEN n + a ELSE 0
  BY <1>3, <1>4
<1>10. Given(m + 1, n + r)'
  <2>1. m + 1 \in 2 .. FIRSTDATA /\ n + r \in FIRSTDATA .. NBLOCK
    BY <1>1, Constants
  <2>2. used' = {0} \cup 2 .. (m + 1) - 1 \cup FIRSTDATA .. (n + r) - 1
    BY <1>1, Constants DEF Given, Taken
  <2>3. \A i \in InUse' : i < m + 1
    BY <1>1, <1>7, Constants DEF Given, InUse, Ino
  <2>4. ASSUME NEW i \in InUse', NEW a \in Addr
        PROVE  IF a < Blocks(dinode'[i].size) THEN dinode'[i].addr[a] \in FIRSTDATA .. (n + r) - 1
                                              ELSE dinode'[i].addr[a] = 0
    <3>1. CASE i = m
      <4>1. a < Blocks(size) => n + a \in FIRSTDATA .. (n + r) - 1
        BY <1>1, Constants DEF Addr
      <4> QED
        BY <3>1, <4>1, <1>9
    <3>2. CASE i # m
      <4>1. i \in InUse /\ dinode'[i] = dinode[i]
        BY <3>2, <1>7, <1>8
      <4>2. FIRSTDATA .. n - 1 \subseteq FIRSTDATA .. (n + r) - 1
        BY <1>1, Constants
      <4> QED
        BY <4>1, <4>2 DEF Given
    <3> QED
      BY <3>1, <3>2
  <2>5. \A b \in Block : b >= n + r => bin'[b] = Zeros
    <3> SUFFICES ASSUME NEW b \in Block, b >= n + r PROVE bin'[b] = Zeros
      OBVIOUS
    <3>1. b \in Int /\ b >= n /\ b \notin n .. n + Blocks(size) - 1
      BY <1>1, Constants DEF Block
    <3> QED
      BY <3>1, <1>6 DEF Given
  <2>6. sysfs'.kernel >= FIRSTDATA /\ sysfs'.kernel + Blocks(KernelSize) <= n + r
    <3>1. sysfs.kernel \in Nat /\ Blocks(KernelSize) \in Nat
      BY KernelBlocks DEF MkInv, MkTypes
    <3> QED
      BY <3>1, <1>1 DEF Given
  <2> QED
    BY <2>1, <2>2, <2>3, <2>4, <2>5, <2>6 DEF Given
<1>11. Apart'
  <2> SUFFICES ASSUME NEW i \in InUse', NEW j \in InUse', NEW a \in Addr, NEW c \in Addr,
                      dinode'[i].addr[a] = dinode'[j].addr[c], dinode'[i].addr[a] # 0
               PROVE  i = j /\ a = c
    BY DEF Apart
  <2>1. \A k \in InUse, e \in Addr : dinode'[k].addr[e] # 0 => dinode'[k].addr[e] \in FIRSTDATA .. n - 1
    BY <1>8 DEF Given
  <2>2. \A e \in Addr : dinode'[m].addr[e] # 0 => dinode'[m].addr[e] = n + e /\ e \in Nat
    BY <1>9 DEF Addr
  <2>3. CASE i = m /\ j = m
    BY <2>2, <2>3, <1>1
  <2>4. CASE i # m /\ j # m
    BY <2>4, <1>7, <1>8 DEF MkInv, Apart
  <2>5. CASE i = m /\ j # m
    BY <2>1, <2>2, <2>5, <1>1, <1>7
  <2>6. CASE i # m /\ j = m
    BY <2>1, <2>2, <2>6, <1>1, <1>7
  <2> QED
    BY <2>3, <2>4, <2>5, <2>6
<1>12. Stores'
  <2>1. ASSUME NEW pos \in 0 .. KernelSize - 1
        PROVE  bin'[sysfs'.kernel + pos \div SECTSIZE][pos % SECTSIZE] = <<KERNEL, pos>>
    <3>1. KernelSize \in Nat /\ pos \in Nat /\ pos \div SECTSIZE \in Nat /\ pos \div SECTSIZE < Blocks(KernelSize)
      BY KernelBlocks
    <3>2. PICK q \in Nat : q = pos \div SECTSIZE
      BY <3>1
    <3>3. sysfs.kernel \in Nat /\ sysfs.kernel >= FIRSTDATA /\ sysfs.kernel + Blocks(KernelSize) <= n
      BY DEF Given, MkInv, MkTypes
    <3>4. Blocks(KernelSize) \in Nat
      BY KernelBlocks
    <3>5. sysfs.kernel + q \in Block /\ sysfs.kernel + q \notin n .. n + Blocks(size) - 1
      BY <3>1, <3>2, <3>3, <3>4, <1>1, Constants DEF Block
    <3>6. bin[sysfs.kernel + q][pos % SECTSIZE] = <<KERNEL, pos>>
      BY <3>2 DEF MkInv, Stores
    <3> QED
      BY <3>2, <3>5, <3>6, <1>6
  <2>2. ASSUME NEW i \in InUse', NEW pos \in 0 .. dinode'[i].size - 1
        PROVE  bin'[dinode'[i].addr[pos \div SECTSIZE]][pos % SECTSIZE] = <<i, pos>>
    <3>1. CASE i = m
      <4>1. pos \in 0 .. size - 1
        BY <3>1, <1>9
      <4>2. pos \div SECTSIZE \in Addr /\ pos \div SECTSIZE < Blocks(size)
        BY <4>1, PositionIs
      <4>3. dinode'[m].addr[pos \div SECTSIZE] = n + pos \div SECTSIZE
        BY <4>2, <1>9
      <4> QED
        BY <3>1, <4>1, <4>3, <1>6
    <3>2. CASE i # m
      <4>1. i \in InUse /\ i \in Ino /\ dinode'[i] = dinode[i] /\ pos \in 0 .. dinode[i].size - 1
        BY <3>2, <1>7, <1>8
      <4>2. dinode[i].size \in 0 .. NADDR * SECTSIZE
        BY <4>1, <1>2 DEF DinodeT
      <4>3. pos \div SECTSIZE \in Addr /\ pos \div SECTSIZE < Blocks(dinode[i].size)
        BY <4>1, <4>2, PositionIs
      <4>4. dinode[i].addr[pos \div SECTSIZE] \in FIRSTDATA .. n - 1
        BY <4>1, <4>3 DEF Given
      <4>5. \A c \in FIRSTDATA .. n - 1 : bin'[c] = bin[c]
        BY <1>1, <1>6, Constants DEF Block
      <4> QED
        BY <4>1, <4>4, <4>5 DEF MkInv, Stores
    <3> QED
      BY <3>1, <3>2
  <2> QED
    BY <2>1, <2>2 DEF Stores
<1> QED
  BY <1>5, <1>6, <1>7, <1>10, <1>11, <1>12

\* The root directory gets the first inode and one block.
LEMMA MkRootdirStep ==
  ASSUME MkInv, MkRootdir
  PROVE  MkInv'
<1>1. PICK m \in Nat, n \in Nat : Given(m, n) /\ Room(m, n)
  BY DEF MkInv
<1>2. /\ mk = "rootdir" /\ mk' = "files" /\ dir' = dir
      /\ m = 2 /\ n <= FIRSTDATA + Blocks(KernelSize)
  BY <1>1 DEF MkRootdir, Room
<1>3. m < FIRSTDATA /\ n < NBLOCK /\ n + SECTSIZE <= NBLOCK
  BY <1>2, Constants
<1>4. ialloc = m /\ balloc = n
  BY <1>1, <1>3, Allocated
<1>5. SECTSIZE \in 0 .. NADDR * SECTSIZE /\ SECTSIZE \in Nat \ {0}
  BY Constants
<1>6. Blocks(SECTSIZE) = 1
  <2>1. Blocks(SECTSIZE) \in Nat /\ Blocks(SECTSIZE) <= 1
    BY <1>5, BlocksIs
  <2>2. 0 \div SECTSIZE < Blocks(SECTSIZE)
    BY <1>5, BlocksIs
  <2>3. 0 \div SECTSIZE \in Nat
    BY <1>5, DivMod
  <2> QED
    BY <2>1, <2>2, <2>3
<1>7. [NoInode.addr EXCEPT ![0] = n] = [a \in Addr |-> IF a < Blocks(SECTSIZE) THEN n + a ELSE 0]
  <2>1. \A a \in Addr : (IF a < Blocks(SECTSIZE) THEN n + a ELSE 0) = IF a = 0 THEN n ELSE 0
    BY <1>6 DEF Addr
  <2>2. NoInode.addr = [a \in Addr |-> 0]
    BY DEF NoInode
  <2> QED
    BY <2>1, <2>2
<1>8. /\ dinode' = [dinode EXCEPT ![m] =
           [type |-> "dir", size |-> SECTSIZE,
            addr |-> [a \in Addr |-> IF a < Blocks(SECTSIZE) THEN n + a ELSE 0]]]
      /\ used' = used \cup {m} \cup Taken(n, SECTSIZE)
      /\ bin' = Stored(n, m, SECTSIZE)
      /\ sysfs' = [sysfs EXCEPT !.rootdir = m]
  BY <1>4, <1>7 DEF MkRootdir
<1>9. sysfs'.kernel = sysfs.kernel /\ sysfs'.rootdir = m
  BY <1>8 DEF MkInv, MkTypes
<1>10. /\ dinode' \in [Ino -> DinodeT] /\ bin' \in [Block -> DataT]
       /\ InUse' = InUse \cup {m} /\ Given(m + 1, n + SECTSIZE)' /\ Apart' /\ Stores'
  <2>1. Blocks(SECTSIZE) <= SECTSIZE /\ SECTSIZE \in Nat /\ "dir" \in {"dir", "file"} /\ mk # "kernel"
    BY <1>2, <1>5, <1>6
  <2> QED
    BY <2>1, <1>1, <1>3, <1>5, <1>8, <1>9, GiveStep
<1>11. MkTypes'
  <2>1. sysfs' \in [kernel : 0 .. NBLOCK - 1, rootdir : 0 .. NBLOCK - 1,
                    inodeblock : 0 .. NBLOCK - 1, freeblock : 0 .. NBLOCK - 1]
    <3>1. m \in 0 .. NBLOCK - 1
      BY <1>2, <1>3, Constants
    <3> QED
      BY <1>8, <3>1 DEF MkInv, MkTypes
  <2> QED
    BY <2>1, <1>2, <1>10 DEF MkInv, MkTypes
<1>12. Named' /\ Listed'
  BY <1>2, <1>9, <1>10 DEF MkInv, Named, Listed
<1>13. Room(m + 1, n + SECTSIZE)'
  <2>1. \A d \in 1 .. NDIRENT : dir[d] = 0
    <3>1. InUse = {}
      BY <1>1, <1>2 DEF Given, InUse, Ino
    <3> QED
      BY <3>1 DEF MkInv, Named
  <2>2. n + SECTSIZE <= FIRSTDATA + Blocks(KernelSize) + SECTSIZE + NADDR * ((m + 1) - 3)
    BY <1>2, Constants
  <2> QED
    BY <2>1, <2>2, <1>2, Constants DEF Room
<1> QED
  BY <1>10, <1>11, <1>12, <1>13, Constants DEF MkInv

\* A file gets the next inode and the next blocks, which are still zero.
LEMMA MkFileStep ==
  ASSUME MkInv, NEW size \in Sizes, MkFile(size)
  PROVE  MkInv'
<1>1. PICK m \in Nat, n \in Nat : Given(m, n) /\ Room(m, n)
  BY DEF MkInv
<1>2. /\ mk = "files" /\ mk' = "files" /\ sysfs' = sysfs
      /\ m >= 3 /\ m <= NDIRENT + 3
      /\ n <= FIRSTDATA + Blocks(KernelSize) + SECTSIZE + NADDR * (m - 3)
      /\ \A d \in 1 .. NDIRENT : dir[d] = IF d + 2 < m THEN d + 2 ELSE 0
  BY <1>1 DEF MkFile, Room
<1>3. PICK e \in 1 .. NDIRENT : /\ dir[e] = 0 /\ \A d \in 1 .. e - 1 : dir[d] # 0
                               /\ dir' = [dir EXCEPT ![e] = ialloc]
  BY DEF MkFile
<1>4. m = e + 2
  <2>1. ~(e + 2 < m)
    BY <1>2, <1>3, Constants
  <2>2. e > 1 => e - 1 \in 1 .. NDIRENT /\ e - 1 \in 1 .. e - 1
    BY Constants
  <2>3. e > 1 => (e - 1) + 2 < m
    BY <2>2, <1>2, <1>3
  <2> QED
    BY <2>1, <2>3, <1>2, Constants
<1>5. m < FIRSTDATA /\ n + NADDR <= NBLOCK /\ n < NBLOCK
      /\ n + NADDR <= FIRSTDATA + Blocks(KernelSize) + SECTSIZE + NADDR * ((m + 1) - 3)
  <2>1. PICK k \in Nat : k = NADDR * (m - 3) /\ k + NADDR = NADDR * ((m + 1) - 3)
    BY <1>2, Constants
  <2>2. (m + 1) - 3 <= NDIRENT /\ (m + 1) - 3 \in Nat
    BY <1>4, Constants
  <2>3. NADDR * ((m + 1) - 3) <= NADDR * NDIRENT
    BY <2>2, Constants
  <2>4. k + NADDR <= NADDR * NDIRENT /\ n <= FIRSTDATA + Blocks(KernelSize) + SECTSIZE + k
    BY <2>1, <2>3, <1>2
  <2> QED
    BY <2>1, <2>4, <1>4, Constants
<1>6. ialloc = m /\ balloc = n
  BY <1>1, <1>5, Allocated
<1>7. /\ size \in 0 .. NADDR * SECTSIZE /\ size \in Nat
      /\ Blocks(size) \in Nat /\ Blocks(size) <= NADDR
  <2>1. size \in 0 .. NADDR * SECTSIZE /\ NADDR \in Nat
    BY Constants
  <2>2. size \in Nat /\ size <= NADDR * SECTSIZE
    BY <2>1, Constants
  <2> QED
    BY <2>1, <2>2, BlocksIs
<1>8. /\ dinode' = [dinode EXCEPT ![m] =
           [type |-> "file", size |-> size,
            addr |-> [a \in Addr |-> IF a < Blocks(size) THEN n + a ELSE 0]]]
      /\ used' = used \cup {m} \cup Taken(n, Blocks(size))
      /\ bin' = Stored(n, m, size)
  BY <1>6 DEF MkFile
<1>9. n + Blocks(size) <= NBLOCK
  <2>1. n + NADDR <= NBLOCK /\ NADDR \in Nat /\ NBLOCK \in Nat
    BY <1>5, Constants
  <2>2. Blocks(size) \in Nat /\ Blocks(size) <= NADDR
    BY <1>7
  <2> QED
    BY <2>1, <2>2
<1>10. /\ dinode' \in [Ino -> DinodeT] /\ bin' \in [Block -> DataT]
       /\ InUse' = InUse \cup {m} /\ Given(m + 1, n + Blocks(size))' /\ Apart' /\ Stores'
  <2>1. Blocks(size) <= Blocks(size) /\ "file" \in {"dir", "file"} /\ mk # "kernel"
        /\ sysfs'.kernel = sysfs.kernel
    BY <1>2, <1>7
  <2> QED
    BY <2>1, <1>1, <1>5, <1>7, <1>8, <1>9, GiveStep
<1>11. m \in Ino
  <2>1. m < FIRSTDATA /\ FIRSTDATA \in Nat
    BY <1>5, Constants
  <2> QED
    BY <2>1, <1>1 DEF Given, Ino
<1>12. /\ dir \in [1 .. NDIRENT -> {0} \cup Ino] /\ dir' \in [1 .. NDIRENT -> {0} \cup Ino]
       /\ dir'[e] = m /\ \A d \in 1 .. NDIRENT : d # e => dir'[d] = dir[d]
  BY <1>3, <1>6, <1>11 DEF MkInv, MkTypes
<1>13. MkTypes'
  BY <1>2, <1>10, <1>12 DEF MkInv, MkTypes
<1>14. Named' /\ Listed'
  BY <1>2, <1>10, <1>12 DEF MkInv, Named, Listed
<1>15. Room(m + 1, n + Blocks(size))'
  <2>1. ASSUME NEW d \in 1 .. NDIRENT PROVE dir'[d] = IF d + 2 < m + 1 THEN d + 2 ELSE 0
    <3>1. CASE d = e
      BY <3>1, <1>4, <1>12
    <3>2. CASE d # e
      <4>1. (d + 2 < m + 1) = (d + 2 < m)
        BY <3>2, <1>4, Constants
      <4> QED
        BY <3>2, <4>1, <1>2, <1>12
    <3> QED
      BY <3>1, <3>2
  <2>2. n + Blocks(size) <= FIRSTDATA + Blocks(KernelSize) + SECTSIZE + NADDR * ((m + 1) - 3)
    <3>1. PICK k \in Int : k = FIRSTDATA + Blocks(KernelSize) + SECTSIZE + NADDR * ((m + 1) - 3)
      BY Constants
    <3> QED
      BY <3>1, <1>5, <1>7, Constants
  <2>3. m + 1 >= 3 /\ m + 1 <= NDIRENT + 3
    BY <1>4, Constants
  <2> QED
    BY <2>1, <2>2, <2>3, <1>2 DEF Room
<1>16. m + 1 \in Nat /\ n + Blocks(size) \in Nat
  BY <1>7
<1> QED
  BY <1>10, <1>13, <1>14, <1>15, <1>16 DEF MkInv

\* What is left over goes into the lists.
LEMMA MkListsStep ==
  ASSUME MkInv, MkLists
  PROVE  MkInv'
<1>1. PICK m \in Nat, n \in Nat : Given(m, n) /\ Room(m, n)
  BY DEF MkInv
<1>2. /\ mk = "files" /\ mk' = "done" /\ UNCHANGED <<dinode, dir, bin>> /\ InUse' = InUse
      /\ m >= 3 /\ m <= NDIRENT + 3
      /\ n <= FIRSTDATA + Blocks(KernelSize) + SECTSIZE + NADDR * (m - 3)
  BY <1>1 DEF MkLists, Room, InUse
<1>3. m < FIRSTDATA /\ n + SECTSIZE <= NBLOCK /\ n < NBLOCK
  <2>1. m - 3 <= NDIRENT /\ m - 3 \in Nat
    BY <1>2, Constants
  <2>2. PICK k \in Nat : k = NADDR * (m - 3) /\ k <= NADDR * NDIRENT
    BY <2>1, Constants
  <2> QED
    BY <2>2, <1>2, Constants
<1>4. ialloc = m /\ balloc = n
  BY <1>1, <1>3, Allocated
<1>5. /\ sysfs' = [sysfs EXCEPT !.inodeblock = m, !.freeblock = n]
      /\ used' = used \cup {m} \cup Taken(n, SECTSIZE)
  BY <1>4 DEF MkLists
<1>6. /\ m \in Ino /\ m \in 0 .. NBLOCK - 1
      /\ n \in FIRSTDATA .. NBLOCK - 1 /\ n \in 0 .. NBLOCK - 1
  BY <1>1, <1>3, Constants DEF Given, Ino
<1>7. sysfs' \in [kernel : 0 .. NBLOCK - 1, rootdir : 0 .. NBLOCK - 1,
                  inodeblock : 0 .. NBLOCK - 1, freeblock : 0 .. NBLOCK - 1]
  <2>1. sysfs \in [kernel : 0 .. NBLOCK - 1, rootdir : 0 .. NBLOCK - 1,
                   inodeblock : 0 .. NBLOCK - 1, freeblock : 0 .. NBLOCK - 1]
    BY DEF MkInv, MkTypes
  <2> QED
    BY <2>1, <1>5, <1>6
<1>8. /\ sysfs'.inodeblock = m /\ sysfs'.freeblock = n
      /\ sysfs'.kernel = sysfs.kernel /\ sysfs'.rootdir = sysfs.rootdir
  BY <1>5 DEF MkInv, MkTypes
<1>9. Given(m + 1, n + SECTSIZE)'
  <2>1. m + 1 \in 2 .. FIRSTDATA /\ n + SECTSIZE \in FIRSTDATA .. NBLOCK
    BY <1>3, <1>6, Constants DEF Ino
  <2>2. used' = {0} \cup 2 .. (m + 1) - 1 \cup FIRSTDATA .. (n + SECTSIZE) - 1
    BY <1>1, <1>5, <1>6, Constants DEF Given, Taken, Ino
  <2>3. \A i \in InUse : i < m + 1
    BY <1>1 DEF Given, InUse, Ino
  <2>4. \A x \in FIRSTDATA .. n - 1 : x \in FIRSTDATA .. (n + SECTSIZE) - 1
    BY Constants
  <2>5. \A b \in Block : b >= n + SECTSIZE => bin[b] = Zeros
    BY <1>1, Constants DEF Given, Block
  <2>6. sysfs.kernel >= FIRSTDATA /\ sysfs.kernel + Blocks(KernelSize) <= n + SECTSIZE
    <3>1. sysfs.kernel \in Nat /\ Blocks(KernelSize) \in Nat
      BY KernelBlocks DEF MkInv, MkTypes
    <3> QED
      BY <3>1, <1>1, <1>2, Constants DEF Given
  <2>7. \A i \in InUse, a \in Addr :
          IF a < Blocks(dinode[i].size) THEN dinode[i].addr[a] \in FIRSTDATA .. (n + SECTSIZE) - 1
                                        ELSE dinode[i].addr[a] = 0
    BY <1>1, <2>4 DEF Given
  <2> QED
    BY <2>1, <2>2, <2>3, <2>5, <2>6, <2>7, <1>2, <1>8 DEF Given
<1>10. Listed'
  BY <1>1, <1>2, <1>6, <1>8 DEF Given, Listed
<1>11. MkTypes' /\ Apart' /\ Named' /\ Stores' /\ Room(m + 1, n + SECTSIZE)'
  <2>1. MkTypes'
    BY <1>2, <1>7 DEF MkInv, MkTypes
  <2>2. Apart' /\ Named'
    BY <1>2, <1>8 DEF MkInv, Apart, Named
  <2>3. Stores'
    BY <1>2, <1>8 DEF MkInv, Stores
  <2> QED
    BY <2>1, <2>2, <2>3, <1>2 DEF Room
<1>12. m + 1 \in Nat /\ n + SECTSIZE \in Nat
  BY Constants
<1> QED
  BY <1>9, <1>10, <1>11, <1>12 DEF MkInv

\* A step that leaves these variables alone.
LEMMA MkStutterStep ==
  ASSUME MkInv, UNCHANGED mkvars
  PROVE  MkInv'
<1>1. UNCHANGED <<mk, used, sysfs, dinode, dir, bin>>
  BY DEF mkvars
<1>2. InUse' = InUse
  BY <1>1 DEF InUse
<1>3. MkTypes' /\ Apart' /\ Named' /\ Listed'
  BY <1>1, <1>2 DEF MkInv, MkTypes, Apart, Named, Listed
<1>4. Stores'
  BY <1>1, <1>2 DEF MkInv, Stores
<1>5. PICK m \in Nat, n \in Nat : Given(m, n) /\ Room(m, n)
  BY DEF MkInv
<1>6. Given(m, n)' /\ Room(m, n)'
  BY <1>1, <1>2, <1>5 DEF Given, Room
<1> QED
  BY <1>3, <1>4, <1>6 DEF MkInv

\* Every step of mkfs keeps the invariant.
LEMMA MkNextInv ==
  ASSUME MkInv, [MkNext]_mkvars
  PROVE  MkInv'
  BY MkKernelStep, MkRootdirStep, MkFileStep, MkListsStep, MkStutterStep DEF MkNext

\* What mkfs puts on the disk stays there, and the rest is listed as free.
LEMMA LayoutHolds == MkInv => Layout
<1> SUFFICES ASSUME MkInv, mk = "done" PROVE Lists
  BY DEF Layout, MkInv
<1> DEFINE ino == sysfs.inodeblock
           blk == sysfs.freeblock
<1>1. /\ ino \in Ino /\ blk \in FIRSTDATA .. NBLOCK - 1
      /\ \A i \in InUse : i < ino
      /\ \A b \in Block : b >= blk => bin[b] = Zeros
  BY DEF MkInv, Listed
<1> HIDE DEF ino, blk
<1>2. InUse \subseteq 2 .. ino - 1
  BY <1>1 DEF InUse, Ino
<1>3. \A b \in blk .. NBLOCK - 1 : bin[b] = Zeros
  BY <1>1, Constants DEF Block
<1>4. ino \in Nat /\ blk \in Nat
  BY <1>1, Constants DEF Ino
<1>5. ASSUME NEW i \in ino .. FIRSTDATA - 1
      PROVE  ListBlock(ino, i) = ino \/ ListIndex(ino, ListBlock(ino, i)) = NLIST - 1
  BY <1>4, ListGoesOn
<1>6. ASSUME NEW b \in blk .. NBLOCK - 1
      PROVE  ListBlock(blk, b) = blk \/ ListIndex(blk, ListBlock(blk, b)) = NLIST - 1
  BY <1>4, ListGoesOn
<1> QED
  BY <1>2, <1>3, <1>5, <1>6 DEF Lists, ino, blk
=============================================================================
