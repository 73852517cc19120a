-------------------------------- MODULE Mkfs --------------------------------
(***************************************************************************)
(* mkfs.c, the program that lays out the disk: the kernel, the directory,  *)
(* the files, and the lists of the inodes and blocks that are left.        *)
(***************************************************************************)
EXTENDS Integers, FiniteSets

CONSTANTS
  SECTSIZE,      \* 512
  NADDR,         \* 124, the addresses in an inode
  NLIST,         \* 128, the numbers in a block of a list
  FIRSTDATA,     \* 2048: inodes are below, data from there on
  NBLOCK,        \* 8192
  KernelSize,    \* the kernel's, in bytes
  Sizes,         \* the sizes the files may have
  NDIRENT        \* 16

\* The sectors that size bytes take.
Blocks(size) == (size + SECTSIZE - 1) \div SECTSIZE

\* "no more 16 files": the Makefile's list is shorter, and the disk larger than
\* 16 of the largest files.
ASSUME MkfsConstants ==
  /\ {SECTSIZE, NADDR, NLIST, NDIRENT, KernelSize} \subseteq Nat \ {0}
  /\ FIRSTDATA \in Nat /\ FIRSTDATA >= NDIRENT + 4
  /\ Sizes \subseteq 0 .. NADDR * SECTSIZE
  /\ NBLOCK \in Nat /\ NBLOCK >= FIRSTDATA + 2 * SECTSIZE + NADDR * NDIRENT
                                   + Blocks(KernelSize)

VARIABLES
  mk,            \* how far mkfs has come: "kernel", "rootdir", "files", "done"
  used,          \* used_block[], as a set; all of the disk before is zero
  sysfs,         \* the superblock
  dinode,        \* the inodes on the disk: type, size, addr
  dir,           \* the i-numbers of the root directory
  bin            \* the data on the disk

mkvars == <<mk, used, sysfs, dinode, dir, bin>>

Ino   == 2 .. FIRSTDATA - 1
Addr  == 0 .. NADDR - 1
Block == {0} \cup FIRSTDATA .. NBLOCK - 1
Byte  == 0 .. SECTSIZE - 1

\* A byte of data is the file, by its i-number, and the position it belongs to.
ZeroByte == <<0, 0>>
Zeros    == [k \in Byte |-> ZeroByte]
KERNEL   == 1               \* for an i-number, in the kernel's bytes
NoInode  == [type |-> "none", size |-> 0, addr |-> [a \in Addr |-> 0]]

FirstFree(S) == IF S \subseteq used THEN -1
                ELSE CHOOSE i \in S \ used : \A j \in S \ used : i <= j

ialloc == FirstFree(Ino)

balloc == FirstFree(Block \ {0})

\* Mutant: the last of the blocks that balloc(n) finds is left free.
TakenShort(b, n) == b .. b + n - 2

\* What balloc(n) marks.
Taken(b, n) == b .. b + n - 1

\* fread() of a file of that size to block b.
Stored(b, ino, size) ==
  [c \in Block |-> IF c \in b .. b + Blocks(size) - 1
     THEN [k \in Byte |-> LET pos == (c - b) * SECTSIZE + k
                          IN IF pos < size THEN <<ino, pos>> ELSE ZeroByte]
     ELSE bin[c]]

MkInit ==
  /\ mk = "kernel" /\ used = {0}
  /\ sysfs  = [kernel |-> 0, rootdir |-> 0, inodeblock |-> 0, freeblock |-> 0]
  /\ dinode = [i \in Ino |-> NoInode]
  /\ dir    = [d \in 1 .. NDIRENT |-> 0]
  /\ bin    = [b \in Block |-> Zeros]

MkKernel ==
  /\ mk = "kernel"
  /\ sysfs' = [sysfs EXCEPT !.kernel = balloc]
  /\ used'  = used \cup Taken(balloc, Blocks(KernelSize))
  /\ bin'   = Stored(balloc, KERNEL, KernelSize)
  /\ mk'    = "rootdir"
  /\ UNCHANGED <<dinode, dir>>

\* balloc(512) takes 512 blocks for the directory's 512 bytes.
MkRootdir ==
  /\ mk = "rootdir"
  /\ sysfs'  = [sysfs EXCEPT !.rootdir = ialloc]
  /\ dinode' = [dinode EXCEPT ![ialloc] =
                  [type |-> "dir", size |-> SECTSIZE, addr |-> [NoInode.addr EXCEPT ![0] = balloc]]]
  /\ used'   = used \cup {ialloc} \cup Taken(balloc, SECTSIZE)
  /\ bin'    = Stored(balloc, ialloc, SECTSIZE)
  /\ mk'     = "files"
  /\ UNCHANGED dir

MkFile(size) ==
  /\ mk = "files"
  /\ \E d \in 1 .. NDIRENT :
       /\ dir[d] = 0 /\ \A e \in 1 .. d - 1 : dir[e] # 0
       /\ dir' = [dir EXCEPT ![d] = ialloc]
  /\ dinode' = [dinode EXCEPT ![ialloc] =
       [type |-> "file", size |-> size,
        addr |-> [a \in Addr |-> IF a < Blocks(size) THEN balloc + a ELSE 0]]]
  /\ used' = used \cup {ialloc} \cup Taken(balloc, Blocks(size))
  /\ bin'  = Stored(balloc, ialloc, size)
  /\ UNCHANGED <<mk, sysfs>>

\* The lists, from the first free inode and the first free block to the last; in
\* which of the free blocks each entry goes say ListBlock and ListIndex.
MkLists ==
  /\ mk = "files"
  /\ sysfs' = [sysfs EXCEPT !.inodeblock = ialloc, !.freeblock = balloc]
  /\ used'  = used \cup {ialloc} \cup Taken(balloc, SECTSIZE)
  /\ mk'    = "done"
  /\ UNCHANGED <<dinode, dir, bin>>

\* Entry i of the list that starts with first is the one at ListIndex in
\* ListBlock: after the last entry of a block goes on in the block it names.
ListIndex(first, i) == (i - first) % NLIST
ListBlock(first, i) ==
  IF i - first < NLIST THEN first ELSE first + ((i - first) \div NLIST) * NLIST - 1

MkNext ==
  \/ MkKernel \/ MkRootdir \/ MkLists
  \/ \E size \in Sizes : MkFile(size)

InUse == {i \in Ino : dinode[i].type # "none"}

\* Every byte of the kernel, of the directory and of the files is on the disk
\* where its address says.
Stores ==
  /\ mk # "kernel" => \A pos \in 0 .. KernelSize - 1 :
       bin[sysfs.kernel + pos \div SECTSIZE][pos % SECTSIZE] = <<KERNEL, pos>>
  /\ \A i \in InUse : \A pos \in 0 .. dinode[i].size - 1 :
       bin[dinode[i].addr[pos \div SECTSIZE]][pos % SECTSIZE] = <<i, pos>>

\* The lists hold no inode and no block that is in use, and are stored in free
\* ones, each block named by the last entry of the one before ("last entry is
\* pointer to next block").
Lists ==
  LET ino == sysfs.inodeblock
      blk == sysfs.freeblock
  IN /\ InUse \subseteq 2 .. ino - 1
     /\ \A b \in blk .. NBLOCK - 1 : bin[b] = Zeros
     /\ \A i \in ino .. FIRSTDATA - 1 :
          ListBlock(ino, i) = ino \/ ListIndex(ino, ListBlock(ino, i)) = NLIST - 1
     /\ \A b \in blk .. NBLOCK - 1 :
          ListBlock(blk, b) = blk \/ ListIndex(blk, ListBlock(blk, b)) = NLIST - 1

\* What mkfs puts on the disk stays there, and the rest is listed as free.
Layout == Stores /\ (mk = "done" => Lists)
=============================================================================
