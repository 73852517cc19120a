--------------------------------- MODULE Fs ---------------------------------
(***************************************************************************)
(* Reading and writing the disk that mkfs made: open(), read(), write(),   *)
(* readi(), writei(), over buffers that come and go.                       *)
(*                                                                         *)
(* A process has the buffer of its next chunk from the end of the chunk    *)
(* before; between its steps other processes run, and buffers that nobody  *)
(* has are used for other blocks.  acquire() is a step: what a timer tick  *)
(* inside it does is in Bio, what becomes of the inodes' counts in Files.  *)
(***************************************************************************)
EXTENDS Mkfs, Sequences

CONSTANTS
  Proc,
  File,       \* entries of file[]; related processes share them
  MaxSize     \* bound on the size a call asks for

ASSUME FsConstants == 0 \notin Proc /\ MaxSize \in Nat

VARIABLES
  file,       \* file[]: inode, offset
  inode,      \* inode[]: is the file's not in the table, being read, or read
  buf,        \* the block's buffer: whether it is valid, and its data
  lock,       \* inode[i].lock: who holds it, or 0
  call,       \* the call a process is in, and its locals
  got,        \* history: the bytes read() copied to dst
  unread      \* history: read() has copied what nobody had read, or a call believed it

kvars == <<file, inode, buf, lock, call, got, unread>>
vars  == <<mkvars, kvars>>

User   == [op |-> "none", pc |-> "user", f |-> 0, start |-> 0, size |-> 0, cnt |-> 0, i |-> 0]
Junk   == [k \in Byte |-> <<-1, 0>>]
Absent == [valid |-> FALSE, data |-> Junk]    \* what a recycled buffer has

\* The model ends when a call believes what nobody has read: it goes on with an
\* address, a size or an i-number of any value.
Runs      == mk = "done" /\ unread # "believed"
At(p, pc) == Runs /\ call[p].pc = pc
ip(p)     == file[call[p].f].inode

\* The position a call is at, the block of it, and m, the bytes of its chunk;
\* namei() looks at ip->addr[0] alone.
Pos(p)   == call[p].start + call[p].cnt
Blk(p)   == IF call[p].op = "open" THEN dinode[sysfs.rootdir].addr[0]
            ELSE dinode[ip(p)].addr[Pos(p) \div SECTSIZE]
Chunk(p) == LET left == call[p].size - call[p].cnt
                room == SECTSIZE - (Pos(p) % SECTSIZE)
            IN IF left < room THEN left ELSE room

\* The calls that have a buffer; whether another has the buffer of p.
Having    == {p \in Proc : call[p].pc \in {"bread", "disk", "load"}}
Shared(p) == \E q \in Having \ {p} : Blk(q) = Blk(p)

\* A buffer that nobody has is used for another block.  Nothing was written
\* back: no call reaches bwrite().
Recycle(b) ==
  /\ Runs /\ buf[b] # Absent
  /\ \A p \in Having : Blk(p) # b
  /\ buf' = [buf EXCEPT ![b] = Absent]
  /\ UNCHANGED <<mkvars, file, inode, lock, call, got, unread>>

\* falloc(), and the rest of open(): a free entry, if there is one, is for i.
Falloc(i) ==
  \/ \E f \in File : /\ file[f].inode = 0
                     /\ file' = [file EXCEPT ![f] = [inode |-> i, offset |-> 0]]
  \/ (\A f \in File : file[f].inode # 0) /\ UNCHANGED file

\* open() of "/", which is always in the table.
OpenRoot(p) ==
  /\ At(p, "user") /\ Falloc(sysfs.rootdir)
  /\ UNCHANGED <<mkvars, inode, buf, lock, call, got, unread>>

\* open() of a name that is not empty, up to bget() of the directory's block,
\* without the directory's lock.
Open(p) ==
  /\ At(p, "user")
  /\ call' = [call EXCEPT ![p] = [User EXCEPT !.op = "open", !.pc = "bread"]]
  /\ UNCHANGED <<mkvars, file, inode, buf, lock, got, unread>>

\* Mutant: acquire() does not wait.
MayLockAny(i) == TRUE

MayLock(i) == lock[i] = 0

\* Mutant: how far a write may go is not checked.
CheckedStart(op, off, size, isize) == off <= isize /\ off \div SECTSIZE < NADDR

\* The check of the offset; the sum of two does not overflow, the offset being
\* at most the size of a file and a size less than 2^31.
Checked(op, off, size, isize) ==
  /\ off <= isize /\ off \div SECTSIZE < NADDR
  /\ op = "write" => off + size <= NADDR * SECTSIZE

\* bget() of the next chunk's buffer, if any bytes are left.
Turn(cnt, size) == IF cnt < size THEN "bread" ELSE "end"

\* read() and write() from acquire() on, readi() and writei() up to the loop, with
\* the size in the inode: iget() gives it away while another call is reading it.
\* Nobody writes to "/": what a directory that a program made up does is left out.
Call(p, op, f, n) ==
  /\ At(p, "user") /\ file[f].inode # 0 /\ MayLock(file[f].inode)
  /\ op = "write" => file[f].inode # sysfs.rootdir
  /\ LET i    == file[f].inode
         off  == file[f].offset
         left == IF op = "read" /\ off + n > dinode[i].size THEN dinode[i].size - off ELSE n
     IN \/ /\ inode[i] = "reading"
           /\ unread' = "believed" /\ UNCHANGED <<lock, call, got>>
        \/ /\ inode[i] # "reading" /\ Checked(op, off, n, dinode[i].size)
           /\ lock' = [lock EXCEPT ![i] = p]
           /\ call' = [call EXCEPT ![p] = [op |-> op, pc |-> Turn(0, left), f |-> f, start |-> off,
                                           size |-> left, cnt |-> 0, i |-> 0]]
           /\ got'  = [got EXCEPT ![p] = <<>>] /\ UNCHANGED unread
  /\ UNCHANGED <<mkvars, file, inode, buf>>

\* A whole sector that is written is not read before.
Whole(p) == call[p].op = "write" /\ Chunk(p) = SECTSIZE

\* The only one to have a buffer that is not valid asks the disk for it.
Iderw(p) ==
  /\ At(p, "bread")
  /\ ~Whole(p) /\ ~Shared(p) /\ ~buf[Blk(p)].valid
  /\ call' = [call EXCEPT ![p].pc = "disk"]
  /\ UNCHANGED <<mkvars, file, inode, buf, lock, got, unread>>

\* The disk has read the block.
Disk(p) ==
  /\ At(p, "disk")
  /\ buf'  = [buf EXCEPT ![Blk(p)] = [valid |-> TRUE, data |-> bin[Blk(p)]]]
  /\ call' = [call EXCEPT ![p].pc = "bread"]
  /\ UNCHANGED <<mkvars, file, inode, lock, got, unread>>

\* Mutant: the buffer is taken as it is, as bget() gives it.
BreadUnread(p) == At(p, "bread")

\* bread() returns: the buffer is valid, or another process has it too and may
\* still be reading it.
Bread(p) == At(p, "bread") /\ (Whole(p) \/ Shared(p) \/ buf[Blk(p)].valid)

\* m bytes have been copied; brelse(), and bget() of the next buffer.
Copied(p) ==
  call' = [call EXCEPT ![p].cnt = @ + Chunk(p), ![p].pc = Turn(call[p].cnt + Chunk(p), call[p].size)]

\* readi() copies a chunk, read or not.
Readi(p) ==
  /\ Bread(p) /\ call[p].op = "read"
  /\ got' = [got EXCEPT ![p] =
               @ \o [k \in 1 .. Chunk(p) |-> buf[Blk(p)].data[(Pos(p) % SECTSIZE) + k - 1]]]
  /\ unread' = IF buf[Blk(p)].valid THEN unread ELSE "used"
  /\ Copied(p)
  /\ UNCHANGED <<mkvars, file, inode, buf, lock>>

\* writei() copies a chunk.  A whole sector goes to the buffer as it is, valid or
\* not: in one that is not, the next bread() overwrites it.  Past the last block
\* of the file the address is 0, and the block the boot block.
Writei(p) ==
  /\ Bread(p) /\ call[p].op = "write"
  /\ LET r == Pos(p) % SECTSIZE
     IN buf' = [buf EXCEPT ![Blk(p)].data = [k \in Byte |->
                  IF k \in r .. r + Chunk(p) - 1 THEN <<ip(p), Pos(p) - r + k>> ELSE @[k]]]
  /\ Copied(p)
  /\ UNCHANGED <<mkvars, file, inode, lock, got, unread>>

\* dirlookup(): the name is not there, or is in what nobody has read, which has
\* any number for it, or is that of i; iget() of an i that is not in the table
\* goes on to read it.
Dirlookup(p, i) ==
  /\ Bread(p) /\ call[p].op = "open"
  /\ \/ /\ call' = [call EXCEPT ![p] = User]
        /\ UNCHANGED <<file, inode, unread>>
     \/ /\ ~buf[Blk(p)].valid /\ unread' = "believed"
        /\ UNCHANGED <<file, inode, call>>
     \/ /\ buf[Blk(p)].valid /\ \E d \in 1 .. NDIRENT : i = dir[d]
        /\ \/ /\ inode[i] # "out" /\ Falloc(i)
              /\ call' = [call EXCEPT ![p] = User] /\ UNCHANGED inode
           \/ /\ inode[i] = "out" /\ inode' = [inode EXCEPT ![i] = "reading"]
              /\ call' = [call EXCEPT ![p].pc = "load", ![p].i = i] /\ UNCHANGED file
        /\ UNCHANGED unread
  /\ UNCHANGED <<mkvars, buf, lock, got>>

\* iget() has read the inode; brelse() of the directory's block, and falloc().
Load(p) ==
  /\ At(p, "load") /\ Falloc(call[p].i)
  /\ inode' = [inode EXCEPT ![call[p].i] = "read"]
  /\ call'  = [call EXCEPT ![p] = User]
  /\ UNCHANGED <<mkvars, buf, lock, got, unread>>

\* The offset advances by what was read or written; release().
Return(p) ==
  /\ At(p, "end")
  /\ file' = [file EXCEPT ![call[p].f].offset = @ + call[p].size]
  /\ lock' = [lock EXCEPT ![ip(p)] = 0]
  /\ call' = [call EXCEPT ![p] = User]
  /\ got'  = [got EXCEPT ![p] = <<>>]
  /\ UNCHANGED <<mkvars, inode, buf, unread>>
-----------------------------------------------------------------------------
Init ==
  /\ MkInit
  /\ file  = [f \in File |-> [inode |-> 0, offset |-> 0]]
  /\ inode = [i \in Ino |-> "out"]
  /\ buf   = [b \in Block |-> Absent]
  /\ lock  = [i \in Ino |-> 0]
  /\ call  = [p \in Proc |-> User]
  /\ got   = [p \in Proc |-> <<>>]
  /\ unread = "no"

Next ==
  \/ MkNext /\ UNCHANGED kvars
  \/ \E b \in Block : Recycle(b)
  \/ \E p \in Proc :
       \/ \E op \in {"read", "write"}, f \in File, n \in 0 .. MaxSize : Call(p, op, f, n)
       \/ Iderw(p) \/ Disk(p) \/ Readi(p) \/ Writei(p) \/ Return(p)
       \/ OpenRoot(p) \/ Open(p)
       \/ \E i \in Ino : Dirlookup(p, i)
       \/ Load(p)

Spec == Init /\ [][Next]_vars
-----------------------------------------------------------------------------
\* The fields have their types, a position is within what NADDR addresses reach,
\* and so is the end of every call that goes on.
TypeOK ==
  /\ mk \in {"kernel", "rootdir", "files", "done"}
  /\ used \subseteq 0 .. NBLOCK - 1
  /\ \A k \in DOMAIN sysfs : sysfs[k] \in 0 .. NBLOCK - 1
  /\ \A i \in Ino : /\ dinode[i].type \in {"none", "dir", "file"}
                    /\ dinode[i].size \in 0 .. NADDR * SECTSIZE
                    /\ \A a \in Addr : dinode[i].addr[a] \in Block
  /\ \A d \in 1 .. NDIRENT : dir[d] \in {0} \cup Ino
  /\ \A f \in File : /\ file[f].inode \in {0} \cup Ino
                     /\ file[f].offset \in 0 .. NADDR * SECTSIZE
  /\ \A i \in Ino : inode[i] \in {"out", "reading", "read"} /\ lock[i] \in {0} \cup Proc
  /\ \A b \in Block : buf[b].valid \in BOOLEAN /\ DOMAIN buf[b].data = Byte
  /\ \A p \in Proc :
       /\ call[p].pc \in {"user", "bread", "disk", "end", "load"}
       /\ call[p].op \in {"none", "read", "write", "open"} /\ call[p].i \in {0} \cup Ino
       /\ call[p].start \in Nat /\ call[p].size \in Nat /\ call[p].cnt \in 0 .. call[p].size
       /\ call[p].start + call[p].size <= NADDR * SECTSIZE
  /\ unread \in {"no", "used", "believed"}

InLoop == {p \in Proc : call[p].op \in {"read", "write"}}

\* read() copies the bytes of its own file at the positions it was asked for,
\* all within the file, whatever other processes write, to the same file, to
\* another, or past the end of one, and whichever buffers are recycled between.
\* Of the directory it may copy what was in the buffer before, while namei(),
\* which does not take the directory's lock, has the buffer too.
ReadsOwn ==
  \A p \in InLoop : call[p].op = "read" =>
    /\ call[p].start + call[p].size <= dinode[ip(p)].size
    /\ ip(p) # sysfs.rootdir \/ unread = "no"
         => got[p] = [j \in 1 .. call[p].cnt |-> <<ip(p), call[p].start + j - 1>>]

\* While a call is at work the offset of its file stays where the call began:
\* processes that share a file get consecutive parts of it, each byte once.
OffsetExact ==
  \A p \in InLoop : call[p].start = file[call[p].f].offset
=============================================================================
