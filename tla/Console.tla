------------------------------ MODULE Console ------------------------------
(***************************************************************************)
(* The console of mixv6, dev/console.c and dev/kbd.c: the input line,      *)
(* which the keyboard interrupt fills and consoleread() empties, and the   *)
(* cursor, which putchar() moves.                                          *)
(*                                                                         *)
(* The keyboard interrupt and what runs between pushcli() and popcli() are *)
(* one step each.  The kernel's own printf() (of an unknown system call,   *)
(* of allocuvm() out of memory) has interrupts enabled, so its putchar()   *)
(* is taken apart.  Processes interleave: the timer's sched() may come     *)
(* between any two steps.                                                  *)
(***************************************************************************)
EXTENDS Integers, FiniteSets, Sequences

CONSTANTS
  Proc,           \* processes
  Printers,       \* those for which the kernel prints: all, or fewer to bound a model
  SCREEN_X, SCREEN_Y, INPUT_BUF,
  WORD,           \* the range of uint32_t, the type of input.index
  Size,           \* sizes a process reads with
  Text,           \* strings a process writes
  MaxKeys         \* bound on the characters typed

Fd    == {"stdin", "stdout"}   \* two device inodes, both the console
NoOne == "no one"
Key   == {"char", "newline", "backspace", "none"}
Char  == Key \ {"none"}

\* A process reads into a buffer of size bytes; the sizes read() is called
\* with are at most INPUT_BUF.
ASSUME ConsoleConstants ==
  /\ NoOne \notin Proc /\ Printers \subseteq Proc
  /\ SCREEN_X \in Nat \ {0} /\ SCREEN_Y \in Nat /\ SCREEN_Y >= 2
  /\ INPUT_BUF \in Nat \ {0} /\ WORD \in Nat /\ WORD > INPUT_BUF
  /\ Size \subseteq 0 .. INPUT_BUF
  /\ Text \subseteq Seq(Char)
  /\ MaxKeys \in Nat

VARIABLES
  index, buf,     \* input.index, input.buf; a character is the number of its key
  cursor,
  lock,           \* whose the lock of each console inode is
  pc, fd, size,   \* where a process is, and the arguments of its read()
  reg, ch,        \* putchar()'s copy of cursor, and its argument
  wchan,          \* whether it sleeps on &input
  keys, seen,     \* history: characters typed, characters read
  split,          \* history: a putchar() came in the middle of another
  halt

line    == <<index, buf, keys>>
process == <<lock, pc, fd, size, wchan>>
put     == <<reg, ch>>
vars    == <<line, cursor, process, put, seen, split, halt>>

\* putchar() is taken apart at these points.
Mid == {"store", "test", "scroll", "clear"}
Printing == \E q \in Proc : pc[q] \in Mid
-----------------------------------------------------------------------------
(***************************************************************************)
(* putchar()                                                               *)
(***************************************************************************)

\* C's remainder has the sign of the dividend.
Rem(k) == IF k >= 0 THEN k % SCREEN_X ELSE -((-k) % SCREEN_X)

\* Mutant: a backspace at the top of the screen.
AdvanceAny(c, k) ==
  CASE c = "newline" -> k + SCREEN_X - Rem(k)
    [] c = "backspace" -> k - 1
    [] OTHER    -> k + 1

Advance(c, k) ==
  CASE c = "newline" -> k + SCREEN_X - Rem(k)
    [] c = "backspace" -> IF k > 0 THEN k - 1 ELSE k
    [] OTHER    -> k + 1

OffScreen(k) == k < 0 \/ k > SCREEN_Y * SCREEN_X

\* The cursor has come to the last row.
Scrolls(k) == k \div SCREEN_X >= SCREEN_Y - 1


\* The cursor after a putchar() that nothing interrupts.
putchar(k, c) == LET a == Advance(c, k) IN IF Scrolls(a) THEN a - SCREEN_X ELSE a

\* The cursor, k at first, after each of the characters of s in turn.
Cursors(k, s) ==
  LET after[i \in 0 .. Len(s)] == IF i = 0 THEN k ELSE putchar(after[i - 1], s[i])
  IN after

\* putchar() of the characters of s one after the other, as far as a panic.
Puts(s) ==
  LET after     == Cursors(cursor, s)
      Panics(i) == OffScreen(Advance(s[i], after[i - 1]))
  IN /\ cursor' = after[Len(s)]
     /\ halt'   = IF \E i \in DOMAIN s : Panics(i) THEN "cursor under/overflow" ELSE halt
     /\ split'  = (split \/ (s # <<>> /\ Printing))
-----------------------------------------------------------------------------
(***************************************************************************)
(* The keyboard interrupt.                                                 *)
(***************************************************************************)

\* Every reader that sleeps on &input.
wakeup == wchan' = [p \in Proc |-> FALSE]

\* Mutant: the line may fill the buffer.
NoRoomLate == index >= INPUT_BUF
NoRoom == index >= INPUT_BUF - 1

\* Mutant: a newline wakes a reader only if there is something to read.
NewlineNonempty ==
  /\ IF index > 0 THEN wakeup ELSE UNCHANGED wchan
  /\ UNCHANGED line

Newline == wakeup /\ UNCHANGED line

Backspace == index' = (index - 1) % WORD /\ UNCHANGED <<buf, keys, wchan>>

Type ==
  /\ keys < MaxKeys
  /\ keys'  = keys + 1
  /\ buf'   = [buf EXCEPT ![index] = keys']
  /\ index' = index + 1
  /\ UNCHANGED wchan

\* consoleintr(), with what kbdgetc() returns: "none" for a shift, for a key
\* that is released or has no character.  The handler echoes what it takes.
consoleintr(c) ==
  /\ halt = "no"
  /\ IF NoRoom \/ c = "none"
       THEN UNCHANGED <<line, wchan, cursor, split, halt>>
       ELSE /\ \/ c = "newline" /\ Newline
               \/ c = "backspace" /\ Backspace
               \/ c = "char" /\ Type
            /\ Puts(<<c>>)
  /\ UNCHANGED <<lock, pc, fd, size, put, seen>>
-----------------------------------------------------------------------------
(***************************************************************************)
(* System calls.                                                           *)
(***************************************************************************)
\* Locals of a call that has returned are forgotten.
Forget(f, p, v) == f' = [f EXCEPT ![p] = v]
At(p, l)   == halt = "no" /\ pc[p] = l /\ ~wchan[p]
Goto(p, l) == pc' = [pc EXCEPT ![p] = l]

\* sys_read() of the console, as far as the sleep() of consoleread(): it has
\* the lock of the inode, which it keeps while it sleeps.  How acquire() waits
\* is the subject of module Bio.
sys_read(p, f, n) ==
  /\ At(p, "user")
  /\ lock[f] = NoOne
  /\ lock'  = [lock EXCEPT ![f] = p]
  /\ fd'    = [fd EXCEPT ![p] = f]
  /\ size'  = [size EXCEPT ![p] = n]
  /\ wchan' = [wchan EXCEPT ![p] = TRUE]
  /\ Goto(p, "read")
  /\ UNCHANGED <<line, cursor, put, seen, split, halt>>

\* Mutant: the line is not emptied when it is longer than what was asked for.
consolereadKeep(p) ==
  /\ At(p, "read")
  /\ LET n == IF size[p] < index THEN size[p] ELSE index
     IN /\ seen'  = seen \cup {buf[i] : i \in 0 .. n - 1}
        /\ index' = IF n < index THEN index ELSE 0
  /\ lock' = [lock EXCEPT ![fd[p]] = NoOne]
  /\ Goto(p, "user")
  /\ Forget(fd, p, "stdin") /\ Forget(size, p, 0)
  /\ UNCHANGED <<buf, keys, cursor, wchan, put, split, halt>>

\* consoleread() after its sleep(), and the release() of sys_read().
consoleread(p) ==
  /\ At(p, "read")
  /\ LET n == IF size[p] < index THEN size[p] ELSE index
     IN seen' = seen \cup {buf[i] : i \in 0 .. n - 1}
  /\ index' = 0
  /\ lock' = [lock EXCEPT ![fd[p]] = NoOne]
  /\ Goto(p, "user")
  /\ Forget(fd, p, "stdin") /\ Forget(size, p, 0)
  /\ UNCHANGED <<buf, keys, cursor, wchan, put, split, halt>>

\* sys_write() to the console; consolewrite() is between pushcli() and popcli().
consolewrite(p, f, s) ==
  /\ At(p, "user")
  /\ lock[f] = NoOne
  /\ Puts(s)
  /\ UNCHANGED <<line, process, put, seen>>
-----------------------------------------------------------------------------
(***************************************************************************)
(* putchar() of a printf() in the kernel: as above, in the steps that its  *)
(* loads and stores of cursor make.                                        *)
(***************************************************************************)
PutLoad(p, c) ==
  /\ At(p, "user") /\ p \in Printers
  /\ reg' = [reg EXCEPT ![p] = cursor]
  /\ ch'  = [ch EXCEPT ![p] = c]
  /\ Goto(p, "store")
  /\ split' = (split \/ Printing)
  /\ UNCHANGED <<line, cursor, lock, fd, size, wchan, seen, halt>>

PutStore(p) ==
  /\ At(p, "store")
  /\ cursor' = Advance(ch[p], reg[p])
  /\ Goto(p, "test")
  /\ UNCHANGED <<line, lock, fd, size, wchan, put, seen, split, halt>>

\* The tests of cursor, which is not volatile: of what was stored or of what
\* is there now.
PutTest(p) ==
  /\ At(p, "test")
  /\ \E k \in {cursor, Advance(ch[p], reg[p])} :
       IF OffScreen(k)
         THEN halt' = "cursor under/overflow" /\ UNCHANGED pc
         ELSE Goto(p, IF Scrolls(k) THEN "scroll" ELSE "user") /\ UNCHANGED halt
  /\ Forget(reg, p, 0) /\ Forget(ch, p, "char")
  /\ UNCHANGED <<line, cursor, lock, fd, size, wchan, seen, split>>

PutScroll(p) ==
  /\ At(p, "scroll")
  /\ cursor' = cursor - SCREEN_X
  /\ Goto(p, "clear")
  /\ UNCHANGED <<line, lock, fd, size, wchan, put, seen, split, halt>>

\* memset() from the cursor to the end of the last row but one; a cursor beyond
\* it makes the count, an unsigned number, huge.
PutClear(p) ==
  /\ At(p, "clear")
  /\ IF cursor > (SCREEN_Y - 1) * SCREEN_X
       THEN halt' = "wild memset" /\ UNCHANGED pc
       ELSE Goto(p, "user") /\ UNCHANGED halt
  /\ UNCHANGED <<line, cursor, lock, fd, size, wchan, put, seen, split>>
-----------------------------------------------------------------------------
Init ==
  /\ index = 0 /\ buf = [i \in 0 .. INPUT_BUF - 1 |-> 0]
  /\ cursor = 0
  /\ lock  = [f \in Fd |-> NoOne]
  /\ pc    = [p \in Proc |-> "user"]
  /\ fd    = [p \in Proc |-> "stdin"]
  /\ size  = [p \in Proc |-> 0]
  /\ reg   = [p \in Proc |-> 0]
  /\ ch    = [p \in Proc |-> "char"]
  /\ wchan = [p \in Proc |-> FALSE]
  /\ keys = 0 /\ seen = {} /\ split = FALSE /\ halt = "no"

Syscall(p) ==
  \/ \E f \in Fd : \/ \E n \in Size : sys_read(p, f, n)
                   \/ \E s \in Text : consolewrite(p, f, s)
  \/ consoleread(p)
printf(p) ==
  \/ \E c \in Char \ {"backspace"} : PutLoad(p, c)
  \/ PutStore(p) \/ PutTest(p) \/ PutScroll(p) \/ PutClear(p)
Next ==
  \/ \E c \in Key : consoleintr(c)
  \/ \E p \in Proc : Syscall(p) \/ printf(p)

Spec == Init /\ [][Next]_vars
-----------------------------------------------------------------------------
(***************************************************************************)
(* Properties.                                                             *)
(***************************************************************************)

\* Every variable has its type; the index, an unsigned number that a backspace
\* decrements at the start of a line too, is one of the line, or the greatest
\* there is, at which consoleintr() stores nothing.
TypeOK ==
  /\ index \in 0 .. INPUT_BUF - 1 \cup {WORD - 1}
  /\ buf \in [0 .. INPUT_BUF - 1 -> 0 .. MaxKeys]
  /\ cursor \in Int
  /\ lock \in [Fd -> Proc \cup {NoOne}]
  /\ pc \in [Proc -> {"user", "read"} \cup Mid]
  /\ fd \in [Proc -> Fd] /\ size \in [Proc -> Size \cup {0}]
  /\ reg \in [Proc -> Int] /\ ch \in [Proc -> Char]
  /\ wchan \in [Proc -> BOOLEAN]
  /\ keys \in 0 .. MaxKeys /\ seen \subseteq 0 .. MaxKeys
  /\ split \in BOOLEAN
  /\ halt \in {"no", "cursor under/overflow", "wild memset"}

\* While the index is one of the line, the line holds characters in the order
\* they were typed, none of which a process has read: a newline that wakes two
\* readers gives the line to one of them, and a short read leaves nothing.
LineFresh ==
  index < INPUT_BUF =>
    \A i \in 0 .. index - 1 :
      /\ buf[i] \notin seen \cup {0}
      /\ \A j \in 0 .. i - 1 : buf[j] < buf[i]

\* Unless one putchar() comes in the middle of another, the cursor rests above
\* the last row, whatever is written, typed and erased, and no panic comes.
CursorSound ==
  ~split => /\ halt = "no"
            /\ ~Printing => cursor \in 0 .. (SCREEN_Y - 1) * SCREEN_X - 1

\* What ReaderReturns takes for granted and the kernel does not promise: that
\* sched() comes to p when p may run, which its scan need not do (module Sched,
\* OnlyOneRunning), and that the user presses enter while the line takes it.
Scheduled(p)  == WF_vars(consoleread(p))
EnterPressed  == WF_vars(consoleintr("newline"))

\* A read of the console by a process that sched() does not pass over returns
\* when the user presses enter, whatever was typed, erased and read before,
\* unless the line has come to refuse keys: it is full, or its index has wrapped.
ReaderReturns ==
  EnterPressed => \A p \in Proc :
    Scheduled(p) => (pc[p] = "read" ~> pc[p] = "user" \/ NoRoom \/ halt # "no")
-----------------------------------------------------------------------------
\* The assertion of putchar(): the cursor is on the screen.
NoCursorPanic == halt # "cursor under/overflow"
=============================================================================
