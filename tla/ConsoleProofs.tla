--------------------------- MODULE ConsoleProofs ---------------------------
(***************************************************************************)
(* Proofs about Console, for every size of screen and line, every set of   *)
(* processes and strings: the cursor as long as no putchar() splits        *)
(* another, and the input line whatever happens.                           *)
(***************************************************************************)
EXTENDS Console, TLAPS, FiniteSetTheorems

(***************************************************************************)
(* Induction over a string.                                                *)
(***************************************************************************)

\* A set with 0 and the successors of its members has all of 0 .. n: else to
\* count up from its members below the first gap would map a finite set to
\* itself, one to one, and miss 0.
LEMMA Induction ==
  ASSUME NEW n \in Nat, NEW S, 0 \in S, \A i \in 0 .. n - 1 : i \in S => i + 1 \in S
  PROVE  \A i \in 0 .. n : i \in S
<1> SUFFICES ASSUME NEW k \in 0 .. n, k \notin S PROVE FALSE
  OBVIOUS
<1> PICK T, f : T = {i \in 0 .. k - 1 : i \in S} /\ f = [i \in T |-> i + 1]
  OBVIOUS
<1>1. IsFiniteSet(T)
  <2>1. IsFiniteSet(0 .. k - 1)
    BY FS_Interval
  <2> QED
    BY <2>1, FS_Subset
<1>2. ASSUME NEW i \in T PROVE i + 1 \in T
  <2>1. i \in 0 .. n - 1 /\ i \in S /\ i + 1 \in 0 .. k
    OBVIOUS
  <2>2. i + 1 \in S
    BY <2>1
  <2>3. i + 1 # k
    BY <2>2
  <2> QED
    BY <2>1, <2>2, <2>3
<1>3. f \in Injection(T, T)
  <2>1. f \in [T -> T]
    BY <1>2
  <2>2. \A i \in T : i \in Int /\ f[i] = i + 1
    OBVIOUS
  <2>3. \A i, j \in T : f[i] = f[j] => i = j
    BY <2>2
  <2> QED
    BY <2>1, <2>3 DEF Injection, IsInjective
<1>4. f \in Surjection(T, T)
  BY <1>1, <1>3, FS_Injection
<1>5. 0 \in T
  <2>1. k # 0
    OBVIOUS
  <2> QED
    BY <2>1
<1>6. PICK i \in T : f[i] = 0
  BY <1>4, <1>5 DEF Surjection
<1> QED
  BY <1>6

\* What the function after of Cursors is defined by.
LEMMA CursorsIs ==
  ASSUME NEW k, NEW s, Len(s) \in Nat
  PROVE  Cursors(k, s) =
           [i \in 0 .. Len(s) |-> IF i = 0 THEN k ELSE putchar(Cursors(k, s)[i - 1], s[i])]
<1> PICK n : n = Len(s)
  OBVIOUS
<1> DEFINE Upto(m, g) == g = [i \in 0 .. m |-> IF i = 0 THEN k ELSE putchar(g[i - 1], s[i])]
<1> PICK S : S = {m \in 0 .. n : \E g : Upto(m, g)}
  OBVIOUS
<1>1. 0 \in S
  <2> PICK g : g = [i \in 0 .. 0 |-> k]
    OBVIOUS
  <2>1. Upto(0, g)
    OBVIOUS
  <2> QED
    BY <2>1
<1>2. ASSUME NEW m \in 0 .. n - 1, m \in S PROVE m + 1 \in S
  <2>1. PICK g : Upto(m, g)
    BY <1>2
  <2> PICK h : h = [i \in 0 .. m + 1 |-> IF i = m + 1 THEN putchar(g[m], s[m + 1]) ELSE g[i]]
    OBVIOUS
  <2>2. ASSUME NEW i \in 0 .. m + 1
        PROVE  h[i] = IF i = 0 THEN k ELSE putchar(h[i - 1], s[i])
    <3>1. CASE i = 0
      BY <3>1, <2>1
    <3>2. CASE i \in 1 .. m
      <4>1. h[i] = g[i] /\ h[i - 1] = g[i - 1]
        BY <3>2
      <4>2. g[i] = putchar(g[i - 1], s[i])
        BY <3>2, <2>1
      <4> QED
        BY <4>1, <4>2, <3>2
    <3>3. CASE i = m + 1
      <4>1. h[i] = putchar(g[m], s[i]) /\ h[i - 1] = g[m] /\ i # 0
        BY <3>3
      <4> QED
        BY <4>1, <3>3
    <3> QED
      BY <3>1, <3>2, <3>3
  <2>3. Upto(m + 1, h)
    BY <2>2
  <2> QED
    BY <2>3
<1>3. n \in S
  BY <1>1, <1>2, Induction
<1>4. \E g : Upto(n, g)
  BY <1>3
<1> QED
  BY <1>4 DEF Cursors

(***************************************************************************)
(* The screen.                                                             *)
(***************************************************************************)
Bottom == (SCREEN_Y - 1) * SCREEN_X     \* where the last row starts
Above  == 0 .. Bottom - 1               \* where the cursor rests

\* What is assumed of the constants, one by one.
LEMMA Constants ==
  /\ SCREEN_X \in Nat \ {0} /\ SCREEN_Y \in Nat /\ SCREEN_Y >= 2
  /\ INPUT_BUF \in Nat \ {0} /\ WORD \in Nat /\ WORD > INPUT_BUF /\ MaxKeys \in Nat
  /\ NoOne \notin Proc /\ Size \subseteq 0 .. INPUT_BUF /\ Text \subseteq Seq(Char)
  BY ConsoleConstants

\* Quotient and remainder.
LEMMA Division ==
  ASSUME NEW a \in Nat, NEW d \in Nat \ {0}
  PROVE  \E q \in Nat, r \in 0 .. d - 1 :
           /\ a \div d = q /\ a % d = r /\ a = q * d + r
<1>1. a \div d \in Nat /\ a % d \in 0 .. d - 1
  OBVIOUS
<1>2. PICK q \in Nat : q = a \div d
  BY <1>1
<1>3. PICK r \in 0 .. d - 1 : r = a % d
  BY <1>1
<1>4. a = d * q + r
  BY <1>2, <1>3
<1>5. d * q = q * d
  OBVIOUS
<1>6. a = q * d + r
  BY <1>4, <1>5
<1> QED
  BY <1>2, <1>3, <1>6

\* Products of natural numbers grow with their factors.
LEMMA Product ==
  ASSUME NEW a \in Int, NEW b \in Int, NEW d \in Nat, a <= b
  PROVE  a * d \in Int /\ b * d \in Int /\ a * d <= b * d /\ (a + 1) * d = a * d + d
  OBVIOUS

\* The number of characters above the last row.
LEMMA BottomIs ==
  /\ Bottom \in Nat /\ Bottom >= SCREEN_X /\ SCREEN_Y * SCREEN_X = Bottom + SCREEN_X
<1> PICK x, y : x = SCREEN_X /\ y = SCREEN_Y
  OBVIOUS
<1>1. x \in Nat \ {0} /\ y \in Nat /\ y >= 2
  BY Constants
<1>2. 1 * x <= (y - 1) * x /\ (y - 1) * x \in Int
  BY <1>1, Product
<1>3. (y - 1 + 1) * x = (y - 1) * x + x
  BY <1>1, Product
<1>4. 1 * x = x /\ y - 1 + 1 = y
  BY <1>1
<1> QED
  BY <1>1, <1>2, <1>3, <1>4 DEF Bottom

\* The cursor has come to the last row when it is at or behind its start.
LEMMA ScrollsAt ==
  ASSUME NEW k \in Nat
  PROVE  Scrolls(k) <=> k >= Bottom
<1> PICK x, y : x = SCREEN_X /\ y = SCREEN_Y
  OBVIOUS
<1>1. x \in Nat \ {0} /\ y \in Nat /\ y >= 2
  BY Constants
<1>2. PICK q \in Nat, r \in 0 .. x - 1 : k \div x = q /\ k = q * x + r
  BY <1>1, Division
<1>3. CASE q >= y - 1
  <2>1. (y - 1) * x <= q * x /\ q * x \in Int /\ (y - 1) * x \in Int
    BY <1>1, <1>3, Product
  <2> QED
    BY <2>1, <1>1, <1>2, <1>3 DEF Scrolls, Bottom
<1>4. CASE q < y - 1
  <2>1. /\ (q + 1) * x <= (y - 1) * x /\ (q + 1) * x = q * x + x
        /\ q * x \in Int /\ (y - 1) * x \in Int
    <3>1. q + 1 \in Int /\ q + 1 <= y - 1
      BY <1>1, <1>4
    <3> QED
      BY <3>1, <1>1, Product
  <2> QED
    BY <2>1, <1>1, <1>2, <1>4 DEF Scrolls, Bottom
<1> QED
  BY <1>1, <1>2, <1>3, <1>4

\* Where a character takes a cursor that rests above the last row: on the
\* screen, and to the start of the last row at most.
LEMMA AdvanceAbove ==
  ASSUME NEW k \in Above, NEW c \in Char
  PROVE  Advance(c, k) \in 0 .. Bottom /\ ~OffScreen(Advance(c, k))
<1> PICK x : x = SCREEN_X
  OBVIOUS
<1>1. x \in Nat \ {0} /\ Bottom \in Nat /\ SCREEN_Y * x = Bottom + x /\ k \in Nat
  BY BottomIs, Constants DEF Above
<1>2. Advance("newline", k) \in 0 .. Bottom
  <2>1. PICK q \in Nat, r \in 0 .. x - 1 : k \div x = q /\ k % x = r /\ k = q * x + r
    BY <1>1, Division
  <2>2. q < SCREEN_Y - 1
    <3>1. ~Scrolls(k)
      BY <1>1, ScrollsAt DEF Above
    <3> QED
      BY <3>1, <2>1, Constants DEF Scrolls
  <2>3. Advance("newline", k) = k + x - r
    BY <2>1, <1>1 DEF Advance, Rem
  <2>4. (q + 1) * x <= Bottom /\ (q + 1) * x = q * x + x /\ q * x \in Nat
    <3>1. q + 1 \in Int /\ q + 1 <= SCREEN_Y - 1 /\ SCREEN_Y - 1 \in Int
      BY <2>2, Constants
    <3>2. (q + 1) * x <= (SCREEN_Y - 1) * x /\ (q + 1) * x = q * x + x
      BY <3>1, <1>1, Product
    <3>3. q * x \in Nat
      BY <1>1
    <3> QED
      BY <3>2, <3>3 DEF Bottom
  <2>5. k + x - r = q * x + x
    <3> PICK z : z = q * x
      OBVIOUS
    <3>1. z \in Nat /\ k = z + r
      BY <2>1, <2>4
    <3> QED
      BY <3>1, <1>1
  <2> QED
    BY <2>3, <2>4, <2>5, <1>1
<1>3. Advance(c, k) \in 0 .. Bottom
  BY <1>1, <1>2 DEF Advance, Above, Char, Key
<1> QED
  BY <1>1, <1>3 DEF OffScreen

\* putchar() leaves it there, by scrolling if need be.
LEMMA PutcharAbove ==
  ASSUME NEW k \in Above, NEW c \in Char
  PROVE  putchar(k, c) \in Above
<1> PICK a : a = Advance(c, k)
  OBVIOUS
<1>1. a \in 0 .. Bottom
  BY AdvanceAbove
<1>2. Scrolls(a) <=> a >= Bottom
  BY <1>1, BottomIs, ScrollsAt
<1> QED
  BY <1>1, <1>2, BottomIs, Constants DEF putchar, Above

\* putchar() takes integers to integers.
LEMMA AdvanceInt ==
  ASSUME NEW k \in Int, NEW c
  PROVE  Advance(c, k) \in Int /\ putchar(k, c) \in Int
<1>1. SCREEN_X \in Nat \ {0} /\ Rem(k) \in Int
  BY Constants DEF Rem
<1>2. Advance(c, k) \in Int
  BY <1>1 DEF Advance
<1> QED
  BY <1>1, <1>2 DEF putchar

\* So does a string.
LEMMA CursorsInt ==
  ASSUME NEW k \in Int, NEW s \in Seq(Char)
  PROVE  \A i \in 0 .. Len(s) : Cursors(k, s)[i] \in Int
<1> PICK n, f : n = Len(s) /\ f = Cursors(k, s)
  OBVIOUS
<1>1. n \in Nat /\ f = [i \in 0 .. n |-> IF i = 0 THEN k ELSE putchar(f[i - 1], s[i])]
  BY CursorsIs
<1> PICK S : S = {i \in 0 .. n : f[i] \in Int}
  OBVIOUS
<1>2. 0 \in S
  BY <1>1
<1>3. ASSUME NEW i \in 0 .. n - 1, i \in S PROVE i + 1 \in S
  <2>1. f[i + 1] = putchar(f[i], s[i + 1])
    BY <1>1
  <2> QED
    BY <2>1, <1>1, <1>3, AdvanceInt
<1> QED
  BY <1>1, <1>2, <1>3, Induction

\* Whatever string is written from above the last row, the cursor stays there.
LEMMA CursorsAbove ==
  ASSUME NEW k \in Above, NEW s \in Seq(Char)
  PROVE  \A i \in 0 .. Len(s) : Cursors(k, s)[i] \in Above
<1> PICK n, f : n = Len(s) /\ f = Cursors(k, s)
  OBVIOUS
<1>1. n \in Nat /\ f = [i \in 0 .. n |-> IF i = 0 THEN k ELSE putchar(f[i - 1], s[i])]
  BY CursorsIs
<1> PICK S : S = {i \in 0 .. n : f[i] \in Above}
  OBVIOUS
<1>2. 0 \in S
  BY <1>1
<1>3. ASSUME NEW i \in 0 .. n - 1, i \in S PROVE i + 1 \in S
  <2>1. f[i + 1] = putchar(f[i], s[i + 1])
    BY <1>1
  <2>2. s[i + 1] \in Char
    <3>1. i + 1 \in 1 .. Len(s)
      BY <1>1
    <3> QED
      BY <3>1
  <2> QED
    BY <2>1, <2>2, <1>1, <1>3, PutcharAbove
<1> QED
  BY <1>1, <1>2, <1>3, Induction

\* What consolewrite() of s does, and the echo of a key.
LEMMA PutsIs ==
  ASSUME cursor \in Int, NEW s \in Seq(Char), Puts(s)
  PROVE  /\ cursor' \in Int /\ halt' \in {halt, "cursor under/overflow"}
         /\ split' = (split \/ (s # <<>> /\ Printing))
         /\ s = <<>> => cursor' = cursor /\ halt' = halt
         /\ cursor \in Above => cursor' \in Above /\ halt' = halt
<1> PICK n, f : n = Len(s) /\ f = Cursors(cursor, s)
  OBVIOUS
<1>1. n \in Nat /\ f = [i \in 0 .. n |-> IF i = 0 THEN cursor ELSE putchar(f[i - 1], s[i])]
  BY CursorsIs
<1>2. /\ cursor' = f[n] /\ split' = (split \/ (s # <<>> /\ Printing))
      /\ halt' = IF \E i \in DOMAIN s : OffScreen(Advance(s[i], f[i - 1]))
                   THEN "cursor under/overflow" ELSE halt
  BY DEF Puts
<1>3. cursor' \in Int
  <2>1. \A i \in 0 .. n : f[i] \in Int
    BY CursorsInt
  <2>2. n \in 0 .. n
    BY <1>1
  <2> QED
    BY <2>1, <2>2, <1>2
<1>4. ASSUME s = <<>> PROVE cursor' = cursor /\ halt' = halt
  <2>1. n = 0 /\ DOMAIN s = {}
    BY <1>4
  <2> QED
    BY <2>1, <1>1, <1>2
<1>5. ASSUME cursor \in Above PROVE cursor' \in Above /\ halt' = halt
  <2>1. \A i \in 0 .. n : f[i] \in Above
    BY <1>5, CursorsAbove
  <2>2. ASSUME NEW i \in DOMAIN s PROVE ~OffScreen(Advance(s[i], f[i - 1]))
    <3>1. i \in 1 .. n /\ s[i] \in Char
      OBVIOUS
    <3>2. f[i - 1] \in Above
      BY <3>1, <2>1, <1>1
    <3> QED
      BY <3>1, <3>2, AdvanceAbove
  <2>3. n \in 0 .. n
    BY <1>1
  <2>4. cursor' \in Above
    BY <2>1, <2>3, <1>2
  <2> QED
    BY <2>2, <2>4, <1>2
<1> QED
  BY <1>2, <1>3, <1>4, <1>5

(***************************************************************************)
(* The inductive invariant.                                                *)
(***************************************************************************)

\* What has been typed so far has the numbers up to keys.
Typed == (\A i \in 0 .. INPUT_BUF - 1 : buf[i] \in 0 .. keys) /\ seen \subseteq 0 .. keys

\* Where one putchar() has come to, while no other runs.
PutAt(p) ==
  /\ pc[p] = "store"  => cursor \in Above /\ reg[p] = cursor
  /\ pc[p] = "test"   => reg[p] \in Above /\ cursor = Advance(ch[p], reg[p])
  /\ pc[p] = "scroll" => cursor = Bottom
  /\ pc[p] = "clear"  => cursor \in Above

Whole ==
  /\ halt = "no"
  /\ \A p, q \in Proc : pc[p] \in Mid /\ pc[q] \in Mid => p = q
  /\ \A p \in Proc : PutAt(p)
  /\ ~Printing => cursor \in Above

ConsoleInv == TypeOK /\ Typed /\ LineFresh /\ (~split => Whole)

\* The invariant holds at first.
LEMMA ConsoleInit == Init => ConsoleInv
<1> SUFFICES ASSUME Init PROVE ConsoleInv
  OBVIOUS
<1>1. 0 \in Above
  BY BottomIs, Constants DEF Above
<1>2. TypeOK
  BY Constants DEF Init, TypeOK, Mid, Fd, Char, Key
<1>3. Typed /\ LineFresh
  BY Constants DEF Init, Typed, LineFresh
<1>4. Whole
  BY <1>1 DEF Init, Whole, PutAt, Mid
<1> QED
  BY <1>2, <1>3, <1>4 DEF ConsoleInv

(***************************************************************************)
(* The invariant is inductive.                                             *)
(***************************************************************************)

\* A step of a process outside putchar() that stays outside, or of the keyboard,
\* moves the cursor by whole characters.
LEMMA WholeKept ==
  ASSUME TypeOK, ~split => Whole, ~split',
         \A p \in Proc : pc'[p] \in Mid \/ pc[p] \in Mid => pc'[p] = pc[p],
         UNCHANGED put,
         \/ UNCHANGED <<cursor, split, halt>>
         \/ \E s \in Seq(Char) : Puts(s)
  PROVE  Whole'
<1>1. \A p \in Proc : pc'[p] \in Mid <=> pc[p] \in Mid
  OBVIOUS
<1>2. Printing' <=> Printing
  BY <1>1 DEF Printing
<1>3. CASE UNCHANGED <<cursor, split, halt>>
  BY <1>1, <1>2, <1>3 DEF Whole, PutAt, put, Mid
<1>4. CASE \E s \in Seq(Char) : Puts(s)
  <2>1. PICK s \in Seq(Char) : Puts(s)
    BY <1>4
  <2>2. /\ split' = (split \/ (s # <<>> /\ Printing))
        /\ s = <<>> => cursor' = cursor /\ halt' = halt
        /\ cursor \in Above => cursor' \in Above /\ halt' = halt
    BY <2>1, PutsIs DEF TypeOK
  <2>3. CASE s = <<>>
    BY <2>2, <2>3, <1>1, <1>2 DEF Whole, PutAt, put, Mid
  <2>4. CASE s # <<>>
    <3>1. ~split /\ ~Printing
      BY <2>2, <2>4
    <3>2. cursor' \in Above /\ halt' = "no"
      BY <2>2, <3>1 DEF Whole
    <3>3. \A p \in Proc : pc'[p] \notin Mid
      BY <3>1, <1>1 DEF Printing
    <3> QED
      BY <3>2, <3>3 DEF Whole, PutAt, Mid
  <2> QED
    BY <2>3, <2>4
<1> QED
  BY <1>3, <1>4

\* The types of what Puts() changes.
LEMMA PutsTypes ==
  ASSUME TypeOK, NEW s \in Seq(Char), Puts(s)
  PROVE  /\ cursor' \in Int /\ split' \in BOOLEAN
         /\ halt' \in {"no", "cursor under/overflow", "wild memset"}
  BY PutsIs DEF TypeOK

\* A character is a string of one.
LEMMA OneChar == \A c \in Char : <<c>> \in Seq(Char)
  OBVIOUS

\* A backspace at the start of a line takes the index to the greatest there is.
LEMMA Wraps ==
  ASSUME NEW i \in 0 .. INPUT_BUF - 1
  PROVE  (i - 1) % WORD = IF i = 0 THEN WORD - 1 ELSE i - 1
<1> PICK w : w = WORD
  OBVIOUS
<1>1. w \in Nat \ {0} /\ i - 1 < w - 1 /\ i - 1 >= -1
  BY Constants
<1>2. CASE i = 0
  <2>1. PICK q \in Int, r \in 0 .. w - 1 : q = (-1) \div w /\ r = (-1) % w
    BY <1>1
  <2>2. -1 = w * q + r
    BY <2>1, <1>1
  <2>3. q = -1
    <3>1. ASSUME q >= 0 PROVE FALSE
      <4>1. w * q >= 0
        BY <3>1, <1>1
      <4> QED
        BY <4>1, <2>2, <1>1
    <3>2. ASSUME q <= -2 PROVE FALSE
      <4>1. w * q <= w * (-2)
        BY <3>2, <1>1
      <4> QED
        BY <4>1, <2>2, <1>1
    <3> QED
      BY <3>1, <3>2
  <2>4. r = w - 1
    BY <2>2, <2>3, <1>1
  <2> QED
    BY <2>1, <2>4, <1>2
<1>3. CASE i # 0
  <2>1. i - 1 \in 0 .. w - 1
    BY <1>1, <1>3
  <2>2. (i - 1) % w = i - 1
    BY <2>1, <1>1
  <2> QED
    BY <2>2, <1>3
<1> QED
  BY <1>2, <1>3

\* The keyboard's interrupt: the line stays one of fresh characters, whatever
\* is typed.
LEMMA KeyStep ==
  ASSUME ConsoleInv, NEW c \in Key, consoleintr(c)
  PROVE  ConsoleInv'
<1>1. /\ TypeOK /\ Typed /\ LineFresh /\ (~split => Whole)
      /\ UNCHANGED <<lock, pc, fd, size, put, seen>>
  BY DEF ConsoleInv, consoleintr
<1>2. CASE NoRoom \/ c = "none"
  <2>1. UNCHANGED <<line, wchan, cursor, split, halt>>
    BY <1>2 DEF consoleintr
  <2>2. TypeOK'
    BY <1>1, <2>1 DEF TypeOK, line, put
  <2>3. Typed' /\ LineFresh'
    BY <1>1, <2>1 DEF Typed, LineFresh, line
  <2>4. ~split' => Whole'
    BY <1>1, <2>1, WholeKept
  <2> QED
    BY <2>2, <2>3, <2>4 DEF ConsoleInv
<1>3. CASE ~NoRoom /\ c # "none"
  <2>1. /\ \/ Newline
           \/ Backspace
           \/ Type
        /\ c \in Char /\ Puts(<<c>>)
    BY <1>3 DEF consoleintr, Char
  <2>2. <<c>> \in Seq(Char)
    BY <2>1
  <2>3. /\ cursor' \in Int /\ split' \in BOOLEAN
        /\ halt' \in {"no", "cursor under/overflow", "wild memset"}
    BY <1>1, <2>1, <2>2, PutsTypes
  <2>4. ~split' => Whole'
    BY <1>1, <2>1, <2>2, WholeKept
  <2>5. /\ index \in 0 .. INPUT_BUF - 2 /\ INPUT_BUF \in Nat \ {0} /\ WORD \in Nat
        /\ WORD > INPUT_BUF /\ keys \in 0 .. MaxKeys /\ MaxKeys \in Nat
        /\ buf \in [0 .. INPUT_BUF - 1 -> 0 .. MaxKeys]
        /\ wchan \in [Proc -> BOOLEAN]
    <3>1. /\ index \in 0 .. INPUT_BUF - 1 \cup {WORD - 1} /\ keys \in 0 .. MaxKeys
          /\ buf \in [0 .. INPUT_BUF - 1 -> 0 .. MaxKeys]
          /\ wchan \in [Proc -> BOOLEAN]
      BY <1>1 DEF TypeOK
    <3>2. INPUT_BUF \in Nat \ {0} /\ WORD \in Nat /\ WORD > INPUT_BUF /\ MaxKeys \in Nat
      BY Constants
    <3>3. index < INPUT_BUF - 1
      BY <1>3, <3>1, <3>2 DEF NoRoom
    <3>4. index \in 0 .. INPUT_BUF - 2
      BY <3>1, <3>2, <3>3
    <3> QED
      BY <3>1, <3>2, <3>4
  <2>6. /\ index' \in 0 .. INPUT_BUF - 1 \cup {WORD - 1}
        /\ buf' \in [0 .. INPUT_BUF - 1 -> 0 .. MaxKeys]
        /\ keys' \in 0 .. MaxKeys /\ wchan' \in [Proc -> BOOLEAN]
        /\ Typed' /\ LineFresh'
    <3>1. CASE Newline
      BY <1>1, <2>5, <3>1 DEF Newline, wakeup, line, Typed, LineFresh
    <3>2. CASE Backspace
      <4>1. index' = IF index = 0 THEN WORD - 1 ELSE index - 1
        BY <2>5, <3>2, Wraps DEF Backspace
      <4>2. UNCHANGED <<buf, keys, wchan>>
        BY <3>2 DEF Backspace
      <4>3. Typed'
        BY <1>1, <4>2 DEF Typed
      <4>4. LineFresh'
        BY <1>1, <2>5, <4>1, <4>2 DEF LineFresh
      <4> QED
        BY <2>5, <4>1, <4>2, <4>3, <4>4
    <3>3. CASE Type
      <4>1. /\ keys < MaxKeys /\ keys' = keys + 1 /\ index' = index + 1
            /\ buf' = [buf EXCEPT ![index] = keys + 1] /\ UNCHANGED wchan
        BY <3>3 DEF Type
      <4>2. /\ buf'[index] = keys + 1
            /\ \A i \in 0 .. INPUT_BUF - 1 : i # index => buf'[i] = buf[i]
        BY <2>5, <4>1
      <4>3. /\ \A i \in 0 .. INPUT_BUF - 1 : buf[i] \in 0 .. keys
            /\ seen \subseteq 0 .. keys
        BY <1>1 DEF Typed
      <4>4. Typed'
        BY <1>1, <2>5, <4>1, <4>2, <4>3 DEF Typed
      <4>5. LineFresh'
        <5>1. ASSUME NEW i \in 0 .. index
              PROVE  /\ buf'[i] \notin seen \cup {0}
                     /\ \A j \in 0 .. i - 1 : buf'[j] < buf'[i]
          <6>1. CASE i = index
            BY <6>1, <2>5, <4>2, <4>3
          <6>2. CASE i # index
            BY <6>2, <1>1, <2>5, <4>2 DEF LineFresh
          <6> QED
            BY <6>1, <6>2
        <5> QED
          BY <5>1, <1>1, <2>5, <4>1 DEF LineFresh
      <4> QED
        BY <2>5, <4>1, <4>4, <4>5
    <3> QED
      BY <2>1, <3>1, <3>2, <3>3
  <2>7. TypeOK'
    BY <1>1, <2>3, <2>6 DEF TypeOK, put, Typed
  <2> QED
    BY <2>4, <2>6, <2>7 DEF ConsoleInv
<1> QED
  BY <1>2, <1>3

\* A step that leaves the line alone.
LEMMA LineKept ==
  ASSUME Typed, LineFresh, UNCHANGED <<line, seen>>
  PROVE  Typed' /\ LineFresh'
  BY DEF Typed, LineFresh, line

\* A read of the console sleeps with the inode's lock.
LEMMA ReadStep ==
  ASSUME ConsoleInv, NEW p \in Proc, NEW f \in Fd, NEW n \in Size, sys_read(p, f, n)
  PROVE  ConsoleInv'
<1>1. /\ TypeOK /\ Typed /\ LineFresh /\ (~split => Whole)
      /\ UNCHANGED <<line, cursor, put, seen, split, halt>> /\ pc[p] = "user"
  BY DEF ConsoleInv, sys_read, At
<1>2. TypeOK'
  BY <1>1 DEF TypeOK, sys_read, Goto, line, put
<1>3. \A q \in Proc : pc'[q] \in Mid \/ pc[q] \in Mid => pc'[q] = pc[q]
  BY <1>1 DEF TypeOK, sys_read, Goto, Mid
<1> QED
  BY <1>1, <1>2, <1>3, WholeKept, LineKept DEF ConsoleInv

\* consoleread() takes the whole line: what it does not copy is lost, what it
\* copies is in the line no more.
LEMMA ConsolereadStep ==
  ASSUME ConsoleInv, NEW p \in Proc, consoleread(p)
  PROVE  ConsoleInv'
<1> PICK n : n = IF size[p] < index THEN size[p] ELSE index
  OBVIOUS
<1>1. /\ TypeOK /\ Typed /\ LineFresh /\ (~split => Whole) /\ pc[p] = "read"
      /\ seen' = seen \cup {buf[i] : i \in 0 .. n - 1}
      /\ index' = 0 /\ UNCHANGED <<buf, keys, cursor, wchan, put, split, halt>>
      /\ pc' = [pc EXCEPT ![p] = "user"]
  BY DEF ConsoleInv, consoleread, At, Goto
<1>2. n \in Int /\ n <= INPUT_BUF /\ INPUT_BUF \in Nat \ {0} /\ WORD \in Nat /\ WORD > INPUT_BUF
  <2>1. size[p] \in 0 .. INPUT_BUF /\ index \in 0 .. INPUT_BUF - 1 \cup {WORD - 1}
    <3>1. size[p] \in Size \cup {0} /\ index \in 0 .. INPUT_BUF - 1 \cup {WORD - 1}
      BY <1>1 DEF TypeOK
    <3>2. Size \subseteq 0 .. INPUT_BUF /\ 0 \in 0 .. INPUT_BUF
      BY Constants
    <3>3. size[p] \in 0 .. INPUT_BUF
      BY <3>1, <3>2, Zenon
    <3> QED
      BY <3>1, <3>3, Zenon
  <2>2. INPUT_BUF \in Nat \ {0} /\ WORD \in Nat /\ WORD > INPUT_BUF
    BY Constants
  <2> QED
    BY <2>1, <2>2
<1>3. \A i \in 0 .. n - 1 : buf[i] \in 0 .. keys
  BY <1>1, <1>2 DEF Typed
<1>4. seen' \subseteq 0 .. keys
  BY <1>1, <1>3 DEF Typed
<1>5. Typed' /\ LineFresh'
  <2>1. Typed'
    BY <1>1, <1>4 DEF Typed
  <2>2. LineFresh'
    BY <1>1, <1>2 DEF LineFresh
  <2> QED
    BY <2>1, <2>2
<1>6. TypeOK'
  <2>1. lock' \in [Fd -> Proc \cup {NoOne}] /\ fd' \in [Proc -> Fd] /\ size' \in [Proc -> Size \cup {0}]
    BY <1>1 DEF TypeOK, consoleread, Forget, Fd
  <2>2. pc' \in [Proc -> {"user", "read"} \cup Mid]
    BY <1>1 DEF TypeOK
  <2>3. seen' \subseteq 0 .. MaxKeys
    <3>1. keys \in 0 .. MaxKeys /\ MaxKeys \in Nat
      BY <1>1, Constants DEF TypeOK
    <3> QED
      BY <3>1, <1>4
  <2>4. index' \in 0 .. INPUT_BUF - 1
    BY <1>1, <1>2
  <2> QED
    BY <1>1, <2>1, <2>2, <2>3, <2>4 DEF TypeOK, put
<1>7. \A q \in Proc : pc'[q] \in Mid \/ pc[q] \in Mid => pc'[q] = pc[q]
  BY <1>1 DEF TypeOK, Mid
<1> QED
  BY <1>1, <1>5, <1>6, <1>7, WholeKept DEF ConsoleInv

\* consolewrite() runs with interrupts off.
LEMMA WriteStep ==
  ASSUME ConsoleInv, NEW p \in Proc, NEW f \in Fd, NEW s \in Text, consolewrite(p, f, s)
  PROVE  ConsoleInv'
<1>1. /\ TypeOK /\ Typed /\ LineFresh /\ (~split => Whole)
      /\ Puts(s) /\ UNCHANGED <<line, process, put, seen>>
  BY DEF ConsoleInv, consolewrite
<1>2. s \in Seq(Char)
  BY Constants
<1>3. TypeOK'
  <2>1. /\ cursor' \in Int /\ split' \in BOOLEAN
        /\ halt' \in {"no", "cursor under/overflow", "wild memset"}
    BY <1>1, <1>2, PutsTypes
  <2> QED
    BY <1>1, <2>1 DEF TypeOK, line, process, put
<1>4. ~split' => Whole'
  BY <1>1, <1>2, WholeKept DEF process
<1> QED
  BY <1>1, <1>3, <1>4, LineKept DEF ConsoleInv

(***************************************************************************)
(* The putchar() of a printf() in the kernel, step by step.                *)
(***************************************************************************)

\* A step of p inside putchar(), which started while no other ran.
LEMMA PutFrame ==
  ASSUME Whole, NEW p \in Proc, pc[p] \in Mid \/ ~Printing, halt' = halt,
         \A q \in Proc \ {p} : pc'[q] = pc[q],
         PutAt(p)', pc'[p] \notin Mid => cursor' \in Above
  PROVE  Whole'
<1>1. \A q \in Proc \ {p} : pc[q] \notin Mid /\ pc'[q] \notin Mid
  BY DEF Whole, Printing
<1>2. \A q \in Proc \ {p} : PutAt(q)'
  BY <1>1 DEF PutAt, Mid
<1>3. ~Printing' => cursor' \in Above
  BY DEF Printing
<1> QED
  BY <1>1, <1>2, <1>3 DEF Whole

\* printf() is about to move the cursor.
LEMMA PutLoadStep ==
  ASSUME ConsoleInv, NEW p \in Proc, NEW c \in Char, PutLoad(p, c)
  PROVE  ConsoleInv'
<1>1. /\ TypeOK /\ Typed /\ LineFresh /\ (~split => Whole) /\ pc[p] = "user"
      /\ reg' = [reg EXCEPT ![p] = cursor] /\ ch' = [ch EXCEPT ![p] = c]
      /\ pc' = [pc EXCEPT ![p] = "store"] /\ split' = (split \/ Printing)
      /\ UNCHANGED <<line, cursor, lock, fd, size, wchan, seen, halt>>
  BY DEF ConsoleInv, PutLoad, At, Goto
<1>2. TypeOK'
  BY <1>1 DEF TypeOK, line, Mid
<1>3. /\ pc'[p] = "store" /\ reg'[p] = cursor
      /\ \A q \in Proc \ {p} : pc'[q] = pc[q]
  BY <1>1 DEF TypeOK
<1>4. ASSUME ~split' PROVE Whole'
  <2>1. ~split /\ ~Printing /\ Whole /\ cursor \in Above
    BY <1>1, <1>4 DEF Whole
  <2>2. PutAt(p)' /\ pc'[p] \in Mid
    BY <2>1, <1>1, <1>3 DEF PutAt, Mid
  <2> QED
    BY <2>1, <2>2, <1>1, <1>3, PutFrame
<1> QED
  BY <1>1, <1>2, <1>4, LineKept DEF ConsoleInv

\* putchar() stores the cursor it moved.
LEMMA PutStoreStep ==
  ASSUME ConsoleInv, NEW p \in Proc, PutStore(p)
  PROVE  ConsoleInv'
<1>1. /\ TypeOK /\ Typed /\ LineFresh /\ (~split => Whole) /\ pc[p] = "store"
      /\ cursor' = Advance(ch[p], reg[p]) /\ pc' = [pc EXCEPT ![p] = "test"]
      /\ UNCHANGED <<line, lock, fd, size, wchan, put, seen, split, halt>>
  BY DEF ConsoleInv, PutStore, At, Goto
<1>2. TypeOK'
  <2>1. cursor' \in Int
    BY <1>1, AdvanceInt DEF TypeOK
  <2> QED
    BY <1>1, <2>1 DEF TypeOK, line, put, Mid
<1>3. pc'[p] = "test" /\ \A q \in Proc \ {p} : pc'[q] = pc[q]
  BY <1>1 DEF TypeOK
<1>4. ASSUME ~split' PROVE Whole'
  <2>1. Whole /\ reg[p] \in Above
    BY <1>1, <1>4 DEF Whole, PutAt
  <2>2. PutAt(p)' /\ pc'[p] \in Mid /\ pc[p] \in Mid
    BY <2>1, <1>1, <1>3 DEF PutAt, Mid, put
  <2> QED
    BY <2>1, <2>2, <1>1, <1>3, PutFrame
<1> QED
  BY <1>1, <1>2, <1>4, LineKept DEF ConsoleInv

\* putchar() looks whether the cursor is off the screen.
LEMMA PutTestStep ==
  ASSUME ConsoleInv, NEW p \in Proc, PutTest(p)
  PROVE  ConsoleInv'
<1>1. /\ TypeOK /\ Typed /\ LineFresh /\ (~split => Whole) /\ pc[p] = "test"
      /\ reg' = [reg EXCEPT ![p] = 0] /\ ch' = [ch EXCEPT ![p] = "char"]
      /\ UNCHANGED <<line, cursor, lock, fd, size, wchan, seen, split>>
  BY DEF ConsoleInv, PutTest, At, Forget
<1>2. PICK k \in {cursor, Advance(ch[p], reg[p])} :
        IF OffScreen(k)
          THEN halt' = "cursor under/overflow" /\ UNCHANGED pc
          ELSE /\ pc' = [pc EXCEPT ![p] = IF Scrolls(k) THEN "scroll" ELSE "user"]
               /\ UNCHANGED halt
  BY DEF PutTest, Goto
<1>3. TypeOK'
  <2>1. /\ halt' \in {"no", "cursor under/overflow", "wild memset"}
        /\ pc' \in [Proc -> {"user", "read"} \cup Mid]
    BY <1>1, <1>2 DEF TypeOK, Mid
  <2>2. "char" \in Char
    BY DEF Char, Key
  <2>3. reg' \in [Proc -> Int] /\ ch' \in [Proc -> Char]
    <3>1. reg \in [Proc -> Int] /\ ch \in [Proc -> Char]
      BY <1>1 DEF TypeOK
    <3> QED
      BY <3>1, <2>2, <1>1
  <2> QED
    BY <1>1, <2>1, <2>3 DEF TypeOK, line
<1>4. ASSUME ~split' PROVE Whole'
  <2>1. Whole /\ reg[p] \in Above /\ cursor = Advance(ch[p], reg[p]) /\ ch[p] \in Char
    BY <1>1, <1>4 DEF Whole, PutAt, TypeOK
  <2>2. k = cursor /\ k \in 0 .. Bottom /\ ~OffScreen(k)
    BY <2>1, AdvanceAbove
  <2>3. /\ pc'[p] = (IF Scrolls(k) THEN "scroll" ELSE "user") /\ UNCHANGED halt
        /\ \A q \in Proc \ {p} : pc'[q] = pc[q]
    BY <2>2, <1>1, <1>2 DEF TypeOK
  <2>4. Scrolls(k) <=> k >= Bottom
    BY <2>2, BottomIs, ScrollsAt
  <2>5. PutAt(p)' /\ (pc'[p] \notin Mid => cursor' \in Above)
    BY <2>2, <2>3, <2>4, <1>1, BottomIs DEF PutAt, Above, Mid
  <2>6. pc[p] \in Mid
    BY <1>1 DEF Mid
  <2> QED
    BY <2>1, <2>3, <2>5, <2>6, PutFrame
<1> QED
  BY <1>1, <1>3, <1>4, LineKept DEF ConsoleInv

\* putchar() scrolls if the cursor is in the last row.
LEMMA PutScrollStep ==
  ASSUME ConsoleInv, NEW p \in Proc, PutScroll(p)
  PROVE  ConsoleInv'
<1>1. /\ TypeOK /\ Typed /\ LineFresh /\ (~split => Whole) /\ pc[p] = "scroll"
      /\ cursor' = cursor - SCREEN_X /\ pc' = [pc EXCEPT ![p] = "clear"]
      /\ UNCHANGED <<line, lock, fd, size, wchan, put, seen, split, halt>>
  BY DEF ConsoleInv, PutScroll, At, Goto
<1>2. TypeOK'
  <2>1. cursor' \in Int
    <3>1. cursor \in Int
      BY <1>1 DEF TypeOK
    <3>2. SCREEN_X \in Int
      BY Constants
    <3> QED
      BY <3>1, <3>2, <1>1
  <2> QED
    BY <1>1, <2>1 DEF TypeOK, line, put, Mid
<1>3. pc'[p] = "clear" /\ \A q \in Proc \ {p} : pc'[q] = pc[q]
  BY <1>1 DEF TypeOK
<1>4. ASSUME ~split' PROVE Whole'
  <2>1. Whole /\ cursor = Bottom
    BY <1>1, <1>4 DEF Whole, PutAt
  <2>2. cursor' \in Above
    BY <2>1, <1>1, BottomIs, Constants DEF Above
  <2>3. PutAt(p)' /\ pc'[p] \in Mid /\ pc[p] \in Mid
    BY <2>2, <1>1, <1>3 DEF PutAt, Mid
  <2> QED
    BY <2>1, <2>3, <1>1, <1>3, PutFrame
<1> QED
  BY <1>1, <1>2, <1>4, LineKept DEF ConsoleInv

\* putchar() is done.
LEMMA PutClearStep ==
  ASSUME ConsoleInv, NEW p \in Proc, PutClear(p)
  PROVE  ConsoleInv'
<1>1. /\ TypeOK /\ Typed /\ LineFresh /\ (~split => Whole) /\ pc[p] = "clear"
      /\ UNCHANGED <<line, cursor, lock, fd, size, wchan, put, seen, split>>
      /\ IF cursor > Bottom
           THEN halt' = "wild memset" /\ UNCHANGED pc
           ELSE pc' = [pc EXCEPT ![p] = "user"] /\ UNCHANGED halt
  BY DEF ConsoleInv, PutClear, At, Goto, Bottom
<1>2. TypeOK'
  <2>1. /\ halt' \in {"no", "cursor under/overflow", "wild memset"}
        /\ pc' \in [Proc -> {"user", "read"} \cup Mid]
    BY <1>1 DEF TypeOK, Mid
  <2> QED
    BY <1>1, <2>1 DEF TypeOK, line, put
<1>3. ASSUME ~split' PROVE Whole'
  <2>1. Whole /\ cursor \in Above
    BY <1>1, <1>3 DEF Whole, PutAt
  <2>2. ~(cursor > Bottom)
    BY <2>1, BottomIs DEF Above
  <2>3. /\ pc'[p] = "user" /\ UNCHANGED halt
        /\ \A q \in Proc \ {p} : pc'[q] = pc[q]
    BY <2>2, <1>1 DEF TypeOK
  <2>4. PutAt(p)' /\ cursor' \in Above /\ pc[p] \in Mid
    BY <2>1, <2>3, <1>1 DEF PutAt, Mid
  <2> QED
    BY <2>1, <2>3, <2>4, PutFrame
<1> QED
  BY <1>1, <1>2, <1>3, LineKept DEF ConsoleInv

\* Every step keeps the invariant.
LEMMA ConsoleNext ==
  ASSUME ConsoleInv, [Next]_vars
  PROVE  ConsoleInv'
<1>1. CASE \E c \in Key : consoleintr(c)
  BY <1>1, KeyStep
<1>2. CASE \E p \in Proc : Syscall(p)
  BY <1>2, ReadStep, WriteStep, ConsolereadStep DEF Syscall
<1>3. CASE \E p \in Proc : printf(p)
  BY <1>3, PutLoadStep, PutStoreStep, PutTestStep, PutScrollStep, PutClearStep DEF printf
<1>4. CASE UNCHANGED vars
  <2>1. /\ TypeOK /\ Typed /\ LineFresh /\ (~split => Whole)
        /\ UNCHANGED <<line, cursor, lock, pc, fd, size, wchan, put, seen, split, halt>>
    BY <1>4 DEF ConsoleInv, vars, process
  <2>2. TypeOK'
    BY <2>1 DEF TypeOK, line, put
  <2>3. ~split' => Whole'
    BY <2>1, WholeKept
  <2> QED
    BY <2>1, <2>2, <2>3, LineKept DEF ConsoleInv
<1> QED
  BY <1>1, <1>2, <1>3, <1>4 DEF Next

(***************************************************************************)
(* Theorems.                                                               *)
(***************************************************************************)

\* Whatever is typed, read, written and printed, and in whatever order, the line
\* and the cursor agree with where the processes are.
THEOREM ConsoleSafe == Spec => []ConsoleInv
<1>1. ConsoleInv /\ [Next]_vars => ConsoleInv'
  BY ConsoleNext
<1> QED
  BY ConsoleInit, <1>1, PTL DEF Spec

\* Every variable has its type: consoleintr() and consoleread() stay within
\* input.buf even after a backspace has taken the index below zero.
THEOREM ConsoleTypeOK == Spec => []TypeOK
<1>1. ConsoleInv => TypeOK
  BY DEF ConsoleInv
<1> QED
  BY ConsoleSafe, <1>1, PTL

\* While the index has not wrapped, what is in the line has been read by nobody
\* and is in the order of typing; at a wrapped index consoleread() delivers old
\* characters again.
THEOREM LineIsFresh == Spec => []LineFresh
<1>1. ConsoleInv => LineFresh
  BY DEF ConsoleInv
<1> QED
  BY ConsoleSafe, <1>1, PTL

\* putchar() never panics and leaves the cursor above the last row, as long as
\* none comes in the middle of another.
THEOREM CursorIsSound == Spec => []CursorSound
<1>1. ConsoleInv => CursorSound
  BY DEF ConsoleInv, Whole, CursorSound, Above, Bottom
<1> QED
  BY ConsoleSafe, <1>1, PTL
=============================================================================
