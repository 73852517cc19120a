---------------------------- MODULE SchedProofs ----------------------------
(***************************************************************************)
(* Proofs about Sched, for every NPROC, Chan, Disk and MaxStack.           *)
(***************************************************************************)
EXTENDS Sched, TLAPS, SequenceTheorems

(***************************************************************************)
(* Stacks: what pushing and popping do to the frames.                      *)
(***************************************************************************)

\* Pushing one frame: Call and Become.
LEMMA Push1 ==
  ASSUME NEW S, NEW s \in Seq(S), NEW f \in S
  PROVE  /\ <<f>> \o s \in Seq(S)
         /\ <<f>> \o s # <<>>
         /\ Head(<<f>> \o s) = f
         /\ Tail(<<f>> \o s) = s
         /\ Frames(<<f>> \o s) = {f} \cup Frames(s)
<1>1. <<f>> \in Seq(S) /\ Len(<<f>>) = 1
  OBVIOUS
<1>2. /\ <<f>> \o s \in Seq(S)
      /\ Len(<<f>> \o s) = Len(s) + 1
      /\ \A k \in 1 .. Len(s) : (<<f>> \o s)[k + 1] = s[k]
      /\ (<<f>> \o s)[1] = f
  BY <1>1
<1>3. <<f>> \o s # <<>> /\ Head(<<f>> \o s) = f
  BY <1>2
<1>4. Tail(<<f>> \o s) \in Seq(S) /\ Len(Tail(<<f>> \o s)) = Len(s)
  BY <1>2, <1>3
<1>5. \A k \in 1 .. Len(s) : Tail(<<f>> \o s)[k] = s[k]
  BY <1>2, <1>3
<1>6. Tail(<<f>> \o s) = s
  BY <1>4, <1>5, SeqEqual
<1>7. Frames(<<f>> \o s) = {f} \cup Frames(s)
  <2>1. Len(s) \in Nat
    OBVIOUS
  <2>2. \A k \in 1 .. Len(s) + 1 : k = 1 \/ k - 1 \in 1 .. Len(s)
    BY <2>1
  <2>3. \A k \in 1 .. Len(s) : k + 1 \in 1 .. Len(s) + 1 /\ 1 \in 1 .. Len(s) + 1
    BY <2>1
  <2>4. ASSUME NEW g \in Frames(<<f>> \o s) PROVE g \in {f} \cup Frames(s)
    <3>1. PICK k \in 1 .. Len(s) + 1 : g = (<<f>> \o s)[k]
      BY <1>2, <2>4 DEF Frames
    <3>2. k = 1 \/ (k - 1 \in 1 .. Len(s) /\ g = s[k - 1])
      BY <3>1, <2>1, <2>2, <1>2
    <3> QED
      BY <3>1, <3>2, <1>2 DEF Frames
  <2>5. f \in Frames(<<f>> \o s)
    BY <1>2, <2>1 DEF Frames
  <2>6. ASSUME NEW g \in Frames(s) PROVE g \in Frames(<<f>> \o s)
    <3>1. PICK k \in 1 .. Len(s) : g = s[k]
      BY <2>6 DEF Frames
    <3> QED
      BY <3>1, <2>3, <1>2 DEF Frames
  <2> QED
    BY <2>4, <2>5, <2>6
<1> QED
  BY <1>2, <1>3, <1>6, <1>7

\* Popping a frame.
LEMMA Pop ==
  ASSUME NEW S, NEW s \in Seq(S), s # <<>>
  PROVE  /\ Head(s) \in S
         /\ Tail(s) \in Seq(S)
         /\ Frames(s) = {Head(s)} \cup Frames(Tail(s))
<1>1. Head(s) \in S /\ Tail(s) \in Seq(S)
  OBVIOUS
<1>2. s = <<Head(s)>> \o Tail(s)
  <2>1. /\ <<Head(s)>> \o Tail(s) \in Seq(S)
        /\ Len(<<Head(s)>> \o Tail(s)) = Len(s)
        /\ \A k \in 1 .. Len(s) : (<<Head(s)>> \o Tail(s))[k] = s[k]
    BY <1>1
  <2> QED
    BY <2>1, SeqEqual
<1> QED
  BY <1>1, <1>2, Push1

\* An empty stack has no activations.
LEMMA NoFrames == Frames(<<>>) = {}
  BY DEF Frames

(***************************************************************************)
(* What the stack operations of the model do.                              *)
(***************************************************************************)
Stacks == stack \in [Proc -> Seq(Frame)] /\ cpu \in Proc

\* A call pushes its frame and leaves the rest of every stack alone.
LEMMA CallEffect ==
  ASSUME Stacks, NEW f \in Frame, Call(f)
  PROVE  /\ stack' \in [Proc -> Seq(Frame)]
         /\ \A p \in Proc \ {cpu} : stack'[p] = stack[p]
         /\ stack'[cpu] # <<>>
         /\ Head(stack'[cpu]) = f
         /\ Tail(stack'[cpu]) = stack[cpu]
         /\ Frames(stack'[cpu]) = {f} \cup Frames(stack[cpu])
<1>1. stack'[cpu] = <<f>> \o stack[cpu]
  BY DEF Stacks, Call
<1>2. stack'[cpu] \in Seq(Frame)
  BY <1>1, Push1 DEF Stacks
<1>3. stack' \in [Proc -> Seq(Frame)] /\ \A p \in Proc \ {cpu} : stack'[p] = stack[p]
  BY <1>2, <1>1 DEF Stacks, Call
<1> QED
  BY <1>1, <1>3, Push1 DEF Stacks

\* A call that leaves two activations more on the stack of the CPU.
LEMMA Call2Effect ==
  ASSUME Stacks, NEW f \in Frame, NEW g \in Frame, Call2(f, g)
  PROVE  /\ stack' \in [Proc -> Seq(Frame)]
         /\ \A p \in Proc \ {cpu} : stack'[p] = stack[p]
         /\ stack'[cpu] # <<>>
         /\ Head(stack'[cpu]) = f
         /\ Frames(Tail(stack'[cpu])) = {g} \cup Frames(stack[cpu])
         /\ Tail(stack'[cpu]) # <<>> /\ Tail(stack'[cpu]) \in Seq(Frame)
         /\ Head(Tail(stack'[cpu])) = g /\ Tail(Tail(stack'[cpu])) = stack[cpu]
         /\ Frames(stack'[cpu]) = {f, g} \cup Frames(stack[cpu])
<1> DEFINE t == <<g>> \o stack[cpu]
<1>1. /\ t \in Seq(Frame) /\ Frames(t) = {g} \cup Frames(stack[cpu])
      /\ t # <<>> /\ Head(t) = g /\ Tail(t) = stack[cpu]
  BY Push1 DEF Stacks
<1>2. stack'[cpu] = <<f>> \o t
  BY DEF Stacks, Call2
<1>3. stack'[cpu] \in Seq(Frame)
  BY <1>1, <1>2, Push1
<1>4. stack' \in [Proc -> Seq(Frame)] /\ \A p \in Proc \ {cpu} : stack'[p] = stack[p]
  BY <1>2, <1>3 DEF Stacks, Call2
<1> HIDE DEF t
<1>5. /\ stack'[cpu] # <<>> /\ Head(stack'[cpu]) = f /\ Tail(stack'[cpu]) = t
      /\ Frames(stack'[cpu]) = {f} \cup Frames(t)
  BY <1>1, <1>2, Push1
<1> QED
  BY <1>1, <1>4, <1>5

\* Become replaces the innermost frame.
LEMMA BecomeEffect ==
  ASSUME Stacks, stack[cpu] # <<>>, NEW f \in Frame, Become(f)
  PROVE  /\ stack' \in [Proc -> Seq(Frame)]
         /\ \A p \in Proc \ {cpu} : stack'[p] = stack[p]
         /\ stack'[cpu] # <<>>
         /\ Head(stack'[cpu]) = f
         /\ Tail(stack'[cpu]) = Tail(stack[cpu])
         /\ Frames(stack'[cpu]) = {f} \cup Frames(Tail(stack[cpu]))
<1>1. stack'[cpu] = <<f>> \o Tail(stack[cpu])
  BY DEF Stacks, Become
<1>2. Tail(stack[cpu]) \in Seq(Frame)
  BY Pop DEF Stacks
<1>3. stack'[cpu] \in Seq(Frame)
  BY <1>1, <1>2, Push1
<1>4. stack' \in [Proc -> Seq(Frame)] /\ \A p \in Proc \ {cpu} : stack'[p] = stack[p]
  BY <1>3, <1>1 DEF Stacks, Become
<1> QED
  BY <1>1, <1>2, <1>4, Push1

\* Return pops it.
LEMMA ReturnEffect ==
  ASSUME Stacks, stack[cpu] # <<>>, Return
  PROVE  /\ stack' \in [Proc -> Seq(Frame)]
         /\ \A p \in Proc \ {cpu} : stack'[p] = stack[p]
         /\ stack'[cpu] = Tail(stack[cpu])
         /\ Frames(stack'[cpu]) \subseteq Frames(stack[cpu])
<1>1. stack'[cpu] = Tail(stack[cpu])
  BY DEF Stacks, Return
<1>2. stack'[cpu] \in Seq(Frame) /\ Frames(stack'[cpu]) \subseteq Frames(stack[cpu])
  BY <1>1, Pop DEF Stacks
<1>3. stack' \in [Proc -> Seq(Frame)] /\ \A p \in Proc \ {cpu} : stack'[p] = stack[p]
  BY <1>2, <1>1 DEF Stacks, Return
<1> QED
  BY <1>1, <1>2, <1>3

\* The frames the model pushes are frames.
LEMMA PlainFrame ==
  ASSUME NEW pc \in PC
  PROVE  F(pc, Nil) \in Frame /\ F(pc, Nil).pc = pc
  BY DEF F, Frame

\* An activation of sleep().
LEMMA SleepFrame ==
  ASSUME NEW c \in Proc \cup Chan
  PROVE  F("sleep", c) \in Frame /\ F("sleep", c).pc = "sleep"
  BY DEF F, Frame

\* An activation of fork(), with the slot it fills.
LEMMA ForkFrame ==
  ASSUME NEW np \in Proc
  PROVE  F("fork", np) \in Frame /\ F("fork", np).pc = "fork" /\ F("fork", np).arg = np
  BY DEF F, Frame

\* An activation of sched() inside its scan, with its index and its choice.
LEMMA ScanFrame ==
  ASSUME NEW pc \in {"scan", "idle"}, NEW i \in 0 .. NPROC, NEW n \in Proc \cup {Nil}
  PROVE  /\ ScanF(pc, i, n) \in Frame
         /\ ScanF(pc, i, n).pc = pc /\ ScanF(pc, i, n).i = i /\ ScanF(pc, i, n).new = n
  BY DEF ScanF, Frame

\* An activation of sched() at its end, with the process it leaves and the one it goes to.
LEMMA SwitchFrame ==
  ASSUME NEW pc \in {"switch", "swtch"}, NEW k \in Proc \cup {Nil},
         NEW o \in Proc, NEW n \in Proc
  PROVE  /\ SwitchF(pc, k, o, n) \in Frame
         /\ SwitchF(pc, k, o, n).pc = pc /\ SwitchF(pc, k, o, n).arg = k
         /\ SwitchF(pc, k, o, n).old = o /\ SwitchF(pc, k, o, n).new = n
  BY DEF SwitchF, Frame

\* What the type of a frame says of its fields.
LEMMA FrameFields ==
  ASSUME NEW f \in Frame
  PROVE  /\ f.arg \in Proc \cup Chan \cup {Nil}
         /\ f.i \in 0 .. NPROC
         /\ f.new \in Proc \cup {Nil}
         /\ f.pc = "fork" => f.arg \in Proc
         /\ f.pc = "sleep" => f.arg \in Proc \cup Chan
         /\ f.pc \in {"switch", "swtch"} =>
              f.arg \in Proc \cup {Nil} /\ f.old \in Proc /\ f.new \in Proc
<1>1. NPROC \in Nat /\ 0 \in 0 .. NPROC
  BY SchedConstants
<1>2. CASE f \in [pc : PC, arg : {Nil}, i : {0}, old : {Nil}, new : {Nil}]
  BY <1>1, <1>2 DEF PC
<1>6. CASE f \in [pc : {"sleep"}, arg : Proc \cup Chan, i : {0}, old : {Nil},
                  new : {Nil}]
  BY <1>1, <1>6
<1>3. CASE f \in [pc : {"fork"}, arg : Proc, i : {0}, old : {Nil}, new : {Nil}]
  BY <1>1, <1>3
<1>4. CASE f \in [pc : {"scan", "idle"}, arg : {Nil}, i : 0 .. NPROC, old : {Nil},
                  new : Proc \cup {Nil}]
  BY <1>4
<1>5. CASE f \in [pc : {"switch", "swtch"}, arg : Proc \cup {Nil}, i : {0},
                  old : Proc, new : Proc]
  BY <1>1, <1>5
<1> QED
  BY <1>2, <1>3, <1>4, <1>5, <1>6 DEF Frame

\* popcli() at nesting depth 1.
LEMMA PopcliEffect ==
  ASSUME ncli = 1, FL_IF \in BOOLEAN, popcli
  PROVE  ncli' = 0 /\ intena' = FALSE /\ FL_IF' \in BOOLEAN
<1>1. ncli' = 0 /\ intena' = FALSE
  BY DEF popcli
<1>2. FL_IF' \in {TRUE, FL_IF}
  BY DEF popcli
<1> QED
  BY <1>1, <1>2

(***************************************************************************)
(* Types and the interrupt-disable discipline.                             *)
(***************************************************************************)
CliInv == TypeOK /\ CliDiscipline

\* uinit() leaves no pushcli() section open.
LEMMA CliInit == Init => CliInv
<1> SUFFICES ASSUME Init PROVE CliInv
  OBVIOUS
<1> USE SchedConstants
<1>1. <<>> \in Seq(Frame) /\ stack[cpu] = <<>> /\ \A p \in Proc : stack[p] = <<>>
  BY DEF Init, Proc
<1>2. 0 \in Proc /\ 1 \in Proc /\ Nil \notin Proc
  BY DEF Proc, Nil
<1>3. stat \in [Proc -> Stat] /\ stack \in [Proc -> Seq(Frame)]
  BY <1>1 DEF Init, Stat
<1>4. TypeOK
  BY <1>2, <1>3 DEF Init, TypeOK, Proc
<1>5. CliDiscipline
  BY <1>1, NoFrames DEF Init, CliDiscipline, CliFree
<1> QED
  BY <1>4, <1>5 DEF CliInv

\* Outside sched()'s section no frame of any stack is inside one.
LEMMA AllFree ==
  ASSUME CliInv, ncli = 0
  PROVE  /\ \A p \in Proc : CliFree(stack[p])
         /\ ~intena
         /\ Stacks
<1>1. Stacks
  BY DEF CliInv, TypeOK, Stacks
<1>2. CASE stack[cpu] = <<>>
  BY <1>1, <1>2, NoFrames DEF CliInv, CliDiscipline, CliFree, Stacks
<1>3. CASE stack[cpu] # <<>>
  <2>1. Frames(stack[cpu]) = {Top} \cup Frames(Tail(stack[cpu]))
    BY <1>1, <1>3, Pop DEF Stacks, Top
  <2>2. ~InCli(Top) /\ CliFree(Tail(stack[cpu]))
    BY <1>3 DEF CliInv, CliDiscipline
  <2>3. CliFree(stack[cpu])
    BY <2>1, <2>2 DEF CliFree
  <2> QED
    BY <1>1, <2>3 DEF CliInv, CliDiscipline
<1> QED
  BY <1>2, <1>3

\* A step that ends outside sched()'s section on every stack.
LEMMA CliOut ==
  ASSUME cpu' \in Proc, stack' \in [Proc -> Seq(Frame)], ncli' = 0, ~intena',
         \A p \in Proc : CliFree(stack'[p])
  PROVE  CliDiscipline'
<1>1. CASE stack'[cpu'] = <<>>
  BY <1>1 DEF CliDiscipline, CliFree
<1>2. CASE stack'[cpu'] # <<>>
  <2>1. Frames(stack'[cpu']) = {Head(stack'[cpu'])} \cup Frames(Tail(stack'[cpu']))
    BY <1>2, Pop
  <2> QED
    BY <2>1 DEF CliDiscipline, CliFree, Top
<1> QED
  BY <1>1, <1>2

\* When the CPU is at code outside the section, the section is not entered.
LEMMA AtOutside ==
  ASSUME CliInv, NEW pc, pc \notin {"scan", "idle"}, At(pc)
  PROVE  ncli = 0 /\ stack[cpu] # <<>> /\ Top \in Frame
<1>1. stack[cpu] # <<>> /\ Top.pc = pc
  BY DEF At
<1>2. ncli = 0
  BY <1>1 DEF CliInv, CliDiscipline, InCli
<1>3. Top \in Frame
  BY <1>1, Pop DEF CliInv, TypeOK, Top
<1> QED
  BY <1>1, <1>2, <1>3

\* The scan of sched() is inside its pushcli() section, and nothing else is.
LEMMA AtInside ==
  ASSUME CliInv, At("scan") \/ At("idle")
  PROVE  /\ ncli = 1 /\ ~FL_IF /\ stack[cpu] # <<>> /\ Top \in Frame /\ Stacks
         /\ \A p \in Proc \ {cpu} : CliFree(stack[p])
         /\ CliFree(Tail(stack[cpu]))
<1>1. stack[cpu] # <<>> /\ InCli(Top)
  BY DEF At, InCli
<1>2. Top \in Frame /\ Stacks
  BY <1>1, Pop DEF CliInv, TypeOK, Top, Stacks
<1> QED
  BY <1>1, <1>2 DEF CliInv, CliDiscipline

\* User code runs on an empty kernel stack, outside every pushcli() section.
LEMMA UserOutside ==
  ASSUME CliInv, UserMode
  PROVE  ncli = 0 /\ stack[cpu] = <<>>
  BY DEF CliInv, CliDiscipline, UserMode

\* Every step keeps the types and the discipline.
LEMMA CliNext == CliInv /\ [Next]_vars => CliInv'
<1> SUFFICES ASSUME CliInv, [Next]_vars PROVE CliInv'
  OBVIOUS
<1> USE SchedConstants
<1>t. TypeOK /\ Stacks
  BY DEF CliInv, TypeOK, Stacks
<1>i. ncli = 0 => (~intena /\ \A p \in Proc : CliFree(stack[p]))
  BY AllFree
<1>1. CASE SysWait
  <2>1. ncli = 0
    BY <1>1, UserOutside DEF SysWait
  <2>2. F("sleep", procp) \in Frame /\ F("wait", Nil) \in Frame
    BY <1>t, PlainFrame, SleepFrame DEF PC, TypeOK
  <2>3. /\ stack' \in [Proc -> Seq(Frame)]
        /\ \A p \in Proc \ {cpu} : stack'[p] = stack[p]
        /\ Frames(stack'[cpu]) =
             {F("sleep", procp), F("wait", Nil)} \cup Frames(stack[cpu])
    BY <1>1, <1>t, <2>2, Call2Effect DEF SysWait
  <2>4. \A p \in Proc : CliFree(stack'[p])
    BY <1>i, <2>1, <2>3 DEF CliFree, InCli, F
  <2>5. TypeOK'
    BY <1>1, <1>t, <2>3 DEF SysWait, TypeOK, procvars, swvars, clivars
  <2> QED
    BY <1>1, <1>i, <2>1, <2>3, <2>4, <2>5, CliOut DEF CliInv, SysWait, TypeOK, clivars
<1>2. ASSUME NEW c \in Chan, SysIo(c) PROVE CliInv'
  <2>1. ncli = 0
    BY <1>2, UserOutside DEF SysIo
  <2>2. F("sleep", c) \in Frame /\ F("io", Nil) \in Frame
    BY <1>t, PlainFrame, SleepFrame DEF PC, TypeOK
  <2>3. /\ stack' \in [Proc -> Seq(Frame)]
        /\ \A p \in Proc \ {cpu} : stack'[p] = stack[p]
        /\ Frames(stack'[cpu]) =
             {F("sleep", c), F("io", Nil)} \cup Frames(stack[cpu])
    BY <1>2, <1>t, <2>2, Call2Effect DEF SysIo
  <2>4. \A p \in Proc : CliFree(stack'[p])
    BY <1>i, <2>1, <2>3 DEF CliFree, InCli, F
  <2>5. TypeOK'
    BY <1>2, <1>t, <2>3 DEF SysIo, TypeOK, procvars, swvars, clivars
  <2> QED
    BY <1>2, <1>i, <2>1, <2>3, <2>4, <2>5, CliOut DEF CliInv, SysIo, TypeOK, clivars
<1>3. CASE Sleep
  <2>1. ncli = 0 /\ stack[cpu] # <<>> /\ Top \in Frame
    BY <1>3, AtOutside DEF Sleep
  <2>2. F("sleeping", Nil) \in Frame
    BY PlainFrame DEF PC
  <2>3. /\ stack' \in [Proc -> Seq(Frame)]
        /\ \A p \in Proc \ {cpu} : stack'[p] = stack[p]
        /\ Frames(stack'[cpu]) = {F("sleeping", Nil)} \cup Frames(Tail(stack[cpu]))
    BY <1>3, <1>t, <2>1, <2>2, BecomeEffect DEF Sleep
  <2>4. \A p \in Proc : CliFree(stack'[p])
    BY <1>i, <1>t, <2>1, <2>3, Pop DEF CliFree, InCli, F, Stacks
  <2>5. TypeOK'
    <3>1. Top.arg \in Proc \cup Chan \cup {Nil}
      BY <2>1, FrameFields
    <3> QED
      BY <1>3, <1>t, <3>1, <2>3 DEF Sleep, TypeOK, swvars, clivars, Stat
  <2> QED
    BY <1>3, <1>i, <2>1, <2>3, <2>4, <2>5, CliOut DEF CliInv, Sleep, TypeOK, clivars
<1>4. CASE SleepLoop
  <2>1. ncli = 0 /\ stack[cpu] # <<>>
    BY <1>4, AtOutside DEF SleepLoop
  <2>2. F("sched", Nil) \in Frame
    BY PlainFrame DEF PC
  <2>3. /\ stack' \in [Proc -> Seq(Frame)]
        /\ \A p \in Proc \ {cpu} : stack'[p] = stack[p]
        /\ Frames(stack'[cpu]) \subseteq {F("sched", Nil)} \cup Frames(stack[cpu])
    <3>1. CASE Call(F("sched", Nil))
      BY <3>1, <1>t, <2>2, CallEffect
    <3>2. CASE Return
      BY <3>2, <1>t, <2>1, ReturnEffect
    <3> QED
      BY <1>4, <3>1, <3>2 DEF SleepLoop
  <2>4. \A p \in Proc : CliFree(stack'[p])
    BY <1>i, <2>1, <2>3 DEF CliFree, InCli, F
  <2>5. TypeOK'
    BY <1>4, <1>t, <2>3 DEF SleepLoop, TypeOK, procvars, swvars, clivars
  <2> QED
    BY <1>4, <1>i, <2>1, <2>3, <2>4, <2>5, CliOut DEF CliInv, SleepLoop, TypeOK, clivars
<1>5. ASSUME NEW c \in Chan, IoAgain(c) PROVE CliInv'
  <2>1. ncli = 0
    BY <1>5, AtOutside DEF IoAgain
  <2>2. F("sleep", c) \in Frame
    BY SleepFrame
  <2>3. /\ stack' \in [Proc -> Seq(Frame)]
        /\ \A p \in Proc \ {cpu} : stack'[p] = stack[p]
        /\ Frames(stack'[cpu]) = {F("sleep", c)} \cup Frames(stack[cpu])
    BY <1>5, <1>t, <2>2, CallEffect DEF IoAgain
  <2>4. \A p \in Proc : CliFree(stack'[p])
    BY <1>i, <2>1, <2>3 DEF CliFree, InCli, F
  <2>5. TypeOK'
    BY <1>5, <1>t, <2>3 DEF IoAgain, TypeOK, procvars, swvars, clivars
  <2> QED
    BY <1>5, <1>i, <2>1, <2>3, <2>4, <2>5, CliOut DEF CliInv, IoAgain, TypeOK, clivars
<1>6. ASSUME NEW c \in Chan, IoRelease(c) \/ DevIntr(c) PROVE CliInv'
  <2>1. wakeup(c) /\ UNCHANGED <<pproc, swvars, clivars, procp, rover, stack, halt, torn>>
    BY <1>6 DEF IoRelease, DevIntr
  <2>2. TypeOK'
    BY <1>t, <2>1 DEF TypeOK, wakeup, swvars, clivars, Stat
  <2>3. CliDiscipline'
    BY <2>1 DEF CliInv, CliDiscipline, Top, swvars, clivars
  <2> QED
    BY <2>2, <2>3 DEF CliInv
<1>7. CASE EarlyIdeIntr
  <2>1. TypeOK'
    BY <1>7, <1>t DEF EarlyIdeIntr, TypeOK, wakeup, swvars, clivars, Stat
  <2>2. CliDiscipline'
    BY <1>7 DEF EarlyIdeIntr, CliInv, CliDiscipline, Top, swvars, clivars
  <2> QED
    BY <2>1, <2>2 DEF CliInv
<1>8. ASSUME IoReturn \/ TrapReturn PROVE CliInv'
  <2>1. ncli = 0 /\ stack[cpu] # <<>>
    BY <1>8, AtOutside DEF IoReturn, TrapReturn
  <2>2. /\ Iret
        /\ UNCHANGED <<procvars, swvars, procp, rover, halt, torn>>
    BY <1>8 DEF IoReturn, TrapReturn
  <2>3. /\ stack' \in [Proc -> Seq(Frame)]
        /\ \A p \in Proc \ {cpu} : stack'[p] = stack[p]
        /\ Frames(stack'[cpu]) \subseteq Frames(stack[cpu])
    BY <2>1, <2>2, <1>t, ReturnEffect DEF Iret
  <2>4. \A p \in Proc : CliFree(stack'[p])
    BY <1>i, <2>1, <2>3 DEF CliFree
  <2>5. TypeOK'
    BY <1>t, <2>2, <2>3 DEF Iret, TypeOK, procvars, swvars
  <2> QED
    BY <1>i, <2>1, <2>2, <2>3, <2>4, <2>5, CliOut DEF CliInv, Iret, TypeOK
<1>9. ASSUME NEW Z \in SUBSET Proc, pfree(Z), FL_IF' = TRUE,
             ncli = 0, stack[cpu] # <<>>,
             UNCHANGED <<wchan, pproc, ctx, cpu, ncli, intena, procp, rover, halt, torn>>
      PROVE  CliInv'
  <2>1. Tail(stack[cpu]) \in Seq(Frame)
        /\ Frames(Tail(stack[cpu])) \subseteq Frames(stack[cpu])
    BY <1>9, <1>t, Pop DEF Stacks
  <2>2. stack' \in [Proc -> Seq(Frame)]
    BY <1>9, <1>t, <2>1 DEF pfree, Stacks
  <2>3. \A p \in Proc : stack'[p] \in {<<>>, stack[p]} \/ (p = cpu /\ stack'[p] = Tail(stack[p]))
    BY <1>9, <1>t DEF pfree, Stacks
  <2>4. \A p \in Proc : CliFree(stack'[p])
    BY <1>i, <1>9, <2>1, <2>3, NoFrames DEF CliFree
  <2>5. TypeOK'
    BY <1>9, <1>t, <2>2 DEF pfree, TypeOK, Stat
  <2> QED
    BY <1>i, <1>9, <2>2, <2>4, <2>5, CliOut DEF CliInv, TypeOK
<1>10. CASE collect_zombies
  <2>1. ncli = 0 /\ stack[cpu] # <<>>
    BY <1>10, AtOutside DEF collect_zombies
  <2> QED
    BY <1>10, <2>1, <1>9 DEF collect_zombies
<1>11. CASE ForkFail
  <2>1. ncli = 0 /\ stack[cpu] # <<>> /\ Top \in Frame
    BY <1>11, AtOutside DEF ForkFail
  <2>2. Top.arg \in Proc
    BY <1>11, <2>1, FrameFields DEF ForkFail, At
  <2> QED
    BY <1>11, <2>1, <2>2, <1>9 DEF ForkFail
<1>12. CASE SysExit
  <2>1. ncli = 0
    BY <1>12, UserOutside DEF SysExit
  <2>2. F("sched", Nil) \in Frame /\ F("exit", Nil) \in Frame
    BY PlainFrame DEF PC
  <2>3. /\ stack' \in [Proc -> Seq(Frame)]
        /\ \A p \in Proc \ {cpu} : stack'[p] = stack[p]
        /\ Frames(stack'[cpu]) =
             {F("sched", Nil), F("exit", Nil)} \cup Frames(stack[cpu])
    BY <1>12, <1>t, <2>2, Call2Effect DEF SysExit
  <2>4. \A p \in Proc : CliFree(stack'[p])
    BY <1>i, <2>1, <2>3 DEF CliFree, InCli, F
  <2>5. stat' \in [Proc -> Stat] /\ wchan' \in [Proc -> Proc \cup Chan \cup {Nil}]
    BY <1>12, <1>t DEF SysExit, TypeOK, Stat
  <2>6. TypeOK'
    BY <1>12, <1>t, <2>3, <2>5 DEF SysExit, TypeOK, swvars, clivars
  <2> QED
    BY <1>12, <1>i, <2>1, <2>3, <2>4, <2>6, CliOut DEF CliInv, SysExit, TypeOK, clivars
<1>13. ASSUME Panic PROVE CliInv'
  <2>1. /\ halt' \in {"zombie exit", "no proc."}
        /\ UNCHANGED <<procvars, swvars, clivars, procp, rover, stack, torn>>
    BY <1>13 DEF Panic
  <2>2. TypeOK'
    BY <1>t, <2>1 DEF TypeOK, procvars, swvars, clivars
  <2>3. CliDiscipline'
    BY <2>1 DEF CliInv, CliDiscipline, Top, swvars, clivars
  <2> QED
    BY <2>2, <2>3 DEF CliInv
<1>14. CASE palloc
  <2>1. ncli = 0
    BY <1>14, UserOutside DEF palloc
  <2>2. PICK np \in Proc :
          /\ stat'   = [stat EXCEPT ![np] = "SET"]
          /\ wchan'  = [wchan EXCEPT ![np] = Nil]
          /\ pproc'  = [pproc EXCEPT ![np] = Nil]
          /\ ctx'    = [ctx EXCEPT ![np] = np]
          /\ parked' = [parked EXCEPT ![np] = np]
          /\ stack'  = [stack EXCEPT ![np]  = <<F("trapret", Nil)>>,
                                     ![cpu] = <<F("fork", np)>>]
    BY <1>14 DEF palloc
  <2>3. F("trapret", Nil) \in Frame /\ F("fork", np) \in Frame
    BY PlainFrame, ForkFrame DEF PC
  <2>4. /\ <<F("trapret", Nil)>> \in Seq(Frame) /\ <<F("fork", np)>> \in Seq(Frame)
        /\ Frames(<<F("trapret", Nil)>>) = {F("trapret", Nil)}
        /\ Frames(<<F("fork", np)>>) = {F("fork", np)}
    <3>1. ASSUME NEW f \in Frame PROVE <<f>> \in Seq(Frame) /\ Frames(<<f>>) = {f}
      BY <3>1 DEF Frames
    <3> QED
      BY <2>3, <3>1
  <2> HIDE DEF F
  <2>5. /\ stack' \in [Proc -> Seq(Frame)]
        /\ \A p \in Proc : stack'[p] \in
             {stack[p], <<F("trapret", Nil)>>, <<F("fork", np)>>}
    BY <1>t, <2>2, <2>4 DEF Stacks
  <2>6. \A p \in Proc : CliFree(stack'[p])
    <3>1. ~InCli(F("trapret", Nil)) /\ ~InCli(F("fork", np))
      BY DEF F, InCli
    <3> QED
      BY <1>i, <2>1, <2>4, <2>5, <3>1 DEF CliFree
  <2>7. TypeOK'
    BY <1>14, <1>t, <2>2, <2>5 DEF palloc, TypeOK, clivars, Stat
  <2> QED
    BY <1>14, <1>i, <2>1, <2>5, <2>6, <2>7, CliOut DEF CliInv, palloc, TypeOK, clivars
<1>15. CASE ForkDone
  <2>1. ncli = 0 /\ stack[cpu] # <<>> /\ Top \in Frame
    BY <1>15, AtOutside DEF ForkDone
  <2>2. /\ stack' \in [Proc -> Seq(Frame)]
        /\ \A p \in Proc \ {cpu} : stack'[p] = stack[p]
        /\ Frames(stack'[cpu]) \subseteq Frames(stack[cpu])
    BY <1>15, <2>1, <1>t, ReturnEffect DEF ForkDone, Iret
  <2>3. \A p \in Proc : CliFree(stack'[p])
    BY <1>i, <2>1, <2>2 DEF CliFree
  <2>4. TypeOK'
    BY <1>15, <1>t, <2>2 DEF ForkDone, Iret, TypeOK, swvars, Stat
  <2> QED
    BY <1>15, <1>i, <2>1, <2>2, <2>3, <2>4, CliOut
       DEF CliInv, ForkDone, Iret, TypeOK, swvars
<1>16. CASE SchedEnter
  <2>1. ncli = 0 /\ stack[cpu] # <<>>
    BY <1>16, AtOutside DEF SchedEnter
  <2>2. ScanF("scan", 0, Nil) \in Frame
    BY ScanFrame
  <2>3. /\ stack' \in [Proc -> Seq(Frame)]
        /\ \A p \in Proc \ {cpu} : stack'[p] = stack[p]
        /\ stack'[cpu] # <<>> /\ Head(stack'[cpu]) = ScanF("scan", 0, Nil)
        /\ Tail(stack'[cpu]) = Tail(stack[cpu])
    BY <1>16, <1>t, <2>1, <2>2, BecomeEffect DEF SchedEnter
  <2>4. CliFree(Tail(stack[cpu]))
    BY <2>1 DEF CliInv, CliDiscipline
  <2>5. /\ ncli' = 1 /\ FL_IF' = FALSE /\ intena' = FL_IF /\ cpu' = cpu
    BY <1>16, <2>1 DEF SchedEnter, pushcli, swvars
  <2>6. CliDiscipline'
    <3>1. InCli(ScanF("scan", 0, Nil))
      BY DEF InCli, ScanF
    <3>2. \A p \in Proc \ {cpu} : CliFree(stack'[p])
      BY <1>i, <2>1, <2>3
    <3> QED
      BY <2>3, <2>4, <2>5, <3>1, <3>2 DEF CliDiscipline, Top
  <2>7. TypeOK'
    BY <1>16, <1>t, <2>3, <2>5 DEF SchedEnter, TypeOK, procvars, swvars
  <2> QED
    BY <2>6, <2>7 DEF CliInv
<1>17. ASSUME NEW pc \in {"scan", "idle"}, NEW st, Scan(pc, st) PROVE CliInv'
  <2>1. /\ ncli = 1 /\ ~FL_IF /\ stack[cpu] # <<>> /\ Top \in Frame /\ Stacks
        /\ \A p \in Proc \ {cpu} : CliFree(stack[p])
        /\ CliFree(Tail(stack[cpu]))
    BY <1>17, AtInside DEF Scan
  <2> DEFINE j == (rover + Top.i) % NPROC
             n == IF stat[j] = st THEN j ELSE Top.new
             f == ScanF(pc, Top.i + 1, n)
  <2>2. Top.i \in 0 .. NPROC - 1 /\ Top.new \in Proc \cup {Nil}
    BY <1>17, <2>1, FrameFields DEF Scan
  <2>3. j \in Proc
    <3>0. NPROC \in Nat /\ NPROC > 0
      OBVIOUS
    <3>1. rover \in 0 .. NPROC - 1
      BY <1>t DEF TypeOK
    <3>2. rover + Top.i \in Nat
      BY <3>0, <3>1, <2>2
    <3> QED
      BY <3>0, <3>2 DEF Proc
  <2>5. Become(f) /\ rover' \in {rover, Top.i}
    BY <1>17 DEF Scan
  <2>6. UNCHANGED <<procvars, swvars, clivars, procp, halt, torn>>
    BY <1>17 DEF Scan
  <2> HIDE DEF j
  <2>4. f \in Frame /\ InCli(f)
    <3>1. Top.i + 1 \in 0 .. NPROC /\ n \in Proc \cup {Nil}
      BY <2>2, <2>3
    <3> QED
      BY <3>1, ScanFrame DEF InCli
  <2> HIDE DEF f
  <2>7. /\ stack' \in [Proc -> Seq(Frame)]
        /\ \A p \in Proc \ {cpu} : stack'[p] = stack[p]
        /\ stack'[cpu] # <<>> /\ Head(stack'[cpu]) = f
        /\ Tail(stack'[cpu]) = Tail(stack[cpu])
    BY <2>1, <2>4, <2>5, BecomeEffect
  <2>8. CliDiscipline'
    BY <2>1, <2>4, <2>6, <2>7 DEF CliInv, CliDiscipline, Top, swvars, clivars
  <2>9. TypeOK'
    BY <1>t, <2>2, <2>5, <2>6, <2>7 DEF TypeOK, procvars, swvars, clivars
  <2> QED
    BY <2>8, <2>9 DEF CliInv
<1>18. CASE SchedStay
  <2>1. /\ ncli = 1 /\ ~FL_IF /\ stack[cpu] # <<>> /\ Stacks
        /\ \A p \in Proc \ {cpu} : CliFree(stack[p])
        /\ CliFree(Tail(stack[cpu]))
    BY <1>18, AtInside DEF SchedStay, Scanned
  <2>2. /\ stack' \in [Proc -> Seq(Frame)]
        /\ \A p \in Proc \ {cpu} : stack'[p] = stack[p]
        /\ stack'[cpu] = Tail(stack[cpu])
    BY <1>18, <2>1, ReturnEffect DEF SchedStay
  <2>3. ncli' = 0 /\ intena' = FALSE /\ FL_IF' \in BOOLEAN
    BY <1>18, <1>t, <2>1, PopcliEffect DEF SchedStay, TypeOK
  <2>4. TypeOK'
    BY <1>18, <1>t, <2>2, <2>3 DEF SchedStay, TypeOK, procvars, swvars
  <2>5. \A p \in Proc : CliFree(stack'[p])
    BY <2>1, <2>2
  <2> QED
    BY <2>2, <2>3, <2>4, <2>5, CliOut DEF CliInv, TypeOK
<1>19. CASE SchedZombie
  <2>1. /\ ncli = 1 /\ ~FL_IF /\ stack[cpu] # <<>> /\ Stacks
        /\ \A p \in Proc \ {cpu} : CliFree(stack[p])
        /\ CliFree(Tail(stack[cpu]))
    BY <1>19, AtInside DEF SchedZombie, Scanned
  <2>2. ScanF("idle", 0, Nil) \in Frame /\ InCli(ScanF("idle", 0, Nil))
    BY ScanFrame DEF InCli
  <2>3. /\ stack' \in [Proc -> Seq(Frame)]
        /\ \A p \in Proc \ {cpu} : stack'[p] = stack[p]
        /\ stack'[cpu] # <<>> /\ Head(stack'[cpu]) = ScanF("idle", 0, Nil)
        /\ Tail(stack'[cpu]) = Tail(stack[cpu])
    BY <1>19, <2>1, <2>2, BecomeEffect DEF SchedZombie
  <2>4. UNCHANGED <<procvars, swvars, clivars, procp, rover, halt, torn>>
    BY <1>19 DEF SchedZombie
  <2>5. CliDiscipline'
    BY <2>1, <2>2, <2>3, <2>4 DEF CliInv, CliDiscipline, Top, swvars, clivars
  <2>6. TypeOK'
    BY <1>t, <2>3, <2>4 DEF TypeOK, procvars, swvars, clivars
  <2> QED
    BY <2>5, <2>6 DEF CliInv
<1>20. CASE SchedCommit
  <2>1. /\ ncli = 1 /\ ~FL_IF /\ stack[cpu] # <<>> /\ Stacks /\ Top \in Frame
        /\ \A p \in Proc \ {cpu} : CliFree(stack[p])
        /\ CliFree(Tail(stack[cpu]))
    BY <1>20, AtInside DEF SchedCommit, Scanned
  <2>2. Top.new \in Proc
    BY <1>20, <2>1, FrameFields DEF SchedCommit
  <2> DEFINE f == SwitchF("switch", Nil, procp, Top.new)
  <2>3. f \in Frame /\ ~InCli(f)
    BY <1>t, <2>2, SwitchFrame DEF InCli, TypeOK
  <2>4. Become(f)
    BY <1>20 DEF SchedCommit
  <2> HIDE DEF f
  <2>5. /\ stack' \in [Proc -> Seq(Frame)]
        /\ \A p \in Proc \ {cpu} : stack'[p] = stack[p]
        /\ Frames(stack'[cpu]) = {f} \cup Frames(Tail(stack[cpu]))
    BY <2>1, <2>3, <2>4, BecomeEffect
  <2>6. ncli' = 0 /\ intena' = FALSE /\ FL_IF' \in BOOLEAN
    BY <1>20, <1>t, <2>1, PopcliEffect DEF SchedCommit, TypeOK
  <2>7. TypeOK'
    BY <1>20, <1>t, <2>2, <2>5, <2>6 DEF SchedCommit, TypeOK, procvars, swvars
  <2>8. \A p \in Proc : CliFree(stack'[p])
    BY <2>1, <2>3, <2>5 DEF CliFree
  <2> QED
    BY <2>5, <2>6, <2>7, <2>8, CliOut DEF CliInv, TypeOK
<1>21. CASE SchedLoad
  <2>1. ncli = 0 /\ stack[cpu] # <<>> /\ Top \in Frame
    BY <1>21, AtOutside DEF SchedLoad
  <2> DEFINE k == ctx[Top.new]
             f == SwitchF("swtch", k, Top.old, Top.new)
  <2>2. Become(f)
    BY <1>21 DEF SchedLoad
  <2>3. k \in Proc \cup {Nil} /\ Top.old \in Proc /\ Top.new \in Proc
    BY <1>21, <1>t, <2>1, FrameFields DEF SchedLoad, At, TypeOK
  <2> HIDE DEF k
  <2>4. f \in Frame /\ ~InCli(f)
    BY <2>3, SwitchFrame DEF InCli
  <2> HIDE DEF f
  <2>5. /\ stack' \in [Proc -> Seq(Frame)]
        /\ \A p \in Proc \ {cpu} : stack'[p] = stack[p]
        /\ Frames(stack'[cpu]) = {f} \cup Frames(Tail(stack[cpu]))
    BY <1>t, <2>1, <2>2, <2>4, BecomeEffect
  <2>6. TypeOK'
    BY <1>21, <1>t, <2>5 DEF SchedLoad, TypeOK, procvars, swvars, clivars
  <2>7. \A p \in Proc : CliFree(stack'[p])
    <3>1. CliFree(Tail(stack[cpu]))
      BY <2>1 DEF CliInv, CliDiscipline
    <3> QED
      BY <1>i, <2>1, <2>4, <2>5, <3>1 DEF CliFree
  <2> QED
    BY <1>21, <1>i, <2>1, <2>5, <2>6, <2>7, CliOut DEF CliInv, SchedLoad, TypeOK, clivars
<1>22. CASE swtch
  <2>1. ncli = 0 /\ stack[cpu] # <<>> /\ Top \in Frame
    BY <1>22, AtOutside DEF swtch
  <2>2. /\ stack' \in [Proc -> Seq(Frame)]
        /\ \A p \in Proc \ {cpu} : stack'[p] = stack[p]
        /\ Frames(stack'[cpu]) \subseteq Frames(stack[cpu])
    BY <1>22, <2>1, <1>t, ReturnEffect DEF swtch
  <2>3. \A p \in Proc : CliFree(stack'[p])
    BY <1>i, <2>1, <2>2 DEF CliFree
  <2>4. Top.old \in Proc
    BY <1>22, <2>1, FrameFields DEF swtch, At
  <2>5. cpu' \in Proc /\ parked' \in [Proc -> Proc \cup {Nil}]
        /\ halt' \in {halt, "wild"}
    BY <1>22, <1>t, <2>4 DEF swtch, TypeOK
  <2>6. TypeOK'
    BY <1>22, <1>t, <2>2, <2>5 DEF swtch, TypeOK, procvars, clivars
  <2> QED
    BY <1>22, <1>i, <2>1, <2>2, <2>3, <2>5, <2>6, CliOut DEF CliInv, swtch, clivars
<1>23. CASE Timer
  <2>1. ncli = 0
    BY <1>23 DEF Timer, CliInv, CliDiscipline
  <2>2. F("sched", Nil) \in Frame /\ F("trap", Nil) \in Frame
    BY PlainFrame DEF PC
  <2>3. /\ stack' \in [Proc -> Seq(Frame)]
        /\ \A p \in Proc \ {cpu} : stack'[p] = stack[p]
        /\ Frames(stack'[cpu]) =
             {F("sched", Nil), F("trap", Nil)} \cup Frames(stack[cpu])
    BY <1>23, <1>t, <2>2, Call2Effect DEF Timer
  <2>4. \A p \in Proc : CliFree(stack'[p])
    BY <1>i, <2>1, <2>3 DEF CliFree, InCli, F
  <2>5. torn' \in BOOLEAN
    BY <1>23, <1>t DEF Timer, TypeOK
  <2>6. TypeOK'
    BY <1>23, <1>t, <2>3, <2>5 DEF Timer, TypeOK, procvars, swvars
  <2> QED
    BY <1>23, <1>i, <2>1, <2>3, <2>4, <2>6, CliOut DEF CliInv, Timer, TypeOK
<1>24. CASE UNCHANGED vars
  <2>1. TypeOK'
    BY <1>24, <1>t DEF vars, TypeOK, procvars, swvars, clivars
  <2>2. CliDiscipline'
    BY <1>24 DEF vars, CliInv, CliDiscipline, Top, swvars, clivars
  <2> QED
    BY <2>1, <2>2 DEF CliInv
<1>26. CASE PallocFail
  <2>1. PICK np \in Proc : /\ wchan' = [wchan EXCEPT ![np] = Nil]
                           /\ pproc' = [pproc EXCEPT ![np] = Nil]
                           /\ ctx'   = [ctx EXCEPT ![np] = Nil]
    BY <1>26 DEF PallocFail
  <2>2. UNCHANGED <<stat, cpu, parked, clivars, procp, rover, stack, halt, torn>>
    BY <1>26 DEF PallocFail
  <2>3. TypeOK'
    BY <1>t, <2>1, <2>2 DEF TypeOK, clivars
  <2>4. CliDiscipline'
    BY <2>2 DEF CliInv, CliDiscipline, Top, clivars
  <2> QED
    BY <2>3, <2>4 DEF CliInv
<1>25. SchedScan \/ SchedIdle => CliInv'
  BY <1>17 DEF SchedScan, SchedIdle
<1> QED
  BY <1>1, <1>2, <1>3, <1>4, <1>5, <1>6, <1>7, <1>8, <1>10, <1>11, <1>12, <1>13,
     <1>14, <1>15, <1>16, <1>18, <1>19, <1>20, <1>21, <1>22, <1>23, <1>24, <1>25, <1>26
     DEF Next, Kernel, User, Intr

\* Every variable keeps its type: sched() keeps user.sched an index of proc[].
THEOREM SchedTypeOK == Spec => []TypeOK
<1>1. Spec => []CliInv
  BY CliInit, CliNext, PTL DEF Spec
<1>2. CliInv => TypeOK
  BY DEF CliInv
<1> QED
  BY <1>1, <1>2, PTL

\* user.ncli counts the pushcli() sections the CPU is in: no process is ever
\* switched out, and no interrupt taken, in the middle of one.
THEOREM SchedCliDiscipline == Spec => []CliDiscipline
<1>1. Spec => []CliInv
  BY CliInit, CliNext, PTL DEF Spec
<1>2. CliInv => CliDiscipline
  BY DEF CliInv
<1> QED
  BY <1>1, <1>2, PTL

(***************************************************************************)
(* The process table and the context switch.  The inductive invariant says *)
(* which stack the CPU is on, what is on it, and what the others hold; it  *)
(* holds until a timer interrupt reschedules between sched()'s popcli()    *)
(* and swtch().                                                            *)
(***************************************************************************)
SwitchPC == {"switch", "swtch"}

\* The CPU is on user.procp's stack, or on its way there from oldproc's.
OnCpu ==
  IF Switching
    THEN /\ Top.old = cpu /\ Top.new = procp /\ cpu # procp
         /\ stat[procp] \in {"RUN", "SLEEP"}
         /\ Top.pc = "swtch" => Top.arg = procp
    ELSE cpu = procp

\* Whatever sched() may choose, now or once fork is done with it, is saved.
Saved ==
  \A p \in Proc \ {cpu} : stat[p] \in {"SET", "RUN", "SLEEP"} =>
    ctx[p] = p /\ parked[p] = p

Live   == \A p \in Proc : p = cpu \/ parked[p] # Nil => stat[p] # "UNUSED"
Asleep == \A p \in Proc : stat[p] = "SLEEP" <=> wchan[p] # Nil

\* A sleeping process is inside sleep().
InSleep ==
  \A p \in Proc : stat[p] = "SLEEP" => \E f \in Frames(stack[p]) : f.pc = "sleeping"

\* A process inside sys_exit is a zombie, and a zombie on the CPU is leaving it.
Exiting ==
  /\ \A p \in Proc : \A f \in Frames(stack[p]) : f.pc = "exit" => stat[p] = "ZOMB"
  /\ stat[cpu] = "ZOMB" =>
       stack[cpu] # <<>> /\ Top.pc \in {"sched", "scan", "idle"} \cup SwitchPC

\* Slot 0 is the boot thread's zombie.
Boot == stat[0] = "ZOMB" /\ pproc[0] = Nil

\* A slot that fork is filling is SET, and belongs to one fork.
ForkLast(s) == \A k \in 1 .. Len(s) : s[k].pc = "fork" => k = Len(s)
Forking ==
  /\ stat[cpu] # "SET"
  /\ \A p \in Proc : ForkLast(stack[p])
  /\ \A p \in Proc : \A f \in Frames(stack[p]) : f.pc = "fork" => stat[f.arg] = "SET"
  /\ \A p, q \in Proc : \A f \in Frames(stack[p]), g \in Frames(stack[q]) :
       p # q /\ f.pc = "fork" /\ g.pc = "fork" => f.arg # g.arg

\* What the scans of sched() have found so far.
Scanning ==
  stack[cpu] # <<>> =>
    /\ Top.pc = "scan" /\ Top.new # Nil => stat[Top.new] = "RUN"
    /\ Top.pc = "idle" => stat[procp] = "ZOMB"
    /\ Top.pc = "idle" /\ Top.new # Nil => stat[Top.new] = "SLEEP"

\* No stack is left, and none interrupted, between popcli() and swtch().
NoSwitch(s) == \A f \in Frames(s) : f.pc \notin SwitchPC
Untorn ==
  /\ \A p \in Proc \ {cpu} : NoSwitch(stack[p])
  /\ stack[cpu] # <<>> => NoSwitch(Tail(stack[cpu]))

Running == /\ OnCpu /\ Saved /\ InSleep /\ Exiting /\ Boot /\ Forking
           /\ Scanning /\ Untorn

SafeInv ==
  ~torn => /\ halt \notin {"zombie exit", "wild"}
           /\ Live /\ Asleep
           /\ halt = "no" => Running

\* On an empty stack no activation of fork() has another below it.
LEMMA ForkEmpty == ForkLast(<<>>)
  BY DEF ForkLast

\* An activation of fork() is the outermost of its stack, taken from the innermost on.
LEMMA ForkCons ==
  ASSUME NEW s \in Seq(Frame), s # <<>>
  PROVE  ForkLast(s) <=>
           ForkLast(Tail(s)) /\ (Head(s).pc = "fork" => Tail(s) = <<>>)
<1>1. /\ Len(s) \in Nat \ {0} /\ Head(s) = s[1] /\ Len(Tail(s)) = Len(s) - 1
      /\ \A k \in 1 .. Len(s) - 1 : Tail(s)[k] = s[k + 1]
      /\ Tail(s) \in Seq(Frame)
  OBVIOUS
<1>2. Tail(s) = <<>> <=> Len(s) = 1
  BY <1>1
<1>3. ASSUME ForkLast(s)
      PROVE  ForkLast(Tail(s)) /\ (Head(s).pc = "fork" => Tail(s) = <<>>)
  <2>1. ASSUME NEW k \in 1 .. Len(s) - 1, Tail(s)[k].pc = "fork" PROVE k = Len(s) - 1
    <3>1. k + 1 \in 1 .. Len(s) /\ s[k + 1].pc = "fork"
      BY <1>1, <2>1
    <3>2. k + 1 = Len(s)
      BY <3>1, <1>3 DEF ForkLast
    <3> QED
      BY <3>2, <1>1
  <2>2. Head(s).pc = "fork" => Len(s) = 1
    <3>1. 1 \in 1 .. Len(s)
      BY <1>1
    <3> QED
      BY <1>1, <1>3, <3>1 DEF ForkLast
  <2> QED
    BY <1>1, <1>2, <2>1, <2>2 DEF ForkLast
<1>4. ASSUME ForkLast(Tail(s)), Head(s).pc = "fork" => Tail(s) = <<>>
      PROVE  ForkLast(s)
  <2>1. ASSUME NEW k \in 1 .. Len(s), s[k].pc = "fork" PROVE k = Len(s)
    <3>1. CASE k = 1
      BY <3>1, <2>1, <1>1, <1>2, <1>4
    <3>2. CASE k # 1
      <4>1. k - 1 \in 1 .. Len(s) - 1
        BY <3>2, <1>1
      <4>2. Tail(s)[k - 1] = s[(k - 1) + 1] /\ (k - 1) + 1 = k
        BY <4>1, <1>1
      <4>3. k - 1 = Len(s) - 1
        BY <4>1, <4>2, <2>1, <1>1, <1>4 DEF ForkLast
      <4> QED
        BY <4>3, <1>1
    <3> QED
      BY <3>1, <3>2
  <2> QED
    BY <2>1 DEF ForkLast
<1> QED
  BY <1>3, <1>4

\* The initial state.
LEMMA SafeInit == Init => SafeInv
<1> SUFFICES ASSUME Init PROVE SafeInv
  OBVIOUS
<1>1. 0 \in Proc /\ 1 \in Proc /\ Nil \notin Proc
  BY SchedConstants DEF Proc, Nil
<1>2. stack[cpu] = <<>> /\ \A p \in Proc : stack[p] = <<>> /\ Frames(stack[p]) = {}
  BY <1>1, NoFrames DEF Init
<1>3. /\ stat[0] = "ZOMB" /\ stat[1] = "RUN"
      /\ \A p \in Proc : stat[p] \in {"ZOMB", "RUN", "UNUSED"}
      /\ \A p \in Proc \ {0, 1} : stat[p] = "UNUSED"
  BY <1>1 DEF Init
<1>4. Live /\ Asleep
  BY <1>1, <1>3 DEF Init, Live, Asleep
<1>5. OnCpu /\ Saved /\ InSleep /\ Exiting
  BY <1>1, <1>2, <1>3 DEF Init, OnCpu, Switching, Saved, InSleep, Exiting
<1>6. Boot /\ Forking
  BY <1>1, <1>2, <1>3, ForkEmpty DEF Init, Boot, Forking
<1>7. Scanning /\ Untorn
  BY <1>2 DEF Scanning, Untorn, NoSwitch
<1> QED
  BY <1>4, <1>5, <1>6, <1>7 DEF Init, SafeInv, Running

\* The states in which the machine still runs and nothing was torn.
Good == CliInv /\ TypeOK /\ Stacks /\ Live /\ Asleep /\ Running /\ halt = "no" /\ ~torn

\* A step that only moves along the CPU's own stack, outside the switch.
LEMMA StackStep ==
  ASSUME Good, UNCHANGED <<procvars, swvars, procp>>, cpu = procp,
         \A p \in Proc \ {cpu} : stack'[p] = stack[p],
         \A f \in Frames(stack'[cpu]) :
           f.pc \in {"exit", "fork"} => f \in Frames(stack[cpu]),
         ForkLast(stack'[cpu]),
         stat[cpu] = "SLEEP" => \E f \in Frames(stack'[cpu]) : f.pc = "sleeping",
         stack'[cpu] # <<>> =>
           Head(stack'[cpu]).pc \notin SwitchPC /\ NoSwitch(Tail(stack'[cpu])),
         stat[cpu] = "ZOMB" =>
           stack'[cpu] # <<>> /\ Head(stack'[cpu]).pc \in {"sched", "scan", "idle"},
         Scanning'
  PROVE  Running' /\ Live' /\ Asleep'
<1>1. /\ stat' = stat /\ wchan' = wchan /\ pproc' = pproc /\ ctx' = ctx
      /\ cpu' = cpu /\ parked' = parked /\ procp' = procp
  BY DEF procvars, swvars
<1>2. Live' /\ Asleep' /\ Saved' /\ Boot'
  BY <1>1 DEF Good, Running, Live, Asleep, Saved, Boot
<1>3. OnCpu'
  BY <1>1 DEF OnCpu, Switching, Top, SwitchPC
<1>4. InSleep'
  BY <1>1 DEF Good, Running, InSleep
<1>5. Exiting'
  BY <1>1 DEF Good, Running, Exiting, Top
<1>6. Forking'
  <2>1. \A p \in Proc : ForkLast(stack'[p])
    BY DEF Good, Running, Forking
  <2>2. \A p \in Proc : \A f \in Frames(stack'[p]) :
          f.pc = "fork" => f \in Frames(stack[p])
    OBVIOUS
  <2> QED
    BY <1>1, <2>1, <2>2 DEF Good, Running, Forking
<1>7. Untorn'
  BY <1>1 DEF Good, Running, Untorn
<1> QED
  BY <1>2, <1>3, <1>4, <1>5, <1>6, <1>7 DEF Running

\* The CPU in user mode, and the CPU at a point of the kernel.
LEMMA GoodUser ==
  ASSUME Good, UserMode
  PROVE  /\ stack[cpu] = <<>> /\ Frames(stack[cpu]) = {} /\ ForkLast(stack[cpu])
         /\ cpu = procp /\ stat[cpu] \notin {"ZOMB", "SLEEP", "SET", "UNUSED"}
<1>1. stack[cpu] = <<>> /\ Frames(stack[cpu]) = {} /\ ForkLast(stack[cpu])
  BY NoFrames, ForkEmpty DEF UserMode
<1>2. cpu = procp
  BY <1>1 DEF Good, Running, OnCpu, Switching
<1>3. stat[cpu] # "ZOMB" /\ stat[cpu] # "SLEEP"
  BY <1>1 DEF Good, Running, Exiting, InSleep, Stacks
<1>4. stat[cpu] # "SET" /\ stat[cpu] # "UNUSED"
  BY DEF Good, Running, Forking, Live, Stacks
<1> QED
  BY <1>1, <1>2, <1>3, <1>4

\* What is known of the stack of the CPU at a program point.
LEMMA GoodAt ==
  ASSUME Good, NEW pc, At(pc)
  PROVE  /\ stack[cpu] # <<>> /\ Top = Head(stack[cpu]) /\ Top.pc = pc /\ Top \in Frame
         /\ Frames(stack[cpu]) = {Top} \cup Frames(Tail(stack[cpu]))
         /\ Tail(stack[cpu]) \in Seq(Frame)
         /\ ForkLast(stack[cpu]) /\ ForkLast(Tail(stack[cpu]))
         /\ pc = "fork" => Tail(stack[cpu]) = <<>>
         /\ NoSwitch(Tail(stack[cpu]))
         /\ pc \notin SwitchPC => cpu = procp /\ NoSwitch(stack[cpu])
         /\ pc \notin {"sched", "scan", "idle"} \cup SwitchPC => stat[cpu] # "ZOMB"
         /\ stat[cpu] \notin {"SET", "UNUSED"}
<1>1. stack[cpu] # <<>> /\ Top = Head(stack[cpu]) /\ Top.pc = pc
  BY DEF At, Top
<1>2. /\ Top \in Frame /\ Tail(stack[cpu]) \in Seq(Frame)
      /\ Frames(stack[cpu]) = {Top} \cup Frames(Tail(stack[cpu]))
  BY <1>1, Pop DEF Good, Stacks
<1>3. ForkLast(stack[cpu])
  BY DEF Good, Running, Forking, Stacks
<1>4. ForkLast(Tail(stack[cpu])) /\ (pc = "fork" => Tail(stack[cpu]) = <<>>)
  BY <1>1, <1>3, ForkCons DEF Good, Stacks
<1>5. NoSwitch(Tail(stack[cpu]))
  BY <1>1 DEF Good, Running, Untorn
<1>6. pc \notin SwitchPC => cpu = procp /\ NoSwitch(stack[cpu])
  BY <1>1, <1>2, <1>5 DEF Good, Running, OnCpu, Switching, SwitchPC, NoSwitch
<1>7. pc \notin {"sched", "scan", "idle"} \cup SwitchPC => stat[cpu] # "ZOMB"
  BY <1>1 DEF Good, Running, Exiting
<1>8. stat[cpu] # "SET" /\ stat[cpu] # "UNUSED"
  BY DEF Good, Running, Forking, Live, Stacks
<1> QED
  BY <1>1, <1>2, <1>3, <1>4, <1>5, <1>6, <1>7, <1>8

\* System calls that push sleep() and their own frame.
LEMMA PushStep ==
  ASSUME Good, UserMode, UNCHANGED <<procvars, swvars, procp>>,
         NEW f \in Frame, NEW g \in Frame, Call2(f, g),
         f.pc = "sleep", g.pc \in {"wait", "io"}
  PROVE  Running' /\ Live' /\ Asleep'
<1>1. /\ stack[cpu] = <<>> /\ Frames(stack[cpu]) = {} /\ ForkLast(stack[cpu])
      /\ cpu = procp /\ stat[cpu] \notin {"ZOMB", "SLEEP", "SET", "UNUSED"}
  BY GoodUser
<1>2. /\ stack' \in [Proc -> Seq(Frame)]
      /\ \A p \in Proc \ {cpu} : stack'[p] = stack[p]
      /\ stack'[cpu] # <<>>
      /\ Head(stack'[cpu]) = f
      /\ Frames(Tail(stack'[cpu])) = {g} \cup Frames(stack[cpu])
      /\ Tail(stack'[cpu]) # <<>> /\ Tail(stack'[cpu]) \in Seq(Frame)
      /\ Head(Tail(stack'[cpu])) = g /\ Tail(Tail(stack'[cpu])) = stack[cpu]
      /\ Frames(stack'[cpu]) = {f, g} \cup Frames(stack[cpu])
  BY Call2Effect DEF Good
<1>3. ForkLast(stack'[cpu])
  <2>1. ForkLast(Tail(stack'[cpu]))
    BY <1>1, <1>2, ForkCons
  <2> QED
    BY <1>2, <2>1, ForkCons DEF Good, Stacks
<1>4. NoSwitch(Tail(stack'[cpu]))
  BY <1>1, <1>2 DEF NoSwitch, SwitchPC
<1>5. Scanning'
  BY <1>2 DEF Scanning, Top, swvars
<1>6. \A h \in Frames(stack'[cpu]) : h.pc \in {"exit", "fork"} => h \in Frames(stack[cpu])
  BY <1>2
<1> QED
  BY <1>1, <1>2, <1>3, <1>4, <1>5, <1>6, StackStep DEF SwitchPC

\* Calls made by kernel code.
LEMMA CallStep ==
  ASSUME Good, NEW pc \in {"sleeping", "io"}, At(pc),
         UNCHANGED <<procvars, swvars, procp>>,
         NEW f \in Frame, Call(f), f.pc \in {"sched", "sleep"}
  PROVE  Running' /\ Live' /\ Asleep'
<1>1. /\ stack[cpu] # <<>> /\ ForkLast(stack[cpu]) /\ cpu = procp
      /\ NoSwitch(stack[cpu]) /\ stat[cpu] # "ZOMB"
  BY GoodAt DEF SwitchPC
<1>2. /\ stack' \in [Proc -> Seq(Frame)]
      /\ \A p \in Proc \ {cpu} : stack'[p] = stack[p]
      /\ stack'[cpu] # <<>>
      /\ Head(stack'[cpu]) = f
      /\ Tail(stack'[cpu]) = stack[cpu]
      /\ Frames(stack'[cpu]) = {f} \cup Frames(stack[cpu])
  BY CallEffect DEF Good
<1>3. ForkLast(stack'[cpu])
  BY <1>1, <1>2, ForkCons DEF Good, Stacks
<1>4. stat[cpu] = "SLEEP" => \E h \in Frames(stack'[cpu]) : h.pc = "sleeping"
  BY <1>2 DEF Good, Running, InSleep, Stacks
<1>5. Scanning'
  BY <1>2 DEF Scanning, Top, swvars
<1>6. \A h \in Frames(stack'[cpu]) : h.pc \in {"exit", "fork"} => h \in Frames(stack[cpu])
  BY <1>1, <1>2
<1> QED
  BY <1>1, <1>2, <1>3, <1>4, <1>5, <1>6, StackStep DEF SwitchPC

\* Returns in kernel code, to the kernel or to user mode.
LEMMA ReturnStep ==
  ASSUME Good, NEW pc, pc \notin SwitchPC, At(pc),
         UNCHANGED <<procvars, swvars, procp>>, Return,
         stat[cpu] # "ZOMB", stat[cpu] = "SLEEP" => pc # "sleeping"
  PROVE  Running' /\ Live' /\ Asleep'
<1>1. /\ stack[cpu] # <<>> /\ ForkLast(Tail(stack[cpu])) /\ cpu = procp
      /\ NoSwitch(Tail(stack[cpu])) /\ Tail(stack[cpu]) \in Seq(Frame)
      /\ Frames(stack[cpu]) = {Top} \cup Frames(Tail(stack[cpu])) /\ Top.pc = pc
  BY GoodAt
<1>2. /\ \A p \in Proc \ {cpu} : stack'[p] = stack[p]
      /\ stack'[cpu] = Tail(stack[cpu])
  BY <1>1, ReturnEffect DEF Good
<1>3. CliFree(stack'[cpu])
  BY <1>1, <1>2 DEF Good, CliInv, CliDiscipline
<1>4. stack'[cpu] # <<>> =>
        /\ Head(stack'[cpu]) \in Frames(stack'[cpu])
        /\ Frames(Tail(stack'[cpu])) \subseteq Frames(stack'[cpu])
  <2>1. stack'[cpu] \in Seq(Frame)
    BY <1>1, <1>2
  <2> QED
    BY <2>1, Pop
<1>5. stack'[cpu] # <<>> =>
        Head(stack'[cpu]).pc \notin SwitchPC /\ NoSwitch(Tail(stack'[cpu]))
  BY <1>1, <1>2, <1>4 DEF NoSwitch
<1>6. Scanning'
  BY <1>3, <1>4 DEF Scanning, Top, swvars, CliFree, InCli
<1>7. stat[cpu] = "SLEEP" => \E h \in Frames(stack'[cpu]) : h.pc = "sleeping"
  BY <1>1, <1>2 DEF Good, Running, InSleep, Stacks
<1>8. \A h \in Frames(stack'[cpu]) : h.pc \in {"exit", "fork"} => h \in Frames(stack[cpu])
  BY <1>1, <1>2
<1> QED
  BY <1>1, <1>2, <1>5, <1>6, <1>7, <1>8, StackStep

\* The loops of sched().
LEMMA BecomeStep ==
  ASSUME Good, NEW pc \in {"sched", "scan", "idle"}, At(pc),
         UNCHANGED <<procvars, swvars, procp>>,
         NEW f \in Frame, Become(f), f.pc \in {"scan", "idle"},
         f.pc = "scan" /\ f.new # Nil => stat[f.new] = "RUN",
         f.pc = "idle" => stat[procp] = "ZOMB",
         f.pc = "idle" /\ f.new # Nil => stat[f.new] = "SLEEP"
  PROVE  Running' /\ Live' /\ Asleep'
<1>1. /\ stack[cpu] # <<>> /\ ForkLast(Tail(stack[cpu])) /\ cpu = procp
      /\ NoSwitch(Tail(stack[cpu])) /\ Tail(stack[cpu]) \in Seq(Frame)
      /\ Frames(stack[cpu]) = {Top} \cup Frames(Tail(stack[cpu])) /\ Top.pc = pc
  BY GoodAt DEF SwitchPC
<1>2. /\ stack' \in [Proc -> Seq(Frame)]
      /\ \A p \in Proc \ {cpu} : stack'[p] = stack[p]
      /\ stack'[cpu] # <<>>
      /\ Head(stack'[cpu]) = f
      /\ Tail(stack'[cpu]) = Tail(stack[cpu])
      /\ Frames(stack'[cpu]) = {f} \cup Frames(Tail(stack[cpu]))
  BY <1>1, BecomeEffect DEF Good
<1>3. ForkLast(stack'[cpu])
  BY <1>1, <1>2, ForkCons DEF Good, Stacks
<1>4. stat[cpu] = "SLEEP" => \E h \in Frames(stack'[cpu]) : h.pc = "sleeping"
  BY <1>1, <1>2 DEF Good, Running, InSleep, Stacks
<1>5. Scanning'
  BY <1>2 DEF Scanning, Top, swvars, procvars
<1>6. \A h \in Frames(stack'[cpu]) : h.pc \in {"exit", "fork"} => h \in Frames(stack[cpu])
  BY <1>1, <1>2
<1> QED
  BY <1>1, <1>2, <1>3, <1>4, <1>5, <1>6, StackStep DEF SwitchPC

\* A timer interrupt that does not land in the window tears nothing.
LEMMA TimerStep ==
  ASSUME Good, Timer, ~torn'
  PROVE  Running' /\ Live' /\ Asleep'
<1>1. ~Switching
  BY DEF Timer, Good, Switching, At
<1>2. cpu = procp /\ ForkLast(stack[cpu])
  BY <1>1 DEF Good, Running, OnCpu, Forking, Stacks
<1> DEFINE f == F("sched", Nil)
           g == F("trap", Nil)
<1>3. f \in Frame /\ g \in Frame /\ f.pc = "sched" /\ g.pc = "trap"
  BY PlainFrame DEF PC
<1>4. Call2(f, g) /\ UNCHANGED <<procvars, swvars, procp>>
  BY DEF Timer
<1> HIDE DEF f, g
<1>5. /\ stack' \in [Proc -> Seq(Frame)]
      /\ \A p \in Proc \ {cpu} : stack'[p] = stack[p]
      /\ stack'[cpu] # <<>>
      /\ Head(stack'[cpu]) = f
      /\ Frames(Tail(stack'[cpu])) = {g} \cup Frames(stack[cpu])
      /\ Tail(stack'[cpu]) # <<>> /\ Tail(stack'[cpu]) \in Seq(Frame)
      /\ Head(Tail(stack'[cpu])) = g /\ Tail(Tail(stack'[cpu])) = stack[cpu]
      /\ Frames(stack'[cpu]) = {f, g} \cup Frames(stack[cpu])
  BY <1>3, <1>4, Call2Effect DEF Good
<1>6. ForkLast(stack'[cpu])
  <2>1. ForkLast(Tail(stack'[cpu]))
    BY <1>2, <1>3, <1>5, ForkCons
  <2> QED
    BY <1>3, <1>5, <2>1, ForkCons DEF Good, Stacks
<1>7. NoSwitch(stack[cpu])
  <2>1. CASE stack[cpu] = <<>>
    BY <2>1, NoFrames DEF NoSwitch
  <2>2. CASE stack[cpu] # <<>>
    <3>1. Frames(stack[cpu]) = {Top} \cup Frames(Tail(stack[cpu]))
      BY <2>2, Pop DEF Good, Stacks, Top
    <3> QED
      BY <1>1, <2>2, <3>1 DEF Switching, SwitchPC, NoSwitch, Good, Running, Untorn
  <2> QED
    BY <2>1, <2>2
<1>8. NoSwitch(Tail(stack'[cpu]))
  BY <1>3, <1>5, <1>7 DEF NoSwitch, SwitchPC
<1>9. stat[cpu] = "SLEEP" => \E h \in Frames(stack'[cpu]) : h.pc = "sleeping"
  BY <1>5 DEF Good, Running, InSleep, Stacks
<1>10. Scanning'
  BY <1>3, <1>4, <1>5 DEF Scanning, Top, swvars
<1>11. \A h \in Frames(stack'[cpu]) : h.pc \in {"exit", "fork"} => h \in Frames(stack[cpu])
  BY <1>3, <1>5
<1> QED
  BY <1>2, <1>3, <1>4, <1>5, <1>6, <1>8, <1>9, <1>10, <1>11, StackStep DEF SwitchPC

\* An activation of fork() has a slot of the process table.
LEMMA ForkArgs ==
  ASSUME Good
  PROVE  \A p \in Proc : \A f \in Frames(stack[p]) : f.pc = "fork" => f.arg \in Proc
<1>1. \A p \in Proc : Frames(stack[p]) \subseteq Frame
  BY DEF Good, Stacks, Frames
<1> QED
  BY <1>1, FrameFields

\* A wakeup on a channel: some sleepers become runnable, nothing else changes.
LEMMA WakeStep ==
  ASSUME Good, NEW c \in Chan, wakeup(c), ncli = 0,
         UNCHANGED <<pproc, swvars, procp, stack>>
  PROVE  Running' /\ Live' /\ Asleep'
<1>1. c # Nil
  BY SchedConstants
<1>2. \A p \in Proc :
        \/ stat'[p] = stat[p] /\ wchan'[p] = wchan[p]
        \/ stat[p] = "SLEEP" /\ stat'[p] = "RUN" /\ wchan'[p] = Nil
  BY <1>1 DEF wakeup, Woken, Good, Asleep
<1>3. /\ pproc' = pproc /\ ctx' = ctx /\ cpu' = cpu /\ parked' = parked
      /\ procp' = procp /\ stack' = stack /\ cpu \in Proc /\ procp \in Proc
  BY DEF swvars, Good, TypeOK
<1>4. 0 \in Proc
  BY SchedConstants DEF Proc
<1>5. Live' /\ Asleep'
  BY <1>2, <1>3 DEF Good, Live, Asleep
<1>6. Saved' /\ InSleep' /\ Boot'
  BY <1>2, <1>3, <1>4 DEF Good, Running, Saved, InSleep, Boot
<1>7. OnCpu'
  BY <1>2, <1>3 DEF Good, Running, OnCpu, Switching, Top
<1>8. Exiting'
  BY <1>2, <1>3 DEF Good, Running, Exiting, Top
<1>9. Forking'
  <2>1. \A p \in Proc : \A f \in Frames(stack[p]) : f.pc = "fork" => f.arg \in Proc
    BY ForkArgs
  <2>2. \A p \in Proc : stat[p] = "SET" <=> stat'[p] = "SET"
    BY <1>2
  <2> QED
    BY <1>3, <2>1, <2>2 DEF Good, Running, Forking
<1>10. Scanning' /\ Untorn'
  <2>1. stack[cpu] # <<>> => ~InCli(Top)
    BY DEF Good, CliInv, CliDiscipline
  <2> QED
    BY <1>3, <2>1 DEF Good, Running, Scanning, Untorn, Top, InCli
<1> QED
  BY <1>5, <1>6, <1>7, <1>8, <1>9, <1>10 DEF Running

\* sleep() up to its loop.
LEMMA SleepStep ==
  ASSUME Good, Sleep
  PROVE  Running' /\ Live' /\ Asleep'
<1>1. /\ stack[cpu] # <<>> /\ ForkLast(Tail(stack[cpu])) /\ cpu = procp
      /\ NoSwitch(Tail(stack[cpu])) /\ Tail(stack[cpu]) \in Seq(Frame)
      /\ Frames(stack[cpu]) = {Top} \cup Frames(Tail(stack[cpu]))
      /\ Top.pc = "sleep" /\ Top \in Frame
      /\ stat[cpu] \notin {"ZOMB", "SET", "UNUSED"}
  BY GoodAt DEF Sleep, SwitchPC
<1>2. Top.arg # Nil
  BY <1>1, FrameFields, SchedConstants DEF Proc, Nil
<1> DEFINE f == F("sleeping", Nil)
<1>3. f \in Frame /\ f.pc = "sleeping"
  BY PlainFrame DEF PC
<1>4. Become(f)
  BY DEF Sleep
<1> HIDE DEF f
<1>5. /\ stack' \in [Proc -> Seq(Frame)]
      /\ \A p \in Proc \ {cpu} : stack'[p] = stack[p]
      /\ stack'[cpu] # <<>>
      /\ Head(stack'[cpu]) = f
      /\ Tail(stack'[cpu]) = Tail(stack[cpu])
      /\ Frames(stack'[cpu]) = {f} \cup Frames(Tail(stack[cpu]))
  BY <1>1, <1>3, <1>4, BecomeEffect DEF Good
<1>6. ForkLast(stack'[cpu])
  BY <1>1, <1>3, <1>5, ForkCons DEF Good, Stacks
<1>7. /\ pproc' = pproc /\ ctx' = ctx /\ cpu' = cpu /\ parked' = parked
      /\ procp' = procp /\ cpu \in Proc
  BY DEF Sleep, swvars, Good, TypeOK
<1>8. /\ stat'[cpu] = "SLEEP" /\ wchan'[cpu] # Nil
      /\ \A p \in Proc \ {cpu} : stat'[p] = stat[p] /\ wchan'[p] = wchan[p]
  BY <1>1, <1>2, <1>7 DEF Sleep, Good, TypeOK
<1>9. Live' /\ Asleep' /\ Saved'
  BY <1>7, <1>8 DEF Good, Running, Live, Asleep, Saved
<1>10. OnCpu' /\ Scanning'
  BY <1>1, <1>3, <1>5, <1>7 DEF OnCpu, Switching, Scanning, Top
<1>11. InSleep'
  BY <1>3, <1>5, <1>8 DEF Good, Running, InSleep
<1>12. Exiting'
  BY <1>1, <1>3, <1>5, <1>7, <1>8 DEF Good, Running, Exiting
<1>13. Boot'
  BY <1>1, <1>7, <1>8, SchedConstants DEF Good, Running, Boot, Proc
<1>14. Forking'
  <2>1. \A p \in Proc : ForkLast(stack'[p])
    BY <1>5, <1>6 DEF Good, Running, Forking
  <2>2. \A p \in Proc : \A h \in Frames(stack'[p]) :
          h.pc = "fork" => h \in Frames(stack[p])
    BY <1>1, <1>3, <1>5
  <2>3. \A p \in Proc : stat[p] = "SET" <=> stat'[p] = "SET"
    BY <1>1, <1>8
  <2> QED
    BY <1>7, <2>1, <2>2, <2>3, ForkArgs DEF Good, Running, Forking
<1>15. Untorn'
  BY <1>1, <1>5, <1>7 DEF Good, Running, Untorn
<1> QED
  BY <1>9, <1>10, <1>11, <1>12, <1>13, <1>14, <1>15 DEF Running

\* sys_exit up to sched().
LEMMA ExitStep ==
  ASSUME Good, SysExit
  PROVE  Running' /\ Live' /\ Asleep'
<1>1. /\ stack[cpu] = <<>> /\ Frames(stack[cpu]) = {} /\ ForkLast(stack[cpu])
      /\ cpu = procp /\ stat[cpu] \notin {"ZOMB", "SLEEP", "SET", "UNUSED"}
  BY GoodUser DEF SysExit
<1> DEFINE f == F("sched", Nil)
           g == F("exit", Nil)
<1>2. f \in Frame /\ g \in Frame /\ f.pc = "sched" /\ g.pc = "exit"
  BY PlainFrame DEF PC
<1>3. Call2(f, g)
  BY DEF SysExit
<1> HIDE DEF f, g
<1>4. /\ stack' \in [Proc -> Seq(Frame)]
      /\ \A p \in Proc \ {cpu} : stack'[p] = stack[p]
      /\ stack'[cpu] # <<>>
      /\ Head(stack'[cpu]) = f
      /\ Frames(Tail(stack'[cpu])) = {g}
      /\ Tail(stack'[cpu]) # <<>> /\ Tail(stack'[cpu]) \in Seq(Frame)
      /\ Head(Tail(stack'[cpu])) = g /\ Tail(Tail(stack'[cpu])) = stack[cpu]
      /\ Frames(stack'[cpu]) = {f, g}
  BY <1>1, <1>2, <1>3, Call2Effect DEF Good
<1>5. ForkLast(stack'[cpu])
  <2>1. ForkLast(Tail(stack'[cpu]))
    BY <1>1, <1>2, <1>4, ForkCons
  <2> QED
    BY <1>2, <1>4, <2>1, ForkCons DEF Good, Stacks
<1>6. /\ pproc' = pproc /\ ctx' = ctx /\ cpu' = cpu /\ parked' = parked
      /\ procp' = procp /\ cpu \in Proc
  BY DEF SysExit, swvars, Good, TypeOK
<1>7. wchan[cpu] = Nil
  BY <1>1, <1>6 DEF Good, Asleep
<1>8. /\ stat'[cpu] = "ZOMB" /\ wchan'[cpu] = Nil
      /\ \A p \in Proc \ {cpu} :
           \/ stat'[p] = stat[p] /\ wchan'[p] = wchan[p]
           \/ stat[p] = "SLEEP" /\ stat'[p] = "RUN" /\ wchan'[p] = Nil
  <2> DEFINE W == IF pproc[procp] = Nil THEN {} ELSE Woken(pproc[procp])
  <2>1. /\ stat'  = [p \in Proc |-> IF p \in W THEN "RUN"
                                    ELSE IF p = procp THEN "ZOMB" ELSE stat[p]]
        /\ wchan' = [p \in Proc |-> IF p \in W THEN Nil ELSE wchan[p]]
    BY DEF SysExit
  <2>2. \A p \in W : stat[p] = "SLEEP"
    BY DEF Woken, Good, Asleep
  <2>3. cpu \notin W
    BY <1>1, <2>2
  <2> HIDE DEF W
  <2> QED
    BY <1>1, <1>6, <1>7, <2>1, <2>2, <2>3
<1>9. Live' /\ Asleep' /\ Saved'
  BY <1>6, <1>8 DEF Good, Running, Live, Asleep, Saved
<1>10. OnCpu' /\ Scanning'
  BY <1>1, <1>2, <1>4, <1>6 DEF OnCpu, Switching, Scanning, Top
<1>11. InSleep'
  BY <1>4, <1>8 DEF Good, Running, InSleep
<1>12. Exiting'
  BY <1>1, <1>2, <1>4, <1>6, <1>8 DEF Good, Running, Exiting, Top
<1>13. Boot'
  BY <1>1, <1>6, <1>8, SchedConstants DEF Good, Running, Boot, Proc
<1>14. Forking'
  <2>1. \A p \in Proc : ForkLast(stack'[p])
    BY <1>4, <1>5 DEF Good, Running, Forking
  <2>2. \A p \in Proc : \A h \in Frames(stack'[p]) :
          h.pc = "fork" => h \in Frames(stack[p])
    BY <1>2, <1>4
  <2>3. \A p \in Proc : stat[p] = "SET" <=> stat'[p] = "SET"
    BY <1>1, <1>8
  <2> QED
    BY <1>6, <2>1, <2>2, <2>3, ForkArgs DEF Good, Running, Forking
<1>15. Untorn'
  BY <1>2, <1>4, <1>6 DEF Good, Running, Untorn, NoSwitch, SwitchPC
<1> QED
  BY <1>9, <1>10, <1>11, <1>12, <1>13, <1>14, <1>15 DEF Running

\* What is left on the CPU's stack after a return is neither in a section nor
\* in the switch.
LEMMA TailPlain ==
  ASSUME Good, NEW pc, At(pc)
  PROVE  LET s == Tail(stack[cpu]) IN
           s # <<>> => /\ Head(s).pc \notin {"scan", "idle"} \cup SwitchPC
                       /\ NoSwitch(Tail(s))
<1> DEFINE s == Tail(stack[cpu])
<1>1. s \in Seq(Frame) /\ NoSwitch(s) /\ stack[cpu] # <<>>
  BY GoodAt
<1>2. CliFree(s)
  BY <1>1 DEF Good, CliInv, CliDiscipline
<1> HIDE DEF s
<1>3. s # <<>> => Head(s) \in Frames(s) /\ Frames(Tail(s)) \subseteq Frames(s)
  BY <1>1, Pop
<1>4. s # <<>> => /\ Head(s).pc \notin {"scan", "idle"} \cup SwitchPC
                  /\ NoSwitch(Tail(s))
  BY <1>1, <1>2, <1>3 DEF NoSwitch, CliFree, InCli
<1> QED
  BY <1>4 DEF s

\* pfree() of slots that no one runs in: collect_zombies and a failed fork.
LEMMA PfreeStep ==
  ASSUME Good, NEW pc \in {"wait", "fork"}, At(pc),
         NEW Z \in SUBSET Proc, pfree(Z), cpu \notin Z, 0 \notin Z,
         UNCHANGED <<wchan, pproc, ctx, cpu, procp>>,
         \A z \in Z : stat[z] \in {"ZOMB", "SET"},
         \A p \in Proc : \A f \in Frames(stack[p]) :
           f.pc = "fork" /\ ~(p = cpu /\ pc = "fork") => f.arg \notin Z
  PROVE  Running' /\ Live' /\ Asleep'
<1>1. /\ stack[cpu] # <<>> /\ ForkLast(Tail(stack[cpu])) /\ cpu = procp
      /\ Tail(stack[cpu]) \in Seq(Frame)
      /\ Frames(stack[cpu]) = {Top} \cup Frames(Tail(stack[cpu]))
      /\ Top.pc = pc /\ stat[cpu] \notin {"ZOMB", "SET", "UNUSED"}
      /\ NoSwitch(Tail(stack[cpu]))
      /\ pc = "fork" => Tail(stack[cpu]) = <<>>
  BY GoodAt DEF SwitchPC
<1>2. /\ \A z \in Z : stat'[z] = "UNUSED" /\ parked'[z] = Nil /\ stack'[z] = <<>>
      /\ \A p \in Proc \ Z : stat'[p] = stat[p] /\ parked'[p] = parked[p]
      /\ \A p \in Proc \ (Z \cup {cpu}) : stack'[p] = stack[p]
      /\ stack'[cpu] = Tail(stack[cpu]) /\ cpu \in Proc
  BY DEF pfree, Good, Stacks
<1>3. /\ pproc' = pproc /\ ctx' = ctx /\ cpu' = cpu /\ procp' = procp /\ wchan' = wchan
  OBVIOUS
<1>4. \A p \in Proc : Frames(stack'[p]) \subseteq Frames(stack[p])
  BY <1>1, <1>2, NoFrames
<1>5. \A z \in Z : Frames(stack'[z]) = {} /\ ForkLast(stack'[z])
  BY <1>2, NoFrames, ForkEmpty
<1>6. Live' /\ Asleep' /\ Saved'
  BY <1>2, <1>3 DEF Good, Running, Live, Asleep, Saved
<1>7. OnCpu' /\ Scanning'
  BY <1>1, <1>2, <1>3, TailPlain DEF OnCpu, Switching, Scanning, Top, SwitchPC
<1>8. InSleep'
  BY <1>1, <1>2 DEF Good, Running, InSleep
<1>9. Exiting'
  BY <1>1, <1>2, <1>3, <1>4, <1>5 DEF Good, Running, Exiting
<1>10. Boot'
  BY <1>2, <1>3, SchedConstants DEF Good, Running, Boot, Proc
<1>11. Forking'
  <2>1. \A p \in Proc : ForkLast(stack'[p])
    BY <1>1, <1>2, <1>5 DEF Good, Running, Forking
  <2>2. stat'[cpu'] # "SET"
    BY <1>1, <1>2, <1>3
  <2>3. \A p \in Proc : \A f \in Frames(stack'[p]) : f.pc = "fork" => stat'[f.arg] = "SET"
    <3>1. SUFFICES ASSUME NEW p \in Proc, NEW f \in Frames(stack'[p]), f.pc = "fork"
                   PROVE  stat'[f.arg] = "SET"
      OBVIOUS
    <3>2. ~(p = cpu /\ pc = "fork")
      BY <1>1, <1>2, <3>1, NoFrames
    <3>3. f \in Frames(stack[p]) /\ f.arg \in Proc /\ stat[f.arg] = "SET"
      BY <1>4, <3>1, ForkArgs DEF Good, Running, Forking
    <3> QED
      BY <3>1, <3>2, <3>3, <1>2
  <2>4. \A p, q \in Proc : \A f \in Frames(stack'[p]), g \in Frames(stack'[q]) :
          p # q /\ f.pc = "fork" /\ g.pc = "fork" => f.arg # g.arg
    BY <1>4 DEF Good, Running, Forking
  <2> QED
    BY <2>1, <2>2, <2>3, <2>4 DEF Forking
<1>12. Untorn'
  <2>1. \A p \in Proc \ {cpu} : NoSwitch(stack'[p])
    BY <1>4 DEF Good, Running, Untorn, NoSwitch
  <2> QED
    BY <2>1, <1>2, <1>3, TailPlain DEF Untorn
<1> QED
  BY <1>6, <1>7, <1>8, <1>9, <1>10, <1>11, <1>12 DEF Running

\* collect_zombies() frees the zombies of the caller, and touches nobody who runs or sleeps.
LEMMA CollectStep ==
  ASSUME Good, collect_zombies
  PROVE  Running' /\ Live' /\ Asleep'
<1> DEFINE Z == {z \in Proc : pproc[z] = procp /\ stat[z] = "ZOMB"}
<1>1. cpu = procp /\ stat[cpu] # "ZOMB"
  BY GoodAt DEF collect_zombies, SwitchPC
<1>2. At("wait") /\ pfree(Z) /\ UNCHANGED <<wchan, pproc, ctx, cpu, procp>>
  BY DEF collect_zombies
<1>3. cpu \notin Z /\ \A z \in Z : stat[z] \in {"ZOMB", "SET"}
  BY <1>1
<1>4. 0 \notin Z
  BY SchedConstants DEF Good, Running, Boot, TypeOK, Proc, Nil
<1>5. \A p \in Proc : \A f \in Frames(stack[p]) : f.pc = "fork" => f.arg \notin Z
  BY DEF Good, Running, Forking
<1> HIDE DEF Z
<1>6. Z \in SUBSET Proc
  BY DEF Z
<1> QED
  BY <1>2, <1>3, <1>4, <1>5, <1>6, PfreeStep

\* fork() that got no memory gives its slot back.
LEMMA ForkFailStep ==
  ASSUME Good, ForkFail
  PROVE  Running' /\ Live' /\ Asleep'
<1>1. /\ Top.pc = "fork" /\ Top \in Frame /\ stat[cpu] # "SET"
      /\ Frames(stack[cpu]) = {Top} \cup Frames(Tail(stack[cpu]))
      /\ Tail(stack[cpu]) = <<>> /\ cpu \in Proc
  BY GoodAt DEF ForkFail, Good, Stacks
<1>2. At("fork") /\ pfree({Top.arg}) /\ UNCHANGED <<wchan, pproc, ctx, cpu, procp>>
  BY DEF ForkFail
<1>3. Top.arg \in Proc /\ stat[Top.arg] = "SET"
  BY <1>1, ForkArgs DEF Good, Running, Forking
<1>4. cpu # Top.arg /\ 0 # Top.arg
  BY <1>1, <1>3 DEF Good, Running, Boot
<1>5. \A p \in Proc \ {cpu} : \A f \in Frames(stack[p]) : f.pc = "fork" => f.arg # Top.arg
  BY <1>1 DEF Good, Running, Forking
<1> QED
  BY <1>2, <1>3, <1>4, <1>5, PfreeStep

\* fork() makes the slot it filled a process that can be chosen.
LEMMA ForkDoneStep ==
  ASSUME Good, ForkDone
  PROVE  Running' /\ Live' /\ Asleep'
<1>1. /\ stack[cpu] # <<>> /\ cpu = procp /\ Top.pc = "fork" /\ Top \in Frame
      /\ Frames(stack[cpu]) = {Top} \cup Frames(Tail(stack[cpu]))
      /\ Tail(stack[cpu]) = <<>> /\ cpu \in Proc
      /\ stat[cpu] \notin {"ZOMB", "SET", "UNUSED"}
  BY GoodAt DEF ForkDone, Good, Stacks, SwitchPC
<1>2. Top.arg \in Proc /\ stat[Top.arg] = "SET"
  BY <1>1, ForkArgs DEF Good, Running, Forking
<1>3. cpu # Top.arg /\ 0 # Top.arg
  BY <1>1, <1>2 DEF Good, Running, Boot
<1>4. /\ \A p \in Proc \ {cpu} : stack'[p] = stack[p]
      /\ stack'[cpu] = <<>> /\ Frames(stack'[cpu]) = {} /\ ForkLast(stack'[cpu])
  BY <1>1, ReturnEffect, NoFrames, ForkEmpty DEF ForkDone, Iret, Good
<1>5. /\ wchan' = wchan /\ ctx' = ctx /\ cpu' = cpu /\ parked' = parked /\ procp' = procp
  BY DEF ForkDone, swvars
<1>6. /\ stat'[Top.arg] = "RUN"
      /\ \A p \in Proc \ {Top.arg} : stat'[p] = stat[p] /\ pproc'[p] = pproc[p]
  BY <1>2 DEF ForkDone, Good, TypeOK
<1>7. Live' /\ Asleep' /\ Saved'
  BY <1>2, <1>3, <1>5, <1>6 DEF Good, Running, Live, Asleep, Saved
<1>8. OnCpu' /\ Scanning'
  BY <1>1, <1>4, <1>5 DEF OnCpu, Switching, Scanning
<1>9. InSleep'
  <2>1. stat[cpu] = "SLEEP" => FALSE
    BY <1>1, NoFrames DEF Good, Running, InSleep
  <2> QED
    BY <1>3, <1>4, <1>6, <2>1 DEF Good, Running, InSleep
<1>10. Exiting'
  BY <1>1, <1>2, <1>3, <1>4, <1>5, <1>6 DEF Good, Running, Exiting
<1>11. Boot'
  BY <1>3, <1>6, SchedConstants DEF Good, Running, Boot, Proc
<1>12. Forking'
  <2>1. \A p \in Proc : ForkLast(stack'[p])
    BY <1>4 DEF Good, Running, Forking
  <2>2. \A p \in Proc \ {cpu} : \A f \in Frames(stack[p]) :
          f.pc = "fork" => f.arg # Top.arg
    BY <1>1 DEF Good, Running, Forking
  <2>3. \A p \in Proc : \A f \in Frames(stack'[p]) : f.pc = "fork" => stat'[f.arg] = "SET"
    BY <1>4, <1>6, <2>2, ForkArgs DEF Good, Running, Forking
  <2> QED
    BY <1>1, <1>3, <1>4, <1>5, <1>6, <2>1, <2>3 DEF Good, Running, Forking
<1>13. Untorn'
  BY <1>4, <1>5 DEF Good, Running, Untorn
<1> QED
  BY <1>7, <1>8, <1>9, <1>10, <1>11, <1>12, <1>13 DEF Running

\* palloc() takes a slot that nobody uses, for the process in fork().
LEMMA PallocStep ==
  ASSUME Good, palloc
  PROVE  Running' /\ Live' /\ Asleep'
<1>1. /\ stack[cpu] = <<>> /\ Frames(stack[cpu]) = {} /\ cpu \in Proc
      /\ cpu = procp /\ stat[cpu] \notin {"ZOMB", "SLEEP", "SET", "UNUSED"}
  BY GoodUser DEF palloc, Good, Stacks
<1>2. PICK np \in Proc :
        /\ stat[np] = "UNUSED"
        /\ stat'   = [stat EXCEPT ![np] = "SET"]
        /\ wchan'  = [wchan EXCEPT ![np] = Nil]
        /\ pproc'  = [pproc EXCEPT ![np] = Nil]
        /\ ctx'    = [ctx EXCEPT ![np] = np]
        /\ parked' = [parked EXCEPT ![np] = np]
        /\ stack'  = [stack EXCEPT ![np]  = <<F("trapret", Nil)>>,
                                   ![cpu] = <<F("fork", np)>>]
  BY DEF palloc
<1>3. np # cpu /\ np # 0
  BY <1>1, <1>2 DEF Good, Running, Boot
<1> DEFINE f == F("trapret", Nil)
           g == F("fork", np)
<1>4. f \in Frame /\ g \in Frame /\ f.pc = "trapret" /\ g.pc = "fork" /\ g.arg = np
  BY PlainFrame, ForkFrame DEF PC
<1> HIDE DEF f, g
<1>5. \A h \in Frame : /\ Frames(<<h>>) = {h} /\ ForkLast(<<h>>) /\ Head(<<h>>) = h
                       /\ <<h>> # <<>> /\ Frames(Tail(<<h>>)) = {}
  BY NoFrames DEF Frames, ForkLast
<1>6. /\ stack'[np] = <<f>> /\ stack'[cpu] = <<g>>
      /\ \A p \in Proc \ {np, cpu} : stack'[p] = stack[p]
  BY <1>1, <1>2, <1>3 DEF Good, Stacks, f, g
<1>7. /\ stat'[np] = "SET" /\ wchan'[np] = Nil /\ ctx'[np] = np /\ parked'[np] = np
      /\ \A p \in Proc \ {np} :
           /\ stat'[p] = stat[p] /\ wchan'[p] = wchan[p] /\ pproc'[p] = pproc[p]
           /\ ctx'[p] = ctx[p] /\ parked'[p] = parked[p]
  BY <1>2 DEF Good, TypeOK
<1>8. cpu' = cpu /\ procp' = procp
  BY DEF palloc
<1>9. Live' /\ Asleep' /\ Saved'
  BY <1>7, <1>8 DEF Good, Running, Live, Asleep, Saved
<1>10. OnCpu' /\ Scanning'
  BY <1>1, <1>4, <1>5, <1>6, <1>8 DEF OnCpu, Switching, Scanning, Top
<1>11. InSleep'
  BY <1>1, <1>3, <1>6, <1>7 DEF Good, Running, InSleep
<1>12. Exiting'
  <2>1. \A p \in Proc : \A h \in Frames(stack'[p]) : h.pc = "exit" => stat'[p] = "ZOMB"
    <3>1. \A h \in Frames(stack'[np]) \cup Frames(stack'[cpu]) : h.pc # "exit"
      BY <1>4, <1>5, <1>6
    <3> QED
      BY <1>6, <1>7, <3>1 DEF Good, Running, Exiting
  <2> QED
    BY <1>1, <1>3, <1>7, <1>8, <2>1 DEF Exiting
<1>13. Boot'
  BY <1>3, <1>7, SchedConstants DEF Good, Running, Boot, Proc
<1>14. Forking'
  <2>1. \A p \in Proc : ForkLast(stack'[p])
    BY <1>4, <1>5, <1>6 DEF Good, Running, Forking
  <2>2. /\ Frames(stack'[cpu]) = {g} /\ \A h \in Frames(stack'[np]) : h.pc # "fork"
    BY <1>4, <1>5, <1>6
  <2>3. \A p \in Proc \ {cpu} : \A h \in Frames(stack'[p]) :
          h.pc = "fork" => /\ h \in Frames(stack[p]) /\ h.arg \in Proc \ {np}
                           /\ stat[h.arg] = "SET"
    BY <1>2, <1>6, <2>2, ForkArgs DEF Good, Running, Forking
  <2>4. \A p \in Proc : \A h \in Frames(stack'[p]) : h.pc = "fork" => stat'[h.arg] = "SET"
    BY <1>4, <1>7, <2>2, <2>3
  <2>5. \A p, q \in Proc : \A h \in Frames(stack'[p]), j \in Frames(stack'[q]) :
          p # q /\ h.pc = "fork" /\ j.pc = "fork" => h.arg # j.arg
    <3>1. SUFFICES ASSUME NEW p \in Proc, NEW q \in Proc, NEW h \in Frames(stack'[p]),
                          NEW j \in Frames(stack'[q]),
                          p # q, h.pc = "fork", j.pc = "fork"
                   PROVE  h.arg # j.arg
      OBVIOUS
    <3>2. CASE p = cpu
      BY <3>1, <3>2, <2>2, <2>3, <1>4
    <3>3. CASE q = cpu
      BY <3>1, <3>3, <2>2, <2>3, <1>4
    <3>4. CASE p # cpu /\ q # cpu
      BY <3>1, <3>4, <2>3 DEF Good, Running, Forking
    <3> QED
      BY <3>2, <3>3, <3>4
  <2> QED
    BY <1>1, <1>3, <1>7, <1>8, <2>1, <2>4, <2>5 DEF Forking
<1>15. Untorn'
  <2>1. NoSwitch(stack'[np])
    BY <1>4, <1>5, <1>6 DEF NoSwitch, SwitchPC
  <2>2. NoSwitch(Tail(stack'[cpu]))
    BY <1>4, <1>5, <1>6 DEF NoSwitch
  <2> QED
    BY <1>6, <1>8, <2>1, <2>2 DEF Good, Running, Untorn
<1> QED
  BY <1>9, <1>10, <1>11, <1>12, <1>13, <1>14, <1>15 DEF Running

\* A step of sched() from the end of its scan up to swtch().
LEMMA SwitchingStep ==
  ASSUME Good, NEW pc \in {"scan", "idle", "switch"}, At(pc),
         UNCHANGED <<procvars, swvars>>,
         NEW f \in Frame, Become(f), f.pc \in SwitchPC,
         f.old = cpu, f.new = procp', procp' # cpu, procp' \in Proc,
         stat[procp'] \in {"RUN", "SLEEP"},
         f.pc = "swtch" => f.arg = procp'
  PROVE  Running' /\ Live' /\ Asleep'
<1>1. /\ stack[cpu] # <<>> /\ ForkLast(Tail(stack[cpu]))
      /\ NoSwitch(Tail(stack[cpu])) /\ Tail(stack[cpu]) \in Seq(Frame)
      /\ Frames(stack[cpu]) = {Top} \cup Frames(Tail(stack[cpu])) /\ Top.pc = pc
      /\ cpu \in Proc
  BY GoodAt DEF Good, Stacks
<1>2. /\ stack' \in [Proc -> Seq(Frame)]
      /\ \A p \in Proc \ {cpu} : stack'[p] = stack[p]
      /\ stack'[cpu] # <<>>
      /\ Head(stack'[cpu]) = f
      /\ Tail(stack'[cpu]) = Tail(stack[cpu])
      /\ Frames(stack'[cpu]) = {f} \cup Frames(Tail(stack[cpu]))
  BY <1>1, BecomeEffect DEF Good
<1>3. /\ stat' = stat /\ wchan' = wchan /\ pproc' = pproc /\ ctx' = ctx
      /\ cpu' = cpu /\ parked' = parked
  BY DEF procvars, swvars
<1>4. ForkLast(stack'[cpu])
  BY <1>1, <1>2, ForkCons DEF SwitchPC
<1>5. Live' /\ Asleep' /\ Saved' /\ Boot'
  BY <1>3 DEF Good, Running, Live, Asleep, Saved, Boot
<1>6. OnCpu' /\ Scanning'
  BY <1>2, <1>3 DEF OnCpu, Switching, Scanning, Top, SwitchPC
<1>7. InSleep'
  BY <1>1, <1>2, <1>3 DEF Good, Running, InSleep
<1>8. Exiting'
  BY <1>1, <1>2, <1>3 DEF Good, Running, Exiting, Top, SwitchPC
<1>9. Forking'
  <2>1. \A p \in Proc : ForkLast(stack'[p])
    BY <1>2, <1>4 DEF Good, Running, Forking
  <2>2. \A p \in Proc : \A h \in Frames(stack'[p]) :
          h.pc = "fork" => h \in Frames(stack[p])
    BY <1>1, <1>2 DEF SwitchPC
  <2> QED
    BY <1>3, <2>1, <2>2 DEF Good, Running, Forking
<1>10. Untorn'
  BY <1>1, <1>2, <1>3 DEF Good, Running, Untorn
<1> QED
  BY <1>5, <1>6, <1>7, <1>8, <1>9, <1>10 DEF Running

\* sched() has chosen and sets user.procp, before its popcli().
LEMMA CommitStep ==
  ASSUME Good, SchedCommit
  PROVE  Running' /\ Live' /\ Asleep'
<1>1. PICK pc \in {"scan", "idle"} : At(pc)
  BY DEF SchedCommit, Scanned
<1>2. stack[cpu] # <<>> /\ Top.pc = pc /\ cpu = procp /\ Top \in Frame /\ cpu \in Proc
  BY <1>1, GoodAt DEF SwitchPC, Good, Stacks
<1>3. Top.new \in Proc /\ procp' = Top.new /\ Top.new # procp
  BY <1>2, FrameFields DEF SchedCommit
<1>4. stat[Top.new] \in {"RUN", "SLEEP"}
  BY <1>1, <1>2, <1>3, SchedConstants DEF Good, Running, Scanning, SchedCommit
<1> DEFINE f == SwitchF("switch", Nil, procp, Top.new)
<1>5. f \in Frame /\ f.pc = "switch" /\ f.old = procp /\ f.new = Top.new
  BY <1>2, <1>3, SwitchFrame
<1>6. Become(f) /\ UNCHANGED <<procvars, swvars>>
  BY DEF SchedCommit
<1> HIDE DEF f
<1> QED
  BY <1>1, <1>2, <1>3, <1>4, <1>5, <1>6, SwitchingStep DEF SwitchPC

\* sched() takes the saved context of what it chose, to give it to swtch().
LEMMA LoadStep ==
  ASSUME Good, SchedLoad
  PROVE  Running' /\ Live' /\ Asleep'
<1>1. /\ At("switch") /\ procp' = procp /\ UNCHANGED <<procvars, swvars>>
      /\ procp \in Proc /\ cpu \in Proc
  BY DEF SchedLoad, Good, TypeOK
<1>2. stack[cpu] # <<>> /\ Top.pc = "switch"
  BY <1>1, GoodAt
<1>3. /\ Top.old = cpu /\ Top.new = procp /\ cpu # procp
      /\ stat[procp] \in {"RUN", "SLEEP"}
  BY <1>2 DEF Good, Running, OnCpu, Switching
<1>4. ctx[procp] = procp
  BY <1>1, <1>3 DEF Good, Running, Saved
<1> DEFINE f == SwitchF("swtch", procp, cpu, procp)
<1>5. f \in Frame /\ f.pc = "swtch" /\ f.old = cpu /\ f.new = procp /\ f.arg = procp
  BY <1>1, SwitchFrame
<1>6. Become(f)
  BY <1>3, <1>4 DEF SchedLoad
<1> HIDE DEF f
<1> QED
  BY <1>1, <1>3, <1>5, <1>6, SwitchingStep DEF SwitchPC

\* swtch() finds the context it was given, and leaves its own.
LEMMA SwtchStep ==
  ASSUME Good, swtch
  PROVE  Running' /\ Live' /\ Asleep' /\ halt' = "no"
<1>1. /\ procp' = procp /\ procp \in Proc /\ cpu \in Proc /\ At("swtch")
      /\ stat' = stat /\ wchan' = wchan /\ pproc' = pproc
  BY DEF swtch, Good, TypeOK, procvars
<1>2. /\ stack[cpu] # <<>> /\ Top.pc = "swtch" /\ ForkLast(Tail(stack[cpu]))
      /\ NoSwitch(Tail(stack[cpu]))
      /\ Frames(stack[cpu]) = {Top} \cup Frames(Tail(stack[cpu]))
      /\ stat[cpu] \notin {"SET", "UNUSED"}
  BY <1>1, GoodAt
<1>3. /\ Top.old = cpu /\ Top.new = procp /\ cpu # procp /\ Top.arg = procp
      /\ stat[procp] \in {"RUN", "SLEEP"}
  BY <1>2 DEF Good, Running, OnCpu, Switching
<1>4. parked[procp] = procp
  BY <1>1, <1>3 DEF Good, Running, Saved
<1>5. /\ cpu' = procp /\ halt' = "no"
      /\ parked' = [parked EXCEPT ![cpu] = cpu, ![procp] = Nil]
      /\ ctx' = [ctx EXCEPT ![cpu] = cpu]
  BY <1>1, <1>3, <1>4 DEF swtch, Good
<1>6. /\ parked'[cpu] = cpu /\ parked'[procp] = Nil /\ ctx'[cpu] = cpu
      /\ \A p \in Proc \ {cpu, procp} : parked'[p] = parked[p] /\ ctx'[p] = ctx[p]
  BY <1>1, <1>3, <1>5 DEF Good, TypeOK
<1>7. /\ \A p \in Proc \ {cpu} : stack'[p] = stack[p]
      /\ stack'[cpu] = Tail(stack[cpu])
      /\ Frames(stack'[cpu]) \subseteq Frames(stack[cpu])
  BY <1>2, ReturnEffect DEF swtch, Good
<1>8. \A p \in Proc : Frames(stack'[p]) \subseteq Frames(stack[p])
  BY <1>7
<1>9. /\ stack'[procp] = stack[procp] /\ NoSwitch(stack[procp]) /\ CliFree(stack[procp])
      /\ stack[procp] \in Seq(Frame)
  BY <1>1, <1>3, <1>7 DEF Good, Running, Untorn, CliInv, CliDiscipline, Stacks
<1>10. stack[procp] # <<>> =>
         /\ Head(stack[procp]) \in Frames(stack[procp])
         /\ Frames(Tail(stack[procp])) \subseteq Frames(stack[procp])
  BY <1>9, Pop
<1>11. Live' /\ Asleep' /\ Saved' /\ Boot'
  <2>1. Live'
    BY <1>1, <1>2, <1>3, <1>5, <1>6 DEF Good, Live
  <2>2. Asleep'
    BY <1>1 DEF Good, Asleep
  <2>3. Saved'
    BY <1>1, <1>5, <1>6 DEF Good, Running, Saved
  <2>4. Boot'
    BY <1>1, <1>3, <1>5, <1>6 DEF Good, Running, Boot
  <2> QED
    BY <2>1, <2>2, <2>3, <2>4
<1>12. OnCpu'
  BY <1>1, <1>5, <1>9, <1>10 DEF OnCpu, Switching, Top, NoSwitch, SwitchPC
<1>13. Scanning'
  BY <1>5, <1>9, <1>10 DEF Scanning, Top, CliFree, InCli
<1>14. InSleep'
  BY <1>1, <1>2, <1>7 DEF Good, Running, InSleep
<1>15. Exiting'
  <2>1. \A p \in Proc : \A f \in Frames(stack'[p]) : f.pc = "exit" => stat'[p] = "ZOMB"
    BY <1>1, <1>8 DEF Good, Running, Exiting
  <2>2. stat'[cpu'] # "ZOMB"
    BY <1>1, <1>3, <1>5
  <2> QED
    BY <2>1, <2>2 DEF Exiting
<1>16. Forking'
  <2>1. \A p \in Proc : ForkLast(stack'[p])
    BY <1>2, <1>7 DEF Good, Running, Forking
  <2> QED
    BY <1>1, <1>3, <1>5, <1>8, <2>1 DEF Good, Running, Forking
<1>17. Untorn'
  <2>1. \A p \in Proc : NoSwitch(stack'[p])
    BY <1>2, <1>7 DEF Good, Running, Untorn
  <2> QED
    BY <1>5, <1>9, <1>10, <2>1 DEF Untorn, NoSwitch
<1> QED
  BY <1>5, <1>11, <1>12, <1>13, <1>14, <1>15, <1>16, <1>17 DEF Running

\* A palloc() that finds no memory only clears an unused slot.
LEMMA PallocFailStep ==
  ASSUME Good, PallocFail
  PROVE  Running' /\ Live' /\ Asleep'
<1>1. PICK np \in Proc : /\ stat[np] = "UNUSED"
                         /\ wchan' = [wchan EXCEPT ![np] = Nil]
                         /\ pproc' = [pproc EXCEPT ![np] = Nil]
                         /\ ctx'   = [ctx EXCEPT ![np] = Nil]
  BY DEF PallocFail
<1>2. /\ stat' = stat /\ cpu' = cpu /\ parked' = parked /\ procp' = procp
      /\ stack' = stack
  BY DEF PallocFail
<1>3. /\ wchan'[np] = Nil /\ pproc'[np] = Nil
      /\ \A p \in Proc \ {np} : wchan'[p] = wchan[p] /\ pproc'[p] = pproc[p] /\ ctx'[p] = ctx[p]
  BY <1>1 DEF Good, TypeOK
<1>4. Live'
  BY <1>2 DEF Good, Live
<1>5. Asleep'
  BY <1>1, <1>2, <1>3 DEF Good, Asleep
<1>6. Saved'
  BY <1>1, <1>2, <1>3 DEF Good, Running, Saved
<1>7. Boot'
  <2>1. 0 \in Proc
    BY SchedConstants DEF Proc
  <2> QED
    BY <1>1, <1>2, <1>3, <2>1 DEF Good, Running, Boot
<1>8. OnCpu' /\ InSleep' /\ Exiting' /\ Forking' /\ Scanning' /\ Untorn'
  BY <1>2 DEF Good, Running, OnCpu, Switching, Top, InSleep, Exiting, Forking, Scanning, Untorn
<1> QED
  BY <1>4, <1>5, <1>6, <1>7, <1>8 DEF Running

\* Every step keeps the invariant.
LEMMA SafeNext == CliInv /\ SafeInv /\ [Next]_vars => SafeInv'
<1> SUFFICES ASSUME CliInv, SafeInv, [Next]_vars, ~torn' PROVE SafeInv'
  BY DEF SafeInv
<1>1. CASE UNCHANGED vars
  <2>1. /\ stat' = stat /\ wchan' = wchan /\ pproc' = pproc /\ ctx' = ctx /\ cpu' = cpu
        /\ parked' = parked /\ procp' = procp /\ stack' = stack /\ halt' = halt /\ torn' = torn
    BY <1>1 DEF vars, procvars, swvars
  <2>2. Live' <=> Live
    BY <2>1 DEF Live
  <2>3. Asleep' <=> Asleep
    BY <2>1 DEF Asleep
  <2>4. Running' <=> Running
    BY <2>1 DEF Running, OnCpu, Switching, Top, Saved, InSleep, Exiting, Boot, Forking,
                Scanning, Untorn
  <2> QED
    BY <2>1, <2>2, <2>3, <2>4 DEF SafeInv
<1>2. CASE Next
  <2>1. ~torn
    BY <1>2 DEF Next, Kernel, User, Intr, Sleep, SleepLoop, IoReturn, collect_zombies,
       IoAgain, IoRelease, Panic, ZombieExit, ForkDone, ForkFail, SchedEnter, SchedScan, Scan,
       SchedStay, SchedZombie, SchedIdle, NoProc, SchedCommit, SchedLoad, swtch,
       TrapReturn, SysWait, SysExit, palloc, PallocFail, SysIo, Timer, EarlyIdeIntr, DevIntr
  <2>2. halt = "no"
    BY <1>2 DEF Next, Kernel, User, Intr, Sleep, SleepLoop, IoReturn, collect_zombies,
       IoAgain, IoRelease, Panic, ZombieExit, ForkDone, ForkFail, SchedEnter, SchedScan, Scan,
       SchedStay, SchedZombie, SchedIdle, NoProc, SchedCommit, SchedLoad, swtch,
       TrapReturn, SysWait, SysExit, palloc, PallocFail, SysIo, Timer, EarlyIdeIntr, DevIntr,
       At, UserMode, Scanned
  <2>3. Good
    BY <2>1, <2>2 DEF Good, SafeInv, CliInv, TypeOK, Stacks
  <2>s. ASSUME Running' /\ Live' /\ Asleep', halt' = "no" PROVE SafeInv'
    BY <2>s DEF SafeInv
  <2>4. CASE SysWait
    <3>1. F("sleep", procp) \in Frame /\ F("sleep", procp).pc = "sleep"
      BY <2>3, SleepFrame DEF Good, TypeOK
    <3>2. F("wait", Nil) \in Frame /\ F("wait", Nil).pc = "wait"
      BY PlainFrame DEF PC
    <3>3. Running' /\ Live' /\ Asleep'
      BY <2>3, <2>4, <3>1, <3>2, PushStep DEF SysWait
    <3> QED
      BY <2>2, <2>4, <2>s, <3>3 DEF SysWait
  <2>5. ASSUME NEW c \in Chan, SysIo(c) PROVE SafeInv'
    <3>1. F("sleep", c) \in Frame /\ F("sleep", c).pc = "sleep"
      BY SleepFrame
    <3>2. F("io", Nil) \in Frame /\ F("io", Nil).pc = "io"
      BY PlainFrame DEF PC
    <3>3. Running' /\ Live' /\ Asleep'
      BY <2>3, <2>5, <3>1, <3>2, PushStep DEF SysIo
    <3> QED
      BY <2>2, <2>5, <2>s, <3>3 DEF SysIo
  <2>6. CASE Sleep
    BY <2>2, <2>3, <2>6, <2>s, SleepStep DEF Sleep
  <2>7. CASE SleepLoop
    <3>1. At("sleeping") /\ UNCHANGED <<procvars, swvars, procp>> /\ halt' = halt
      BY <2>7 DEF SleepLoop
    <3>2. cpu = procp /\ stat[cpu] # "ZOMB" /\ cpu \in Proc
      BY <2>3, <3>1, GoodAt DEF SwitchPC, Good, Stacks
    <3>3. CASE wchan[procp] # Nil
      <4>1. F("sched", Nil) \in Frame /\ F("sched", Nil).pc = "sched"
        BY PlainFrame DEF PC
      <4>2. Call(F("sched", Nil))
        BY <2>7, <3>3 DEF SleepLoop
      <4>3. Running' /\ Live' /\ Asleep'
        BY <2>3, <3>1, <4>1, <4>2, CallStep
      <4> QED
        BY <2>2, <2>s, <3>1, <4>3
    <3>4. CASE wchan[procp] = Nil
      <4>1. Return
        BY <2>7, <3>4 DEF SleepLoop
      <4>2. stat[cpu] # "SLEEP"
        BY <2>3, <3>2, <3>4 DEF Good, Asleep
      <4>3. Running' /\ Live' /\ Asleep'
        BY <2>3, <3>1, <3>2, <4>1, <4>2, ReturnStep DEF SwitchPC
      <4> QED
        BY <2>2, <2>s, <3>1, <4>3
    <3> QED
      BY <3>3, <3>4
  <2>8. ASSUME NEW c \in Chan, IoAgain(c) PROVE SafeInv'
    <3>1. F("sleep", c) \in Frame /\ F("sleep", c).pc = "sleep"
      BY SleepFrame
    <3>2. Running' /\ Live' /\ Asleep'
      BY <2>3, <2>8, <3>1, CallStep DEF IoAgain
    <3> QED
      BY <2>2, <2>8, <2>s, <3>2 DEF IoAgain
  <2>9. ASSUME NEW c \in Chan, IoRelease(c) \/ DevIntr(c) PROVE SafeInv'
    <3>1. ncli = 0
      BY <2>9, AtOutside DEF IoRelease, DevIntr, CliInv, CliDiscipline
    <3>2. Running' /\ Live' /\ Asleep'
      BY <2>3, <2>9, <3>1, WakeStep DEF IoRelease, DevIntr
    <3> QED
      BY <2>2, <2>9, <2>s, <3>2 DEF IoRelease, DevIntr
  <2>10. CASE EarlyIdeIntr
    <3>1. /\ stat'  = [p \in Proc |-> IF wchan[p] = Nil THEN "RUN" ELSE stat[p]]
          /\ wchan' = [p \in Proc |-> IF wchan[p] = Nil THEN Nil ELSE wchan[p]]
          /\ parked' = parked /\ cpu' = cpu /\ halt' = "null wakeup"
      BY <2>10 DEF EarlyIdeIntr, wakeup, Woken, swvars
    <3>2. Live' /\ Asleep'
      BY <2>3, <3>1 DEF Good, Live, Asleep
    <3> QED
      BY <3>1, <3>2 DEF SafeInv
  <2>11. ASSUME NEW pc \in {"io", "trap", "trapret"}, At(pc), Iret,
                UNCHANGED <<procvars, swvars, procp, rover, halt, torn>>
         PROVE  SafeInv'
    <3>1. stat[cpu] # "ZOMB"
      BY <2>3, <2>11, GoodAt DEF SwitchPC
    <3>2. Running' /\ Live' /\ Asleep'
      BY <2>3, <2>11, <3>1, ReturnStep DEF SwitchPC, Iret
    <3> QED
      BY <2>2, <2>11, <2>s, <3>2
  <2>12. CASE collect_zombies
    BY <2>2, <2>3, <2>12, <2>s, CollectStep DEF collect_zombies
  <2>13. CASE SysExit
    BY <2>2, <2>3, <2>13, <2>s, ExitStep DEF SysExit
  <2>14. ASSUME ZombieExit PROVE FALSE
    <3>1. /\ Top.pc = "exit" /\ stat[cpu] # "ZOMB"
          /\ Frames(stack[cpu]) = {Top} \cup Frames(Tail(stack[cpu]))
      <4>1. At("exit")
        BY <2>14 DEF ZombieExit
      <4>2. "exit" \notin {"sched", "scan", "idle"} \cup SwitchPC
        BY DEF SwitchPC
      <4> QED
        BY <2>3, <4>1, <4>2, GoodAt
    <3>2. cpu \in Proc
      BY <2>3 DEF Good, TypeOK
    <3> QED
      BY <2>3, <3>1, <3>2 DEF Good, Running, Exiting
  <2>15. CASE palloc
    BY <2>2, <2>3, <2>15, <2>s, PallocStep DEF palloc
  <2>29. CASE PallocFail
    BY <2>2, <2>3, <2>29, <2>s, PallocFailStep DEF PallocFail
  <2>16. CASE ForkDone
    BY <2>2, <2>3, <2>16, <2>s, ForkDoneStep DEF ForkDone
  <2>17. CASE ForkFail
    BY <2>2, <2>3, <2>17, <2>s, ForkFailStep DEF ForkFail
  <2>18. CASE SchedEnter
    <3>1. 0 \in 0 .. NPROC
      BY SchedConstants
    <3>2. /\ ScanF("scan", 0, Nil) \in Frame /\ ScanF("scan", 0, Nil).pc = "scan"
          /\ ScanF("scan", 0, Nil).new = Nil
      BY <3>1, ScanFrame
    <3>3. Running' /\ Live' /\ Asleep'
      BY <2>3, <2>18, <3>2, BecomeStep DEF SchedEnter
    <3> QED
      BY <2>2, <2>18, <2>s, <3>3 DEF SchedEnter
  <2>19. ASSUME NEW pc, NEW st, Scan(pc, st),
                <<pc, st>> \in {<<"scan", "RUN">>, <<"idle", "SLEEP">>}
         PROVE  SafeInv'
    <3> DEFINE j == (rover + Top.i) % NPROC
               n == IF stat[j] = st THEN j ELSE Top.new
               f == ScanF(pc, Top.i + 1, n)
    <3>0. (pc = "scan" /\ st = "RUN") \/ (pc = "idle" /\ st = "SLEEP")
      BY <2>19
    <3>1. /\ Top \in Frame /\ Top.pc = pc /\ cpu = procp /\ stack[cpu] # <<>>
          /\ At(pc)
      BY <2>3, <2>19, <3>0, GoodAt DEF Scan, SwitchPC
    <3>2. Top.i \in 0 .. NPROC - 1 /\ Top.new \in Proc \cup {Nil}
      BY <2>19, <3>1, FrameFields, SchedConstants DEF Scan
    <3>3. j \in Proc
      <4>1. NPROC \in Nat /\ NPROC > 0
        BY SchedConstants
      <4>2. rover \in 0 .. NPROC - 1
        BY <2>3 DEF Good, TypeOK
      <4>3. rover + Top.i \in Nat
        BY <4>1, <4>2, <3>2
      <4> QED
        BY <4>1, <4>3 DEF Proc
    <3>4. Become(f) /\ UNCHANGED <<procvars, swvars, procp, halt>>
      BY <2>19 DEF Scan
    <3> HIDE DEF j
    <3>5. n \in Proc \cup {Nil}
      BY <3>2, <3>3
    <3>6. /\ pc = "scan" /\ n # Nil => stat[n] = "RUN"
          /\ pc = "idle" => stat[procp] = "ZOMB"
          /\ pc = "idle" /\ n # Nil => stat[n] = "SLEEP"
      BY <2>3, <3>0, <3>1 DEF Good, Running, Scanning
    <3> HIDE DEF n
    <3>7. f \in Frame /\ f.pc = pc /\ f.new = n
      <4>1. Top.i + 1 \in 0 .. NPROC
        BY <3>2, SchedConstants
      <4> QED
        BY <3>0, <3>5, <4>1, ScanFrame
    <3> HIDE DEF f
    <3>8. Running' /\ Live' /\ Asleep'
      BY <2>3, <3>0, <3>1, <3>4, <3>6, <3>7, BecomeStep
    <3> QED
      BY <2>2, <2>s, <3>4, <3>8
  <2>20. CASE SchedStay
    <3>1. /\ At("scan") /\ Return /\ UNCHANGED <<procvars, swvars, procp>> /\ halt' = halt
      BY <2>20 DEF SchedStay, Scanned
    <3>2. stack[cpu] # <<>> /\ Top.pc = "scan" /\ cpu = procp
      BY <2>3, <3>1, GoodAt DEF SwitchPC
    <3>p. procp \in Proc
      BY <2>3 DEF Good, TypeOK
    <3>3. stat[cpu] # "ZOMB"
      BY <2>3, <2>20, <3>2, <3>p, SchedConstants DEF SchedStay, Good, Running, Scanning, Proc, Nil
    <3>4. Running' /\ Live' /\ Asleep'
      BY <2>3, <3>1, <3>3, ReturnStep DEF SwitchPC
    <3> QED
      BY <2>2, <2>s, <3>1, <3>4
  <2>21. CASE SchedZombie
    <3>1. 0 \in 0 .. NPROC
      BY SchedConstants
    <3>2. /\ ScanF("idle", 0, Nil) \in Frame /\ ScanF("idle", 0, Nil).pc = "idle"
          /\ ScanF("idle", 0, Nil).new = Nil
      BY <3>1, ScanFrame
    <3>3. Running' /\ Live' /\ Asleep'
      BY <2>3, <2>21, <3>2, BecomeStep DEF SchedZombie, Scanned
    <3> QED
      BY <2>2, <2>21, <2>s, <3>3 DEF SchedZombie
  <2>22. CASE Panic
    <3>1. /\ stat' = stat /\ wchan' = wchan /\ parked' = parked /\ cpu' = cpu
          /\ halt' = "no proc."
      BY <2>14, <2>22 DEF Panic, procvars, swvars
    <3> QED
      BY <2>3, <3>1 DEF SafeInv, Good, Live, Asleep
  <2>23. CASE SchedCommit
    BY <2>2, <2>3, <2>23, <2>s, CommitStep DEF SchedCommit
  <2>24. CASE SchedLoad
    BY <2>2, <2>3, <2>24, <2>s, LoadStep DEF SchedLoad
  <2>25. CASE swtch
    BY <2>3, <2>25, <2>s, SwtchStep
  <2>26. CASE Timer
    <3>1. Running' /\ Live' /\ Asleep'
      BY <2>3, <2>26, TimerStep
    <3> QED
      BY <2>2, <2>26, <2>s, <3>1 DEF Timer
  <2>27. IoReturn \/ TrapReturn => SafeInv'
    BY <2>11 DEF IoReturn, TrapReturn
  <2>28. SchedScan \/ SchedIdle => SafeInv'
    BY <2>19 DEF SchedScan, SchedIdle
  <2> QED
    BY <1>2, <2>4, <2>5, <2>6, <2>7, <2>8, <2>9, <2>10, <2>12, <2>13, <2>14, <2>15,
       <2>16, <2>17, <2>18, <2>20, <2>21, <2>22, <2>23, <2>24, <2>25, <2>26, <2>27, <2>28, <2>29
       DEF Next, Kernel, User, Intr
<1> QED
  BY <1>1, <1>2

\* Both layers of the invariant hold in every reachable state.
LEMMA SchedSafe == Spec => [](CliInv /\ SafeInv)
  BY CliInit, CliNext, SafeInit, SafeNext, PTL DEF Spec

\* Until a reschedule lands between popcli() and swtch() in sched(), the CPU is
\* on the stack of user.procp (or about to be) and every process that sched()
\* may choose has a context to load.
THEOREM SchedContextSound == Spec => []ContextSound
<1>1. SafeInv => ContextSound
  BY DEF SafeInv, ContextSound, Running, OnCpu, Saved
<1> QED
  BY SchedSafe, <1>1, PTL

\* Until then sleep() and sched() agree on who is asleep.
THEOREM SchedSleepConsistent == Spec => []SleepConsistent
<1>1. SafeInv => SleepConsistent
  BY DEF SafeInv, SleepConsistent, Asleep
<1> QED
  BY SchedSafe, <1>1, PTL

\* Until then the CPU is not on a freed kernel stack, and a slot that fork is
\* filling is SET and belongs to that fork alone.
THEOREM SchedKstackLive == Spec => []KstackLive
<1>1. CliInv /\ SafeInv => KstackLive
  <2> SUFFICES ASSUME CliInv, SafeInv, ~torn, halt = "no"
               PROVE  /\ stat[cpu] # "UNUSED"
                      /\ \A p, q \in Proc :
                           \A f \in Frames(stack[p]), g \in Frames(stack[q]) :
                             /\ f.pc = "fork" => stat[f.arg] = "SET"
                             /\ p # q /\ f.pc = "fork" /\ g.pc = "fork" => f.arg # g.arg
    BY DEF KstackLive
  <2>1. stat[cpu] # "UNUSED"
    BY DEF SafeInv, Live, CliInv, TypeOK
  <2>2. Forking
    BY DEF SafeInv, Running
  <2> QED
    BY <2>1, <2>2 DEF Forking
<1> QED
  BY SchedSafe, <1>1, PTL

\* Until then sys_exit's panic "zombie exit" is unreachable.
THEOREM SchedZombieNeverReturns == Spec => []ZombieNeverReturns
<1>1. SafeInv => ZombieNeverReturns
  BY DEF SafeInv, ZombieNeverReturns
<1> QED
  BY SchedSafe, <1>1, PTL

\* Until then a zombie leaves the table only through the collect_zombies() of
\* the process it names as its parent, and the boot slot never does.
LEMMA ReapStep ==
  ASSUME CliInv, SafeInv, Next, ~torn, halt' = "no",
         NEW p \in Proc, stat[p] = "ZOMB", stat'[p] # "ZOMB"
  PROVE  stat'[p] = "UNUSED" /\ p # 0 /\ pproc[p] = procp
<1>1. halt = "no"
  BY DEF Next, Kernel, User, Intr, SysWait, SysIo, Sleep, SleepLoop, IoAgain, IoRelease,
         IoReturn, collect_zombies, SysExit, Panic, ZombieExit, palloc, PallocFail, ForkDone, ForkFail,
         SchedEnter, SchedScan, SchedIdle, Scan, Scanned, SchedStay, SchedZombie, NoProc,
         SchedCommit, SchedLoad, swtch, Timer, TrapReturn, DevIntr, EarlyIdeIntr,
         At, UserMode
<1>2. TypeOK /\ Good /\ Asleep /\ Boot
  <2>1. TypeOK /\ Stacks
    BY DEF CliInv, TypeOK, Stacks
  <2>2. Live /\ Asleep /\ Running
    BY <1>1 DEF SafeInv
  <2>3. Boot
    BY <2>2 DEF Running
  <2> QED
    BY <1>1, <2>1, <2>2, <2>3 DEF Good
<1>3. wchan[p] = Nil
  BY <1>2 DEF Asleep
<1>4. procp \in Proc /\ stat \in [Proc -> Stat] /\ Nil \notin Proc
  <2>1. procp \in Proc /\ stat \in [Proc -> Stat]
    BY <1>2 DEF TypeOK
  <2>2. Nil \notin Proc
    BY SchedConstants DEF Proc, Nil
  <2> QED
    BY <2>1, <2>2
<1>5. ASSUME NEW c \in Chan, wakeup(c)
      PROVE  FALSE
  BY <1>3, <1>5, SchedConstants DEF wakeup, Woken
<1>6. ASSUME UNCHANGED stat
      PROVE  FALSE
  BY <1>6
<1>7. CASE Sleep
  <2>1. stat[cpu] # "ZOMB" /\ cpu = procp
    <3>1. At("sleep")
      BY <1>7 DEF Sleep
    <3>2. "sleep" \notin {"sched", "scan", "idle"} \cup SwitchPC
      BY DEF SwitchPC
    <3> QED
      BY <1>2, <3>1, <3>2, GoodAt
  <2> QED
    BY <1>4, <1>7, <2>1 DEF Sleep
<1>8. CASE collect_zombies
  <2>1. pproc[p] = procp /\ stat'[p] = "UNUSED"
    BY <1>8 DEF collect_zombies, pfree
  <2> QED
    BY <1>2, <1>4, <2>1 DEF Boot
<1>9. CASE SysExit
  BY <1>3, <1>4, <1>9 DEF SysExit, Woken
<1>10. CASE palloc
  BY <1>4, <1>10 DEF palloc
<1>11. CASE ForkDone \/ ForkFail
  <2>1. At("fork")
    BY <1>11 DEF ForkDone, ForkFail
  <2>2. Top \in Frames(stack[cpu]) /\ Top.pc = "fork"
    BY <1>2, <2>1, GoodAt
  <2>3. stat[Top.arg] = "SET"
    BY <1>2, <2>2 DEF Good, Running, Forking, TypeOK
  <2> QED
    BY <1>4, <1>11, <2>3 DEF ForkDone, ForkFail, pfree
<1>12. CASE EarlyIdeIntr
  BY <1>12 DEF EarlyIdeIntr
<1>13. CASE \E c \in Chan : IoRelease(c) \/ DevIntr(c)
  BY <1>5, <1>13 DEF IoRelease, DevIntr
<1>14. CASE \/ SysWait \/ SleepLoop \/ IoReturn \/ Panic \/ PallocFail
            \/ \E c \in Chan : SysIo(c) \/ IoAgain(c)
  BY <1>6, <1>14 DEF SysWait, SleepLoop, IoReturn, Panic, PallocFail, SysIo, IoAgain, procvars
<1>15. CASE \/ SchedEnter \/ SchedScan \/ SchedIdle \/ SchedStay \/ SchedZombie
            \/ SchedCommit \/ SchedLoad \/ swtch \/ Timer \/ TrapReturn
  BY <1>6, <1>15 DEF SchedEnter, SchedScan, SchedIdle, Scan, SchedStay, SchedZombie,
     SchedCommit, SchedLoad, swtch, Timer, TrapReturn, procvars
<1> QED
  BY <1>7, <1>8, <1>9, <1>10, <1>11, <1>12, <1>13, <1>14, <1>15
     DEF Next, Kernel, User, Intr

\* A zombie is only freed by wait() in the process it names as its parent.
THEOREM SchedZombieReaped == Spec => ZombieReaped
<1>1. CliInv /\ SafeInv /\ [Next]_vars =>
        [~torn /\ halt' = "no" =>
           \A p \in Proc : stat[p] = "ZOMB" /\ stat'[p] # "ZOMB" =>
             stat'[p] = "UNUSED" /\ p # 0 /\ pproc[p] = procp]_vars
  BY ReapStep
<1> QED
  BY SchedSafe, <1>1, PTL DEF Spec, ZombieReaped
=============================================================================
