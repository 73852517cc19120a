----------------------------- MODULE PageLedger -----------------------------
(***************************************************************************)
(* What the memory of mixv6 promises, without page tables: a ledger of who *)
(* holds each page.  A process takes free pages one at a time and keeps    *)
(* them until it returns them, or gives a child that has nothing but its   *)
(* stack an address space, or its parent reaps it.  A returned address     *)
(* space leaves at most Waste pages that nobody gets again.                *)
(***************************************************************************)
EXTENDS Integers, FiniteSets

CONSTANTS Page, Proc, Waste      \* Waste is a natural number

VARIABLES
  free,    \* pages nobody holds
  held     \* pairs of a process and a page that it holds

ledger == <<free, held>>

Of(Q)    == {h \in held : h[1] \in Q}
Pages(H) == {h[2] : h \in H}

\* What a step adds to the pairs and what it takes away.
Taken == held' \ held
Given == held \ held'

Take(p, taken) ==
  /\ \E x \in free \ free' : free' = free \ {x} /\ taken = {<<p, x>>}

\* Processes of Q give pages back, all but waste of them to the free list.
GiveBack(Q, waste, given) ==
  /\ given \subseteq Of(Q)
  /\ free \subseteq free' /\ free' \ free \subseteq Pages(given)
  /\ Cardinality(given) <= Cardinality(free' \ free) + waste

Return(p, given) == GiveBack({p}, Waste, given)

Reap(Q, given) == given = Of(Q) /\ GiveBack(Q, Waste * Cardinality(Q), given)

Endow(p, q, given, taken) ==
  /\ free' = free
  /\ Cardinality(Of({q})) = 1
  /\ given \subseteq Of({p}) /\ taken = {<<q, x>> : x \in Pages(given)}

Init == \E p \in Proc : free \subseteq Page /\ held = {<<p, x>> : x \in Page \ free}

Next ==
  \E given \in {Given}, taken \in {Taken} :
    \/ given = {} /\ \E p \in Proc : Take(p, taken)
    \/ taken = {} /\ \E p \in Proc : Return(p, given)
    \/ taken = {} /\ \E Q \in SUBSET Proc : Reap(Q, given)
    \/ \E p, q \in Proc : Endow(p, q, given, taken)

Spec == Init /\ [][Next]_ledger
=============================================================================
