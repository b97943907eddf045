----------------------------- MODULE AgreedLog -----------------------------
(***************************************************************************)
(* What a replicated log promises its services: there is one sequence of   *)
(* commands, which only grows, and each service applies it from the start, *)
(* in order and without a gap, some of them further than others.           *)
(***************************************************************************)
EXTENDS Naturals, Sequences

CONSTANT Node

VARIABLES
    agreed,   \* the commands agreed on
    applied   \* applied[n]: what the service of n has applied

Begins(s, t) == Len(s) <= Len(t) /\ s = SubSeq(t, 1, Len(s))

Init ==
    /\ agreed = <<>>
    /\ applied = [n \in Node |-> <<>>]

\* The service of n applies more of what is agreed, which may be new.
Apply(n) ==
    /\ Begins(agreed, agreed')
    /\ \A m \in Node \ {n} : applied'[m] = applied[m]
    /\ Begins(applied[n], applied'[n])
    /\ Begins(applied'[n], agreed')

Next == \E n \in Node : Apply(n)

Spec == Init /\ [][Next]_<<agreed, applied>>
=============================================================================
