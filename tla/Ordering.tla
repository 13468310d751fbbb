------------------------------- MODULE Ordering -------------------------------
(***************************************************************************)
(* Sets put in order, as the sequences that a loop over them sees.         *)
(***************************************************************************)
EXTENDS Integers, FiniteSets

\* Each member comes after as many others as are before it.
OrderedBy(S, before(_, _)) ==
    [n \in 1..Cardinality(S) |->
        CHOOSE c \in S : Cardinality({d \in S : before(d, c)}) = n - 1]

Increasing(S) == OrderedBy(S, LAMBDA i, j : i < j)

\* The members of a sequence at some of its places, in their order.
Picked(s, places) ==
    LET order == Increasing(places)
    IN [n \in 1..Cardinality(places) |-> s[order[n]]]
=============================================================================
