-------------------------------- MODULE Lists --------------------------------
(***************************************************************************)
(* Sorting and filtering, without operators as arguments: the order and    *)
(* the test are sets.                                                      *)
(***************************************************************************)
EXTENDS Naturals, Sequences, FiniteSets

\* The members of S in the order that the set R of pairs is of them: each at
\* the place that the number of those before it gives.
Sorted(S, R) ==
    [k \in 1 .. Cardinality(S) |->
        CHOOSE x \in S : Cardinality({y \in S : <<y, x>> \in R}) = k - 1]

\* The numbers of a set, ascending.
Ascending(S) == Sorted(S, {p \in S \X S : p[1] < p[2]})

\* The entries of s that are in A, in their order.
Only(s, A) ==
    LET at == Ascending({i \in DOMAIN s : s[i] \in A})
    IN  [k \in DOMAIN at |-> s[at[k]]]
=============================================================================
