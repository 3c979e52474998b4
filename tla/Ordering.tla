----------------------------- MODULE Ordering -----------------------------
(***************************************************************************)
(* std::sort, std::stable_sort, ORDER BY and the filtering of a sequence,   *)
(* as the modules of this project need them: by counting, without recursion *)
(* and without operators as arguments, so that they can be reasoned about.  *)
(***************************************************************************)
EXTENDS Integers, FiniteSets

\* The sequence of the elements of S in the order of R, a set of pairs that is
\* a strict total order on S: the k-th is the one with k - 1 before it.
Arranged(S, R) ==
    [k \in 1..Cardinality(S) |->
        CHOOSE x \in S : Cardinality({y \in S : <<y, x>> \in R}) = k - 1]

\* Pairs of numbers in ascending order.
Ascending(numbers) == {p \in numbers \X numbers : p[1] < p[2]}

\* A sequence of numbers in ascending order.
InAscendingOrder(values) ==
    LET order == Arranged(DOMAIN values,
                   {p \in (DOMAIN values) \X (DOMAIN values) :
                      \/ values[p[1]] < values[p[2]]
                      \/ values[p[1]] = values[p[2]] /\ p[1] < p[2]})
    IN  [k \in DOMAIN order |-> values[order[k]]]

\* The elements of a sequence at the given positions, in their order.
AtPositions(s, positions) ==
    LET order == Arranged(positions, Ascending(positions))
    IN  [k \in DOMAIN order |-> s[order[k]]]
===========================================================================
