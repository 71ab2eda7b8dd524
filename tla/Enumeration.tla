---------------------------- MODULE Enumeration ----------------------------
(***************************************************************************)
(* Positions in order, what is at them, and folds over positions, written  *)
(* without RECURSIVE operators so that what is built from them can be      *)
(* proved about.                                                           *)
(***************************************************************************)
EXTENDS Integers, FiniteSets

\* The k-th element of a set of positions.
Rank(S, i) == Cardinality({j \in S : j <= i})
Nth(S, k) == CHOOSE i \in S : Rank(S, i) = k

\* A set of positions as an increasing sequence.
InOrder(S) == [k \in 1 .. Cardinality(S) |-> Nth(S, k)]

\* What a sequence has at a set of positions, in order.
Those(s, S) == [k \in 1 .. Cardinality(S) |-> s[Nth(S, k)]]

\* A sequence sorted; equals stay in the order they came.
Sorted(s, Before(_, _)) ==
    LET First(i, j) == Before(s[i], s[j]) \/ (i < j /\ ~Before(s[j], s[i]))
    IN  [k \in DOMAIN s |->
            s[CHOOSE i \in DOMAIN s : Cardinality({j \in DOMAIN s : First(j, i)}) = k - 1]]

\* From e, through the positions 1 to n.
Through(Step(_, _), e, n) ==
    LET s[i \in 0 .. n] == IF i = 0 THEN e ELSE Step(s[i - 1], i) IN s[n]

Total(weight, n) == Through(LAMBDA sum, i : sum + weight[i], 0, n)
=============================================================================
