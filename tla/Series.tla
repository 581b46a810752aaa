-------------------------------- MODULE Series --------------------------------
(* What the programs do with sequences of numbers: sum() and sorted(). *)
EXTENDS Integers, FiniteSets, Sequences

\* The sum of the entries of a sequence at the positions in S.
SumOver(f, S) ==
    LET sum[i \in 0..Len(f)] == IF i = 0 THEN 0 ELSE sum[i - 1] + (IF i \in S THEN f[i] ELSE 0)
    IN  sum[Len(f)]

\* sorted(S): each element comes after as many as are less.
Ascending(S) == [i \in 1..Cardinality(S) |-> CHOOSE k \in S : Cardinality({l \in S : l < k}) = i - 1]
=============================================================================
