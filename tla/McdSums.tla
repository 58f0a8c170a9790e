------------------------------ MODULE McdSums -------------------------------
(* The sum of a function over a finite set.                                 *)
EXTENDS Integers, Folds

SumOf(f, S) ==
    MapThenFoldSet(LAMBDA m, n : m + n, 0, LAMBDA x : f[x],
                   LAMBDA T : CHOOSE x \in T : TRUE, S)
=============================================================================
