------------------------------ MODULE MCBucket ------------------------------
(* Small instances of McdBucket.                                            *)
EXTENDS McdBucket, TLC

CONSTANTS c1, c2, ka, kb

MCCpus == {c1, c2}
MCKeys == {ka, kb}

\* Each CPU has a key of its own, or both work on both keys.
MCWorks ==
    {[c \in MCCpus |-> IF c = c1 THEN {k} ELSE MCKeys \ {k}] : k \in MCKeys}
    \cup {[c \in MCCpus |-> MCKeys]}

MCSymmetry == Permutations(MCCpus) \cup Permutations(MCKeys)
=============================================================================
