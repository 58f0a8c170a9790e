------------------------------ MODULE MCHeaders -----------------------------
(* Small instances of McdHeaders.                                           *)
EXTENDS McdHeaders, TLC

CONSTANTS c1, c2, p1, p2, p3

MCCpus == {c1, c2}
MCPages == {p1, p2, p3}
\* What comes after the first meeting, of which the invariants say nothing, is
\* not explored.
MCAlone == ~raced

MCSymmetry == Permutations(MCCpus) \cup Permutations(MCPages)
=============================================================================
