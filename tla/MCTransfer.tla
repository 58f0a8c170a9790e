---------------------------- MODULE MCTransfer -----------------------------
(* Small instances of McdTransfer.                                          *)
EXTENDS McdTransfer, TLC

CONSTANTS v1, v2, a, b

MCTwoCpus == {v1, v2}
MCTwoKeys == {a, b}

\* With pages of two cells: a needs one page, b two parts through one page
\* (the second part is not a full page) or one part through two pages.
MCSizes == a :> 2 @@ b :> 3

\* b needs three parts through one page, two through two.
MCLarge == a :> 1 @@ b :> 5

Plan(o, n, f, r) == [ops |-> o, max |-> n, fails |-> f, ring |-> r]

\* Everything, with a ring that fills; page-outs only, with one that cannot.
MCPlans == {Plan({"out", "in", "del", "add", "flush"}, 4, TRUE, 4),
            Plan({"out", "del", "add"}, 5, FALSE, 6)}
MCInPlans == {Plan({"out", "in"}, 3, FALSE, 4)}
MCRestartPlans == {Plan({"out", "in", "flush", "stop"}, 4, TRUE, 4)}
MCStopPlans == {Plan({"out", "stop"}, 3, FALSE, 4)}
============================================================================
