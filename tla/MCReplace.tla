----------------------------- MODULE MCReplace ------------------------------
(* Small instances of McdReplace.                                           *)
EXTENDS McdReplace, TLC

E(l, b, p, r, q, v) == [list |-> l, bytes |-> b, put |-> p, ref |-> r, query |-> q, val |-> v]

\* Four entries in two of three lists, or in one; their times, references,
\* query times and sizes are ordered differently.
MCStocks ==
    {<<E(p[1], 2, t[1], r[1], 1, 3), E(p[2], 3, t[2], r[2], 9, 1),
       E(p[3], 2, t[3], r[3], 4, 9), E(p[4], 3, t[4], r[4], 2, 2)>> :
        p \in {<<1, 1, 1, 1>>, <<1, 1, 1, 2>>, <<1, 2, 2, 2>>, <<0, 0, 2, 2>>, <<1, 1, 2, 2>>},
        t \in {<<2, 4, 3, 1>>, <<1, 2, 3, 4>>, <<5, 3, 5, 2>>, <<5, 5, 5, 5>>},
        r \in {<<0, 1, 2, 1>>, <<2, 0, 1, 0>>}}

MCShares == {<<0, 50, 50>>, <<30, 20, 50>>, <<40, 60, 0>>}
Share(s) == [l \in 0..2 |-> s[l + 1]]

MCShared ==
    [algo : {"shared"}, mode : {"LFRU", "FAST", "SCORE"}, amount : {1, 4, 8, 11},
     caller : {1}, stale : {0}, stock : MCStocks, ratio : {Share(<<0, 50, 50>>)},
     hitrate : {[l \in 0..2 |-> 0]}, rec : {[l \in 0..2 |-> 0]}]

MCWeight ==
    [algo : {"WB"}, mode : {"LFRU", "FAST", "SCORE"}, amount : {5, 11},
     caller : 0..3, stale : {0, 150}, stock : MCStocks, ratio : {Share(s) : s \in MCShares},
     hitrate : {[l \in 0..2 |-> 0]}, rec : {[l \in 0..2 |-> 0]}]

MCAdaptive ==
    [algo : {"AD"}, mode : {"LFRU", "FAST", "SCORE"}, amount : {5, 11},
     caller : {0, 2, 3}, stale : {0}, stock : MCStocks, ratio : {Share(<<0, 50, 50>>)},
     hitrate : {Share(<<50, 50, 90>>), Share(<<0, 100, 0>>)},
     rec : {Share(<<2, 3, 3>>)}]

MCCalls == MCShared \cup MCWeight \cup MCAdaptive
=============================================================================
