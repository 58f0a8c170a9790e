------------------------------ MODULE MCCache -------------------------------
(* Small instances of McdCache.                                             *)
EXTENDS McdCache, TLC

CONSTANTS d0, d1, d2, a, b, v1, v2

MCOneDom == {d1}
MCTwoDoms == {d1, d2}
MCKeys == {a, b}
MCVals == {v1, v2}
MCSize == a :> 2 @@ b :> 3

MCSymmetry == Permutations(MCTwoDoms) \cup Permutations(MCVals)

MCGuest == {"put", "get", "remove", "flush"}
MCSharedOps == MCGuest \cup {"memsize", "reset", "restart"}
MCSwitchOps == MCGuest \cup {"check", "mode", "partition", "memsize"}
MCDomainOps == MCGuest \cup {"check", "domains", "reset", "toggle"}

Setup(m, p, d, o, k, h) ==
    [mode |-> m, pmode |-> p, daemon |-> d, ops |-> o, keys |-> k, heap |-> h]

\* Shared mode with the daemon, which may restart; all modes and the switches
\* between them, without the daemon; and partition mode with the daemon,
\* while domains come and go.
MCSetups ==
    {Setup(Shared, "BE", TRUE, MCSharedOps, MCKeys, 7),
     Setup(Shared, "BE", FALSE, MCSwitchOps, MCKeys, 7)}
    \cup {Setup(Partition, p, FALSE, MCSwitchOps, MCKeys, 7) : p \in {"WB", "AD"}}
    \cup {Setup(Partition, p, TRUE, MCDomainOps, {a}, 5) : p \in {"WB", "AD"}}

\* Partition mode with the daemon.
MCOldSetups == {Setup(Partition, p, TRUE, MCGuest, MCKeys, 7) : p \in {"WB", "AD"}}
=============================================================================
