----------------------------- MODULE McdVictims -----------------------------
(* What the replacement algorithms promise of the entries they evict:       *)
(* McdCache relies on it and McdReplace is checked against it.              *)
EXTENDS Integers, FiniteSets, McdSums

BytesOf(size, V) == SumOf(size, V)

\* V is enough, or it is everything that could be taken.
Enough(size, V, most, amount) == V = most \/ BytesOf(size, V) >= amount

\* shared_cache_free: entries of the shared lists until there is enough.
SharedMayTake(size, V, most, amount) ==
    V \subseteq most /\ Enough(size, V, most, amount)

\* partition_cf_weight_based: for domain 0 (also `xl mcd-size') entries of all
\* domains until there is enough; else whatever the fair rates single out.
WeightMayTake(size, V, most, amount, guest) ==
    V \subseteq most /\ (guest \/ Enough(size, V, most, amount))

\* partition_cf_adaptive_dynamic: all it takes from one domain, whose entries
\* are `victims', then from the caller, whose entries are `own'.
AdaptiveMayTake(size, V, victims, own, amount) ==
    /\ V \subseteq victims \cup own
    /\ Enough(size, V, victims \cup own, amount)
    /\ victims \subseteq V \/ V \subseteq victims
=============================================================================
