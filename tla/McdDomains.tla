----------------------------- MODULE McdDomains -----------------------------
(***************************************************************************)
(* What the cache keeps about each domain to share memory out among them    *)
(* (mcd_domain_t in xen/mcd.h): the weight and the ratio derived from it,   *)
(* the hit rate, the number of keys and the average recovery cost.  The     *)
(* code computes with 32-bit unsigned integers; Word stands for 2^32.       *)
(* McdCache has the entries themselves.                                     *)
(***************************************************************************)
EXTENDS Integers, FiniteSets, McdSums

CONSTANTS
    Doms, Dom0,
    Word,           \* 2^32
    Default,        \* DOM_WEIGHT_DEFAULT
    Weights,        \* the weights `xl mcd-weight' is called with
    Times,          \* query times, in ms
    Profiles,       \* operations and domains that are taken together
    Vcpus,          \* bound on the gets of a domain in progress at a time
    MaxEntries      \* bound on the entries of a domain

ASSUME DomainsConstants ==
    /\ IsFiniteSet(Doms)
    /\ Word \in Nat \ {0, 1, 2} /\ Default \in 0..(Word - 1)
    /\ Weights \subseteq 0..(Word - 1) /\ Times \subseteq 0..(Word - 1)
    /\ Vcpus \in Nat /\ MaxEntries \in Nat

VARIABLES
    profile,            \* the operations and the domains, chosen once
    listed,             \* g_mcd_domain_list
    total,              \* total_weight
    weight, ratio,
    succ, fail, hitrate,
    due,                \* gets that are counted and have not set the rate yet
    mode,               \* cache_mode: "shared" or "partition"
    keys, cost,         \* nr_keys, rec_cost_avg
    own, shr,           \* entries of the domain: in its list, in the shared lists
    down,               \* the hypervisor has divided by zero
    many,               \* history: domains whose counted gets fill the word
    cleared,            \* history: reset between a count and its rate
    off                 \* history: domains whose nr_keys does not start from 0
                        \* entries, or has gone over the word

shares == <<listed, total, weight, ratio>>
rates == <<succ, fail, hitrate, due, many, cleared>>
stock == <<mode, keys, cost, own, shr, off>>
vars == <<profile, shares, rates, stock, down>>

---------------------------------------------------------------------------

\* A bug: the new domain is left out.
RatiosOfOld(r, L, w, t) ==
    IF t = 0 THEN r
    ELSE [d \in Doms |-> IF d \in L \cap listed THEN ((w[d] * 100) % Word) \div t
                         ELSE r[d]]

\* dom_weight_update: ratios from the list, the weights and their total.
Ratios(r, L, w, t) ==
    IF t = 0 THEN r
    ELSE [d \in Doms |-> IF d \in L THEN ((w[d] * 100) % Word) \div t ELSE r[d]]

\* mcd_domain_create once it has memory.  Domain 0 has no weight.  Entries
\* that an earlier domain of this id has left in the shared lists stay.
Create(d) ==
    LET w == [weight EXCEPT ![d] = IF d = Dom0 THEN 0 ELSE Default]
        L == listed \cup {d}
    IN /\ "domains" \in profile.ops /\ d \in profile.doms \ listed
       /\ listed' = L
       /\ weight' = w
       /\ total' = (total + w[d]) % Word
       /\ ratio' = LET r == [ratio EXCEPT ![d] = 0]
                   IN IF d = Dom0 THEN r ELSE Ratios(r, L, w, total')
       /\ succ' = [succ EXCEPT ![d] = 1]
       /\ fail' = [fail EXCEPT ![d] = 1]
       /\ hitrate' = [hitrate EXCEPT ![d] = 0]
       /\ keys' = [keys EXCEPT ![d] = 0]
       /\ cost' = [cost EXCEPT ![d] = 0]
       /\ many' = many \ {d} /\ cleared' = cleared \ {d}
       /\ off' = IF shr[d] > 0 THEN off \cup {d} ELSE off \ {d}
       /\ UNCHANGED <<due, mode, own, shr, down>>

\* A bug: the total keeps the weight of the domain.
DestroyUnweighed(d) ==
    /\ "domains" \in profile.ops /\ d \in listed \ {Dom0} /\ due[d] = 0
    /\ listed' = listed \ {d}
    /\ ratio' = Ratios(ratio, listed', weight, total)
    /\ own' = [own EXCEPT ![d] = 0]
    /\ UNCHANGED <<total, weight, rates, mode, keys, cost, shr, off, down>>

\* A bug: a signed total loses the default weight.
DestroyDefault(d) ==
    /\ "domains" \in profile.ops /\ d \in listed \ {Dom0} /\ due[d] = 0
    /\ total' = total - Default
    /\ listed' = listed \ {d}
    /\ ratio' = Ratios(ratio, listed', weight, total')
    /\ own' = [own EXCEPT ![d] = 0]
    /\ UNCHANGED <<weight, rates, mode, keys, cost, shr, off, down>>

\* mcd_destroy: the weight goes, then the entries in the domain's own list and
\* the domain.  It is dying: none of its vCPUs is in the hypervisor.
Destroy(d) ==
    /\ "domains" \in profile.ops /\ d \in listed \ {Dom0} /\ due[d] = 0
    /\ total' = (total - weight[d]) % Word
    /\ listed' = listed \ {d}
    /\ ratio' = Ratios(ratio, listed', weight, total')
    /\ own' = [own EXCEPT ![d] = 0]
    /\ UNCHANGED <<weight, rates, mode, keys, cost, shr, off, down>>

\* A bug: only the ratio of the domain itself follows.
SetWeightAlone(d, w) ==
    /\ "weight" \in profile.ops /\ d \in listed
    /\ total' = (total + w - weight[d]) % Word
    /\ weight' = [weight EXCEPT ![d] = w]
    /\ ratio' = Ratios(ratio, {d}, weight', total')
    /\ UNCHANGED <<listed, rates, stock, down>>

\* set_weight for a domain in the list.
SetWeight(d, w) ==
    /\ "weight" \in profile.ops /\ d \in listed
    /\ total' = (total + w - weight[d]) % Word
    /\ weight' = [weight EXCEPT ![d] = w]
    /\ ratio' = Ratios(ratio, listed, weight', total')
    /\ UNCHANGED <<listed, rates, stock, down>>

\* A bug: a miss is not counted.
CountMissed(d, hit) ==
    /\ "get" \in profile.ops /\ d \in listed /\ due[d] < Vcpus
    /\ succ' = [succ EXCEPT ![d] = IF hit THEN (@ + 1) % Word ELSE @]
    /\ due' = [due EXCEPT ![d] = @ + 1]
    /\ many' = IF succ[d] + fail[d] + 1 >= Word THEN many \cup {d} ELSE many
    /\ UNCHANGED <<fail, hitrate, cleared, shares, stock, down>>

\* The end of do_mcd_op for a get or a check: HIT or MISS.
Count(d, hit) ==
    /\ "get" \in profile.ops /\ d \in listed /\ due[d] < Vcpus
    /\ succ' = [succ EXCEPT ![d] = IF hit THEN (@ + 1) % Word ELSE @]
    /\ fail' = [fail EXCEPT ![d] = IF hit THEN @ ELSE (@ + 1) % Word]
    /\ due' = [due EXCEPT ![d] = @ + 1]
    /\ many' = IF succ[d] + fail[d] + 1 >= Word THEN many \cup {d} ELSE many
    /\ UNCHANGED <<hitrate, cleared, shares, stock, down>>

\* A bug: the rate is taken of the misses.
RatedOfMisses(d) ==
    /\ d \in listed /\ due[d] > 0
    /\ due' = [due EXCEPT ![d] = @ - 1]
    /\ IF fail[d] = 0 THEN down' = TRUE /\ UNCHANGED hitrate
       ELSE /\ hitrate' = [hitrate EXCEPT ![d] = ((succ[d] * 100) % Word) \div fail[d]]
            /\ UNCHANGED down
    /\ UNCHANGED <<succ, fail, many, cleared, shares, stock>>

\* SET_HITRATE after it.  No lock joins the two: other gets of the domain, and
\* a reset, may come between them.
Rated(d) ==
    LET t == (succ[d] + fail[d]) % Word IN
    /\ d \in listed /\ due[d] > 0
    /\ due' = [due EXCEPT ![d] = @ - 1]
    /\ IF t = 0 THEN down' = TRUE /\ UNCHANGED hitrate
       ELSE /\ hitrate' = [hitrate EXCEPT ![d] = ((succ[d] * 100) % Word) \div t]
            /\ UNCHANGED down
    /\ UNCHANGED <<succ, fail, many, cleared, shares, stock>>

\* s_mcd_flush_all in shared mode, p_mcd_flush_all in partition mode: every
\* entry of the lists in use goes, but those of domain 0 from its own list.
Flushed ==
    LET Less(f, D) == [d \in Doms |-> IF d \in D THEN (keys[d] - f[d]) % Word
                                      ELSE keys[d]]
        L == listed \ {Dom0}
    IN \/ /\ mode = "shared"
          /\ shr' = [d \in Doms |-> 0] /\ UNCHANGED own
          /\ keys' = Less(shr, listed)
       \/ /\ mode = "partition"
          /\ own' = [d \in Doms |-> IF d \in L THEN 0 ELSE own[d]] /\ UNCHANGED shr
          /\ keys' = Less(own, L)

\* set_param, 25 with 1: mcd_dom_params_reset for all domains but domain 0,
\* and a flush.
ParamsReset ==
    LET L == listed \ {Dom0}
        Cleared(f) == [d \in Doms |-> IF d \in L THEN 0 ELSE f[d]]
    IN /\ "reset" \in profile.ops
       /\ succ' = Cleared(succ)
       /\ fail' = Cleared(fail)
       /\ hitrate' = Cleared(hitrate)
       /\ many' = many \ L
       /\ cleared' = (cleared \ L) \cup {d \in L : due[d] > 0}
       /\ Flushed
       /\ UNCHANGED <<due, mode, cost, off, shares, down>>

\* set_cache_mode to the other mode.
SetCacheMode ==
    /\ "mode" \in profile.ops
    /\ mode' = IF mode = "shared" THEN "partition" ELSE "shared"
    /\ Flushed
    /\ UNCHANGED <<cost, off, shares, rates, down>>

\* An entry more for the domain, in the lists in use.
Entered(d) ==
    /\ "store" \in profile.ops /\ d \in listed /\ own[d] + shr[d] < MaxEntries
    /\ IF mode = "shared"
       THEN shr' = [shr EXCEPT ![d] = @ + 1] /\ UNCHANGED own
       ELSE own' = [own EXCEPT ![d] = @ + 1] /\ UNCHANGED shr

\* A bug: the key is not counted.
HeldUncounted(d) ==
    /\ Entered(d)
    /\ UNCHANGED <<keys, mode, cost, off, shares, rates, down>>

\* create_mcd_hashT for a check or a page-in.
Held(d) ==
    /\ Entered(d)
    /\ keys' = [keys EXCEPT ![d] = (@ + 1) % Word]
    /\ off' = IF keys[d] + 1 >= Word THEN off \cup {d} ELSE off
    /\ UNCHANGED <<mode, cost, shares, rates, down>>

\* create_mcd_hashT for a put, and set_query_time after it.  The macro
\* P_REC_AVG_CAL increments nr_keys once more, unsequenced with the
\* multiplication by nr_keys: the product may use either value.
Stored(d, ms) ==
    LET n == (keys[d] + 1) % Word
        k == (keys[d] + 2) % Word
    IN /\ Entered(d)
       /\ keys' = [keys EXCEPT ![d] = k]
       /\ off' = IF keys[d] + 2 >= Word THEN off \cup {d} ELSE off
       /\ IF k = 0 THEN down' = TRUE /\ UNCHANGED cost
          ELSE /\ \E m \in {n, k} :
                    cost' = [cost EXCEPT ![d] = ((@ * m + ms) % Word) \div k]
               /\ UNCHANGED down
       /\ UNCHANGED <<mode, shares, rates>>

\* p_remove_hashT, s_remove_hashT.  An entry in the shared lists may outlive
\* its domain: then find_mcd_dom has none to decrement (it returns the list
\* head, and what the decrement does to the memory there is not modelled).
Dropped(d) ==
    /\ "store" \in profile.ops
    /\ \/ /\ mode = "shared" /\ shr[d] > 0
          /\ shr' = [shr EXCEPT ![d] = @ - 1] /\ UNCHANGED own
       \/ /\ mode = "partition" /\ own[d] > 0
          /\ own' = [own EXCEPT ![d] = @ - 1] /\ UNCHANGED shr
    /\ keys' = IF d \in listed THEN [keys EXCEPT ![d] = (@ - 1) % Word] ELSE keys
    /\ UNCHANGED <<mode, cost, off, shares, rates, down>>

Init ==
    /\ profile \in Profiles
    /\ listed = {} /\ total = 0
    /\ weight = [d \in Doms |-> 0] /\ ratio = weight
    /\ succ = weight /\ fail = weight /\ hitrate = weight /\ due = weight
    /\ mode = "shared"
    /\ keys = weight /\ cost = weight /\ own = weight /\ shr = weight
    /\ down = FALSE
    /\ many = {} /\ cleared = {} /\ off = {}

Step ==
    \/ ParamsReset \/ SetCacheMode
    \/ \E d \in Doms :
         \/ Create(d) \/ Destroy(d) \/ Held(d) \/ Dropped(d) \/ Rated(d)
         \/ \E w \in Weights : SetWeight(d, w)
         \/ \E hit \in BOOLEAN : Count(d, hit)
         \/ \E ms \in Times : Stored(d, ms)

\* After a division by zero the hypervisor takes no step.
Next == ~down /\ Step /\ UNCHANGED profile

Spec == Init /\ [][Next]_vars

---------------------------------------------------------------------------
(* Properties.                                                              *)

\* Every field is an unsigned integer of the code's width.
TypeOK ==
    /\ profile \in Profiles /\ listed \subseteq Doms /\ total \in 0..(Word - 1)
    /\ \A f \in {weight, ratio, succ, fail, hitrate, keys, cost} :
         f \in [Doms -> 0..(Word - 1)]
    /\ due \in [Doms -> 0..Vcpus]
    /\ own \in [Doms -> 0..MaxEntries] /\ shr \in [Doms -> 0..MaxEntries]
    /\ mode \in {"shared", "partition"} /\ down \in BOOLEAN
    /\ many \subseteq Doms /\ cleared \subseteq Doms /\ off \subseteq Doms

\* total_weight is the sum of the weights of the domains in the list, through
\* creation, destruction and unsigned differences in set_weight.
TotalIsSum ==
    total = SumOf(weight, listed) % Word

\* Whenever there is any weight, every ratio is the one that the weights of
\* this moment give: no update is missed.
RatiosCurrent ==
    total > 0 => \A d \in listed : ratio[d] = ((weight[d] * 100) % Word) \div total

\* The ratios of all domains make at most 100 in total (xen/mcd.h, ratio).
RatiosShareAHundred ==
    SumOf(ratio, listed) <= 100

\* A hit rate is at most 100, so that MISSRATE, which is 100 - hitrate and
\* goes into COST, does not wrap: although SET_HITRATE multiplies in the word,
\* and other gets or a reset may come between HIT or MISS and the division, as
\* long as the gets counted since the last reset do not fill the word.
HitrateWithin ==
    \A d \in listed \ many : hitrate[d] <= 100

\* SET_HITRATE and P_REC_AVG_CAL divide by zero only when a domain's gets have
\* filled the word, when a reset came between a count and its rate, or when
\* nr_keys has gone over the word or was started over another domain's entries.
DivisorsNonzero ==
    down => many \cup cleared \cup off # {}

\* nr_keys is never below the number of entries of the domain, through puts
\* that count twice, flushes, changes of mode and entries that outlive their
\* domain, so that the decrement in p_remove_hashT and s_remove_hashT does not
\* wrap.  The exceptions are a domain created with the id of one that has left
\* entries in the shared lists, and 2^32 increments.
KeysSuffice ==
    \A d \in listed \ off : keys[d] >= own[d] + shr[d]
=============================================================================
