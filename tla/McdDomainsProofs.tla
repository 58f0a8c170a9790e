-------------------------- MODULE McdDomainsProofs --------------------------
(* Proofs about McdDomains, for all domains, weights and word sizes.        *)
EXTENDS McdDomains, McdSumsProofs

\* The types of the fields that the ratios depend on.
SharesType ==
    /\ total \in 0..(Word - 1)
    /\ weight \in [Doms -> Nat]
    /\ ratio \in [Doms -> Nat]

\* A remainder is below the word.
LEMMA Remainder ==
    ASSUME NEW x \in Int PROVE x % Word \in 0..(Word - 1)
BY DomainsConstants

\* A value below the word is its own remainder.
LEMMA SmallRemainder ==
    ASSUME NEW x \in 0..(Word - 1) PROVE x % Word = x
BY DomainsConstants

\* What dom_weight_update computes for one domain is a natural number.
LEMMA ShareType ==
    ASSUME NEW w \in Nat, NEW t \in Nat \ {0}
    PROVE ((w * 100) % Word) \div t \in Nat
<1>1. (w * 100) % Word \in Nat
    BY Remainder, w * 100 \in Int, DomainsConstants
<1>2. QED BY <1>1

\* dom_weight_update keeps the type of the ratios.
LEMMA RatiosType ==
    ASSUME NEW r \in [Doms -> Nat], NEW L, NEW w \in [Doms -> Nat], NEW t \in Nat
    PROVE Ratios(r, L, w, t) \in [Doms -> Nat]
<1>1. CASE t = 0
    BY <1>1 DEF Ratios
<1>2. CASE t # 0
    <2>1. \A d \in Doms : ((w[d] * 100) % Word) \div t \in Nat
        BY <1>2, ShareType
    <2>2. QED BY <1>2, <2>1 DEF Ratios
<1>3. QED BY <1>1, <1>2

\* dom_weight_update makes the ratios of all listed domains current.
LEMMA RatiosValue ==
    ASSUME NEW r, NEW L \in SUBSET Doms, NEW w, NEW t \in Nat \ {0}
    PROVE \A d \in L : Ratios(r, L, w, t)[d] = ((w[d] * 100) % Word) \div t
BY DEF Ratios

\* The inductive invariant.
SharesInv == listed \subseteq Doms /\ SharesType /\ RatiosCurrent

\* A new domain has its share; domain 0 changes nobody's.
LEMMA CreateShares ==
    ASSUME SharesInv, NEW d \in Doms, Create(d) PROVE SharesInv'
<1> DEFINE w == [weight EXCEPT ![d] = IF d = Dom0 THEN 0 ELSE Default]
           r == [ratio EXCEPT ![d] = 0]
<1>1. /\ w \in [Doms -> Nat] /\ r \in [Doms -> Nat]
      /\ \A e \in Doms \ {d} : w[e] = weight[e] /\ r[e] = ratio[e]
      /\ w[d] = (IF d = Dom0 THEN 0 ELSE Default) /\ r[d] = 0
    BY DomainsConstants DEF SharesInv, SharesType
<1>2. /\ d \notin listed /\ listed' = listed \cup {d} /\ weight' = w
      /\ total' = (total + w[d]) % Word
      /\ ratio' = IF d = Dom0 THEN r ELSE Ratios(r, listed', w, total')
    BY DEF Create
<1> HIDE DEF w, r
<1>3. total' \in 0..(Word - 1) /\ total' \in Nat
    <2>1. total + w[d] \in Int
        BY <1>1 DEF SharesInv, SharesType
    <2>2. total' \in 0..(Word - 1)
        BY <1>2, <2>1, Remainder
    <2>3. QED BY <2>2, DomainsConstants
<1>4. listed' \subseteq Doms
    BY <1>2 DEF SharesInv
<1>5. CASE d = Dom0
    <2>1. total' = total
        BY <1>1, <1>2, <1>5, SmallRemainder DEF SharesInv, SharesType
    <2>2. total > 0 => ((0 * 100) % Word) \div total = 0
        <3>1. 0 * 100 = 0 /\ 0 \in 0..(Word - 1)
            BY DomainsConstants
        <3>2. 0 % Word = 0
            BY <3>1, SmallRemainder
        <3>3. QED BY <3>1, <3>2, <2>1, <1>3
    <2>3. RatiosCurrent'
        <3> SUFFICES ASSUME total' > 0, NEW e \in listed'
                     PROVE ratio'[e] = ((weight'[e] * 100) % Word) \div total'
            BY DEF RatiosCurrent
        <3>1. CASE e = d
            BY <3>1, <1>1, <1>2, <1>5, <2>1, <2>2
        <3>2. CASE e # d
            BY <3>2, <1>1, <1>2, <1>5, <2>1 DEF SharesInv, RatiosCurrent
        <3>3. QED BY <3>1, <3>2
    <2>4. QED BY <1>1, <1>2, <1>3, <1>4, <1>5, <2>3 DEF SharesInv, SharesType
<1>6. CASE d # Dom0
    <2>1. ratio' \in [Doms -> Nat]
        BY <1>1, <1>2, <1>3, <1>6, RatiosType
    <2>2. RatiosCurrent'
        BY <1>2, <1>3, <1>4, <1>6, RatiosValue DEF RatiosCurrent
    <2>3. QED BY <1>1, <1>2, <1>3, <1>4, <2>1, <2>2 DEF SharesInv, SharesType
<1>7. QED BY <1>5, <1>6

\* The domains that stay share the weight of the one that goes.
LEMMA DestroyShares ==
    ASSUME SharesInv, NEW d \in Doms, Destroy(d) PROVE SharesInv'
<1>1. /\ listed' \subseteq Doms /\ weight' = weight
      /\ total' = (total - weight[d]) % Word
      /\ ratio' = Ratios(ratio, listed', weight, total')
    BY DEF Destroy, SharesInv
<1>2. total' \in 0..(Word - 1) /\ total' \in Nat
    <2>1. total - weight[d] \in Int
        BY DEF SharesInv, SharesType
    <2>2. total' \in 0..(Word - 1)
        BY <1>1, <2>1, Remainder
    <2>3. QED BY <2>2, DomainsConstants
<1>3. ratio' \in [Doms -> Nat]
    BY <1>1, <1>2, RatiosType DEF SharesInv, SharesType
<1>4. RatiosCurrent'
    BY <1>1, <1>2, RatiosValue DEF RatiosCurrent
<1>5. QED BY <1>1, <1>2, <1>3, <1>4 DEF SharesInv, SharesType

\* A new weight changes the shares of all.
LEMMA SetWeightShares ==
    ASSUME SharesInv, NEW d \in Doms, NEW w \in Weights, SetWeight(d, w)
    PROVE SharesInv'
<1>1. /\ listed' = listed /\ weight' = [weight EXCEPT ![d] = w]
      /\ total' = (total + w - weight[d]) % Word
      /\ ratio' = Ratios(ratio, listed', weight', total')
    BY DEF SetWeight
<1>2. w \in Nat /\ weight' \in [Doms -> Nat]
    BY <1>1, DomainsConstants DEF SharesInv, SharesType
<1>3. total' \in 0..(Word - 1) /\ total' \in Nat
    <2>1. total + w - weight[d] \in Int
        BY <1>2 DEF SharesInv, SharesType
    <2>2. total' \in 0..(Word - 1)
        BY <1>1, <2>1, Remainder
    <2>3. QED BY <2>2, DomainsConstants
<1>4. ratio' \in [Doms -> Nat]
    BY <1>1, <1>2, <1>3, RatiosType DEF SharesInv, SharesType
<1>5. RatiosCurrent'
    <2>1. listed' \subseteq Doms
        BY <1>1 DEF SharesInv
    <2>2. total' # 0 => \A e \in listed' :
             ratio'[e] = ((weight'[e] * 100) % Word) \div total'
        <3> DEFINE v == weight'
        <3>1. ratio' = Ratios(ratio, listed', v, total')
            BY <1>1
        <3> HIDE DEF v
        <3>2. total' # 0 => \A e \in listed' :
                 ratio'[e] = ((v[e] * 100) % Word) \div total'
            BY <2>1, <3>1, <1>3, RatiosValue
        <3>3. QED BY <3>2 DEF v
    <2>3. QED BY <2>2 DEF RatiosCurrent
<1>6. QED BY <1>1, <1>2, <1>3, <1>4, <1>5 DEF SharesInv, SharesType

\* Only these three change the list or the weights.
LEMMA SharesStep ==
    ASSUME [Next]_vars
    PROVE \/ \E d \in Doms : Create(d) \/ Destroy(d)
          \/ \E d \in Doms : \E w \in Weights : SetWeight(d, w)
          \/ UNCHANGED shares
BY DEF Next, Step, vars, shares, ParamsReset, SetCacheMode, Held, Dropped, Count,
       Rated, Stored

\* Every step keeps the invariant.
LEMMA NextShares ==
    ASSUME SharesInv, [Next]_vars PROVE SharesInv'
<1>1. CASE UNCHANGED shares
    BY <1>1 DEF shares, SharesInv, SharesType, RatiosCurrent
<1>2. QED BY <1>1, SharesStep, CreateShares, DestroyShares, SetWeightShares

\* With no domain in the list there is nothing to share.
LEMMA InitShares ==
    ASSUME Init PROVE SharesInv
BY DomainsConstants DEF Init, SharesInv, SharesType, RatiosCurrent

\* Whenever there is any weight, the ratio of every domain is the one that
\* dom_weight_update would compute at this moment: creation, destruction and
\* set_weight never leave a ratio behind, whatever wraps.
THEOREM RatiosStayCurrent == Spec => []RatiosCurrent
<1>1. Init => SharesInv
    BY InitShares
<1>2. SharesInv /\ [Next]_vars => SharesInv'
    BY NextShares
<1>3. SharesInv => RatiosCurrent
    BY DEF SharesInv
<1>4. QED BY <1>1, <1>2, <1>3, PTL DEF Spec

---------------------------------------------------------------------------

\* A quotient is no larger than what is divided.
LEMMA Quotient ==
    ASSUME NEW n \in 0..(Word - 1), NEW k \in Nat \ {0}
    PROVE n \div k \in 0..(Word - 1)
<1>1. \A a \in Nat : a \div k \in 0..a
    OBVIOUS
<1>2. n \div k \in 0..n
    BY <1>1, DomainsConstants
<1>3. QED BY <1>2, DomainsConstants

\* The types of what is kept about the entries.
StockType ==
    /\ mode \in {"shared", "partition"} /\ off \subseteq Doms
    /\ keys \in [Doms -> 0..(Word - 1)] /\ cost \in [Doms -> 0..(Word - 1)]
    /\ own \in [Doms -> 0..MaxEntries] /\ shr \in [Doms -> 0..MaxEntries]

\* A list that has no domain holds nothing: mcd_destroy flushes it.
OwnersListed == \A d \in Doms \ listed : own[d] = 0

\* The inductive invariant about the number of keys.  That the own list of a
\* new domain is empty is what mcd_destroy did for the domain before it.
StockInv == listed \subseteq Doms /\ StockType /\ OwnersListed /\ KeysSuffice

LEMMA SmallOnes ==
    /\ 0 \in 0..(Word - 1) /\ 1 \in 0..(Word - 1) /\ Default \in 0..(Word - 1)
    /\ 0 \in 0..MaxEntries
BY DomainsConstants

\* A domain starts without entries, or with those of the domain before it, and
\* is then in off.
LEMMA CreateStock ==
    ASSUME StockInv, NEW d \in Doms, Create(d) PROVE StockInv'
<1>1. /\ d \notin listed /\ listed' = listed \cup {d}
      /\ keys' = [keys EXCEPT ![d] = 0] /\ cost' = [cost EXCEPT ![d] = 0]
      /\ off' = IF shr[d] > 0 THEN off \cup {d} ELSE off \ {d}
      /\ mode' = mode /\ own' = own /\ shr' = shr
    BY DEF Create
<1>2. listed' \subseteq Doms /\ StockType' /\ OwnersListed'
    BY <1>1, SmallOnes DEF StockInv, StockType, OwnersListed
<1>3. ASSUME NEW e \in listed' \ off' PROVE keys'[e] >= own'[e] + shr'[e]
    <2>1. CASE e = d
        BY <1>1, <2>1, DomainsConstants DEF StockInv, StockType, OwnersListed
    <2>2. CASE e # d
        <3>1. e \in listed \ off /\ keys'[e] = keys[e]
            BY <1>1, <2>2 DEF StockInv, StockType
        <3>2. QED BY <1>1, <3>1 DEF StockInv, KeysSuffice
    <2>3. QED BY <2>1, <2>2
<1>4. QED BY <1>2, <1>3 DEF StockInv, KeysSuffice

\* The domains that stay keep their entries.
LEMMA DestroyStock ==
    ASSUME StockInv, NEW d \in Doms, Destroy(d) PROVE StockInv'
<1>1. /\ listed' = listed \ {d} /\ own' = [own EXCEPT ![d] = 0]
      /\ mode' = mode /\ keys' = keys /\ cost' = cost /\ shr' = shr /\ off' = off
    BY DEF Destroy
<1>2. QED BY <1>1, SmallOnes DEF StockInv, StockType, OwnersListed, KeysSuffice

\* A new entry adds one to what the domain has.
LEMMA EnteredAdds ==
    ASSUME StockInv, NEW d \in Doms, Entered(d)
    PROVE /\ d \in listed
          /\ own' \in [Doms -> 0..MaxEntries] /\ shr' \in [Doms -> 0..MaxEntries]
          /\ own'[d] + shr'[d] = own[d] + shr[d] + 1
          /\ \A e \in Doms \ {d} : own'[e] = own[e] /\ shr'[e] = shr[e]
<1>1. /\ d \in listed /\ own[d] + shr[d] < MaxEntries
      /\ \/ shr' = [shr EXCEPT ![d] = shr[d] + 1] /\ own' = own
         \/ own' = [own EXCEPT ![d] = own[d] + 1] /\ shr' = shr
    BY DEF Entered
<1>2. own[d] \in 0..MaxEntries /\ shr[d] \in 0..MaxEntries
    BY DEF StockInv, StockType
<1>3. own[d] + 1 \in 0..MaxEntries /\ shr[d] + 1 \in 0..MaxEntries
    BY <1>1, <1>2, DomainsConstants
<1>4. QED BY <1>1, <1>2, <1>3, DomainsConstants DEF StockInv, StockType

\* What a check and a put have in common: the entry is counted n times, and a
\* domain whose count goes over the word is in off.
LEMMA EnteredStock ==
    ASSUME StockInv, NEW d \in Doms, Entered(d), NEW n \in {1, 2},
           keys' = [keys EXCEPT ![d] = (keys[d] + n) % Word],
           off' = IF keys[d] + n >= Word THEN off \cup {d} ELSE off,
           listed' = listed, mode' = mode, cost' \in [Doms -> 0..(Word - 1)]
    PROVE StockInv'
<1>1. keys[d] \in 0..(Word - 1) /\ keys[d] + n \in Int
    BY DomainsConstants DEF StockInv, StockType
<1>2. (keys[d] + n) % Word \in 0..(Word - 1)
    BY <1>1, Remainder
<1>3. StockType' /\ OwnersListed' /\ listed' \subseteq Doms
    BY <1>2, EnteredAdds DEF StockInv, StockType, OwnersListed
<1>4. ASSUME NEW e \in listed' \ off' PROVE keys'[e] >= own'[e] + shr'[e]
    <2>0. e \in listed \ off /\ e \in Doms /\ keys[e] >= own[e] + shr[e]
        BY DEF StockInv, KeysSuffice
    <2>1. CASE e = d
        <3>1. keys[d] + n \in 0..(Word - 1)
            BY <1>1, <2>1, DomainsConstants
        <3>2. keys'[d] = keys[d] + n
            BY <3>1, SmallRemainder DEF StockInv, StockType
        <3>3. own[d] \in Int /\ shr[d] \in Int
            BY DomainsConstants DEF StockInv, StockType
        <3>4. QED BY <1>1, <2>0, <2>1, <3>2, <3>3, EnteredAdds, DomainsConstants
    <2>2. CASE e # d
        BY <2>0, <2>2, EnteredAdds DEF StockInv, StockType
    <2>3. QED BY <2>1, <2>2
<1>5. QED BY <1>3, <1>4 DEF StockInv, KeysSuffice

\* A check or a page-in counts its entry once.
LEMMA HeldStock ==
    ASSUME StockInv, NEW d \in Doms, Held(d) PROVE StockInv'
<1>1. /\ Entered(d) /\ keys' = [keys EXCEPT ![d] = (keys[d] + 1) % Word]
      /\ off' = IF keys[d] + 1 >= Word THEN off \cup {d} ELSE off
      /\ listed' = listed /\ mode' = mode /\ cost' = cost
    BY DEF Held, shares
<1>2. cost' \in [Doms -> 0..(Word - 1)]
    BY <1>1 DEF StockInv, StockType
<1>3. QED BY <1>1, <1>2, EnteredStock

\* The average of a put is an average: it stays in the word.
LEMMA StoredCost ==
    ASSUME StockInv, NEW d \in Doms, NEW ms \in Times, Stored(d, ms)
    PROVE cost' \in [Doms -> 0..(Word - 1)]
<1> DEFINE n == (keys[d] + 1) % Word
           k == (keys[d] + 2) % Word
<1>1. keys[d] + 1 \in Int /\ keys[d] + 2 \in Int
    BY DomainsConstants DEF StockInv, StockType
<1>2. n \in Nat /\ k \in Nat
    BY <1>1, Remainder, DomainsConstants
<1>3. \/ cost' = cost
      \/ k # 0 /\ \E m \in {n, k} :
           cost' = [cost EXCEPT ![d] = ((cost[d] * m + ms) % Word) \div k]
    BY DEF Stored
<1> HIDE DEF n, k
<1>4. CASE cost' = cost
    BY <1>4 DEF StockInv, StockType
<1>5. ASSUME k # 0, NEW m \in {n, k},
             cost' = [cost EXCEPT ![d] = ((cost[d] * m + ms) % Word) \div k]
      PROVE cost' \in [Doms -> 0..(Word - 1)]
    <2>1. cost[d] * m + ms \in Int
        BY <1>2, DomainsConstants DEF StockInv, StockType
    <2>2. (cost[d] * m + ms) % Word \in 0..(Word - 1)
        BY <2>1, Remainder
    <2>3. ((cost[d] * m + ms) % Word) \div k \in 0..(Word - 1)
        BY <1>2, <1>5, <2>2, Quotient
    <2>4. QED BY <1>5, <2>3 DEF StockInv, StockType
<1>6. QED BY <1>3, <1>4, <1>5

\* A put counts its entry twice.
LEMMA StoredStock ==
    ASSUME StockInv, NEW d \in Doms, NEW ms \in Times, Stored(d, ms)
    PROVE StockInv'
<1>1. /\ Entered(d) /\ keys' = [keys EXCEPT ![d] = (keys[d] + 2) % Word]
      /\ off' = IF keys[d] + 2 >= Word THEN off \cup {d} ELSE off
      /\ listed' = listed /\ mode' = mode
    BY DEF Stored, shares
<1>2. QED BY <1>1, StoredCost, EnteredStock

\* Entries g that leave had been counted, so nr_keys is at least that.
LEMMA LeavesKeys ==
    ASSUME NEW k \in 0..(Word - 1), NEW g \in Nat
    PROVE (k - g) % Word \in 0..(Word - 1) /\ (k >= g => (k - g) % Word = k - g)
<1>1. k - g \in Int
    BY DomainsConstants
<1>2. k >= g => k - g \in 0..(Word - 1)
    BY DomainsConstants
<1>3. QED BY <1>1, <1>2, Remainder, SmallRemainder

LEMMA DroppedStock ==
    ASSUME StockInv, NEW d \in Doms, Dropped(d) PROVE StockInv'
<1>1. /\ listed' = listed /\ mode' = mode /\ cost' = cost /\ off' = off
      /\ keys' = IF d \in listed THEN [keys EXCEPT ![d] = (keys[d] - 1) % Word]
                 ELSE keys
      /\ \/ shr[d] > 0 /\ shr' = [shr EXCEPT ![d] = shr[d] - 1] /\ own' = own
         \/ own[d] > 0 /\ own' = [own EXCEPT ![d] = own[d] - 1] /\ shr' = shr
    BY DEF Dropped, shares
<1>2. keys[d] \in 0..(Word - 1) /\ own[d] \in 0..MaxEntries /\ shr[d] \in 0..MaxEntries
    BY DEF StockInv, StockType
<1>3. /\ (keys[d] - 1) % Word \in 0..(Word - 1)
      /\ keys[d] >= 1 => (keys[d] - 1) % Word = keys[d] - 1
    BY <1>2, LeavesKeys
<1>4. /\ own' \in [Doms -> 0..MaxEntries] /\ shr' \in [Doms -> 0..MaxEntries]
      /\ own'[d] + shr'[d] = own[d] + shr[d] - 1 /\ own[d] + shr[d] >= 1
      /\ \A e \in Doms \ {d} : own'[e] = own[e] /\ shr'[e] = shr[e]
      /\ own[d] = 0 => own'[d] = 0
    BY <1>1, <1>2, DomainsConstants DEF StockInv, StockType
<1>5. StockType' /\ OwnersListed' /\ listed' \subseteq Doms
    BY <1>1, <1>3, <1>4 DEF StockInv, StockType, OwnersListed
<1>6. ASSUME NEW e \in listed' \ off' PROVE keys'[e] >= own'[e] + shr'[e]
    <2>0. e \in listed \ off /\ e \in Doms /\ keys[e] >= own[e] + shr[e]
        BY <1>1 DEF StockInv, KeysSuffice
    <2>1. CASE e = d
        <3>1. keys'[d] = keys[d] - 1
            BY <1>1, <1>2, <1>3, <1>4, <2>0, <2>1, DomainsConstants DEF StockInv, StockType
        <3>2. QED BY <1>2, <1>4, <2>0, <2>1, <3>1, DomainsConstants
    <2>2. CASE e # d
        BY <1>1, <1>4, <2>0, <2>2 DEF StockInv, StockType
    <2>3. QED BY <2>1, <2>2
<1>7. QED BY <1>5, <1>6 DEF StockInv, KeysSuffice

\* A flush counts down by what it takes, and takes only what is counted.
LEMMA FlushedStock ==
    ASSUME StockInv, Flushed, listed' = listed, mode' \in {"shared", "partition"},
           cost' = cost, off' = off
    PROVE StockInv'
<1>0. \A d \in Doms : /\ keys[d] \in 0..(Word - 1)
                      /\ own[d] \in 0..MaxEntries /\ shr[d] \in 0..MaxEntries
                      /\ own[d] \in Nat /\ shr[d] \in Nat
    BY DomainsConstants DEF StockInv, StockType
<1>1. /\ own' \in [Doms -> 0..MaxEntries] /\ shr' \in [Doms -> 0..MaxEntries]
      /\ keys' \in [Doms -> 0..(Word - 1)]
      /\ \A d \in Doms : own'[d] = own[d] \/ own'[d] = 0
      /\ \A d \in listed : keys[d] >= own[d] + shr[d] => keys'[d] >= own'[d] + shr'[d]
    <2>1. CASE mode = "shared"
        <3>1. /\ shr' = [d \in Doms |-> 0] /\ own' = own
              /\ keys' = [d \in Doms |-> IF d \in listed THEN (keys[d] - shr[d]) % Word
                                         ELSE keys[d]]
            BY <2>1 DEF Flushed
        <3>2. \A d \in Doms : /\ (keys[d] - shr[d]) % Word \in 0..(Word - 1)
                              /\ keys[d] >= shr[d]
                                 => (keys[d] - shr[d]) % Word = keys[d] - shr[d]
            BY <1>0, LeavesKeys
        <3>3. /\ own' \in [Doms -> 0..MaxEntries] /\ shr' \in [Doms -> 0..MaxEntries]
              /\ keys' \in [Doms -> 0..(Word - 1)]
            BY <3>1, <3>2, SmallOnes DEF StockInv, StockType
        <3>4. ASSUME NEW d \in listed, keys[d] >= own[d] + shr[d]
              PROVE keys'[d] >= own'[d] + shr'[d]
            <4>1. keys'[d] = (keys[d] - shr[d]) % Word /\ shr'[d] = 0 /\ own'[d] = own[d]
                BY <3>1 DEF StockInv
            <4>2. d \in Doms /\ keys[d] >= shr[d]
                BY <1>0, <3>4, DomainsConstants DEF StockInv
            <4>3. QED BY <1>0, <3>2, <3>4, <4>1, <4>2, DomainsConstants
        <3>5. QED BY <3>1, <3>3, <3>4
    <2>2. CASE mode = "partition"
        <3> DEFINE L == listed \ {Dom0}
        <3>1. /\ own' = [d \in Doms |-> IF d \in L THEN 0 ELSE own[d]] /\ shr' = shr
              /\ keys' = [d \in Doms |-> IF d \in L THEN (keys[d] - own[d]) % Word
                                         ELSE keys[d]]
            BY <2>2 DEF Flushed
        <3>2. \A d \in Doms : /\ (keys[d] - own[d]) % Word \in 0..(Word - 1)
                              /\ keys[d] >= own[d]
                                 => (keys[d] - own[d]) % Word = keys[d] - own[d]
            BY <1>0, LeavesKeys
        <3> HIDE DEF L
        <3>3. /\ own' \in [Doms -> 0..MaxEntries] /\ shr' \in [Doms -> 0..MaxEntries]
              /\ keys' \in [Doms -> 0..(Word - 1)]
            BY <3>1, <3>2, SmallOnes DEF StockInv, StockType
        <3>4. ASSUME NEW d \in listed, keys[d] >= own[d] + shr[d]
              PROVE keys'[d] >= own'[d] + shr'[d]
            <4>1. d \in Doms /\ keys[d] >= own[d]
                BY <1>0, <3>4, DomainsConstants DEF StockInv
            <4>2. CASE d \in L
                BY <1>0, <3>1, <3>2, <3>4, <4>1, <4>2, DomainsConstants
            <4>3. CASE d \notin L
                BY <3>1, <3>4, <4>1, <4>3
            <4>4. QED BY <4>2, <4>3
        <3>5. QED BY <3>1, <3>3, <3>4
    <2>3. QED BY <2>1, <2>2 DEF StockInv, StockType
<1>2. QED BY <1>1 DEF StockInv, StockType, OwnersListed, KeysSuffice

\* Every step keeps the invariant.
LEMMA NextStock ==
    ASSUME StockInv, [Next]_vars PROVE StockInv'
<1>1. CASE ParamsReset
    <2>1. Flushed /\ listed' = listed /\ mode' = mode /\ cost' = cost /\ off' = off
        BY <1>1 DEF ParamsReset, shares
    <2>2. QED BY <2>1, FlushedStock DEF StockInv, StockType
<1>2. CASE SetCacheMode
    <2>1. /\ Flushed /\ listed' = listed /\ cost' = cost /\ off' = off
          /\ mode' \in {"shared", "partition"}
        BY <1>2 DEF SetCacheMode, shares
    <2>2. QED BY <2>1, FlushedStock
<1>3. CASE UNCHANGED <<listed, stock>>
    BY <1>3 DEF stock, StockInv, StockType, OwnersListed, KeysSuffice
<1>4. \/ \E d \in Doms : Create(d) \/ Destroy(d) \/ Held(d) \/ Dropped(d)
      \/ \E d \in Doms : \E ms \in Times : Stored(d, ms)
      \/ ParamsReset \/ SetCacheMode \/ UNCHANGED <<listed, stock>>
    BY DEF Next, Step, vars, shares, Count, Rated, SetWeight
<1>5. QED BY <1>1, <1>2, <1>3, <1>4, CreateStock, DestroyStock, HeldStock, StoredStock,
             DroppedStock

LEMMA InitStock ==
    ASSUME Init PROVE StockInv
BY SmallOnes DEF Init, StockInv, StockType, OwnersListed, KeysSuffice

\* nr_keys is never below the number of entries of the domain, in its own list
\* and in the shared lists together, so that the unsigned decrement in
\* p_remove_hashT and s_remove_hashT does not wrap: for every domain that was
\* created when no entry of its id was left in the shared lists, and whose
\* nr_keys has not been incremented over the word.
THEOREM KeysAlwaysSuffice == Spec => []KeysSuffice
<1>1. Init => StockInv
    BY InitStock
<1>2. StockInv /\ [Next]_vars => StockInv'
    BY NextStock
<1>3. StockInv => KeysSuffice
    BY DEF StockInv
<1>4. QED BY <1>1, <1>2, <1>3, PTL DEF Spec

---------------------------------------------------------------------------
(* The total of the weights, in arithmetic modulo the word.                 *)

\* A number is a multiple of the word and its remainder, and in one way only.
LEMMA Division ==
    ASSUME NEW x \in Int
    PROVE x \div Word \in Int /\ x = Word * (x \div Word) + (x % Word)
<1>1. \A n \in Nat \ {0} : x \div n \in Int /\ x = n * (x \div n) + (x % n)
    OBVIOUS
<1>2. QED BY <1>1, DomainsConstants

LEMMA RemainderUnique ==
    ASSUME NEW x \in Int, NEW q \in Int, NEW r \in 0..(Word - 1), x = Word * q + r
    PROVE x % Word = r
<1> DEFINE p == x \div Word
           s == x % Word
<1>1. p \in Int /\ s \in 0..(Word - 1) /\ x = Word * p + s
    BY Division, Remainder, Zenon
<1> HIDE DEF p, s
<1>2. Word * (p - q) = r - s /\ p - q \in Int
    BY <1>1, DomainsConstants
<1>3. \A k \in Int : k >= 1 => Word * k >= Word
    BY DomainsConstants
<1>4. \A k \in Int : k <= -1 => Word * k <= -Word
    BY DomainsConstants
<1>5. ~(p - q >= 1) /\ ~(p - q <= -1)
    BY <1>1, <1>2, <1>3, <1>4, DomainsConstants
<1>6. p - q = 0
    BY <1>1, <1>5
<1>7. QED BY <1>1, <1>2, <1>6, DomainsConstants DEF s

\* Remainders may be added as they come.
LEMMA RemainderAdd ==
    ASSUME NEW x \in Int, NEW y \in Int
    PROVE ((x % Word) + y) % Word = (x + y) % Word
<1> DEFINE r == x % Word
           z == r + y
<1>1. r \in 0..(Word - 1) /\ x \div Word \in Int /\ x = Word * (x \div Word) + r
    BY Division, Remainder, Zenon
<1> HIDE DEF r
<1>2. z \in Int /\ z \div Word \in Int /\ z = Word * (z \div Word) + (z % Word)
      /\ z % Word \in 0..(Word - 1)
    <2>1. z \in Int
        BY <1>1, DomainsConstants
    <2>2. QED BY <2>1, Division, Remainder, Zenon
<1>3. x + y = Word * (x \div Word + z \div Word) + (z % Word)
    <2>1. \A a, b, c \in Int : x = Word * a + r /\ r + y = Word * b + c
                               => x + y = Word * (a + b) + c
        BY <1>1, DomainsConstants
    <2>2. z % Word \in Int
        BY <1>2, DomainsConstants
    <2>3. QED BY <1>1, <1>2, <2>1, <2>2, Zenon
<1>4. x + y \in Int /\ x \div Word + z \div Word \in Int
    BY <1>1, <1>2
<1>5. QED BY <1>2, <1>3, <1>4, RemainderUnique, Zenon DEF r

\* The inductive invariant about the total.
TotalInv ==
    /\ listed \subseteq Doms /\ weight \in [Doms -> 0..(Word - 1)]
    /\ TotalIsSum

LEMMA WeightsSum ==
    ASSUME TotalInv
    PROVE IsFiniteSet(listed) /\ SumOf(weight, listed) \in Int /\ total \in 0..(Word - 1)
<1>1. IsFiniteSet(listed)
    BY FS_Subset, DomainsConstants, Zenon DEF TotalInv
<1>2. \A e \in listed : weight[e] \in Int
    BY DomainsConstants DEF TotalInv
<1>3. SumOf(weight, listed) \in Int
    BY <1>1, <1>2, SumInt, Zenon
<1>4. QED BY <1>1, <1>3, Remainder, Zenon DEF TotalInv, TotalIsSum

LEMMA TotalAdds ==
    ASSUME TotalInv, NEW x \in Int
    PROVE (total + x) % Word = (SumOf(weight, listed) + x) % Word
BY WeightsSum, RemainderAdd, Zenon DEF TotalInv, TotalIsSum

LEMMA CreateTotal ==
    ASSUME TotalInv, NEW d \in Doms, Create(d) PROVE TotalInv'
<1> DEFINE w == [weight EXCEPT ![d] = IF d = Dom0 THEN 0 ELSE Default]
<1>1. /\ d \notin listed /\ listed' = listed \cup {d} /\ weight' = w
      /\ total' = (total + w[d]) % Word
    BY DEF Create
<1>2. w \in [Doms -> 0..(Word - 1)] /\ \A e \in listed : weight[e] = w[e]
    BY <1>1, DomainsConstants DEF TotalInv
<1> HIDE DEF w
<1>3. \A e \in listed' : w[e] \in Int
    BY <1>1, <1>2, DomainsConstants DEF TotalInv
<1>4. w[d] \in Int
    BY <1>1, <1>3
<1>5. SumOf(w, listed \cup {d}) = w[d] + SumOf(w, listed)
    BY <1>1, <1>3, WeightsSum, SumAdd, Zenon
<1>6. SumOf(weight, listed) = SumOf(w, listed)
    BY <1>2, WeightsSum, SumSame, Zenon
<1>7. w[d] + SumOf(weight, listed) = SumOf(weight, listed) + w[d]
    BY <1>4, WeightsSum
<1>8. total' = SumOf(w, listed') % Word
    BY <1>1, <1>4, <1>5, <1>6, <1>7, TotalAdds
<1>9. QED BY <1>1, <1>2, <1>8 DEF TotalInv, TotalIsSum

LEMMA DestroyTotal ==
    ASSUME TotalInv, NEW d \in Doms, Destroy(d) PROVE TotalInv'
<1>1. /\ d \in listed /\ listed' = listed \ {d} /\ weight' = weight
      /\ total' = (total - weight[d]) % Word
    BY DEF Destroy
<1>2. \A e \in listed : weight[e] \in Int
    BY DomainsConstants DEF TotalInv
<1>3. SumOf(weight, listed) = weight[d] + SumOf(weight, listed \ {d})
    BY <1>1, <1>2, WeightsSum, SumRemove, Zenon
<1>4. SumOf(weight, listed \ {d}) \in Int
    <2> DEFINE L == listed \ {d}
    <2>1. IsFiniteSet(L) /\ \A e \in L : weight[e] \in Int
        BY <1>2, WeightsSum, FS_RemoveElement, Zenon
    <2> HIDE DEF L
    <2>2. SumOf(weight, L) \in Int
        BY <2>1, SumInt, Zenon
    <2>3. QED BY <2>2, Zenon DEF L
<1>5. -weight[d] \in Int /\ total - weight[d] = total + (-weight[d])
    BY <1>1, <1>2, DomainsConstants, WeightsSum
<1>6. SumOf(weight, listed) + (-weight[d]) = SumOf(weight, listed \ {d})
    BY <1>1, <1>2, <1>3, <1>4
<1>7. total' = SumOf(weight, listed') % Word
    BY <1>1, <1>5, <1>6, TotalAdds
<1>8. QED BY <1>1, <1>7 DEF TotalInv, TotalIsSum

LEMMA SetWeightTotal ==
    ASSUME TotalInv, NEW d \in Doms, NEW w \in Weights, SetWeight(d, w)
    PROVE TotalInv'
<1> DEFINE v == [weight EXCEPT ![d] = w]
<1>1. /\ d \in listed /\ listed' = listed /\ weight' = v
      /\ total' = (total + w - weight[d]) % Word
    BY DEF SetWeight
<1>2. /\ v \in [Doms -> 0..(Word - 1)] /\ v[d] = w /\ w \in Int
      /\ \A e \in listed \ {d} : v[e] = weight[e]
    BY <1>1, DomainsConstants DEF TotalInv
<1> HIDE DEF v
<1>3. \A e \in listed : weight[e] \in Int /\ v[e] \in Int
    BY <1>1, <1>2, DomainsConstants DEF TotalInv
<1>4. SumOf(v, listed) = SumOf(weight, listed) - weight[d] + v[d]
    <2>1. IsFiniteSet(listed) /\ d \in listed
        BY <1>1, WeightsSum, Zenon
    <2>2. \A f, e : /\ \A x \in listed : f[x] \in Int /\ e[x] \in Int
                    /\ \A x \in listed \ {d} : e[x] = f[x]
                    => SumOf(e, listed) = SumOf(f, listed) - f[d] + e[d]
        BY <2>1, SumChange, SMT
    <2>3. QED BY <1>2, <1>3, <2>2, Zenon
<1>5. w - weight[d] \in Int /\ total + w - weight[d] = total + (w - weight[d])
    BY <1>1, <1>2, <1>3, DomainsConstants, WeightsSum
<1>6. SumOf(weight, listed) + (w - weight[d]) = SumOf(v, listed)
    BY <1>1, <1>2, <1>3, <1>4, WeightsSum
<1>7. total' = SumOf(v, listed') % Word
    BY <1>1, <1>5, <1>6, TotalAdds
<1>8. QED BY <1>1, <1>2, <1>7 DEF TotalInv, TotalIsSum

LEMMA NextTotal ==
    ASSUME TotalInv, [Next]_vars PROVE TotalInv'
<1>1. CASE UNCHANGED shares
    BY <1>1 DEF shares, TotalInv, TotalIsSum
<1>2. QED BY <1>1, SharesStep, CreateTotal, DestroyTotal, SetWeightTotal

LEMMA InitTotal ==
    ASSUME Init PROVE TotalInv
<1>1. listed = {} /\ total = 0 /\ weight = [d \in Doms |-> 0]
    BY DEF Init
<1>2. 0 \in 0..(Word - 1) /\ 0 % Word = 0
    BY DomainsConstants, SmallRemainder
<1>3. TotalIsSum
    BY <1>1, <1>2, SumEmpty, Zenon DEF TotalIsSum
<1>4. QED BY <1>1, <1>2, <1>3 DEF TotalInv

\* total_weight is the sum of the weights of the domains in the list, modulo
\* the word: mcd_domain_create adds, mcd_destroy takes away and set_weight
\* replaces exactly what is there, through every unsigned difference.
THEOREM TotalStaysSum == Spec => []TotalIsSum
<1>1. Init => TotalInv
    BY InitTotal
<1>2. TotalInv /\ [Next]_vars => TotalInv'
    BY NextTotal
<1>3. TotalInv => TotalIsSum
    BY DEF TotalInv
<1>4. QED BY <1>1, <1>2, <1>3, PTL DEF Spec

---------------------------------------------------------------------------
(* The ratios share a hundred.                                              *)

\* The weights of all domains together fit in the word: without this the
\* total wraps, and the ratios computed from it are too large.
WeightsFit ==
    \E m \in Nat : /\ Default <= m /\ \A w \in Weights : w <= m
                   /\ Cardinality(Doms) * m < Word

\* Such an m.
Fits(m) == Default <= m /\ (\A w \in Weights : w <= m) /\ Cardinality(Doms) * m < Word

\* The inductive invariant, for an m that fits.
HundredInv(m) ==
    /\ TotalInv /\ \A d \in Doms : weight[d] <= m
    /\ ratio \in [Doms -> Nat] /\ RatiosShareAHundred

\* Weights that fit have a sum that does not wrap.
LEMMA SumFits ==
    ASSUME NEW m \in Nat, Fits(m), NEW L \in SUBSET Doms,
           NEW w \in [Doms -> Nat], \A d \in Doms : w[d] <= m
    PROVE SumOf(w, L) \in Nat /\ SumOf(w, L) % Word = SumOf(w, L)
<1>1. IsFiniteSet(Doms) /\ IsFiniteSet(L)
    BY FS_Subset, DomainsConstants, Zenon
<1>2. /\ Cardinality(L) <= Cardinality(Doms)
      /\ Cardinality(L) \in Nat /\ Cardinality(Doms) \in Nat
    BY <1>1, FS_Subset, FS_CardinalityType, Zenon
<1>3. \A d \in L : w[d] \in 0..m /\ w[d] \in Nat
    OBVIOUS
<1>4. SumOf(w, L) <= Cardinality(L) * m /\ SumOf(w, L) \in Nat
    BY <1>1, <1>3, SumBound, SumNat, Zenon
<1>5. \A a, b \in Nat : a <= b => a * m <= b * m
    OBVIOUS
<1>6. Cardinality(L) * m <= Cardinality(Doms) * m
    BY <1>2, <1>5, Zenon
<1>7. SumOf(w, L) \in 0..(Word - 1)
    BY <1>2, <1>4, <1>6, DomainsConstants DEF Fits
<1>8. QED BY <1>4, <1>7, SmallRemainder, Zenon

\* A share times the total is at most the weight in hundredths.
LEMMA ShareBound ==
    ASSUME NEW w \in Nat, NEW t \in Nat \ {0}
    PROVE (((w * 100) % Word) \div t) * t <= w * 100
<1> DEFINE n == w * 100
<1>1. n \in Nat
    OBVIOUS
<1> HIDE DEF n
<1>2. n % Word \in Nat /\ n % Word <= n
    <2>1. \A b \in Nat \ {0} : n % b \in Nat /\ n % b <= n
        BY <1>1
    <2>2. QED BY <2>1, DomainsConstants
<1>3. \A k \in Nat : (k \div t) * t <= k /\ (k \div t) * t \in Int
    OBVIOUS
<1>4. ((n % Word) \div t) * t <= n % Word /\ ((n % Word) \div t) * t \in Int
    BY <1>2, <1>3, Zenon
<1>5. QED BY <1>1, <1>2, <1>4 DEF n

\* dom_weight_update keeps the sum of the ratios within a hundred: it makes
\* them new from a total that is the sum of the weights, or leaves them.
LEMMA RatiosHundred ==
    ASSUME NEW L \in SUBSET Doms, NEW w \in [Doms -> Nat], NEW r \in [Doms -> Nat],
           NEW t \in Nat, t = SumOf(w, L), SumOf(r, L) <= 100
    PROVE SumOf(Ratios(r, L, w, t), L) <= 100
<1>1. CASE t = 0
    <2>1. Ratios(r, L, w, t) = r
        BY <1>1 DEF Ratios
    <2>2. QED BY <2>1
<1>2. CASE t # 0
    <2> DEFINE a == Ratios(r, L, w, t)
    <2>1. IsFiniteSet(L)
        BY DomainsConstants, FS_Subset, Zenon
    <2>2. a \in [Doms -> Nat]
        BY RatiosType
    <2>3. \A d \in L : a[d] = ((w[d] * 100) % Word) \div t
        BY <1>2, RatiosValue
    <2> HIDE DEF a
    <2>4. \A d \in L : a[d] \in Int /\ w[d] \in Int /\ a[d] * t <= w[d] * 100
        <3> TAKE d \in L
        <3>1. w[d] \in Nat /\ a[d] \in Nat
            BY <2>2
        <3>2. a[d] * t <= w[d] * 100
            BY <1>2, <2>3, <3>1, ShareBound
        <3>3. QED BY <3>1, <3>2
    <2>5. t \in Int /\ 100 \in Int
        OBVIOUS
    <2>6. SumOf(a, L) * t <= SumOf(w, L) * 100
        BY <2>1, <2>4, <2>5, SumScale, Zenon
    <2>7. SumOf(a, L) \in Nat
        <3>1. \A d \in L : a[d] \in Nat
            BY <2>2
        <3>2. QED BY <2>1, <3>1, SumNat, Zenon
    <2>8. \A k \in Nat : k * t <= t * 100 => k <= 100
        BY <1>2
    <2>9. SumOf(a, L) <= 100
        BY <2>6, <2>7, <2>8
    <2>10. QED BY <2>9 DEF a
<1>3. QED BY <1>1, <1>2

\* What the three actions have in common: the new weights fit, the total has
\* been brought up to date, and the ratios are the old ones or computed anew
\* from ratios r whose sum is within a hundred.
LEMMA HundredIntro ==
    ASSUME NEW m \in Nat, Fits(m), TotalInv', \A d \in Doms : weight'[d] <= m,
           NEW r \in [Doms -> Nat], SumOf(r, listed') <= 100,
           \/ ratio' = r
           \/ ratio' = Ratios(r, listed', weight', total')
    PROVE HundredInv(m)'
<1> DEFINE w == weight'
           L == listed'
<1>1. L \in SUBSET Doms /\ w \in [Doms -> Nat] /\ total' = SumOf(w, L) % Word
    BY DomainsConstants DEF TotalInv, TotalIsSum
<1> HIDE DEF w, L
<1>2. total' \in Nat /\ total' = SumOf(w, L)
    BY <1>1, SumFits DEF w
<1>3. ratio' \in [Doms -> Nat] /\ SumOf(ratio', L) <= 100
    BY <1>1, <1>2, RatiosHundred, RatiosType DEF w, L
<1>4. QED BY <1>3 DEF HundredInv, RatiosShareAHundred, L

LEMMA CreateHundred ==
    ASSUME NEW m \in Nat, Fits(m), HundredInv(m), NEW d \in Doms, Create(d)
    PROVE HundredInv(m)'
<1> DEFINE w == [weight EXCEPT ![d] = IF d = Dom0 THEN 0 ELSE Default]
           r == [ratio EXCEPT ![d] = 0]
<1>1. TotalInv'
    BY CreateTotal DEF HundredInv
<1>2. /\ listed \subseteq Doms /\ d \notin listed /\ listed' = listed \cup {d}
      /\ weight' = w /\ (ratio' = r \/ ratio' = Ratios(r, listed', weight', total'))
    BY DEF Create, HundredInv, TotalInv
<1>3. \A e \in Doms : w[e] <= m
    BY DEF HundredInv, TotalInv, Fits
<1>4. r \in [Doms -> Nat] /\ r[d] = 0 /\ \A e \in listed : ratio[e] = r[e]
    BY <1>2 DEF HundredInv
<1> HIDE DEF w, r
<1>5. IsFiniteSet(listed)
    BY <1>2, DomainsConstants, FS_Subset, Zenon
<1>6. \A e \in listed \cup {d} : r[e] \in Int
    BY <1>2, <1>4
<1>7. SumOf(r, listed \cup {d}) = r[d] + SumOf(r, listed)
    BY <1>2, <1>5, <1>6, SumAdd, Zenon
<1>8. SumOf(ratio, listed) = SumOf(r, listed) /\ SumOf(r, listed) \in Int
    BY <1>4, <1>5, <1>6, SumSame, SumInt, Zenon
<1>9. SumOf(r, listed') <= 100
    BY <1>2, <1>4, <1>7, <1>8 DEF HundredInv, RatiosShareAHundred
<1>10. QED BY <1>1, <1>2, <1>3, <1>4, <1>9, HundredIntro

LEMMA DestroyHundred ==
    ASSUME NEW m \in Nat, Fits(m), HundredInv(m), NEW d \in Doms, Destroy(d)
    PROVE HundredInv(m)'
<1>1. TotalInv'
    BY DestroyTotal DEF HundredInv
<1>2. /\ listed \subseteq Doms /\ d \in listed /\ listed' = listed \ {d}
      /\ weight' = weight /\ ratio' = Ratios(ratio, listed', weight', total')
    BY DEF Destroy, HundredInv, TotalInv
<1>3. IsFiniteSet(listed) /\ IsFiniteSet(listed \ {d})
    BY <1>2, DomainsConstants, FS_Subset, FS_RemoveElement, Zenon
<1>4. \A e \in listed : ratio[e] \in Int
    BY <1>2 DEF HundredInv
<1>5. SumOf(ratio, listed) = ratio[d] + SumOf(ratio, listed \ {d})
    BY <1>2, <1>3, <1>4, SumRemove, Zenon
<1>6. SumOf(ratio, listed \ {d}) \in Int
    <2> DEFINE L == listed \ {d}
    <2>1. IsFiniteSet(L) /\ \A e \in L : ratio[e] \in Int
        BY <1>3, <1>4, Zenon
    <2> HIDE DEF L
    <2>2. SumOf(ratio, L) \in Int
        BY <2>1, SumInt, Zenon
    <2>3. QED BY <2>2, Zenon DEF L
<1>7. ratio[d] \in Nat
    BY DEF HundredInv
<1>8. SumOf(ratio, listed') <= 100
    BY <1>2, <1>5, <1>6, <1>7 DEF HundredInv, RatiosShareAHundred
<1>9. QED BY <1>1, <1>2, <1>8, HundredIntro DEF HundredInv

LEMMA SetWeightHundred ==
    ASSUME NEW m \in Nat, Fits(m), HundredInv(m), NEW d \in Doms, NEW w \in Weights,
           SetWeight(d, w)
    PROVE HundredInv(m)'
<1>1. TotalInv'
    BY SetWeightTotal DEF HundredInv
<1>2. /\ listed' = listed /\ weight' = [weight EXCEPT ![d] = w]
      /\ ratio' = Ratios(ratio, listed', weight', total')
    BY DEF SetWeight
<1>3. \A e \in Doms : weight'[e] <= m
    BY <1>2 DEF HundredInv, TotalInv, Fits
<1>4. ratio \in [Doms -> Nat] /\ SumOf(ratio, listed') <= 100
    BY <1>2 DEF HundredInv, RatiosShareAHundred
<1>5. QED BY <1>1, <1>2, <1>3, <1>4, HundredIntro

LEMMA NextHundred ==
    ASSUME NEW m \in Nat, Fits(m), HundredInv(m), [Next]_vars PROVE HundredInv(m)'
<1>1. CASE UNCHANGED shares
    BY <1>1 DEF shares, HundredInv, TotalInv, TotalIsSum, RatiosShareAHundred
<1>2. QED BY <1>1, SharesStep, CreateHundred, DestroyHundred, SetWeightHundred

\* The ratios of all domains make at most 100 together (xen/mcd.h, ratio), as
\* long as the weights of all domains together fit in the word.  This includes
\* the moments when no domain has any weight and dom_weight_update leaves the
\* ratios of before.
THEOREM RatiosMakeAHundred ==
    ASSUME WeightsFit PROVE Spec => []RatiosShareAHundred
<1>1. PICK m \in Nat : Fits(m)
    BY DEF WeightsFit, Fits
<1>2. Init => HundredInv(m)
    <2> SUFFICES ASSUME Init PROVE HundredInv(m)
        OBVIOUS
    <2>1. TotalInv
        BY InitTotal
    <2>2. listed = {} /\ weight = [d \in Doms |-> 0] /\ ratio = [d \in Doms |-> 0]
        BY DEF Init
    <2>3. SumOf(ratio, listed) = 0
        BY <2>2, SumEmpty, Zenon
    <2>4. QED BY <2>1, <2>2, <2>3 DEF HundredInv, RatiosShareAHundred
<1>3. HundredInv(m) /\ [Next]_vars => HundredInv(m)'
    BY <1>1, NextHundred
<1>4. HundredInv(m) => RatiosShareAHundred
    BY DEF HundredInv
<1>5. QED BY <1>2, <1>3, <1>4, PTL DEF Spec

---------------------------------------------------------------------------
(* The hit rate, and the divisions.                                         *)

\* The types of what is kept about the gets.
RatesType ==
    /\ succ \in [Doms -> 0..(Word - 1)] /\ fail \in [Doms -> 0..(Word - 1)]
    /\ hitrate \in [Doms -> 0..(Word - 1)] /\ due \in [Doms -> 0..Vcpus]
    /\ many \subseteq Doms /\ cleared \subseteq Doms

\* What holds of the counters of a domain that has not filled the word: they
\* have not wrapped, and a get that is to set the rate finds its own count,
\* unless a reset took it.
Rateable(d) ==
    /\ succ[d] + fail[d] < Word /\ hitrate[d] <= 100
    /\ due[d] > 0 => d \in cleared \/ succ[d] + fail[d] > 0

\* The inductive invariant.
RateInv ==
    /\ listed \subseteq Doms /\ RatesType
    /\ \A d \in Doms \ listed : due[d] = 0
    /\ \A d \in listed \ many : Rateable(d)

\* SET_HITRATE with counters that have not wrapped: the product may wrap, which
\* only makes it smaller.
LEMMA RateAtMostHundred ==
    ASSUME NEW s \in Nat, NEW t \in Nat \ {0}, s <= t
    PROVE ((s * 100) % Word) \div t <= 100
<1> DEFINE q == ((s * 100) % Word) \div t
<1>1. q \in Nat
    BY ShareType
<1>2. q * t <= s * 100
    BY ShareBound
<1> HIDE DEF q
<1>3. q * t <= t * 100
    BY <1>1, <1>2
<1>4. \A k \in Nat : k * t <= t * 100 => k <= 100
    OBVIOUS
<1>5. QED BY <1>1, <1>3, <1>4 DEF q

\* The same in the state of a domain that has not filled the word.
LEMMA RatedValue ==
    ASSUME RatesType, NEW d \in Doms, (succ[d] + fail[d]) % Word # 0
    PROVE LET q == ((succ[d] * 100) % Word) \div ((succ[d] + fail[d]) % Word)
          IN q \in 0..(Word - 1) /\ (succ[d] + fail[d] < Word => q <= 100)
<1> DEFINE s == succ[d]
           t == (succ[d] + fail[d]) % Word
<1>1. /\ s \in Nat /\ s * 100 \in Int /\ succ[d] + fail[d] \in Int
      /\ fail[d] \in Nat
    BY DomainsConstants DEF RatesType
<1>2. t \in 0..(Word - 1) /\ t \in Nat \ {0}
    BY <1>1, Remainder, DomainsConstants
<1>3. (s * 100) % Word \in 0..(Word - 1)
    BY <1>1, Remainder
<1>4. succ[d] + fail[d] < Word => t = succ[d] + fail[d]
    <2>1. succ[d] + fail[d] < Word => succ[d] + fail[d] \in 0..(Word - 1)
        BY <1>1, DomainsConstants
    <2>2. QED BY <2>1, SmallRemainder
<1>5. succ[d] + fail[d] < Word => s <= t
    BY <1>1, <1>4
<1> HIDE DEF s, t
<1>6. ((s * 100) % Word) \div t \in 0..(Word - 1)
    BY <1>2, <1>3, Quotient
<1>7. s <= t => ((s * 100) % Word) \div t <= 100
    BY <1>1, <1>2, RateAtMostHundred
<1>8. QED BY <1>5, <1>6, <1>7 DEF s, t

LEMMA CreateRate ==
    ASSUME RateInv, NEW d \in Doms, Create(d) PROVE RateInv'
<1>1. /\ d \notin listed /\ listed' = listed \cup {d} /\ due' = due
      /\ succ' = [succ EXCEPT ![d] = 1] /\ fail' = [fail EXCEPT ![d] = 1]
      /\ hitrate' = [hitrate EXCEPT ![d] = 0]
      /\ many' = many \ {d} /\ cleared' = cleared \ {d}
    BY DEF Create
<1>2. listed' \subseteq Doms /\ RatesType' /\ \A e \in Doms \ listed' : due'[e] = 0
    BY <1>1, SmallOnes DEF RateInv, RatesType
<1>3. ASSUME NEW e \in listed' \ many' PROVE Rateable(e)'
    <2>1. CASE e = d
        <3>1. succ'[d] = 1 /\ fail'[d] = 1 /\ hitrate'[d] = 0 /\ due'[d] = 0
            BY <1>1 DEF RateInv, RatesType
        <3>2. 1 + 1 < Word
            BY DomainsConstants
        <3>3. QED BY <2>1, <3>1, <3>2 DEF Rateable
    <2>2. CASE e # d
        <3>1. /\ e \in listed \ many /\ succ'[e] = succ[e] /\ fail'[e] = fail[e]
              /\ hitrate'[e] = hitrate[e] /\ due'[e] = due[e]
              /\ (e \in cleared' <=> e \in cleared)
            BY <1>1, <2>2 DEF RateInv, RatesType
        <3>2. QED BY <3>1 DEF RateInv, Rateable
    <2>3. QED BY <2>1, <2>2
<1>4. QED BY <1>2, <1>3 DEF RateInv

LEMMA DestroyRate ==
    ASSUME RateInv, NEW d \in Doms, Destroy(d) PROVE RateInv'
<1>1. listed' = listed \ {d} /\ due[d] = 0 /\ UNCHANGED rates
    BY DEF Destroy
<1>2. QED BY <1>1 DEF rates, RateInv, RatesType, Rateable

\* A count below the word does not wrap.
LEMMA CountRate ==
    ASSUME RateInv, NEW d \in Doms, NEW hit \in BOOLEAN, Count(d, hit) PROVE RateInv'
<1>1. /\ d \in listed /\ listed' = listed /\ due[d] < Vcpus
      /\ due' = [due EXCEPT ![d] = due[d] + 1]
      /\ hitrate' = hitrate /\ cleared' = cleared
      /\ many' = IF succ[d] + fail[d] + 1 >= Word THEN many \cup {d} ELSE many
      /\ \/ succ' = [succ EXCEPT ![d] = (succ[d] + 1) % Word] /\ fail' = fail
         \/ fail' = [fail EXCEPT ![d] = (fail[d] + 1) % Word] /\ succ' = succ
    <2>1. CASE hit
        BY <2>1 DEF Count, shares, RateInv, RatesType
    <2>2. CASE ~hit
        BY <2>2 DEF Count, shares, RateInv, RatesType
    <2>3. QED BY <2>1, <2>2
<1>2. /\ succ[d] \in 0..(Word - 1) /\ fail[d] \in 0..(Word - 1) /\ due[d] \in 0..Vcpus
      /\ succ[d] + 1 \in Int /\ fail[d] + 1 \in Int
    BY DomainsConstants DEF RateInv, RatesType
<1>3. (succ[d] + 1) % Word \in 0..(Word - 1) /\ (fail[d] + 1) % Word \in 0..(Word - 1)
    BY <1>2, Remainder
<1>4. due[d] + 1 \in 0..Vcpus
    BY <1>1, <1>2, DomainsConstants
<1>5. listed' \subseteq Doms /\ RatesType' /\ \A e \in Doms \ listed' : due'[e] = 0
    BY <1>1, <1>3, <1>4 DEF RateInv, RatesType
<1>6. ASSUME NEW e \in listed' \ many' PROVE Rateable(e)'
    <2>0. e \in listed \ many /\ Rateable(e)
        BY <1>1 DEF RateInv
    <2>1. CASE e = d
        <3>1. succ[d] + fail[d] + 1 < Word
            BY <1>1, <1>2, <2>1, DomainsConstants
        <3>2. succ[d] + 1 \in 0..(Word - 1) /\ fail[d] + 1 \in 0..(Word - 1)
            BY <1>2, <3>1, DomainsConstants
        <3>3. (succ[d] + 1) % Word = succ[d] + 1 /\ (fail[d] + 1) % Word = fail[d] + 1
            BY <3>2, SmallRemainder
        <3>4. succ'[d] + fail'[d] = succ[d] + fail[d] + 1
            BY <1>1, <1>2, <3>3, DomainsConstants DEF RateInv, RatesType
        <3>5. hitrate'[d] <= 100
            BY <1>1, <2>0, <2>1 DEF Rateable
        <3>6. QED BY <1>2, <2>1, <3>1, <3>4, <3>5, DomainsConstants DEF Rateable
    <2>2. CASE e # d
        <3>1. /\ succ'[e] = succ[e] /\ fail'[e] = fail[e] /\ hitrate'[e] = hitrate[e]
              /\ due'[e] = due[e]
            BY <1>1, <2>0, <2>2 DEF RateInv, RatesType
        <3>2. QED BY <1>1, <2>0, <3>1 DEF Rateable
    <2>3. QED BY <2>1, <2>2
<1>7. QED BY <1>5, <1>6 DEF RateInv

LEMMA RatedRate ==
    ASSUME RateInv, NEW d \in Doms, Rated(d) PROVE RateInv'
<1> DEFINE q == ((succ[d] * 100) % Word) \div ((succ[d] + fail[d]) % Word)
<1>1. /\ d \in listed /\ listed' = listed /\ due[d] > 0
      /\ due' = [due EXCEPT ![d] = due[d] - 1]
      /\ succ' = succ /\ fail' = fail /\ many' = many /\ cleared' = cleared
      /\ \/ hitrate' = hitrate
         \/ (succ[d] + fail[d]) % Word # 0 /\ hitrate' = [hitrate EXCEPT ![d] = q]
    BY DEF Rated, shares
<1>2. (succ[d] + fail[d]) % Word # 0
      => q \in 0..(Word - 1) /\ (succ[d] + fail[d] < Word => q <= 100)
    BY RatedValue DEF RateInv
<1> HIDE DEF q
<1>3. due[d] - 1 \in 0..Vcpus /\ due[d] \in Int
    BY <1>1, DomainsConstants DEF RateInv, RatesType
<1>4. listed' \subseteq Doms /\ RatesType' /\ \A e \in Doms \ listed' : due'[e] = 0
    BY <1>1, <1>2, <1>3 DEF RateInv, RatesType
<1>5. ASSUME NEW e \in listed' \ many' PROVE Rateable(e)'
    <2>0. e \in listed \ many /\ e \in Doms /\ Rateable(e)
        BY <1>1 DEF RateInv
    <2>1. due'[e] > 0 => due[e] > 0
        BY <1>1, <1>3, <2>0 DEF RateInv, RatesType
    <2>2. hitrate'[e] <= 100
        BY <1>1, <1>2, <2>0 DEF RateInv, RatesType, Rateable
    <2>3. QED BY <1>1, <2>0, <2>1, <2>2 DEF Rateable
<1>6. QED BY <1>4, <1>5 DEF RateInv

LEMMA ResetRate ==
    ASSUME RateInv, ParamsReset PROVE RateInv'
<1> DEFINE L == listed \ {Dom0}
<1>1. /\ listed' = listed /\ due' = due
      /\ succ' = [d \in Doms |-> IF d \in L THEN 0 ELSE succ[d]]
      /\ fail' = [d \in Doms |-> IF d \in L THEN 0 ELSE fail[d]]
      /\ hitrate' = [d \in Doms |-> IF d \in L THEN 0 ELSE hitrate[d]]
      /\ many' = many \ L /\ cleared' = (cleared \ L) \cup {d \in L : due[d] > 0}
    BY DEF ParamsReset, shares
<1>2. L \subseteq Doms
    BY DEF RateInv
<1> HIDE DEF L
<1>3. listed' \subseteq Doms /\ RatesType' /\ \A e \in Doms \ listed' : due'[e] = 0
    BY <1>1, <1>2, SmallOnes DEF RateInv, RatesType
<1>4. ASSUME NEW e \in listed' \ many' PROVE Rateable(e)'
    <2>1. e \in Doms /\ e \in listed
        BY <1>1 DEF RateInv
    <2>2. CASE e \in L
        BY <1>1, <2>1, <2>2, DomainsConstants DEF Rateable
    <2>3. CASE e \notin L
        BY <1>1, <2>1, <2>3 DEF RateInv, Rateable
    <2>4. QED BY <2>2, <2>3
<1>5. QED BY <1>3, <1>4 DEF RateInv

LEMMA NextRate ==
    ASSUME RateInv, [Next]_vars PROVE RateInv'
<1>1. CASE UNCHANGED <<listed, rates>>
    BY <1>1 DEF rates, RateInv, RatesType, Rateable
<1>2. \/ \E d \in Doms : Create(d) \/ Destroy(d) \/ Rated(d)
      \/ \E d \in Doms : \E hit \in BOOLEAN : Count(d, hit)
      \/ ParamsReset \/ UNCHANGED <<listed, rates>>
    BY DEF Next, Step, vars, shares, SetCacheMode, Held, Dropped, Stored, SetWeight
<1>3. QED BY <1>1, <1>2, CreateRate, DestroyRate, CountRate, RatedRate, ResetRate

LEMMA InitRate ==
    ASSUME Init PROVE RateInv
BY DomainsConstants, SmallOnes DEF Init, RateInv, RatesType

\* A hit rate is at most 100, so that MISSRATE (100 - hitrate, a factor of
\* COST) does not wrap: however the gets of a domain and resets interleave
\* between HIT or MISS and SET_HITRATE, and although get_succ * 100 wraps, as
\* long as the gets counted since the creation or the last reset do not fill
\* the word.
THEOREM HitrateStaysWithin == Spec => []HitrateWithin
<1>1. Init => RateInv
    BY InitRate
<1>2. RateInv /\ [Next]_vars => RateInv'
    BY NextRate
<1>3. RateInv => HitrateWithin
    BY DEF RateInv, Rateable, HitrateWithin
<1>4. QED BY <1>1, <1>2, <1>3, PTL DEF Spec

\* Only SET_HITRATE and P_REC_AVG_CAL divide by something that can be 0.
LEMMA NextDivisor ==
    ASSUME RateInv, StockInv, DivisorsNonzero, [Next]_vars PROVE DivisorsNonzero'
<1>1. ASSUME NEW d \in Doms, Rated(d), down', ~down PROVE d \in many' \cup cleared'
    <2>1. /\ d \in listed /\ due[d] > 0 /\ many' = many /\ cleared' = cleared
          /\ (succ[d] + fail[d]) % Word = 0
        BY <1>1 DEF Rated
    <2>2. CASE d \notin many
        <3>1. Rateable(d)
            BY <2>1, <2>2 DEF RateInv
        <3>2. succ[d] + fail[d] \in 0..(Word - 1)
            BY <3>1, DomainsConstants DEF RateInv, RatesType, Rateable
        <3>3. succ[d] + fail[d] = 0
            BY <2>1, <3>2, SmallRemainder
        <3>4. QED BY <2>1, <3>1, <3>3 DEF Rateable
    <2>3. QED BY <2>1, <2>2
<1>2. ASSUME NEW d \in Doms, NEW ms \in Times, Stored(d, ms), down', ~down
      PROVE d \in off'
    <2>1. /\ (keys[d] + 2) % Word = 0
          /\ off' = IF keys[d] + 2 >= Word THEN off \cup {d} ELSE off
        BY <1>2 DEF Stored
    <2>2. keys[d] \in Nat /\ keys[d] + 2 \in Nat
        BY DomainsConstants DEF StockInv, StockType
    <2>3. keys[d] + 2 < Word => keys[d] + 2 \in 0..(Word - 1)
        BY <2>2, DomainsConstants
    <2>4. ~(keys[d] + 2 < Word)
        BY <2>1, <2>2, <2>3, SmallRemainder
    <2>5. QED BY <2>1, <2>2, <2>4, DomainsConstants
<1>3. \/ \E d \in Doms : Rated(d) /\ ~down
      \/ \E d \in Doms : \E ms \in Times : Stored(d, ms) /\ ~down
      \/ ~down /\ ~down'
      \/ UNCHANGED vars
    BY DEF Next, Step, ParamsReset, SetCacheMode, Create, Destroy, Held, Dropped, SetWeight,
           Count
<1>4. CASE UNCHANGED vars
    BY <1>4 DEF vars, rates, stock, DivisorsNonzero
<1>5. QED BY <1>1, <1>2, <1>3, <1>4 DEF DivisorsNonzero

\* SET_HITRATE divides by zero only when the gets of a domain have filled the
\* word or a reset came between the count and the division, P_REC_AVG_CAL only
\* when nr_keys has gone over the word or was started over another domain's
\* entries; no other history of creations, resets, flushes and gets does it.
THEOREM DivisorsStayNonzero == Spec => []DivisorsNonzero
<1> DEFINE I == RateInv /\ StockInv /\ DivisorsNonzero
<1>1. Init => I
    BY InitRate, InitStock DEF Init, DivisorsNonzero
<1>2. I /\ [Next]_vars => I'
    BY NextRate, NextStock, NextDivisor
<1>3. I => DivisorsNonzero
    OBVIOUS
<1>4. QED BY <1>1, <1>2, <1>3, PTL DEF Spec

---------------------------------------------------------------------------
(* The width of every field.                                                *)

SharesWidth ==
    /\ listed \subseteq Doms /\ total \in 0..(Word - 1)
    /\ weight \in [Doms -> 0..(Word - 1)] /\ ratio \in [Doms -> 0..(Word - 1)]

\* The inductive invariant.
WidthInv ==
    profile \in Profiles /\ down \in BOOLEAN /\ SharesWidth /\ RateInv /\ StockInv

LEMMA RatiosWidth ==
    ASSUME NEW r \in [Doms -> 0..(Word - 1)], NEW L, NEW w \in [Doms -> 0..(Word - 1)],
           NEW t \in 0..(Word - 1)
    PROVE Ratios(r, L, w, t) \in [Doms -> 0..(Word - 1)]
<1>1. CASE t = 0
    BY <1>1 DEF Ratios
<1>2. CASE t # 0
    <2>1. \A n, k \in Nat : k # 0 => n \div k \in 0..n
        OBVIOUS
    <2>2. ASSUME NEW d \in Doms PROVE ((w[d] * 100) % Word) \div t \in 0..(Word - 1)
        <3> DEFINE n == (w[d] * 100) % Word
        <3>1. w[d] * 100 \in Int
            BY DomainsConstants
        <3>2. n \in 0..(Word - 1)
            BY <3>1, Remainder
        <3> HIDE DEF n
        <3>3. n \div t \in 0..n
            BY <1>2, <2>1, <3>2, DomainsConstants
        <3>4. n \div t \in 0..(Word - 1)
            BY <3>2, <3>3, DomainsConstants
        <3>5. QED BY <3>4 DEF n
    <2>3. QED BY <1>2, <2>2 DEF Ratios
<1>3. QED BY <1>1, <1>2

LEMMA NextSharesWidth ==
    ASSUME SharesWidth, [Next]_vars PROVE SharesWidth'
<1>1. CASE UNCHANGED shares
    BY <1>1 DEF shares, SharesWidth
<1>2. ASSUME NEW d \in Doms, Create(d) PROVE SharesWidth'
    <2> DEFINE w == [weight EXCEPT ![d] = IF d = Dom0 THEN 0 ELSE Default]
               r == [ratio EXCEPT ![d] = 0]
    <2>1. /\ w \in [Doms -> 0..(Word - 1)] /\ r \in [Doms -> 0..(Word - 1)]
          /\ total + w[d] \in Int
        BY DomainsConstants DEF SharesWidth
    <2>2. /\ listed' = listed \cup {d} /\ weight' = w
          /\ total' = (total + w[d]) % Word
          /\ ratio' = r \/ ratio' = Ratios(r, listed', w, total')
        BY <1>2 DEF Create
    <2> HIDE DEF w, r
    <2>3. total' \in 0..(Word - 1)
        BY <2>1, <2>2, Remainder
    <2>4. ratio' \in [Doms -> 0..(Word - 1)]
        <3>1. Ratios(r, listed', w, total') \in [Doms -> 0..(Word - 1)]
            BY <2>1, <2>3, RatiosWidth, Zenon
        <3>2. QED BY <2>1, <2>2, <3>1, Zenon
    <2>5. QED BY <2>1, <2>2, <2>3, <2>4 DEF SharesWidth
<1>3. ASSUME NEW d \in Doms, Destroy(d) PROVE SharesWidth'
    <2>1. /\ listed' \subseteq Doms /\ weight' = weight
          /\ total' = (total - weight[d]) % Word
          /\ ratio' = Ratios(ratio, listed', weight, total')
        BY <1>3 DEF Destroy, SharesWidth
    <2>2. total - weight[d] \in Int
        BY DomainsConstants DEF SharesWidth
    <2>3. total' \in 0..(Word - 1)
        BY <2>1, <2>2, Remainder
    <2>4. QED BY <2>1, <2>3, RatiosWidth DEF SharesWidth
<1>4. ASSUME NEW d \in Doms, NEW w \in Weights, SetWeight(d, w) PROVE SharesWidth'
    <2> DEFINE v == [weight EXCEPT ![d] = w]
    <2>1. /\ listed' = listed /\ weight' = v
          /\ total' = (total + w - weight[d]) % Word
          /\ ratio' = Ratios(ratio, listed, weight', total')
        BY <1>4 DEF SetWeight
    <2>2. v \in [Doms -> 0..(Word - 1)] /\ total + w - weight[d] \in Int
        BY DomainsConstants DEF SharesWidth
    <2> HIDE DEF v
    <2>3. total' \in 0..(Word - 1)
        BY <2>1, <2>2, Remainder
    <2>4. ratio' \in [Doms -> 0..(Word - 1)]
        BY <2>1, <2>2, <2>3, RatiosWidth, Zenon DEF SharesWidth
    <2>5. QED BY <2>1, <2>2, <2>3, <2>4 DEF SharesWidth
<1>5. QED BY <1>1, <1>2, <1>3, <1>4, SharesStep

\* Every field that the code keeps about a domain stays within its unsigned
\* word, whatever wraps.
THEOREM FieldsKeepWidth == Spec => []TypeOK
<1>1. Init => WidthInv
    BY InitRate, InitStock, SmallOnes DEF Init, WidthInv, SharesWidth
<1>2. WidthInv /\ [Next]_vars => WidthInv'
    <2> SUFFICES ASSUME WidthInv, [Next]_vars PROVE WidthInv'
        OBVIOUS
    <2>1. profile' = profile
        BY DEF Next, vars
    <2>2. down' \in BOOLEAN
        BY DEF WidthInv, Next, Step, vars, ParamsReset, SetCacheMode, Create, Destroy, Held,
               Dropped, SetWeight, Count, Rated, Stored
    <2>3. SharesWidth' /\ RateInv' /\ StockInv'
        BY NextSharesWidth, NextRate, NextStock DEF WidthInv
    <2>4. QED BY <2>1, <2>2, <2>3 DEF WidthInv
<1>3. WidthInv => TypeOK
    BY DEF WidthInv, SharesWidth, RateInv, RatesType, StockInv, StockType, TypeOK
<1>4. QED BY <1>1, <1>2, <1>3, PTL DEF Spec
=============================================================================
