-------------------------- MODULE McdReplaceProofs --------------------------
(***************************************************************************)
(* What the replacement algorithms take, whatever the domains, their        *)
(* entries, weights and sizes and the replacement modes are, and however    *)
(* often the mode changes during the call: weight based replacement spares  *)
(* the innocent (InnocentsKeep) and lets the caller pay last                *)
(* (CallerPaysLast), every algorithm keeps the contract on which McdCache   *)
(* relies (ContractKept), the last loop of the weight based one never finds *)
(* anything (LastLoopSpins), and LFRU takes the oldest (OldestGo).          *)
(*                                                                          *)
(* InnocentsKeep speaks of the shares at the start of the call, the loops   *)
(* look at the present ones.  SpareInv says that the share of a domain that *)
(* lost nothing has not changed, and that a guest's call is in one of the   *)
(* loops that look at shares.  The other results rest on LoopInv: a pass    *)
(* that has found nothing up to list `at' has left nothing wanted behind    *)
(* it (SweepInv), so what a loop leaves to the next one is known when it    *)
(* ends.                                                                    *)
(***************************************************************************)
EXTENDS McdReplace, McdSumsProofs

GuestCall == call.algo = "WB" /\ call.caller # 0

Innocent(l) == ~(FirstRate(l) > fair) /\ ~(FirstCurr(l) > 100)

SpareInv ==
    /\ DOMAIN lists = Lists /\ DOMAIN curr = Lists
    /\ GuestCall =>
         /\ phase \in {"others", "self over", "others over", "self", "last", "done"}
         /\ \A l \in Lists \ {call.caller} : Innocent(l) =>
              lists[l] = First(l) /\ curr[l] = FirstCurr(l)

LEMMA InitSpares == Init => SpareInv
  <1> SUFFICES ASSUME Init PROVE SpareInv
    OBVIOUS
  <1>1. /\ lists = [l \in Lists |-> First(l)]
        /\ curr = [l \in Lists |-> FirstCurr(l)]
    BY DEF Init, FirstCurr
  <1>2. GuestCall => phase = "others"
    BY DEF Init, FirstPhase, GuestCall
  <1>3. QED
    BY <1>1, <1>2 DEF SpareInv

\* No loop of a guest's call wants an innocent domain.
LEMMA Unwanted ==
  ASSUME SpareInv, GuestCall, phase # "done",
         NEW l \in Lists \ {call.caller}, Innocent(l)
  PROVE  ~Wants(l)
  <1>1. curr[l] = FirstCurr(l) /\ FairRate(l) = FirstRate(l)
    BY DEF SpareInv, FairRate, FirstRate
  <1>2. phase \in {"others", "self over", "others over", "self", "last"}
    BY DEF SpareInv
  <1>3. QED
    BY <1>1, <1>2 DEF Wants, Innocent

LEMMA VisitSpares == ASSUME SpareInv, Visit PROVE SpareInv'
  <1>1. UNCHANGED <<call, fair, phase>> /\ at \in Lists /\ phase # "done"
    BY DEF Visit
  <1>2. /\ DOMAIN lists' = Lists /\ DOMAIN curr' = Lists
        /\ \A l \in Lists \ {at} : lists'[l] = lists[l] /\ curr'[l] = curr[l]
        /\ Takes(at) = {} => lists'[at] = lists[at] \ {} /\ curr' = curr
    BY DEF Visit, SpareInv
  <1>3. ASSUME GuestCall, NEW l \in Lists \ {call.caller}, Innocent(l)
        PROVE  lists'[l] = First(l) /\ curr'[l] = FirstCurr(l)
    <2>1. lists[l] = First(l) /\ curr[l] = FirstCurr(l)
      BY <1>3 DEF SpareInv
    <2>2. l = at => Takes(at) = {}
      BY <1>1, <1>3, Unwanted DEF Takes
    <2>3. lists[l] \ {} = lists[l]
      BY <2>1 DEF First
    <2>4. QED
      BY <1>2, <2>1, <2>2, <2>3
  <1>4. /\ GuestCall' = GuestCall
        /\ \A l \in Lists : /\ Innocent(l)' = Innocent(l)
                            /\ First(l)' = First(l) /\ FirstCurr(l)' = FirstCurr(l)
    BY <1>1 DEF GuestCall, Innocent, FirstRate, FirstCurr, First, Usage, Entries, Entry
  <1>5. QED
    BY <1>1, <1>2, <1>3, <1>4 DEF SpareInv

LEMMA TurnSpares == ASSUME SpareInv, Turn PROVE SpareInv'
  <1>1. UNCHANGED <<call, lists, curr>> /\ phase # "done"
    BY DEF Turn
  <1>2. GuestCall => phase \in {"others", "self over", "others over", "self", "last"}
    BY <1>1 DEF SpareInv
  <1>3. GuestCall => fair' = fair
    BY <1>2 DEF Turn
  <1>4. ASSUME GuestCall
        PROVE  phase' \in {"others", "self over", "others over", "self", "last", "done"}
    <2>1. phase' = "done" \/ phase' = phase \/ phase' = NextPhase
      BY DEF Turn
    <2>2. CASE phase = "last"
      BY <2>2, Zenon DEF Turn, Again
    <2>3. CASE phase # "last"
      BY <1>2, <1>4, <2>1, <2>3 DEF NextPhase
    <2>4. QED
      BY <2>2, <2>3
  <1>5. /\ GuestCall' = GuestCall
        /\ \A l \in Lists : /\ GuestCall => Innocent(l)' = Innocent(l)
                            /\ First(l)' = First(l) /\ FirstCurr(l)' = FirstCurr(l)
    BY <1>1, <1>3 DEF GuestCall, Innocent, FirstRate, FirstCurr, First, Usage, Entries, Entry
  <1>6. QED
    BY <1>1, <1>4, <1>5 DEF SpareInv

LEMMA NextSpares == SpareInv /\ [Next]_vars => SpareInv'
  <1> SUFFICES ASSUME SpareInv, [Next]_vars PROVE SpareInv'
    OBVIOUS
  <1>1. CASE Visit
    BY <1>1, VisitSpares
  <1>2. CASE Turn
    BY <1>2, TurnSpares
  <1>3. CASE (\E m \in Modes : SetReplacement(m)) \/ UNCHANGED vars
    <2>1. UNCHANGED <<call, lists, curr, fair, phase>>
      BY <1>3 DEF SetReplacement, vars
    <2>2. /\ GuestCall' = GuestCall
          /\ \A l \in Lists : /\ Innocent(l)' = Innocent(l)
                              /\ First(l)' = First(l) /\ FirstCurr(l)' = FirstCurr(l)
      BY <2>1 DEF GuestCall, Innocent, FirstRate, FirstCurr, First, Usage, Entries, Entry
    <2>3. QED
      BY <2>1, <2>2 DEF SpareInv
  <1>4. QED
    BY <1>1, <1>2, <1>3 DEF Next

\* A guest's call of partition_cf_weight_based takes nothing from a domain
\* that uses no more of its share than the caller and is within its share.
THEOREM InnocentsSpared == Spec => []InnocentsKeep
  <1>1. SpareInv => InnocentsKeep
    BY DEF SpareInv, InnocentsKeep, GuestCall, Innocent, Taken
  <1>2. QED
    BY <1>1, InitSpares, NextSpares, PTL DEF Spec

---------------------------------------------------------------------------
(* What the scans of a list find.                                           *)

\* A call has its types.
LEMMA CallTypes ==
  ASSUME call \in Calls
  PROVE  /\ IsFiniteSet(Entries) /\ Entries \subseteq Nat
         /\ \A e \in Entries :
              /\ Entry(e).list \in Lists /\ Entry(e).bytes \in Nat /\ Entry(e).put \in 0..Now
              /\ Entry(e).ref \in 0..(MaxRef - 1)
              /\ Entry(e).query \in Nat /\ Entry(e).val \in Nat
         /\ call.amount \in Nat \ {0} /\ call.caller \in Nat /\ call.stale \in Nat
         /\ call.ratio \in [Lists -> Nat] /\ call.hitrate \in [Lists -> 0..100]
         /\ call.rec \in [Lists -> Nat]
         /\ call.algo \in {"shared", "WB", "AD"} /\ call.mode \in {"LFRU", "FAST", "SCORE"}
  <1> DEFINE R == [list : Lists, bytes : Nat \ {0}, put : 0..Now,
                   ref : 0..(MaxRef - 1), query : Nat, val : Nat]
  <1>1. /\ call.stock \in Seq(R)
        /\ call.amount \in Nat \ {0} /\ call.caller \in Nat /\ call.stale \in Nat
        /\ call.ratio \in [Lists -> Nat] /\ call.hitrate \in [Lists -> 0..100]
        /\ call.rec \in [Lists -> Nat]
        /\ call.algo \in {"shared", "WB", "AD"} /\ call.mode \in {"LFRU", "FAST", "SCORE"}
    BY ReplaceConstants, Zenon
  <1>2. ASSUME NEW r \in R
        PROVE  /\ r.list \in Lists /\ r.bytes \in Nat /\ r.put \in 0..Now
               /\ r.ref \in 0..(MaxRef - 1) /\ r.query \in Nat /\ r.val \in Nat
    OBVIOUS
  <1> HIDE DEF R
  <1>3. Entries = 1..Len(call.stock) /\ Len(call.stock) \in Nat
        /\ \A e \in Entries : Entry(e) \in R
    BY <1>1 DEF Entries, Entry
  <1>4. IsFiniteSet(Entries) /\ Entries \subseteq Nat
    <2>1. 1 \in Int /\ Len(call.stock) \in Int
      BY <1>3
    <2>2. IsFiniteSet(1..Len(call.stock))
      BY <2>1, FS_Interval, Zenon
    <2>3. 1..Len(call.stock) \subseteq Nat
      BY <1>3
    <2>4. QED
      BY <1>3, <2>2, <2>3, Zenon
  <1>5. QED
    BY <1>1, <1>2, <1>3, <1>4, Zenon

\* A scan finds at most one entry,
LEMMA LeastByOne ==
  ASSUME NEW T \in SUBSET Nat, NEW rank, \A e \in T : rank[e] \in Int,
         NEW e \in LeastBy(T, rank), NEW f \in LeastBy(T, rank)
  PROVE  e = f
  <1>1. e \in T /\ f \in T
    BY Zenon DEF LeastBy
  <1>2. /\ rank[e] < rank[f] \/ (rank[e] = rank[f] /\ e <= f)
        /\ rank[f] < rank[e] \/ (rank[f] = rank[e] /\ f <= e)
    BY Zenon DEF LeastBy
  <1>3. rank[e] \in Int /\ rank[f] \in Int /\ e \in Nat /\ f \in Nat
    BY <1>1, Zenon
  <1>4. QED
    BY <1>2, <1>3

\* and one if there is any.
LEMMA LeastBySome ==
  ASSUME NEW T \in SUBSET Nat, IsFiniteSet(T), T # {}, NEW rank,
         \A e \in T : rank[e] \in Int
  PROVE  \E e \in T : e \in LeastBy(T, rank)
  <1> DEFINE Below(e, f) == rank[e] < rank[f] \/ (rank[e] = rank[f] /\ e <= f)
             C == {t \in SUBSET T : t # {} /\ ~\E e \in t : \A f \in t : Below(e, f)}
  <1>1. C \subseteq SUBSET T
    BY Zenon
  <1>2. C = {}
    <2> SUFFICES ASSUME C # {} PROVE FALSE
      BY Zenon
    <2>1. PICK t \in C : \A x \in t : t \ {x} \notin C
      BY <1>1, SmallestSubset, Zenon
    <2>2. PICK x \in t : TRUE
      BY <2>1, Zenon
    <2>3. \A e, f \in t : e \in Nat /\ f \in Nat /\ rank[e] \in Int /\ rank[f] \in Int
      BY <1>1, <2>1, Zenon
    <2>4. \A e \in t : Below(e, e)
      BY <2>3
    <2>5. \A e, f \in t : Below(e, f) \/ Below(f, e)
      <3> TAKE e, f \in t
      <3>1. e \in Nat /\ f \in Nat /\ rank[e] \in Int /\ rank[f] \in Int
        BY <2>3, Zenon
      <3>2. QED
        BY <3>1
    <2>6. \A e, f, g \in t : Below(e, f) /\ Below(f, g) => Below(e, g)
      <3> TAKE e, f, g \in t
      <3>1. /\ e \in Nat /\ f \in Nat /\ g \in Nat
            /\ rank[e] \in Int /\ rank[f] \in Int /\ rank[g] \in Int
        BY <2>3, Zenon
      <3>2. QED
        BY <3>1
    <2> HIDE DEF Below
    <2>7. CASE t \ {x} = {}
      <3>1. \A f \in t : Below(x, f)
        <4>1. \A f \in t : f = x
          BY <2>7, Zenon
        <4>2. QED
          BY <2>2, <2>4, <4>1, Zenon
      <3>2. QED
        BY <2>1, <2>2, <3>1, Zenon
    <2>8. CASE t \ {x} # {}
      <3>1. PICK e \in t \ {x} : \A f \in t \ {x} : Below(e, f)
        BY <1>1, <2>1, <2>2, <2>8, Zenon
      <3>2. CASE Below(e, x)
        <4>1. \A f \in t : Below(e, f)
          BY <3>1, <3>2, Zenon
        <4>2. QED
          BY <2>1, <3>1, <4>1, Zenon
      <3>3. CASE Below(x, e)
        <4>1. \A f \in t : Below(x, f)
          BY <2>2, <2>4, <2>6, <3>1, <3>3, Zenon
        <4>2. QED
          BY <2>1, <2>2, <4>1, Zenon
      <3>4. QED
        BY <2>2, <2>5, <3>1, <3>2, <3>3, Zenon
    <2>9. QED
      BY <2>7, <2>8, Zenon
  <1>3. T \in SUBSET T
    BY Zenon
  <1>4. PICK e \in T : \A f \in T : Below(e, f)
    BY <1>2, <1>3, Zenon
  <1>5. e \in LeastBy(T, rank)
    BY <1>4, Zenon DEF LeastBy
  <1>6. QED
    BY <1>5, Zenon

\* A function on a finite set of numbers has a greatest value.
LEMMA GreatestValue ==
  ASSUME NEW S \in SUBSET Nat, IsFiniteSet(S), S # {}, NEW f, \A x \in S : f[x] \in Int
  PROVE  \E x \in S : \A y \in S : f[y] <= f[x]
  <1> DEFINE rank == [x \in S |-> -f[x]]
  <1>1. \A x \in S : rank[x] \in Int /\ rank[x] = -f[x] /\ f[x] \in Int
    OBVIOUS
  <1> HIDE DEF rank
  <1>2. PICK x \in S : x \in LeastBy(S, rank)
    BY <1>1, LeastBySome, Zenon
  <1>3. \A y \in S : rank[x] < rank[y] \/ (rank[x] = rank[y] /\ x <= y)
    BY <1>2, Zenon DEF LeastBy
  <1>4. \A y \in S : f[y] <= f[x]
    <2> TAKE y \in S
    <2>1. rank[x] < rank[y] \/ rank[x] = rank[y]
      BY <1>3, Zenon
    <2>2. rank[x] = -f[x] /\ rank[y] = -f[y] /\ f[x] \in Int /\ f[y] \in Int
      BY <1>1, Zenon
    <2>3. QED
      BY <2>1, <2>2
  <1>5. QED
    BY <1>4, Zenon

LEMMA QueryMaxType == ASSUME call \in Calls PROVE QueryMax \in Nat \ {0}
  <1> DEFINE all == {1} \cup UNION {{Entry(e).query, Entry(e).val} : e \in Entries}
  <1>1. /\ IsFiniteSet(Entries) /\ Entries \subseteq Nat
        /\ \A e \in Entries : Entry(e).query \in Nat /\ Entry(e).val \in Nat
    BY CallTypes, Zenon
  <1>2. \A n \in all : n \in Nat
    BY <1>1
  <1>3. \E m \in all : \A n \in all : n <= m
    <2>1. CASE Entries = {}
      BY <2>1
    <2>2. CASE Entries # {}
      <3> DEFINE f == [e \in Entries |-> IF Entry(e).query >= Entry(e).val
                                         THEN Entry(e).query ELSE Entry(e).val]
      <3>1. \A e \in Entries : f[e] \in Int /\ f[e] \in all
        BY <1>1
      <3>2. \A e \in Entries : Entry(e).query <= f[e] /\ Entry(e).val <= f[e]
        BY <1>1
      <3> HIDE DEF f
      <3>3. PICK x \in Entries : \A y \in Entries : f[y] <= f[x]
        BY <1>1, <2>2, <3>1, GreatestValue, Zenon
      <3>4. \A y \in Entries : Entry(y).query <= f[x] /\ Entry(y).val <= f[x]
        BY <1>1, <3>1, <3>2, <3>3
      <3>5. CASE f[x] >= 1
        BY <3>1, <3>4, <3>5
      <3>6. CASE ~(f[x] >= 1)
        BY <1>1, <3>1, <3>4, <3>6
      <3>7. QED
        BY <3>5, <3>6
    <2>3. QED
      BY <2>1, <2>2
  <1>4. QueryMax = CHOOSE m \in all : \A n \in all : n <= m
    BY Zenon DEF QueryMax
  <1>5. QueryMax \in all /\ \A n \in all : n <= QueryMax
    BY <1>3, <1>4, Zenon
  <1>6. 1 \in all
    BY Zenon
  <1> HIDE DEF all
  <1>7. QED
    BY <1>2, <1>5, <1>6

LEMMA ScoreType == ASSUME call \in Calls PROVE \A e \in Entries : Score(e) \in Int
  <1> TAKE e \in Entries
  <1>1. Entry(e).put \in Nat /\ Entry(e).query \in Nat /\ Entry(e).val \in Nat
    BY CallTypes, ReplaceConstants
  <1>2. \A n \in Nat, k \in Nat \ {0} : (n * 10) \div k \in Int
    OBVIOUS
  <1> DEFINE a == (Entry(e).put * 10) \div Now
             b == (Entry(e).query * 10) \div QueryMax
             c == (Entry(e).val * 10) \div ValMax
  <1>3. a \in Int /\ b \in Int /\ c \in Int
    <2>1. Now \in Nat \ {0} /\ QueryMax \in Nat \ {0} /\ ValMax \in Nat \ {0}
      BY QueryMaxType, ReplaceConstants DEF ValMax
    <2>2. QED
      BY <1>1, <1>2, <2>1, Zenon
  <1> DEFINE s == Alpha * a + Beta * (10 - b) + (100 - Alpha - Beta) * c
  <1>4. Score(e) = s \div 1000
    BY Zenon DEF Score
  <1> HIDE DEF a, b, c
  <1>5. s \in Int
    BY <1>3, ReplaceConstants
  <1> HIDE DEF s
  <1>6. \A n \in Int : n \div 1000 \in Int
    OBVIOUS
  <1>7. QED
    BY <1>4, <1>5, <1>6

\* In every mode a visit to a list with entries takes at least one, so that a
\* pass that finds nothing has found the wanted lists empty.
LEMMA ChosenSome ==
  ASSUME call \in Calls, rmode \in {"LFRU", "FAST", "SCORE"},
         NEW S \in SUBSET Entries, S # {}
  PROVE  Chosen(S) # {}
  <1>1. /\ IsFiniteSet(S) /\ S \subseteq Nat
        /\ \A e \in S : Entry(e).put \in Nat /\ Entry(e).ref \in Nat /\ Entry(e).ref < MaxRef
    <2>1. /\ IsFiniteSet(Entries) /\ Entries \subseteq Nat
          /\ \A e \in Entries : Entry(e).put \in 0..Now /\ Entry(e).ref \in 0..(MaxRef - 1)
      BY CallTypes, Zenon
    <2>2. \A i \in 0..Now, j \in 0..(MaxRef - 1) : i \in Nat /\ j \in Nat /\ j < MaxRef
      BY ReplaceConstants
    <2>3. QED
      BY <2>1, <2>2, FS_Subset, Zenon
  <1>2. CASE rmode = "FAST"
    BY <1>2 DEF Chosen
  <1>3. CASE rmode = "SCORE"
    <2> DEFINE rank == [e \in S |-> Score(e)]
    <2>1. \A e \in S : rank[e] \in Int
      BY ScoreType, Zenon
    <2>2. Chosen(S) = LeastBy(S, rank)
      BY <1>3 DEF Chosen
    <2> HIDE DEF rank
    <2>3. QED
      BY <1>1, <2>1, <2>2, LeastBySome, Zenon
  <1>4. CASE rmode = "LFRU"
    <2>1. Chosen(S) = LeastRecent(S) \cup LeastFrequent(S)
      BY <1>4 DEF Chosen
    <2>2. CASE \E e \in S : Entry(e).put < Now
      <3> DEFINE T == {e \in S : Entry(e).put < Now}
                 rank == [e \in S |-> Entry(e).put]
      <3>1. T # {} /\ T \in SUBSET Nat /\ IsFiniteSet(T)
        BY <1>1, <2>2, FS_Subset, Zenon
      <3>2. \A e \in T : rank[e] \in Int
        BY <1>1
      <3>3. LeastRecent(S) = LeastBy(T, rank)
        BY Zenon DEF LeastRecent
      <3> HIDE DEF T, rank
      <3>4. \E e \in T : e \in LeastBy(T, rank)
        BY <3>1, <3>2, LeastBySome, Zenon
      <3>5. QED
        BY <2>1, <3>3, <3>4, Zenon
    <2>3. CASE ~\E e \in S : Entry(e).put < Now
      <3> DEFINE T == {e \in S \ OnceLeastRecent(S) : Entry(e).ref < MaxRef}
                 rank == [e \in S |-> Entry(e).ref]
      <3>1. OnceLeastRecent(S) = {}
        BY <2>3, Zenon DEF OnceLeastRecent
      <3>2. T = S
        BY <1>1, <3>1, Zenon
      <3>3. \A e \in S : rank[e] \in Int
        BY <1>1
      <3>4. LeastFrequent(S) = LeastBy(T, rank)
        BY Zenon DEF LeastFrequent
      <3> HIDE DEF T, rank
      <3>5. \E e \in S : e \in LeastBy(S, rank)
        BY <1>1, <3>3, LeastBySome, Zenon
      <3>6. QED
        BY <2>1, <3>2, <3>4, <3>5, Zenon
    <2>4. QED
      BY <2>2, <2>3, Zenon
  <1>5. QED
    BY <1>2, <1>3, <1>4, Zenon

\* A visit takes only what is in the list.
LEMMA ChosenIn ==
  ASSUME rmode \in {"LFRU", "FAST", "SCORE"}, NEW S PROVE Chosen(S) \subseteq S
  <1>1. LeastRecent(S) \subseteq S /\ LeastFrequent(S) \subseteq S
    BY Zenon DEF LeastRecent, LeastFrequent, LeastBy
  <1>2. \A rank : LeastBy(S, rank) \subseteq S
    BY Zenon DEF LeastBy
  <1>3. QED
    BY <1>1, <1>2, Zenon DEF Chosen

---------------------------------------------------------------------------
(* Bytes.                                                                   *)

LEMMA SizeType ==
  ASSUME call \in Calls, NEW V \in SUBSET Entries
  PROVE  Size(V) \in Nat /\ \A W \in SUBSET V : Size(W) <= Size(V)
  <1> DEFINE size == [e \in Entries |-> Entry(e).bytes]
  <1>1. IsFiniteSet(V)
    BY CallTypes, FS_Subset, Zenon
  <1>2. \A e \in V : size[e] \in Nat
    BY CallTypes
  <1>3. \A W : Size(W) = SumOf(size, W)
    BY Zenon DEF Size, BytesOf
  <1> HIDE DEF size
  <1>4. \A W \in SUBSET V : SumOf(size, W) <= SumOf(size, V)
    BY <1>1, <1>2, SumSubset, Zenon
  <1>5. SumOf(size, V) \in Nat
    BY <1>1, <1>2, SumNat, Zenon
  <1>6. QED
    BY <1>3, <1>4, <1>5, Zenon

LEMMA SizeUnion ==
  ASSUME call \in Calls, NEW V \in SUBSET Entries, NEW W \in SUBSET Entries, V \cap W = {}
  PROVE  Size(V \cup W) = Size(V) + Size(W)
  <1> DEFINE size == [e \in Entries |-> Entry(e).bytes]
  <1>1. IsFiniteSet(V) /\ IsFiniteSet(W)
    BY CallTypes, FS_Subset, Zenon
  <1>2. \A e \in V \cup W : size[e] \in Int
    BY CallTypes
  <1>3. \A T : Size(T) = SumOf(size, T)
    BY Zenon DEF Size, BytesOf
  <1> HIDE DEF size
  <1>4. SumOf(size, V \cup W) = SumOf(size, V) + SumOf(size, W)
    BY <1>1, <1>2, SumUnion, Zenon
  <1>5. QED
    BY <1>3, <1>4, Zenon

\* A loop `Force to suit the size' leaves an entry behind only when it has
\* taken more than the amount.
LEMMA FrontAll ==
  ASSUME call \in Calls, tot \in Nat, NEW S \in SUBSET Entries,
         tot + Size(Front(S)) <= call.amount
  PROVE  Front(S) = S
  <1> DEFINE D == S \ Front(S)
  <1>1. Front(S) \subseteq S
    BY Zenon DEF Front
  <1> SUFFICES ASSUME D # {} PROVE FALSE
    BY <1>1, Zenon
  <1>2. S \subseteq Nat /\ call.amount \in Nat
    BY CallTypes
  <1>3. PICK e \in D : \A f \in D : e <= f
    <2>1. D \subseteq Nat
      BY <1>2, Zenon
    <2> HIDE DEF D
    <2>2. QED
      BY <2>1, LeastNat, Zenon
  <1> DEFINE B == {f \in S : f < e}
  <1>4. \A f \in B : f \in Front(S)
    <2> TAKE f \in B
    <2>1. e \in Nat /\ f \in Nat /\ f < e /\ f \in S
      BY <1>2, <1>3, Zenon
    <2>2. ~(e <= f)
      BY <2>1
    <2>3. QED
      BY <1>3, <2>1, <2>2, Zenon
  <1>5. ~(tot + Size(B) <= call.amount)
    BY <1>3, Zenon DEF Front
  <1> HIDE DEF B
  <1>6. Size(B) <= Size(Front(S)) /\ Size(Front(S)) \in Nat /\ Size(B) \in Nat
    <2>1. B \in SUBSET Front(S) /\ Front(S) \in SUBSET Entries
      BY <1>1, <1>4, Zenon
    <2> DEFINE F == Front(S)
    <2> HIDE DEF F
    <2>2. F \in SUBSET Entries /\ B \in SUBSET F /\ B \in SUBSET Entries
      BY <2>1, Zenon DEF F
    <2>3. Size(B) <= Size(F) /\ Size(F) \in Nat /\ Size(B) \in Nat
      BY <2>2, SizeType, Zenon
    <2>4. QED
      BY <2>3, Zenon DEF F
  <1>7. QED
    BY <1>2, <1>5, <1>6

\* partition_cf_adaptive_dynamic has one domain to take from.
LEMMA CheapestOne ==
  ASSUME call \in Calls PROVE \E h \in Lists : Cheapest = {h}
  <1>1. /\ call.hitrate \in [Lists -> 0..100] /\ call.rec \in [Lists -> Nat]
        /\ Lists \in SUBSET Nat /\ Lists # {} /\ IsFiniteSet(Lists)
    <2>1. 0 \in Int /\ LastList \in Int
      BY ReplaceConstants
    <2>2. IsFiniteSet(Lists)
      BY <2>1, FS_Interval, Zenon DEF Lists
    <2>3. Lists \in SUBSET Nat /\ 0 \in Lists
      BY ReplaceConstants DEF Lists
    <2>4. QED
      BY <2>2, <2>3, CallTypes, Zenon
  <1> DEFINE Ms == {1} \cup {call.rec[l] : l \in Lists}
             top == CHOOSE m \in Ms : m >= 1 /\ \A l \in Lists : call.rec[l] <= m
             cost == [l \in Lists |->
                   (((100 - call.hitrate[l]) * (call.rec[l] * 100)) \div top) \div 100]
  <1>2. top \in Nat \ {0}
    <2>1. \A l \in Lists : call.rec[l] \in Int
      BY <1>1
    <2>2. PICK x \in Lists : \A y \in Lists : call.rec[y] <= call.rec[x]
      <3> DEFINE rec == call.rec
      <3>1. \A l \in Lists : rec[l] \in Int
        BY <2>1, Zenon
      <3> HIDE DEF rec
      <3>2. \E x \in Lists : \A y \in Lists : rec[y] <= rec[x]
        BY <1>1, <3>1, GreatestValue, Zenon
      <3>3. QED
        BY <3>2, Zenon DEF rec
    <2>3. \E m \in Ms : m >= 1 /\ \A l \in Lists : call.rec[l] <= m
      <3>1. CASE call.rec[x] >= 1
        BY <2>2, <3>1, Zenon
      <3>2. CASE ~(call.rec[x] >= 1)
        <4>1. \A l \in Lists : call.rec[l] <= 1
          BY <2>1, <2>2, <3>2
        <4>2. 1 >= 1
          OBVIOUS
        <4>3. QED
          BY <4>1, <4>2, Zenon
      <3>3. QED
        BY <3>1, <3>2, Zenon
    <2>4. top \in Ms /\ top >= 1
      BY <2>3, Zenon
    <2>5. \A m \in Ms : m \in Nat
      BY <1>1
    <2> HIDE DEF top, Ms
    <2>6. QED
      BY <2>4, <2>5
  <1>3. Cheapest = LeastBy(Lists, cost)
    BY Zenon DEF Cheapest
  <1> HIDE DEF top
  <1>4. \A l \in Lists : cost[l] \in Int
    <2> TAKE l \in Lists
    <2> DEFINE n == (100 - call.hitrate[l]) * (call.rec[l] * 100)
    <2>1. n \in Int
      BY <1>1
    <2>2. cost[l] = (n \div top) \div 100
      BY Zenon
    <2> HIDE DEF n, cost
    <2>3. \A i \in Int, k \in Nat \ {0} : i \div k \in Int
      OBVIOUS
    <2>4. n \div top \in Int
      BY <1>2, <2>1, <2>3, Zenon
    <2>5. 100 \in Nat \ {0}
      OBVIOUS
    <2>6. (n \div top) \div 100 \in Int
      BY <2>3, <2>4, <2>5, Zenon
    <2>7. QED
      BY <2>2, <2>6, Zenon
  <1> HIDE DEF cost
  <1>5. PICK h \in Lists : h \in LeastBy(Lists, cost)
    BY <1>1, <1>4, LeastBySome, Zenon
  <1>6. \A f \in LeastBy(Lists, cost) : f = h
    BY <1>1, <1>4, <1>5, LeastByOne, Zenon
  <1>7. QED
    BY <1>3, <1>5, <1>6, Zenon

---------------------------------------------------------------------------
(***************************************************************************)
(* The loops.  BaseInv has the types and that tot is what was taken.        *)
(* SweepInv is the point of the variable visited: within a pass that has    *)
(* taken nothing and has not got enough, the wanted lists behind it are     *)
(* empty, so that a loop is left for want of entries or for having enough.  *)
(* The rest says what each loop leaves to those after it.                   *)
(***************************************************************************)

Scans == {"scan", "others", "self over", "others over", "self", "last", "victim", "own"}

PhaseOf ==
    /\ call.algo = "shared" => phase \in {"scan", "force", "done"}
    /\ call.algo = "WB" => \/ phase \in {"others", "self over", "others over", "self", "last", "done"}
                           \/ phase = "brute" /\ call.caller = 0
    /\ call.algo = "AD" => \/ phase \in {"victim", "done", "fault"}
                           \/ phase = "own" /\ call.caller \in Lists

\* The entries that are no longer in their lists.
Gone(L) == {e \in Entries : e \notin L[Entry(e).list]}

BaseInv ==
    /\ call \in Calls /\ rmode \in {"LFRU", "FAST", "SCORE"} /\ PhaseOf
    /\ lists \in [Lists -> SUBSET Entries] /\ \A l \in Lists : lists[l] \subseteq First(l)
    /\ curr \in [Lists -> Nat] /\ fair \in Nat
    /\ at \in 0..(LastList + 1) /\ visited \in BOOLEAN
    /\ tot \in Nat /\ tot = Size(Gone(lists))

SweepInv ==
    /\ phase \in Scans /\ ~visited /\ tot < call.amount =>
         \A l \in Lists : l < at /\ Wants(l) => lists[l] = {}
    /\ phase \in {"force", "brute"} /\ tot <= call.amount =>
         \A l \in Lists : l < at => lists[l] = {}

AllEmpty == \A l \in Lists : lists[l] = {}

\* The shared lists, and all domains when domain 0 asks.
TakeAllInv ==
    /\ call.algo = "shared" =>
         /\ phase = "force" /\ call.mode # "FAST" => AllEmpty
         /\ phase = "done" => tot >= call.amount \/ AllEmpty
    /\ call.algo = "WB" /\ call.caller = 0 /\ phase # "brute" =>
         (phase = "done" /\ tot >= call.amount) \/ AllEmpty

\* The adaptive algorithm: the cheapest domain, then the caller.
AdaptiveInv ==
    call.algo = "AD" =>
      /\ \A l \in Lists \ Cheapest : lists[l] = First(l) \/ (l = call.caller /\ phase # "victim")
      /\ phase = "own" => \A l \in Cheapest : lists[l] = {}
      /\ phase = "done" =>
           /\ \/ tot >= call.amount
              \/ \A l \in Lists : l \in Cheapest \cup {call.caller} => lists[l] = {}
           /\ \/ \A l \in Cheapest : lists[l] = {}
              \/ \A l \in Lists \ Cheapest : lists[l] = First(l)

\* The last loop of the weight based algorithm.
SpinInv == phase = "last" => Spins

LoopInv == BaseInv /\ SweepInv /\ TakeAllInv /\ AdaptiveInv /\ SpinInv

Untouched == lists[call.caller] = First(call.caller) /\ curr[call.caller] = FirstCurr(call.caller)
RatePaid(l) == lists[l] = {} \/ FairRate(l) <= fair
SharePaid(l) == RatePaid(l) \/ 100 \div (call.ratio[l] + 1) <= fair
Paid(l) == lists[l] = {} \/ (FairRate(l) <= fair /\ curr[l] <= 100)
Others == Lists \ {call.caller}

\* The caller gives after the others.
PayInv ==
    call.algo = "WB" /\ call.caller \in Lists \ {0} /\ FirstCurr(call.caller) <= 100 =>
      /\ phase \in {"others", "self over", "others over"} => Untouched
      /\ phase = "self over" => \A l \in Others : RatePaid(l)
      /\ phase = "others over" => \A l \in Others : SharePaid(l)
      /\ phase \in {"self", "last"} => \A l \in Others : Paid(l)
      /\ phase = "done" => Untouched \/ \A l \in Others : Paid(l)

\* What LFRU has taken.
Old(l) == {e \in Taken(l) : \A f \in lists[l] : Entry(e).put <= Entry(f).put}
OldInv ==
    /\ switches \in Nat
    /\ call.mode = "LFRU" /\ switches = 0 /\ ~(call.algo = "WB" /\ call.caller = 0) =>
         /\ rmode = "LFRU"
         /\ \A l \in Lists : 2 * Cardinality(Old(l)) >= Cardinality(Taken(l))

\* What depends on the call alone.
LEMMA CallSame ==
  ASSUME call' = call
  PROVE  /\ Entries' = Entries /\ Cheapest' = Cheapest /\ Others' = Others
         /\ \A e : Entry(e)' = Entry(e)
         /\ \A l : First(l)' = First(l)
         /\ \A V : Size(V)' = Size(V)
         /\ \A l : FirstCurr(l)' = FirstCurr(l)
  <1>1. Entries' = Entries /\ \A e : Entry(e)' = Entry(e)
    BY DEF Entries, Entry
  <1>2. \A l : First(l)' = First(l)
    BY <1>1 DEF First
  <1>3. \A V : Size(V)' = Size(V)
    BY <1>1 DEF Size
  <1>4. \A l : FirstCurr(l)' = FirstCurr(l)
    BY <1>2 DEF FirstCurr, Usage
  <1>5. Cheapest' = Cheapest
    BY DEF Cheapest
  <1>6. Others' = Others
    BY DEF Others
  <1>7. QED
    BY <1>1, <1>2, <1>3, <1>4, <1>5, <1>6, Zenon

LEMMA ListTypes ==
  /\ LastList \in Nat /\ \A l \in Lists : l \in Nat /\ l <= LastList /\ l < LastList + 1
  /\ \A l \in Lists : l + 1 \in 0..(LastList + 1)
  /\ 0 \in 0..(LastList + 1) /\ LastList + 1 \in 0..(LastList + 1) /\ 0 \in Lists
  BY ReplaceConstants DEF Lists

\* A visit takes entries of the list: those it chooses in a scan, the front of
\* the list in the loops that force, nothing from a list that is not wanted.
LEMMA TakesIn ==
  ASSUME BaseInv, phase \notin {"done", "fault"}, NEW l \in Lists
  PROVE  /\ Takes(l) \subseteq lists[l] /\ Takes(l) \in SUBSET Entries
         /\ ~Wants(l) => Takes(l) = {}
         /\ phase \in Scans /\ Wants(l) /\ Takes(l) = {} => lists[l] = {}
         /\ phase \in {"force", "brute"} => Takes(l) = Front(lists[l])
         /\ phase \in Scans \ {"last"} => Takes(l) = {} \/ Takes(l) = Chosen(lists[l])
  <1>1. /\ lists[l] \in SUBSET Entries /\ call \in Calls
        /\ rmode \in {"LFRU", "FAST", "SCORE"}
    BY Zenon DEF BaseInv
  <1>2. phase \in Scans \cup {"force", "brute"}
    <2>1. call.algo \in {"shared", "WB", "AD"} /\ PhaseOf
      BY <1>1, CallTypes, Zenon DEF BaseInv
    <2>2. QED
      BY <2>1 DEF PhaseOf, Scans
  <1>3. Front(lists[l]) \subseteq lists[l] /\ Chosen(lists[l]) \subseteq lists[l]
    BY <1>1, ChosenIn, Zenon DEF Front
  <1>4. lists[l] # {} => Chosen(lists[l]) # {}
    BY <1>1, ChosenSome, Zenon
  <1>5. CASE ~Wants(l)
    <2>1. Takes(l) = {} /\ phase \notin {"force", "brute"}
      BY <1>5 DEF Takes, Wants
    <2>2. QED
      BY <1>5, <2>1, Zenon
  <1>6. CASE Wants(l) /\ phase \in {"force", "brute"}
    <2>1. Takes(l) = Front(lists[l]) /\ phase \notin Scans
      BY <1>6 DEF Takes, Scans
    <2>2. QED
      BY <1>1, <1>3, <1>6, <2>1, Zenon
  <1>7. CASE Wants(l) /\ phase = "last"
    <2>1. Takes(l) = lists[l] /\ phase \notin {"force", "brute"}
      BY <1>7 DEF Takes
    <2>2. QED
      BY <1>1, <1>7, <2>1, Zenon
  <1>8. CASE Wants(l) /\ phase \notin {"force", "brute", "last"}
    <2>1. Takes(l) = Chosen(lists[l])
      BY <1>8 DEF Takes
    <2>2. QED
      BY <1>1, <1>3, <1>4, <1>8, <2>1, Zenon
  <1>9. QED
    BY <1>5, <1>6, <1>7, <1>8, Zenon

LEMMA UsageType ==
  ASSUME call \in Calls, NEW l \in Lists, NEW S \in SUBSET Entries
  PROVE  Usage(call, l, S) \in Nat
  <1> DEFINE n == Size(S)
  <1>1. n \in Nat /\ call.ratio[l] \in Nat /\ Total \in Nat \ {0}
    BY SizeType, CallTypes, ReplaceConstants
  <1>2. Usage(call, l, S) = IF call.ratio[l] = 0 THEN 0
                            ELSE (((n * 100) \div Total) * 100) \div call.ratio[l]
    BY DEF Usage, Size, Entries, Entry
  <1> HIDE DEF n
  <1>3. \A i \in Nat, k \in Nat \ {0} : i \div k \in Nat
    OBVIOUS
  <1>4. (n * 100) \div Total \in Nat
    BY <1>1, <1>3
  <1>5. ((n * 100) \div Total) * 100 \in Nat
    BY <1>4
  <1>6. QED
    BY <1>1, <1>2, <1>3, <1>5

LEMMA FairRateType ==
  ASSUME call \in Calls, NEW l \in Lists, curr[l] \in Nat PROVE FairRate(l) \in Nat
  <1>1. call.ratio[l] + 1 \in Nat \ {0}
    BY CallTypes
  <1>2. \A i \in Nat, k \in Nat \ {0} : i \div k \in Nat
    OBVIOUS
  <1>3. QED
    BY <1>1, <1>2, Zenon DEF FairRate

\* What a visit changes.
VisitOf(V) ==
    /\ V \subseteq lists[at] /\ V \in SUBSET Entries /\ at \in Lists
    /\ UNCHANGED <<call, rmode, fair, phase, switches>>
    /\ lists' \in [Lists -> SUBSET Entries] /\ curr' \in [Lists -> Nat]
    /\ lists'[at] = lists[at] \ V
    /\ \A l \in Lists \ {at} : lists'[l] = lists[l] /\ curr'[l] = curr[l]
    /\ Size(V) \in Nat /\ tot' = tot + Size(V)
    /\ visited' = (visited \/ V # {})
    /\ V = {} => curr' = curr /\ lists' = lists /\ tot' = tot
    /\ tot' > call.amount => at' = LastList + 1
    /\ ~(tot' > call.amount) => at' = at + 1

LEMMA VisitDoes ==
  ASSUME BaseInv, Visit PROVE VisitOf(Takes(at)) /\ phase \notin {"done", "fault"}
  <1> DEFINE V == Takes(at)
  <1>1. /\ at \in Lists /\ phase \notin {"done", "fault"}
        /\ UNCHANGED <<call, rmode, fair, phase, switches>>
        /\ lists' = [lists EXCEPT ![at] = lists[at] \ V]
        /\ tot' = tot + Size(V) /\ visited' = (visited \/ V # {})
        /\ curr' = IF V = {} \/ call.algo = "shared" THEN curr
                   ELSE [curr EXCEPT ![at] = Usage(call, at, lists[at] \ V)]
        /\ at' = IF tot' > call.amount THEN LastList + 1 ELSE at + 1
    BY Zenon DEF Visit
  <1>2. V \subseteq lists[at] /\ V \in SUBSET Entries
    BY <1>1, TakesIn, Zenon
  <1> HIDE DEF V
  <1>3. call \in Calls /\ lists \in [Lists -> SUBSET Entries] /\ curr \in [Lists -> Nat] /\ tot \in Nat
    BY Zenon DEF BaseInv
  <1>4. Size(V) \in Nat /\ (V = {} => Size(V) = 0)
    <2>1. V = {} => Size(V) = 0
      BY SumEmpty DEF Size, BytesOf
    <2>2. QED
      BY <1>2, <1>3, <2>1, SizeType, Zenon
  <1>5. /\ lists' \in [Lists -> SUBSET Entries] /\ lists'[at] = lists[at] \ V
        /\ \A l \in Lists \ {at} : lists'[l] = lists[l]
        /\ V = {} => lists' = lists
    BY <1>1, <1>2, <1>3
  <1>6. curr' \in [Lists -> Nat] /\ \A l \in Lists \ {at} : curr'[l] = curr[l]
    <2>1. lists[at] \ V \in SUBSET Entries
      BY <1>1, <1>3
    <2>2. Usage(call, at, lists[at] \ V) \in Nat
      BY <1>1, <1>3, <2>1, UsageType, Zenon
    <2>3. QED
      BY <1>1, <1>3, <2>2
  <1>7. V = {} => curr' = curr /\ tot' = tot
    BY <1>1, <1>3, <1>4
  <1>8. VisitOf(V)
    BY <1>1, <1>2, <1>4, <1>5, <1>6, <1>7, Zenon DEF VisitOf
  <1>9. QED
    BY <1>1, <1>8, Zenon DEF V

\* What a visit takes has not been taken before, and is then.
LEMMA VisitGone ==
  ASSUME BaseInv, NEW V, VisitOf(V)
  PROVE  /\ Gone(lists)' = Gone(lists) \cup V /\ Gone(lists) \cap V = {}
         /\ Gone(lists) \in SUBSET Entries
  <1>1. /\ V \subseteq lists[at] /\ at \in Lists /\ call' = call
        /\ lists'[at] = lists[at] \ V
        /\ \A l \in Lists \ {at} : lists'[l] = lists[l]
    BY Zenon DEF VisitOf
  <1>2. /\ \A e \in Entries : Entry(e).list \in Lists
        /\ lists[at] \subseteq First(at) /\ lists[at] \subseteq Entries
    BY <1>1, CallTypes, Zenon DEF BaseInv
  <1>3. Entries' = Entries /\ \A e : Entry(e)' = Entry(e)
    BY <1>1, CallSame, Zenon
  <1>4. \A e \in V : Entry(e).list = at /\ e \in Entries
    BY <1>1, <1>2, Zenon DEF First
  <1>5. ASSUME NEW e \in Entries
        PROVE  e \notin lists'[Entry(e).list] <=> e \notin lists[Entry(e).list] \/ e \in V
    <2>1. CASE Entry(e).list = at
      BY <1>1, <2>1, Zenon
    <2>2. CASE Entry(e).list # at
      BY <1>1, <1>2, <1>4, <2>2, Zenon
    <2>3. QED
      BY <2>1, <2>2, Zenon
  <1>6. Gone(lists)' = {e \in Entries : e \notin lists'[Entry(e).list]}
    BY <1>3 DEF Gone
  <1>7. QED
    BY <1>1, <1>4, <1>5, <1>6, Zenon DEF Gone

LEMMA VisitBase == ASSUME BaseInv, Visit PROVE BaseInv'
  <1> DEFINE V == Takes(at)
  <1>1. VisitOf(V)
    BY VisitDoes, Zenon
  <1> HIDE DEF V
  <1>2. /\ UNCHANGED <<call, rmode, fair, phase>> /\ V \in SUBSET Entries /\ at \in Lists
        /\ lists' \in [Lists -> SUBSET Entries] /\ curr' \in [Lists -> Nat]
        /\ Size(V) \in Nat /\ tot' = tot + Size(V) /\ visited' = (visited \/ V # {})
    BY <1>1, Zenon DEF VisitOf
  <1>3. call \in Calls /\ tot \in Nat /\ tot = Size(Gone(lists)) /\ fair \in Nat
    BY Zenon DEF BaseInv
  <1>4. /\ Entries' = Entries /\ \A l : First(l)' = First(l)
        /\ \A W : Size(W)' = Size(W)
    BY <1>2, CallSame, Zenon
  <1>5. tot' \in Nat /\ tot' = Size(Gone(lists))'
    <2> DEFINE G == Gone(lists)
               H == Gone(lists)'
    <2>1. H = G \cup V /\ G \cap V = {} /\ G \in SUBSET Entries
      BY <1>1, VisitGone, Zenon
    <2>2. Size(Gone(lists))' = Size(H)
      BY <1>2 DEF Size, Entries, Entry
    <2>3. tot = Size(G)
      BY <1>3, Zenon
    <2> HIDE DEF G, H
    <2>4. Size(G \cup V) = Size(G) + Size(V)
      BY <1>2, <1>3, <2>1, SizeUnion, Zenon
    <2>5. QED
      BY <1>2, <1>3, <2>1, <2>2, <2>3, <2>4
  <1>6. at' \in 0..(LastList + 1)
    BY <1>1, <1>2, ListTypes, Zenon DEF VisitOf
  <1>7. \A l \in Lists : lists'[l] \subseteq First(l)
    BY <1>1, Zenon DEF VisitOf, BaseInv
  <1>8. PhaseOf'
    BY <1>2 DEF BaseInv, PhaseOf
  <1>9. visited' \in BOOLEAN
    BY <1>2
  <1>10. QED
    BY <1>2, <1>3, <1>4, <1>5, <1>6, <1>7, <1>8, <1>9 DEF BaseInv

\* What the end of a pass changes.
LEMMA TurnDoes ==
  ASSUME BaseInv, Turn
  PROVE  /\ phase \notin {"done", "fault"} /\ at = LastList + 1 /\ at' = 0 /\ visited' = FALSE
         /\ UNCHANGED <<call, rmode, lists, curr, tot, switches>>
         /\ tot >= call.amount => phase' = "done"
         /\ ~(tot >= call.amount) /\ Again => phase' = phase
         /\ ~(tot >= call.amount) /\ ~Again => phase' = NextPhase
         /\ phase # "brute" => fair' = fair
         /\ fair' \in Nat /\ PhaseOf'
  <1>1. /\ phase \notin {"done", "fault"} /\ at = LastList + 1 /\ at' = 0 /\ visited' = FALSE
        /\ UNCHANGED <<call, rmode, lists, curr, tot, switches>>
        /\ phase' = IF tot >= call.amount THEN "done" ELSE IF Again THEN phase ELSE NextPhase
        /\ fair' = IF phase = "brute" THEN FairRate(0) ELSE fair
    BY Zenon DEF Turn
  <1>2. FairRate(0) \in Nat /\ fair \in Nat
    <2>1. call \in Calls /\ curr[0] \in Nat /\ 0 \in Lists /\ fair \in Nat
      BY ListTypes, Zenon DEF BaseInv
    <2>2. QED
      BY <2>1, FairRateType, Zenon
  <1>3. call.algo \in {"shared", "WB", "AD"} /\ PhaseOf
    BY CallTypes, Zenon DEF BaseInv
  <1>4. phase = "last" => Again
    BY DEF Again
  <1>5. PhaseOf'
    <2>1. CASE phase' = "done" \/ phase' = phase
      BY <1>1, <1>3, <2>1 DEF PhaseOf
    <2>2. CASE phase' = NextPhase /\ phase # "last"
      BY <1>1, <1>3, <2>2 DEF PhaseOf, NextPhase
    <2>3. QED
      BY <1>1, <1>4, <2>1, <2>2, Zenon
  <1>6. QED
    BY <1>1, <1>2, <1>5, Zenon

LEMMA TurnBase == ASSUME BaseInv, Turn PROVE BaseInv'
  <1>1. /\ at' = 0 /\ visited' = FALSE /\ fair' \in Nat /\ PhaseOf'
        /\ UNCHANGED <<call, rmode, lists, curr, tot>>
    BY TurnDoes, Zenon
  <1>2. Entries' = Entries /\ \A l : First(l)' = First(l)
    BY <1>1, CallSame, Zenon
  <1>3. Size(Gone(lists))' = Size(Gone(lists))
    BY <1>1 DEF Size, Gone, Entries, Entry
  <1>4. at' \in 0..(LastList + 1) /\ visited' \in BOOLEAN
    BY <1>1, ListTypes
  <1>5. QED
    BY <1>1, <1>2, <1>3, <1>4 DEF BaseInv

\* A change of the mode or no step at all.
StillOf ==
    /\ UNCHANGED <<call, lists, curr, fair, phase, at, visited, tot>>
    /\ \/ rmode' = rmode /\ switches' = switches
       \/ rmode' \in Modes /\ switches' = switches + 1

LEMMA StillDoes ==
  ASSUME (\E m \in Modes : SetReplacement(m)) \/ UNCHANGED vars PROVE StillOf
  BY DEF SetReplacement, vars, StillOf

LEMMA StillBase == ASSUME BaseInv, StillOf PROVE BaseInv'
  <1>1. UNCHANGED <<call, lists, curr, fair, phase, at, visited, tot>>
    BY Zenon DEF StillOf
  <1>2. rmode' \in {"LFRU", "FAST", "SCORE"}
    BY ReplaceConstants, Zenon DEF StillOf, BaseInv
  <1>3. Entries' = Entries /\ \A l : First(l)' = First(l)
    BY <1>1, CallSame, Zenon
  <1>4. Size(Gone(lists))' = Size(Gone(lists))
    BY <1>1 DEF Size, Gone, Entries, Entry
  <1>5. PhaseOf'
    BY <1>1 DEF PhaseOf, BaseInv
  <1>6. QED
    BY <1>1, <1>2, <1>3, <1>4, <1>5 DEF BaseInv

LEMMA WantsSame ==
  ASSUME UNCHANGED <<call, curr, fair, phase>>, NEW l PROVE Wants(l)' = Wants(l)
  <1>1. Cheapest' = Cheapest
    BY CallSame, Zenon
  <1>2. QED
    BY <1>1, Zenon DEF Wants, FairRate

LEMMA VisitSweep == ASSUME BaseInv, SweepInv, Visit PROVE SweepInv'
  <1> DEFINE V == Takes(at)
  <1>1. VisitOf(V) /\ phase \notin {"done", "fault"}
    BY VisitDoes, Zenon
  <1>2. /\ UNCHANGED <<call, fair, phase>> /\ at \in Lists /\ V \subseteq lists[at]
        /\ Size(V) \in Nat /\ tot' = tot + Size(V) /\ tot \in Nat /\ call.amount \in Nat
        /\ call \in Calls /\ lists[at] \in SUBSET Entries
    <2>1. call \in Calls /\ tot \in Nat /\ at \in Lists /\ lists[at] \in SUBSET Entries
      BY <1>1, Zenon DEF BaseInv, VisitOf
    <2>2. call.amount \in Nat
      BY <2>1, CallTypes
    <2>3. QED
      BY <1>1, <2>1, <2>2, Zenon DEF VisitOf
  <1>3. ASSUME ~(tot' > call.amount), NEW l \in Lists, l < at' PROVE l < at \/ l = at
    <2>1. at' = at + 1 /\ l \in Nat /\ at \in Nat
      BY <1>1, <1>2, <1>3, ListTypes, Zenon DEF VisitOf
    <2>2. QED
      BY <1>3, <2>1
  <1>4. ASSUME phase' \in Scans, ~visited', tot' < call.amount',
               NEW l \in Lists, l < at', Wants(l)'
        PROVE  lists'[l] = {}
    <2>1. V = {} /\ ~visited
      BY <1>1, <1>4, Zenon DEF VisitOf
    <2>2. UNCHANGED <<call, curr, fair, phase, lists, tot>>
      BY <1>1, <1>2, <2>1, Zenon DEF VisitOf
    <2>3. Wants(l)
      BY <1>4, <2>2, WantsSame, Zenon
    <2>4. ~(tot' > call.amount) /\ tot < call.amount
      BY <1>2, <1>4, <2>2
    <2>5. CASE l < at
      BY <1>4, <2>1, <2>2, <2>3, <2>4, <2>5, Zenon DEF SweepInv
    <2>6. CASE l = at
      BY <1>1, <1>4, <2>1, <2>2, <2>3, <2>6, TakesIn, Zenon
    <2>7. QED
      BY <1>3, <1>4, <2>4, <2>5, <2>6, Zenon
  <1>5. ASSUME phase' \in {"force", "brute"}, tot' <= call.amount', NEW l \in Lists, l < at'
        PROVE  lists'[l] = {}
    <2>1. /\ ~(tot' > call.amount) /\ tot <= call.amount
          /\ tot + Size(V) <= call.amount
      BY <1>2, <1>5
    <2>2. V = Front(lists[at]) /\ phase \in {"force", "brute"}
      BY <1>1, <1>2, <1>5, TakesIn, Zenon
    <2> HIDE DEF V
    <2>3. CASE l < at
      <3>1. lists[l] = {}
        BY <1>5, <2>1, <2>2, <2>3, Zenon DEF SweepInv
      <3>2. CASE l = at
        BY <1>1, <3>1, <3>2, Zenon DEF VisitOf
      <3>3. CASE l # at
        BY <1>1, <3>1, <3>3, Zenon DEF VisitOf
      <3>4. QED
        BY <3>2, <3>3, Zenon
    <2>4. CASE l = at
      <3>1. V = lists[at]
        BY <1>2, <2>1, <2>2, FrontAll, Zenon
      <3>2. QED
        BY <1>1, <2>4, <3>1, Zenon DEF VisitOf
    <2>5. QED
      BY <1>3, <1>5, <2>1, <2>3, <2>4, Zenon
  <1>6. QED
    BY <1>4, <1>5, Zenon DEF SweepInv

\* A loop that ends without enough has left nothing of what it wanted.
LEMMA SweepEnds ==
  ASSUME BaseInv, SweepInv, Turn, ~(tot >= call.amount)
  PROVE  /\ phase \in Scans /\ ~Again => \A l \in Lists : Wants(l) => lists[l] = {}
         /\ phase \in {"force", "brute"} => AllEmpty /\ ~Again
         /\ phase = "last" => Again
  <1>1. at = LastList + 1 /\ \A l \in Lists : l < at
    BY TurnDoes, ListTypes, Zenon
  <1>2. tot < call.amount /\ tot <= call.amount
    <2>1. call.amount \in Nat /\ tot \in Nat
      BY CallTypes DEF BaseInv
    <2>2. QED
      BY <2>1
  <1>3. phase \in Scans /\ ~Again => ~visited
    BY DEF Again, Scans
  <1>4. phase \in {"force", "brute"} => ~Again
    BY DEF Again
  <1>5. phase = "last" => Again
    BY DEF Again
  <1>6. QED
    BY <1>1, <1>2, <1>3, <1>4, <1>5, Zenon DEF SweepInv, AllEmpty

LEMMA TurnSweep == ASSUME BaseInv, Turn PROVE SweepInv'
  <1>1. at' = 0
    BY TurnDoes, Zenon
  <1>2. \A l \in Lists : ~(l < at')
    BY <1>1, ListTypes
  <1>3. QED
    BY <1>2, Zenon DEF SweepInv

LEMMA StillSweep == ASSUME SweepInv, StillOf PROVE SweepInv'
  <1>1. UNCHANGED <<call, lists, curr, fair, phase, at, visited, tot>>
    BY Zenon DEF StillOf
  <1>2. \A l : Wants(l)' = Wants(l)
    BY <1>1, WantsSame, Zenon
  <1>3. QED
    BY <1>1, <1>2, Zenon DEF SweepInv

\* Lists only lose entries in a visit.
LEMMA VisitShrinks ==
  ASSUME BaseInv, Visit
  PROVE  /\ UNCHANGED <<call, phase>> /\ phase \notin {"done", "fault"}
         /\ \A l \in Lists : lists[l] = {} => lists'[l] = {}
  <1> DEFINE V == Takes(at)
  <1>1. VisitOf(V) /\ phase \notin {"done", "fault"}
    BY VisitDoes, Zenon
  <1> HIDE DEF V
  <1>2. ASSUME NEW l \in Lists, lists[l] = {} PROVE lists'[l] = {}
    <2>1. CASE l = at
      BY <1>1, <1>2, <2>1, Zenon DEF VisitOf
    <2>2. CASE l # at
      BY <1>1, <1>2, <2>2, Zenon DEF VisitOf
    <2>3. QED
      BY <2>1, <2>2, Zenon
  <1>3. QED
    BY <1>1, <1>2, Zenon DEF VisitOf

LEMMA VisitTakeAll == ASSUME BaseInv, TakeAllInv, Visit PROVE TakeAllInv'
  <1>1. UNCHANGED <<call, phase>> /\ phase # "done" /\ (AllEmpty => AllEmpty')
    BY VisitShrinks, Zenon DEF AllEmpty
  <1>2. QED
    BY <1>1, Zenon DEF TakeAllInv

LEMMA TurnTakeAll == ASSUME BaseInv, SweepInv, TakeAllInv, Turn PROVE TakeAllInv'
  <1>1. /\ UNCHANGED <<call, lists, tot>> /\ phase # "done" /\ phase # "fault"
        /\ tot >= call.amount => phase' = "done"
        /\ ~(tot >= call.amount) /\ Again => phase' = phase
        /\ ~(tot >= call.amount) /\ ~Again => phase' = NextPhase
    BY TurnDoes, Zenon
  <1>2. AllEmpty' <=> AllEmpty
    BY <1>1, Zenon DEF AllEmpty
  <1>3. ASSUME call.algo = "shared"
        PROVE  /\ phase' = "force" /\ call.mode # "FAST" => AllEmpty
               /\ phase' = "done" => tot >= call.amount \/ AllEmpty
    <2>1. phase \in {"scan", "force"}
      BY <1>1, <1>3, Zenon DEF BaseInv, PhaseOf
    <2>2. CASE tot >= call.amount
      BY <1>1, <2>2
    <2>3. CASE ~(tot >= call.amount) /\ phase = "force"
      BY <2>3, SweepEnds, Zenon
    <2>4. CASE ~(tot >= call.amount) /\ phase = "scan"
      <3>1. \A l \in Lists : Wants(l)
        BY <2>4 DEF Wants
      <3>2. ~Again => AllEmpty
        BY <2>4, <3>1, SweepEnds DEF AllEmpty, Scans
      <3>3. Again => phase' = "scan"
        BY <1>1, <2>4, Zenon
      <3>4. QED
        BY <3>2, <3>3
    <2>5. QED
      BY <2>1, <2>2, <2>3, <2>4, Zenon
  <1>4. ASSUME call.algo = "WB", call.caller = 0, phase' # "brute"
        PROVE  (phase' = "done" /\ tot >= call.amount) \/ AllEmpty
    <2>1. CASE tot >= call.amount
      BY <1>1, <2>1, Zenon
    <2>2. CASE ~(tot >= call.amount) /\ phase = "brute"
      BY <2>2, SweepEnds, Zenon
    <2>3. CASE phase # "brute"
      BY <1>1, <1>4, <2>1, <2>3, Zenon DEF TakeAllInv
    <2>4. QED
      BY <2>1, <2>2, <2>3, Zenon
  <1>5. QED
    BY <1>1, <1>2, <1>3, <1>4, Zenon DEF TakeAllInv

LEMMA VisitAdaptive == ASSUME BaseInv, AdaptiveInv, Visit PROVE AdaptiveInv'
  <1> SUFFICES ASSUME call.algo = "AD" PROVE AdaptiveInv'
    <2>1. call' = call
      BY VisitShrinks, Zenon
    <2>2. QED
      BY <2>1, Zenon DEF AdaptiveInv
  <1> DEFINE V == Takes(at)
  <1>1. VisitOf(V) /\ phase \notin {"done", "fault"}
    BY VisitDoes, Zenon
  <1>2. /\ UNCHANGED <<call, phase>> /\ phase # "done" /\ at \in Lists
        /\ \A l \in Lists : lists[l] = {} => lists'[l] = {}
        /\ \A l \in Lists \ {at} : lists'[l] = lists[l]
        /\ V = {} => lists' = lists
    BY <1>1, VisitShrinks, Zenon DEF VisitOf
  <1>3. Cheapest' = Cheapest /\ \A l : First(l)' = First(l)
    BY <1>2, CallSame, Zenon
  <1>4. phase \in {"victim", "own"}
    BY <1>1, Zenon DEF BaseInv, PhaseOf
  <1>5. /\ phase = "victim" => (Wants(at) <=> at \in Cheapest)
        /\ phase = "own" => (Wants(at) <=> at = call.caller)
    BY DEF Wants
  <1>6. ~Wants(at) => V = {}
    BY <1>1, <1>2, TakesIn, Zenon
  <1>7. Cheapest \subseteq Lists
    BY CheapestOne, Zenon DEF BaseInv
  <1> HIDE DEF V
  <1>8. ASSUME NEW l \in Lists \ Cheapest
        PROVE  lists'[l] = First(l) \/ (l = call.caller /\ phase # "victim")
    <2>1. lists[l] = First(l) \/ (l = call.caller /\ phase # "victim")
      BY <1>8, Zenon DEF AdaptiveInv
    <2>2. CASE l # at
      BY <1>2, <2>1, <2>2, Zenon
    <2>3. CASE l = at
      BY <1>2, <1>4, <1>5, <1>6, <1>8, <2>1, <2>3, Zenon
    <2>4. QED
      BY <2>2, <2>3, Zenon
  <1>9. phase = "own" => \A l \in Cheapest : lists'[l] = {}
    BY <1>2, <1>7, Zenon DEF AdaptiveInv
  <1>10. QED
    BY <1>2, <1>3, <1>8, <1>9, Zenon DEF AdaptiveInv

LEMMA TurnAdaptive == ASSUME BaseInv, SweepInv, AdaptiveInv, Turn PROVE AdaptiveInv'
  <1>1. /\ UNCHANGED <<call, lists, tot>> /\ phase \notin {"done", "fault"}
        /\ tot >= call.amount => phase' = "done"
        /\ ~(tot >= call.amount) /\ Again => phase' = phase
        /\ ~(tot >= call.amount) /\ ~Again => phase' = NextPhase
    BY TurnDoes, Zenon
  <1> SUFFICES ASSUME call.algo = "AD" PROVE AdaptiveInv'
    BY <1>1, Zenon DEF AdaptiveInv
  <1>2. Cheapest' = Cheapest /\ \A l : First(l)' = First(l)
    BY <1>1, CallSame, Zenon
  <1>3. phase \in {"victim", "own"} /\ phase \in Scans
    BY <1>1 DEF BaseInv, PhaseOf, Scans
  <1>4. Cheapest \subseteq Lists
    BY CheapestOne, Zenon DEF BaseInv
  <1>5. CASE tot >= call.amount
    <2>1. phase' = "done"
      BY <1>1, <1>5, Zenon
    <2>2. phase = "victim" => \A l \in Lists \ Cheapest : lists[l] = First(l)
      BY Zenon DEF AdaptiveInv
    <2>3. phase = "own" => \A l \in Cheapest : lists[l] = {}
      BY Zenon DEF AdaptiveInv
    <2>4. phase' # "victim" /\ phase' # "own"
      BY <2>1
    <2>5. \A l \in Lists \ Cheapest : lists[l] = First(l) \/ l = call.caller
      BY Zenon DEF AdaptiveInv
    <2>6. QED
      BY <1>1, <1>2, <1>3, <1>5, <2>1, <2>2, <2>3, <2>4, <2>5, Zenon DEF AdaptiveInv
  <1>6. CASE ~(tot >= call.amount) /\ Again
    BY <1>1, <1>2, <1>6, Zenon DEF AdaptiveInv
  <1>7. CASE ~(tot >= call.amount) /\ ~Again
    <2>1. \A l \in Lists : Wants(l) => lists[l] = {}
      BY <1>3, <1>7, SweepEnds, Zenon
    <2>2. CASE phase = "victim"
      <3>1. phase' \in {"own", "fault"}
        BY <1>1, <1>7, <2>2 DEF NextPhase
      <3>2. \A l \in Cheapest : lists[l] = {}
        BY <1>4, <2>1, <2>2 DEF Wants
      <3>3. \A l \in Lists \ Cheapest : lists[l] = First(l)
        BY <2>2, Zenon DEF AdaptiveInv
      <3>4. phase' # "done"
        BY <3>1
      <3>5. QED
        BY <1>1, <1>2, <3>2, <3>3, <3>4, Zenon DEF AdaptiveInv
    <2>3. CASE phase = "own"
      <3>1. phase' = "done"
        BY <1>1, <1>7, <2>3 DEF NextPhase
      <3>2. \A l \in Lists : l = call.caller => lists[l] = {}
        BY <2>1, <2>3 DEF Wants
      <3>3. \A l \in Cheapest : lists[l] = {}
        BY <2>3, Zenon DEF AdaptiveInv
      <3>4. \A l \in Lists \ Cheapest : lists[l] = First(l) \/ l = call.caller
        BY Zenon DEF AdaptiveInv
      <3>5. phase' # "own" /\ phase' # "victim"
        BY <3>1
      <3>6. \A l \in Lists : l \in Cheapest \cup {call.caller} => lists[l] = {}
        BY <3>2, <3>3, Zenon
      <3>7. QED
        BY <1>1, <1>2, <3>3, <3>4, <3>5, <3>6, Zenon DEF AdaptiveInv
    <2>4. QED
      BY <1>3, <2>2, <2>3, Zenon
  <1>8. QED
    BY <1>5, <1>6, <1>7, Zenon

\* The last loop finds nothing and goes on.
LEMMA VisitSpin == ASSUME BaseInv, SpinInv, Visit PROVE SpinInv'
  <1> DEFINE V == Takes(at)
  <1>1. VisitOf(V) /\ phase \notin {"done", "fault"}
    BY VisitDoes, Zenon
  <1>2. UNCHANGED <<call, phase>> /\ at \in Lists
    BY <1>1, Zenon DEF VisitOf
  <1> SUFFICES ASSUME phase = "last" PROVE Spins'
    BY <1>2, Zenon DEF SpinInv
  <1>3. Spins
    BY Zenon DEF SpinInv
  <1>4. V = {}
    <2>1. Wants(at) <=> at = call.caller /\ curr[at] > 0
      BY DEF Wants
    <2>2. V \subseteq lists[at] /\ (~Wants(at) => V = {})
      BY <1>1, <1>2, TakesIn, Zenon
    <2>3. ~(0 > 0)
      OBVIOUS
    <2>4. QED
      BY <1>2, <1>3, <2>1, <2>2, <2>3, Zenon DEF Spins
  <1>5. UNCHANGED <<lists, curr, tot>>
    BY <1>1, <1>4, Zenon DEF VisitOf
  <1>6. QED
    BY <1>2, <1>3, <1>5, Zenon DEF Spins

LEMMA TurnSpin == ASSUME BaseInv, SweepInv, SpinInv, Turn PROVE SpinInv'
  <1>1. /\ UNCHANGED <<call, lists, curr, tot>> /\ phase \notin {"done", "fault"}
        /\ tot >= call.amount => phase' = "done"
        /\ ~(tot >= call.amount) /\ Again => phase' = phase
        /\ ~(tot >= call.amount) /\ ~Again => phase' = NextPhase
    BY TurnDoes, Zenon
  <1> SUFFICES ASSUME phase' = "last" PROVE Spins'
    BY Zenon DEF SpinInv
  <1>2. CASE phase = "last"
    BY <1>1, <1>2, Zenon DEF SpinInv, Spins
  <1>3. CASE phase # "last"
    <2>1. ~(tot >= call.amount) /\ ~Again /\ phase' = NextPhase
      BY <1>1, <1>3, Zenon
    <2>2. phase = "self"
      <3>1. call.algo \in {"shared", "WB", "AD"} /\ PhaseOf
        BY CallTypes, Zenon DEF BaseInv
      <3>2. QED
        BY <1>1, <1>3, <2>1, <3>1 DEF NextPhase, PhaseOf
    <2>3. \A l \in Lists : l = call.caller /\ curr[l] > 0 => lists[l] = {}
      BY <2>1, <2>2, SweepEnds DEF Wants, Scans
    <2>4. \A l \in Lists : curr[l] > 0 \/ curr[l] = 0
      BY DEF BaseInv
    <2>5. tot < call.amount
      <3>1. tot \in Nat /\ call.amount \in Nat
        BY CallTypes DEF BaseInv
      <3>2. QED
        BY <2>1, <3>1
    <2>6. QED
      BY <1>1, <2>3, <2>4, <2>5, Zenon DEF Spins
  <1>4. QED
    BY <1>2, <1>3, Zenon

LEMMA InitLoop == ASSUME Init PROVE LoopInv
  <1>1. /\ call \in Calls /\ rmode = call.mode /\ lists = [l \in Lists |-> First(l)]
        /\ curr = [l \in Lists |-> IF l = 0 THEN call.stale ELSE Usage(call, l, First(l))]
        /\ fair = (IF call.caller \in Lists THEN FairRate(call.caller) ELSE 0)
        /\ phase = FirstPhase(call) /\ at = 0 /\ visited = FALSE /\ tot = 0
    BY Zenon DEF Init
  <1>2. /\ \A l \in Lists : First(l) \in SUBSET Entries
        /\ call.mode \in {"LFRU", "FAST", "SCORE"} /\ call.algo \in {"shared", "WB", "AD"}
        /\ call.stale \in Nat
    BY <1>1, CallTypes, Zenon DEF First
  <1>3. lists \in [Lists -> SUBSET Entries] /\ \A l \in Lists : lists[l] \subseteq First(l)
    BY <1>1, <1>2
  <1>4. curr \in [Lists -> Nat]
    BY <1>1, <1>2, UsageType
  <1>5. fair \in Nat
    <2>1. call.caller \in Lists => FairRate(call.caller) \in Nat
      BY <1>1, <1>4, FairRateType, Zenon
    <2>2. QED
      BY <1>1, <2>1
  <1>6. Size(Gone(lists)) = 0
    <2>1. Gone(lists) = {}
      BY <1>1, CallTypes DEF Gone, First
    <2>2. QED
      BY <2>1, SumEmpty, Zenon DEF Size, BytesOf
  <1>7. PhaseOf /\ phase \notin {"done", "fault", "own", "last"}
    BY <1>1, <1>2 DEF PhaseOf, FirstPhase
  <1>8. BaseInv
    BY <1>1, <1>2, <1>3, <1>4, <1>5, <1>6, <1>7, ListTypes DEF BaseInv
  <1>9. SweepInv
    <2>1. \A l \in Lists : ~(l < at)
      BY <1>1, ListTypes
    <2>2. QED
      BY <2>1, Zenon DEF SweepInv
  <1>10. TakeAllInv
    <2>1. call.algo = "shared" /\ call.mode # "FAST" => phase = "scan"
      BY <1>1 DEF FirstPhase
    <2>2. call.algo = "WB" /\ call.caller = 0 => phase = "brute"
      BY <1>1 DEF FirstPhase
    <2>3. QED
      BY <1>7, <2>1, <2>2 DEF TakeAllInv
  <1>11. AdaptiveInv
    <2>1. \A l \in Lists : lists[l] = First(l)
      BY <1>1
    <2>2. QED
      BY <1>7, <2>1, Zenon DEF AdaptiveInv
  <1>12. SpinInv
    BY <1>7, Zenon DEF SpinInv
  <1>13. QED
    BY <1>8, <1>9, <1>10, <1>11, <1>12, Zenon DEF LoopInv

LEMMA StillLoop == ASSUME LoopInv, StillOf PROVE LoopInv'
  <1>1. UNCHANGED <<call, lists, curr, fair, phase, at, visited, tot>>
    BY Zenon DEF StillOf
  <1>2. Cheapest' = Cheapest /\ \A l : First(l)' = First(l)
    BY <1>1, CallSame, Zenon
  <1>3. BaseInv' /\ SweepInv'
    BY StillBase, StillSweep, Zenon DEF LoopInv
  <1>4. TakeAllInv'
    BY <1>1, Zenon DEF LoopInv, TakeAllInv, AllEmpty
  <1>5. AdaptiveInv'
    BY <1>1, <1>2, Zenon DEF LoopInv, AdaptiveInv
  <1>6. SpinInv'
    BY <1>1, Zenon DEF LoopInv, SpinInv, Spins
  <1>7. QED
    BY <1>3, <1>4, <1>5, <1>6, Zenon DEF LoopInv

LEMMA NextLoop == LoopInv /\ [Next]_vars => LoopInv'
  <1> SUFFICES ASSUME LoopInv, [Next]_vars PROVE LoopInv'
    OBVIOUS
  <1>1. CASE Visit
    BY <1>1, VisitBase, VisitSweep, VisitTakeAll, VisitAdaptive, VisitSpin, Zenon DEF LoopInv
  <1>2. CASE Turn
    BY <1>2, TurnBase, TurnSweep, TurnTakeAll, TurnAdaptive, TurnSpin, Zenon DEF LoopInv
  <1>3. CASE (\E m \in Modes : SetReplacement(m)) \/ UNCHANGED vars
    BY <1>3, StillDoes, StillLoop, Zenon
  <1>4. QED
    BY <1>1, <1>2, <1>3, Zenon DEF Next

LEMMA AllTakenIs == ASSUME BaseInv PROVE AllTaken = Gone(lists) /\ AllTaken \in SUBSET Entries
  <1>1. /\ \A e \in Entries : Entry(e).list \in Lists
        /\ \A l \in Lists : lists[l] \subseteq First(l)
    BY CallTypes, Zenon DEF BaseInv
  <1>2. \A e : e \in AllTaken <=> \E l \in Lists : e \in First(l) /\ e \notin lists[l]
    <2>1. \A e : e \in AllTaken <=> \E l \in Lists : e \in Taken(l)
      BY Zenon DEF AllTaken
    <2>2. \A l, e : e \in Taken(l) <=> e \in First(l) /\ e \notin lists[l]
      BY Zenon DEF Taken
    <2>3. QED
      BY <2>1, <2>2, Zenon
  <1>3. \A l, e : e \in First(l) <=> e \in Entries /\ Entry(e).list = l
    BY Zenon DEF First
  <1>4. \A e : e \in Gone(lists) <=> e \in Entries /\ e \notin lists[Entry(e).list]
    BY Zenon DEF Gone
  <1>5. ASSUME NEW e \in AllTaken PROVE e \in Gone(lists)
    <2>1. PICK l \in Lists : e \in First(l) /\ e \notin lists[l]
      BY <1>2, <1>5, Zenon
    <2>2. e \in Entries /\ Entry(e).list = l
      BY <1>3, <2>1, Zenon
    <2>3. QED
      BY <1>4, <2>1, <2>2, Zenon
  <1>6. ASSUME NEW e \in Gone(lists) PROVE e \in AllTaken
    <2>1. e \in Entries /\ e \notin lists[Entry(e).list]
      BY <1>4, <1>6, Zenon
    <2>2. e \in First(Entry(e).list) /\ Entry(e).list \in Lists
      BY <1>1, <1>3, <2>1, Zenon
    <2>3. QED
      BY <1>2, <2>1, <2>2, Zenon
  <1>7. QED
    BY <1>4, <1>5, <1>6, Zenon

LEMMA LoopContract == LoopInv => ContractKept
  <1> SUFFICES ASSUME LoopInv PROVE ContractKept
    OBVIOUS
  <1> DEFINE size == [e \in Entries |-> Entry(e).bytes]
  <1>1. BaseInv /\ TakeAllInv /\ AdaptiveInv
    BY Zenon DEF LoopInv
  <1>2. /\ AllTaken = Gone(lists) /\ AllTaken \in SUBSET Entries
        /\ tot = BytesOf(size, AllTaken)
    BY <1>1, AllTakenIs, Zenon DEF BaseInv, Size
  <1>3. call.algo \in {"shared", "WB", "AD"} /\ \A e \in Entries : Entry(e).list \in Lists
    BY <1>1, CallTypes, Zenon DEF BaseInv
  <1>4. AllEmpty => AllTaken = Entries
    BY <1>2, <1>3, Zenon DEF AllEmpty, Gone
  <1> DEFINE own == UNION {First(l) : l \in Lists \cap {call.caller}}
  <1>5. ASSUME call.algo = "AD", phase = "done"
        PROVE  \E h \in Lists : AdaptiveMayTake(size, AllTaken, First(h), own, call.amount)
    <2>1. PICK h \in Lists : Cheapest = {h}
      BY <1>1, CheapestOne, Zenon DEF BaseInv
    <2>2. /\ \A l \in Lists \ {h} : lists[l] = First(l) \/ l = call.caller
          /\ tot >= call.amount \/ \A l \in Lists : l \in {h} \cup {call.caller} => lists[l] = {}
          /\ lists[h] = {} \/ \A l \in Lists \ {h} : lists[l] = First(l)
      BY <1>1, <1>5, <2>1, Zenon DEF AdaptiveInv
    <2>3. \A l, e : e \in First(l) <=> e \in Entries /\ Entry(e).list = l
      BY Zenon DEF First
    <2>4. \A e : e \in AllTaken <=> e \in Entries /\ e \notin lists[Entry(e).list]
      BY <1>2, Zenon DEF Gone
    <2>5. \A e : e \in own <=> e \in Entries /\ Entry(e).list = call.caller
      <3>1. \A e : e \in own <=> \E l \in Lists \cap {call.caller} : e \in First(l)
        BY Zenon
      <3> HIDE DEF own
      <3>2. \A e : e \in own <=> call.caller \in Lists /\ e \in First(call.caller)
        BY <3>1, Zenon
      <3>3. QED
        BY <1>3, <2>3, <3>2, Zenon
    <2> HIDE DEF own, size
    <2>6. AllTaken \subseteq First(h) \cup own
      <3>1. ASSUME NEW e \in AllTaken PROVE e \in First(h) \cup own
        <4>1. e \in Entries /\ e \notin lists[Entry(e).list] /\ Entry(e).list \in Lists
          BY <1>3, <2>4, <3>1, Zenon
        <4>2. e \in First(Entry(e).list)
          BY <2>3, <4>1, Zenon
        <4>3. Entry(e).list = h \/ Entry(e).list = call.caller
          BY <2>2, <4>1, <4>2, Zenon
        <4>4. QED
          BY <2>3, <2>5, <4>1, <4>3, Zenon
      <3>2. QED
        BY <3>1, Zenon
    <2>7. tot >= call.amount \/ AllTaken = First(h) \cup own
      <3>1. ASSUME \A l \in Lists : l \in {h} \cup {call.caller} => lists[l] = {},
                   NEW e \in First(h) \cup own
            PROVE  e \in AllTaken
        <4>1. e \in Entries /\ (Entry(e).list = h \/ Entry(e).list = call.caller)
          BY <2>3, <2>5, <3>1, Zenon
        <4>2. Entry(e).list \in Lists
          BY <1>3, <4>1, Zenon
        <4>3. lists[Entry(e).list] = {}
          BY <3>1, <4>1, <4>2, Zenon
        <4>4. QED
          BY <2>4, <4>1, <4>3, Zenon
      <3>2. QED
        BY <2>2, <2>6, <3>1, Zenon
    <2>8. First(h) \subseteq AllTaken \/ AllTaken \subseteq First(h)
      <3>1. CASE lists[h] = {}
        BY <2>3, <2>4, <3>1, Zenon
      <3>2. CASE \A l \in Lists \ {h} : lists[l] = First(l)
        <4>1. ASSUME NEW e \in AllTaken PROVE e \in First(h)
          <5>1. e \in Entries /\ e \notin lists[Entry(e).list] /\ Entry(e).list \in Lists
            BY <1>3, <2>4, <4>1, Zenon
          <5>2. e \in First(Entry(e).list)
            BY <2>3, <5>1, Zenon
          <5>3. Entry(e).list = h
            BY <3>2, <5>1, <5>2, Zenon
          <5>4. QED
            BY <5>2, <5>3, Zenon
        <4>2. QED
          BY <4>1, Zenon
      <3>3. QED
        BY <2>2, <3>1, <3>2, Zenon
    <2>9. QED
      BY <1>2, <2>6, <2>7, <2>8, Zenon DEF AdaptiveMayTake, Enough
  <1>6. ASSUME call.algo = "shared", phase = "done"
        PROVE  SharedMayTake(size, AllTaken, Entries, call.amount)
    BY <1>1, <1>2, <1>4, <1>6, Zenon DEF TakeAllInv, SharedMayTake, Enough
  <1>7. ASSUME call.algo = "WB", phase = "done"
        PROVE  WeightMayTake(size, AllTaken, Entries, call.amount, call.caller # 0)
    <2>1. phase # "brute"
      BY <1>7
    <2>2. QED
      BY <1>1, <1>2, <1>4, <1>7, <2>1, Zenon DEF TakeAllInv, WeightMayTake, Enough
  <1> HIDE DEF size, own
  <1>8. phase = "done" =>
          CASE call.algo = "shared" -> SharedMayTake(size, AllTaken, Entries, call.amount)
            [] call.algo = "WB" ->
                 WeightMayTake(size, AllTaken, Entries, call.amount, call.caller # 0)
            [] call.algo = "AD" -> \E h \in Lists :
                 AdaptiveMayTake(size, AllTaken, First(h), own, call.amount)
    BY <1>3, <1>5, <1>6, <1>7
  <1>9. QED
    BY <1>2, <1>8, Zenon DEF ContractKept, size, own

\* shared_cache_free, partition_cf_weight_based and
\* partition_cf_adaptive_dynamic keep what McdCache relies on: tot is what
\* was taken, and a call that returns has taken enough or all there was to
\* take, for any lists, sizes and modes, although the mode may change.
THEOREM EvictionsKeepContract == Spec => []ContractKept
  <1>1. QED
    BY InitLoop, NextLoop, LoopContract, PTL DEF Spec

\* The last loop of partition_cf_weight_based is reached only by calls for
\* which it never ends.
THEOREM LastLoopAlwaysSpins == Spec => []LastLoopSpins
  <1>1. LoopInv => LastLoopSpins
    BY Zenon DEF LoopInv, SpinInv, LastLoopSpins
  <1>2. QED
    BY <1>1, InitLoop, NextLoop, PTL DEF Spec

---------------------------------------------------------------------------
(***************************************************************************)
(* The caller pays last.  A domain in the list of others that is taken from *)
(* because it is beyond its share had a fair rate no higher than the        *)
(* caller's, and so has whatever it keeps once it is within its share:      *)
(* this is SharePaid, which needs nothing of how curr follows the entries.  *)
(***************************************************************************)

PayingCall == call.algo = "WB" /\ call.caller \in Lists \ {0} /\ FirstCurr(call.caller) <= 100

LEMMA PayingSame == ASSUME call' = call PROVE PayingCall' = PayingCall
  <1>1. FirstCurr(call.caller)' = FirstCurr(call.caller)
    BY DEF FirstCurr, Usage, First, Entries, Entry
  <1>2. QED
    BY <1>1, Zenon DEF PayingCall

\* The fair rate grows with the usage.
LEMMA RateGrows ==
  ASSUME call \in Calls, NEW l \in Lists, NEW c \in Nat, NEW d \in Nat, c <= d
  PROVE  c \div (call.ratio[l] + 1) <= d \div (call.ratio[l] + 1)
  <1>1. call.ratio[l] + 1 \in Nat \ {0}
    BY CallTypes
  <1>2. \A a, b \in Nat, k \in Nat \ {0} : a <= b => a \div k <= b \div k
    OBVIOUS
  <1>3. QED
    BY <1>1, <1>2, Zenon

\* The state of a domain is what it was.
LEMMA PaidSame ==
  ASSUME UNCHANGED <<call, fair>>, NEW l, lists'[l] = lists[l], curr'[l] = curr[l]
  PROVE  /\ RatePaid(l)' <=> RatePaid(l)
         /\ SharePaid(l)' <=> SharePaid(l)
         /\ Paid(l)' <=> Paid(l)
  BY Zenon DEF RatePaid, SharePaid, Paid, FairRate

LEMMA UntouchedSame ==
  ASSUME call' = call, lists'[call.caller] = lists[call.caller], curr'[call.caller] = curr[call.caller]
  PROVE  Untouched' <=> Untouched
  <1>1. First(call.caller)' = First(call.caller) /\ FirstCurr(call.caller)' = FirstCurr(call.caller)
    BY DEF FirstCurr, Usage, First, Entries, Entry
  <1>2. QED
    BY <1>1, Zenon DEF Untouched

LEMMA VisitPays == ASSUME BaseInv, PayInv, Visit PROVE PayInv'
  <1> DEFINE V == Takes(at)
  <1>1. VisitOf(V) /\ phase \notin {"done", "fault"}
    BY VisitDoes, Zenon
  <1>2. /\ UNCHANGED <<call, fair, phase>> /\ at \in Lists /\ phase # "done"
        /\ V \subseteq lists[at] /\ (~Wants(at) => V = {})
        /\ V = {} => curr' = curr /\ lists' = lists
        /\ \A l \in Lists \ {at} : lists'[l] = lists[l] /\ curr'[l] = curr[l]
    BY <1>1, TakesIn, Zenon DEF VisitOf
  <1> SUFFICES ASSUME PayingCall PROVE PayInv'
    <2>1. PayingCall' = PayingCall
      BY <1>2, PayingSame, Zenon
    <2>2. QED
      BY <2>1, Zenon DEF PayInv, PayingCall
  <1>3. /\ phase \in {"others", "self over", "others over"} => Untouched
        /\ phase = "self over" => \A l \in Others : RatePaid(l)
        /\ phase = "others over" => \A l \in Others : SharePaid(l)
        /\ phase \in {"self", "last"} => \A l \in Others : Paid(l)
    BY Zenon DEF PayInv, PayingCall
  <1>4. Others' = Others /\ call.caller \in Lists /\ call \in Calls
        /\ \A l \in Lists : curr[l] \in Nat
    BY <1>2, CallSame, Zenon DEF PayingCall, BaseInv
  <1>5. /\ phase \in {"others", "others over"} => (Wants(at) => at # call.caller)
        /\ phase = "others over" => (Wants(at) => curr[at] > 100)
        /\ phase = "self over" => (Wants(at) => at = call.caller /\ curr[at] > 100)
        /\ phase \in {"self", "last"} => (Wants(at) => at = call.caller)
    BY DEF Wants
  <1>6. phase = "self over" => V = {}
    <2>0. SUFFICES ASSUME phase = "self over", Wants(at) PROVE FALSE
      BY <1>2, Zenon
    <2>1. curr[at] > 100 /\ curr[at] <= 100
      BY <1>3, <1>5, <2>0, Zenon DEF Untouched, PayingCall
    <2>2. QED
      BY <1>2, <1>4, <2>1
  <1> HIDE DEF V
  <1>7. phase \in {"others", "self over", "others over"} => Untouched'
    <2> SUFFICES ASSUME phase \in {"others", "self over", "others over"} PROVE Untouched'
      BY Zenon
    <2>1. lists'[call.caller] = lists[call.caller] /\ curr'[call.caller] = curr[call.caller]
      BY <1>2, <1>4, <1>5, <1>6, Zenon
    <2>2. QED
      BY <1>2, <1>3, <2>1, UntouchedSame, Zenon
  <1>8. phase = "self over" => \A l \in Others : RatePaid(l)'
    BY <1>2, <1>3, <1>6, PaidSame, Zenon
  <1>9. phase = "others over" => \A l \in Others : SharePaid(l)'
    <2>0. SUFFICES ASSUME phase = "others over", NEW l \in Others PROVE SharePaid(l)'
      BY Zenon
    <2>1. SharePaid(l) /\ l \in Lists
      BY <1>3, <2>0, Zenon DEF Others
    <2>2. CASE l # at \/ V = {}
      BY <1>2, <2>1, <2>2, PaidSame, Zenon
    <2>3. CASE l = at /\ V # {}
      <3>1. curr[l] > 100 /\ lists[l] # {}
        BY <1>2, <1>5, <2>0, <2>3, Zenon
      <3>2. 100 \in Nat /\ curr[l] \in Nat /\ 100 <= curr[l]
        BY <1>4, <2>1, <3>1
      <3>3. 100 \div (call.ratio[l] + 1) <= FairRate(l)
        BY <1>4, <2>1, <3>2, RateGrows, Zenon DEF FairRate
      <3>4. FairRate(l) \in Nat /\ fair \in Nat
        BY <1>4, <2>1, FairRateType, Zenon DEF BaseInv
      <3>5. 100 \div (call.ratio[l] + 1) \in Int
        <4>1. call.ratio[l] + 1 \in Nat \ {0}
          BY <1>4, <2>1, CallTypes
        <4>2. \A k \in Nat \ {0} : 100 \div k \in Int
          OBVIOUS
        <4>3. QED
          BY <4>1, <4>2, Zenon
      <3>6. FairRate(l) <= fair => 100 \div (call.ratio[l] + 1) <= fair
        BY <3>3, <3>4, <3>5
      <3>7. 100 \div (call.ratio[l] + 1) <= fair
        BY <2>1, <3>1, <3>6, Zenon DEF SharePaid, RatePaid
      <3>8. QED
        BY <1>2, <3>7, Zenon DEF SharePaid
    <2>4. QED
      BY <2>2, <2>3, Zenon
  <1>10. phase \in {"self", "last"} => \A l \in Others : Paid(l)'
    <2> SUFFICES ASSUME phase \in {"self", "last"}, NEW l \in Others PROVE Paid(l)'
      BY Zenon
    <2>1. lists'[l] = lists[l] /\ curr'[l] = curr[l]
      BY <1>2, <1>5, Zenon DEF Others
    <2>2. QED
      BY <1>2, <1>3, <2>1, PaidSame, Zenon
  <1>11. QED
    BY <1>2, <1>4, <1>7, <1>8, <1>9, <1>10, Zenon DEF PayInv

LEMMA TurnPays == ASSUME BaseInv, SweepInv, PayInv, Turn PROVE PayInv'
  <1>1. /\ UNCHANGED <<call, lists, curr, tot>> /\ phase \notin {"done", "fault"}
        /\ phase # "brute" => fair' = fair
        /\ tot >= call.amount => phase' = "done"
        /\ ~(tot >= call.amount) /\ Again => phase' = phase
        /\ ~(tot >= call.amount) /\ ~Again => phase' = NextPhase
    BY TurnDoes, Zenon
  <1> SUFFICES ASSUME PayingCall PROVE PayInv'
    <2>1. PayingCall' = PayingCall
      BY <1>1, PayingSame, Zenon
    <2>2. QED
      BY <2>1, Zenon DEF PayInv, PayingCall
  <1>2. /\ phase \in {"others", "self over", "others over"} => Untouched
        /\ phase = "self over" => \A l \in Others : RatePaid(l)
        /\ phase = "others over" => \A l \in Others : SharePaid(l)
        /\ phase \in {"self", "last"} => \A l \in Others : Paid(l)
    BY Zenon DEF PayInv, PayingCall
  <1>3. phase \in {"others", "self over", "others over", "self", "last"} /\ fair' = fair
    BY <1>1 DEF BaseInv, PhaseOf, PayingCall
  <1>4. /\ Others' = Others /\ (Untouched' <=> Untouched)
        /\ \A l : /\ RatePaid(l)' <=> RatePaid(l)
                  /\ SharePaid(l)' <=> SharePaid(l)
                  /\ Paid(l)' <=> Paid(l)
    BY <1>1, <1>3, CallSame, UntouchedSame, PaidSame, Zenon
  <1>5. CASE phase' = phase
    BY <1>2, <1>3, <1>4, <1>5 DEF PayInv
  <1>6. CASE phase' = "done"
    BY <1>2, <1>3, <1>4, <1>6 DEF PayInv
  <1>7. CASE ~(tot >= call.amount) /\ ~Again
    <2>1. phase # "last" /\ \A l \in Lists : Wants(l) => lists[l] = {}
      BY <1>3, <1>7, SweepEnds DEF Scans
    <2>2. /\ call \in Calls /\ fair \in Nat /\ \A l \in Others : l \in Lists /\ l # call.caller
          /\ \A l \in Lists : curr[l] \in Nat
      BY Zenon DEF BaseInv, Others
    <2>3. \A l \in Lists : FairRate(l) \in Nat
      BY <2>2, FairRateType, Zenon
    <2>4. CASE phase = "others"
      <3>1. phase' = "self over"
        BY <1>1, <1>7, <2>4 DEF NextPhase
      <3>2. ASSUME NEW l \in Others PROVE RatePaid(l)
        <4>1. FairRate(l) > fair => lists[l] = {}
          BY <2>1, <2>2, <2>4 DEF Wants
        <4>2. FairRate(l) > fair \/ FairRate(l) <= fair
          BY <2>2, <2>3
        <4>3. QED
          BY <4>1, <4>2, Zenon DEF RatePaid
      <3>3. QED
        BY <1>2, <1>4, <2>4, <3>1, <3>2 DEF PayInv
    <2>5. CASE phase = "self over"
      <3>1. phase' = "others over"
        BY <1>1, <1>7, <2>5 DEF NextPhase
      <3>2. \A l \in Others : SharePaid(l)
        BY <1>2, <2>5, Zenon DEF SharePaid
      <3>3. QED
        BY <1>2, <1>4, <2>5, <3>1, <3>2 DEF PayInv
    <2>6. CASE phase = "others over"
      <3>1. phase' = "self"
        BY <1>1, <1>7, <2>6 DEF NextPhase
      <3>2. ASSUME NEW l \in Others PROVE Paid(l)
        <4>1. curr[l] > 100 => lists[l] = {}
          BY <2>1, <2>2, <2>6 DEF Wants
        <4>2. curr[l] > 100 \/ curr[l] <= 100
          BY <2>2
        <4>3. SharePaid(l)
          BY <1>2, <2>6, <3>2, Zenon
        <4>4. ASSUME curr[l] <= 100, 100 \div (call.ratio[l] + 1) <= fair
              PROVE  FairRate(l) <= fair
          <5>1. 100 \in Nat /\ call.ratio[l] + 1 \in Nat \ {0}
            BY <2>2, CallTypes
          <5>2. FairRate(l) <= 100 \div (call.ratio[l] + 1)
            BY <2>2, <4>4, <5>1, RateGrows, Zenon DEF FairRate
          <5>3. \A k \in Nat \ {0} : 100 \div k \in Int
            OBVIOUS
          <5>4. 100 \div (call.ratio[l] + 1) \in Int /\ FairRate(l) \in Nat
            BY <2>2, <2>3, <5>1, <5>3, Zenon
          <5>5. QED
            BY <2>2, <4>4, <5>2, <5>4
        <4>5. QED
          BY <4>1, <4>2, <4>3, <4>4, Zenon DEF Paid, SharePaid, RatePaid
      <3>3. QED
        BY <1>4, <3>1, <3>2 DEF PayInv
    <2>7. CASE phase = "self"
      <3>1. phase' \in {"last", "done"}
        BY <1>1, <1>7, <2>7 DEF NextPhase
      <3>2. QED
        BY <1>2, <1>4, <2>7, <3>1 DEF PayInv
    <2>8. QED
      BY <1>3, <2>1, <2>4, <2>5, <2>6, <2>7, Zenon
  <1>8. QED
    BY <1>1, <1>5, <1>6, <1>7, Zenon

LEMMA StillPays == ASSUME PayInv, StillOf PROVE PayInv'
  <1>1. UNCHANGED <<call, lists, curr, fair, phase>>
    BY Zenon DEF StillOf
  <1>2. /\ Others' = Others /\ (Untouched' <=> Untouched) /\ PayingCall' = PayingCall
        /\ \A l : /\ RatePaid(l)' <=> RatePaid(l)
                  /\ SharePaid(l)' <=> SharePaid(l)
                  /\ Paid(l)' <=> Paid(l)
    BY <1>1, CallSame, UntouchedSame, PaidSame, PayingSame, Zenon
  <1>3. QED
    BY <1>1, <1>2, Zenon DEF PayInv, PayingCall

\* Weight based, `Find others first': a caller within its share gives up an
\* entry only when the domains with a higher fair rate and those beyond their
\* share have nothing left.
THEOREM CallerAlwaysPaysLast == Spec => []CallerPaysLast
  <1>1. Init => LoopInv /\ PayInv
    <2> SUFFICES ASSUME Init PROVE LoopInv /\ PayInv
      OBVIOUS
    <2>1. LoopInv
      BY InitLoop, Zenon
    <2>2. PayingCall => phase = "others" /\ Untouched
      <3>1. lists = [l \in Lists |-> First(l)] /\ curr = [l \in Lists |-> FirstCurr(l)]
        BY DEF Init, FirstCurr
      <3>2. PayingCall => phase = "others"
        BY DEF Init, FirstPhase, PayingCall
      <3>3. QED
        BY <3>1, <3>2 DEF PayingCall, Untouched
    <2>3. QED
      BY <2>1, <2>2 DEF PayInv, PayingCall
  <1>2. LoopInv /\ PayInv /\ [Next]_vars => LoopInv' /\ PayInv'
    <2> SUFFICES ASSUME LoopInv, PayInv, [Next]_vars PROVE PayInv'
      BY NextLoop, Zenon
    <2>1. CASE Visit
      BY <2>1, VisitPays, Zenon DEF LoopInv
    <2>2. CASE Turn
      BY <2>2, TurnPays, Zenon DEF LoopInv
    <2>3. CASE (\E m \in Modes : SetReplacement(m)) \/ UNCHANGED vars
      BY <2>3, StillDoes, StillPays, Zenon
    <2>4. QED
      BY <2>1, <2>2, <2>3, Zenon DEF Next
  <1>3. LoopInv /\ PayInv => CallerPaysLast
    <2> SUFFICES ASSUME LoopInv, PayInv, PayingCall, Taken(call.caller) # {},
                        NEW l \in Others, FairRate(l) > fair \/ curr[l] > 100
                 PROVE  lists[l] = {}
      BY Zenon DEF CallerPaysLast, PayingCall, Others
    <2>1. ~Untouched
      BY Zenon DEF Untouched, Taken
    <2>2. Paid(l)
      <3>1. phase \in {"others", "self over", "others over", "self", "last", "done"}
        BY Zenon DEF LoopInv, BaseInv, PhaseOf, PayingCall
      <3>2. QED
        BY <2>1, <3>1, Zenon DEF PayInv, PayingCall
    <2>3. call \in Calls /\ l \in Lists /\ curr[l] \in Nat /\ fair \in Nat
      BY Zenon DEF LoopInv, BaseInv, Others
    <2>4. FairRate(l) \in Nat
      BY <2>3, FairRateType, Zenon
    <2>5. ~(FairRate(l) <= fair /\ curr[l] <= 100)
      BY <2>3, <2>4
    <2>6. QED
      BY <2>2, <2>5, Zenon DEF Paid
  <1>4. QED
    BY <1>1, <1>2, <1>3, PTL DEF Spec

---------------------------------------------------------------------------
(***************************************************************************)
(* What LFRU takes.  A visit takes at most two entries, and one of them was *)
(* used no later than any other of the list: the least recently used one,   *)
(* or, when every entry of the list is as new as the scan, any.             *)
(***************************************************************************)

LRUCall == call.mode = "LFRU" /\ switches = 0 /\ ~(call.algo = "WB" /\ call.caller = 0)

LEMMA TwoAtMost ==
  ASSUME call \in Calls, rmode = "LFRU", NEW S \in SUBSET Entries
  PROVE  \E a, b : Chosen(S) \subseteq {a, b}
  <1>1. \A e \in S : Entry(e).put \in Int /\ Entry(e).ref \in Int
    <2>1. \A e \in Entries : Entry(e).put \in 0..Now /\ Entry(e).ref \in 0..(MaxRef - 1)
      BY CallTypes, Zenon
    <2>2. Now \in Nat /\ MaxRef \in Nat
      BY ReplaceConstants
    <2>3. QED
      BY <2>1, <2>2
  <1>2. S \subseteq Nat
    BY CallTypes, Zenon
  <1>3. ASSUME NEW T \in SUBSET S, NEW rank, \A e \in T : rank[e] \in Int
        PROVE  \E a : LeastBy(T, rank) \subseteq {a}
    <2>1. T \in SUBSET Nat
      BY <1>2, Zenon
    <2>2. \A e, f \in LeastBy(T, rank) : e = f
      BY <1>3, <2>1, LeastByOne, Zenon
    <2>3. CASE LeastBy(T, rank) = {}
      <3>1. LeastBy(T, rank) \subseteq {0}
        BY <2>3, Zenon
      <3>2. QED
        BY <3>1, Zenon
    <2>4. ASSUME NEW e \in LeastBy(T, rank) PROVE \E a : LeastBy(T, rank) \subseteq {a}
      <3>1. LeastBy(T, rank) \subseteq {e}
        BY <2>2, <2>4, Zenon
      <3>2. QED
        BY <3>1, Zenon
    <2>5. QED
      BY <2>3, <2>4, Zenon
  <1>4. \E a : LeastRecent(S) \subseteq {a}
    <2>1. \A e \in {f \in S : Entry(f).put < Now} : [f \in S |-> Entry(f).put][e] \in Int
      BY <1>1, Zenon
    <2>2. {f \in S : Entry(f).put < Now} \in SUBSET S
      BY Zenon
    <2>3. QED
      BY <1>3, <2>1, <2>2, Zenon DEF LeastRecent
  <1>5. \E b : LeastFrequent(S) \subseteq {b}
    <2>1. \A e \in {f \in S \ OnceLeastRecent(S) : Entry(f).ref < MaxRef} :
            [f \in S |-> Entry(f).ref][e] \in Int
      BY <1>1, Zenon
    <2>2. {f \in S \ OnceLeastRecent(S) : Entry(f).ref < MaxRef} \in SUBSET S
      BY Zenon
    <2>3. QED
      BY <1>3, <2>1, <2>2, Zenon DEF LeastFrequent
  <1>6. Chosen(S) = LeastRecent(S) \cup LeastFrequent(S)
    BY DEF Chosen
  <1>7. PICK a : LeastRecent(S) \subseteq {a}
    BY <1>4, Zenon
  <1>8. PICK b : LeastFrequent(S) \subseteq {b}
    BY <1>5, Zenon
  <1>9. Chosen(S) \subseteq {a, b}
    BY <1>6, <1>7, <1>8, Zenon
  <1>10. QED
    BY <1>9, Zenon

LEMMA OneIsOld ==
  ASSUME call \in Calls, rmode = "LFRU", NEW S \in SUBSET Entries, Chosen(S) # {}
  PROVE  \E e \in Chosen(S) : \A f \in S : Entry(e).put <= Entry(f).put
  <1> DEFINE T == {e \in S : Entry(e).put < Now}
             rank == [e \in S |-> Entry(e).put]
  <1>1. Chosen(S) = LeastBy(T, rank) \cup LeastFrequent(S) /\ Chosen(S) \subseteq S
    BY ChosenIn DEF Chosen, LeastRecent
  <1>2. \A e \in S : Entry(e).put \in Nat /\ Entry(e).put <= Now
    <2>1. \A e \in Entries : Entry(e).put \in 0..Now
      BY CallTypes, Zenon
    <2>2. Now \in Nat
      BY ReplaceConstants
    <2>3. QED
      BY <2>1, <2>2
  <1>3. Now \in Nat
    BY ReplaceConstants
  <1>4. CASE T = {}
    <2>1. \A e \in S : Entry(e).put = Now
      <3> TAKE e \in S
      <3>1. ~(Entry(e).put < Now)
        BY <1>4, Zenon
      <3>2. QED
        BY <1>2, <1>3, <3>1
    <2>2. PICK e \in Chosen(S) : TRUE
      BY Zenon
    <2>3. Now <= Now
      BY <1>3
    <2>4. QED
      BY <1>1, <2>1, <2>2, <2>3, Zenon
  <1>5. CASE T # {}
    <2>1. T \in SUBSET Nat /\ IsFiniteSet(T)
      <3>1. IsFiniteSet(Entries) /\ Entries \subseteq Nat /\ T \subseteq Entries
        BY CallTypes, Zenon
      <3>2. QED
        BY <3>1, FS_Subset, Zenon
    <2>2. \A e \in T : rank[e] = Entry(e).put /\ e \in S
      BY Zenon
    <2>3. \A e \in T : rank[e] \in Int
      BY <1>2, <2>2
    <2> HIDE DEF rank
    <2>4. PICK e \in T : e \in LeastBy(T, rank)
      BY <1>5, <2>1, <2>3, LeastBySome, Zenon
    <2>5. \A f \in T : rank[e] < rank[f] \/ rank[e] = rank[f]
      BY <2>4, Zenon DEF LeastBy
    <2>6. \A f \in T : Entry(e).put < Entry(f).put \/ Entry(e).put = Entry(f).put
      BY <2>2, <2>4, <2>5, Zenon
    <2>7. Entry(e).put < Now /\ e \in S
      BY <2>4, Zenon
    <2>8. ASSUME NEW f \in S PROVE Entry(e).put <= Entry(f).put
      <3>1. f \in T \/ ~(Entry(f).put < Now)
        BY Zenon
      <3>2. Entry(e).put \in Nat /\ Entry(f).put \in Nat
        BY <1>2, <2>7, Zenon
      <3>3. Entry(e).put < Entry(f).put \/ Entry(e).put = Entry(f).put \/ ~(Entry(f).put < Now)
        BY <2>6, <3>1, Zenon
      <3>4. QED
        BY <1>3, <2>7, <3>2, <3>3
    <2>9. e \in Chosen(S)
      BY <1>1, <2>4, Zenon
    <2>10. QED
      BY <2>8, <2>9, Zenon
  <1>6. QED
    BY <1>4, <1>5, Zenon

\* One more that is old for at most two more that are gone.
LEMMA OldCount ==
  ASSUME NEW G, IsFiniteSet(G), NEW O, O \subseteq G, 2 * Cardinality(O) >= Cardinality(G),
         NEW a, NEW b, NEW V, V \subseteq {a, b}, IsFiniteSet(V),
         NEW e \in V, e \notin G, NEW P, O \cup {e} \subseteq P, P \subseteq G \cup V
  PROVE  2 * Cardinality(P) >= Cardinality(G \cup V)
  <1>1. IsFiniteSet(G \cup V) /\ Cardinality(G \cup V) <= Cardinality(G) + Cardinality(V)
    <2>1. /\ IsFiniteSet(G \cup V) /\ IsFiniteSet(G \cap V)
          /\ Cardinality(G \cup V) = Cardinality(G) + Cardinality(V) - Cardinality(G \cap V)
      BY FS_Union, FS_Intersection, Zenon
    <2>2. Cardinality(G) \in Nat /\ Cardinality(V) \in Nat /\ Cardinality(G \cap V) \in Nat
      BY <2>1, FS_CardinalityType, Zenon
    <2>3. QED
      BY <2>1, <2>2
  <1>2. Cardinality(V) <= 2
    <2>1. IsFiniteSet({a}) /\ Cardinality({a}) = 1
      BY FS_Singleton, Zenon
    <2>2. IsFiniteSet({a} \cup {b})
          /\ (Cardinality({a} \cup {b}) = Cardinality({a}) \/ Cardinality({a} \cup {b}) = Cardinality({a}) + 1)
      BY <2>1, FS_AddElement, Zenon
    <2>3. V \subseteq {a} \cup {b}
      BY Zenon
    <2>4. Cardinality(V) <= Cardinality({a} \cup {b})
      BY <2>2, <2>3, FS_Subset, Zenon
    <2>5. Cardinality(V) \in Nat
      BY FS_CardinalityType, Zenon
    <2>6. QED
      BY <2>1, <2>2, <2>4, <2>5
  <1>3. IsFiniteSet(O) /\ IsFiniteSet(P) /\ e \notin O
    BY <1>1, FS_Subset, Zenon
  <1>4. IsFiniteSet(O \cup {e}) /\ Cardinality(O \cup {e}) = Cardinality(O) + 1
    BY <1>3, FS_AddElement, Zenon
  <1>5. Cardinality(O \cup {e}) <= Cardinality(P)
    BY <1>3, <1>4, FS_Subset, Zenon
  <1>6. /\ Cardinality(O) \in Nat /\ Cardinality(P) \in Nat /\ Cardinality(G) \in Nat
        /\ Cardinality(V) \in Nat /\ Cardinality(G \cup V) \in Nat
    BY <1>1, <1>3, FS_CardinalityType, Zenon
  <1>7. QED
    BY <1>1, <1>2, <1>4, <1>5, <1>6

\* With no change of the mode a visit takes what LFRU chooses.
LEMMA LRUTakes ==
  ASSUME BaseInv, TakeAllInv, SpinInv, OldInv, LRUCall, at \in Lists, phase \notin {"done", "fault"}
  PROVE  Takes(at) = {} \/ Takes(at) = Chosen(lists[at])
  <1>1. /\ Takes(at) \subseteq lists[at] /\ (~Wants(at) => Takes(at) = {})
        /\ phase \in Scans \ {"last"} => Takes(at) = {} \/ Takes(at) = Chosen(lists[at])
    BY TakesIn, Zenon
  <1>2. CASE phase = "force"
    <2>1. call.algo = "shared" /\ call.mode # "FAST"
      BY <1>2, CallTypes DEF BaseInv, PhaseOf, LRUCall
    <2>2. lists[at] = {}
      BY <1>2, <2>1, Zenon DEF TakeAllInv, AllEmpty
    <2>3. QED
      BY <1>1, <2>2, Zenon
  <1>3. CASE phase = "last"
    <2>1. Spins
      BY <1>3, Zenon DEF SpinInv
    <2>2. Wants(at) => at = call.caller /\ curr[at] > 0
      BY <1>3 DEF Wants
    <2>3. ~(0 > 0)
      OBVIOUS
    <2>4. Wants(at) => lists[at] = {}
      BY <2>1, <2>2, <2>3, Zenon DEF Spins
    <2>5. QED
      BY <1>1, <2>4, Zenon
  <1>4. phase \in Scans \/ phase = "force"
    BY CallTypes DEF BaseInv, PhaseOf, LRUCall, Scans
  <1>5. QED
    BY <1>1, <1>2, <1>3, <1>4, Zenon

LEMMA OldSame ==
  ASSUME call' = call, NEW l, lists'[l] = lists[l] PROVE Old(l)' = Old(l) /\ Taken(l)' = Taken(l)
  <1>1. First(l)' = First(l) /\ \A e : Entry(e)' = Entry(e)
    BY CallSame, Zenon
  <1>2. QED
    BY <1>1, Zenon DEF Old, Taken

LEMMA VisitOld == ASSUME BaseInv, TakeAllInv, SpinInv, OldInv, Visit PROVE OldInv'
  <1> DEFINE V == Takes(at)
  <1>1. VisitOf(V) /\ phase \notin {"done", "fault"}
    BY VisitDoes, Zenon
  <1>2. /\ UNCHANGED <<call, rmode, switches>> /\ at \in Lists
        /\ V \subseteq lists[at] /\ lists'[at] = lists[at] \ V
        /\ \A l \in Lists \ {at} : lists'[l] = lists[l]
        /\ V = {} => lists' = lists
    BY <1>1, Zenon DEF VisitOf
  <1>3. SUFFICES ASSUME LRUCall, NEW l \in Lists
                 PROVE  2 * Cardinality(Old(l)') >= Cardinality(Taken(l)')
    BY <1>2, Zenon DEF OldInv, LRUCall
  <1>4. rmode = "LFRU" /\ 2 * Cardinality(Old(l)) >= Cardinality(Taken(l))
    BY <1>3, Zenon DEF OldInv, LRUCall
  <1>5. CASE l # at \/ V = {}
    BY <1>2, <1>4, <1>5, OldSame, Zenon
  <1>6. CASE l = at /\ V # {}
    <2>1. V = Chosen(lists[l])
      BY <1>1, <1>2, <1>3, <1>6, LRUTakes, Zenon
    <2>2. call \in Calls /\ lists[l] \in SUBSET Entries /\ lists[l] \subseteq First(l)
      BY Zenon DEF BaseInv
    <2> HIDE DEF V
    <2>3. PICK a, b : V \subseteq {a, b}
      BY <1>4, <2>1, <2>2, TwoAtMost, Zenon
    <2>4. PICK e \in V : \A f \in lists[l] : Entry(e).put <= Entry(f).put
      BY <1>4, <1>6, <2>1, <2>2, OneIsOld, Zenon
    <2>5. /\ First(l)' = First(l) /\ \A x : Entry(x)' = Entry(x)
          /\ lists'[l] = lists[l] \ V /\ V \subseteq lists[l]
      BY <1>2, <1>6, CallSame, Zenon
    <2>6. Taken(l)' = Taken(l) \cup V
      BY <2>2, <2>5, Zenon DEF Taken
    <2>7. Old(l) \cup {e} \subseteq Old(l)' /\ Old(l)' \subseteq Taken(l)'
      BY <2>4, <2>5, <2>6, Zenon DEF Old
    <2>8. e \notin Taken(l) /\ Old(l) \subseteq Taken(l)
      BY <2>4, <2>5, Zenon DEF Taken, Old
    <2>9. IsFiniteSet(Taken(l)) /\ IsFiniteSet(V)
      <3>1. IsFiniteSet(Entries)
        BY <2>2, CallTypes, Zenon
      <3>2. Taken(l) \subseteq Entries /\ V \subseteq Entries
        BY <2>2, <2>5, Zenon DEF Taken, First
      <3>3. QED
        BY <3>1, <3>2, FS_Subset, Zenon
    <2>10. 2 * Cardinality(Old(l)') >= Cardinality(Taken(l) \cup V)
      <3> DEFINE P == Old(l)'
                 O == Old(l)
                 G == Taken(l)
      <3>1. /\ IsFiniteSet(G) /\ O \subseteq G /\ 2 * Cardinality(O) >= Cardinality(G)
            /\ V \subseteq {a, b} /\ IsFiniteSet(V) /\ e \in V /\ e \notin G
            /\ O \cup {e} \subseteq P /\ P \subseteq G \cup V
        BY <1>4, <2>3, <2>4, <2>6, <2>7, <2>8, <2>9, Zenon
      <3> HIDE DEF P, O, G
      <3>2. 2 * Cardinality(P) >= Cardinality(G \cup V)
        BY <3>1, OldCount, Zenon
      <3>3. QED
        BY <3>2, Zenon DEF P, G
    <2>11. QED
      BY <2>6, <2>10, Zenon
  <1>7. QED
    BY <1>5, <1>6, Zenon

\* The mode LFRU, unless it is changed during the call: at least half of what
\* a visited list has lost was used no later than anything it still has,
\* although REPLACE_MODE_SUBROUTINE also takes the least frequently used.
THEOREM OldestAlwaysGo == Spec => []OldestGo
  <1>1. Init => LoopInv /\ OldInv
    <2> SUFFICES ASSUME Init PROVE LoopInv /\ OldInv
      OBVIOUS
    <2>1. LoopInv
      BY InitLoop, Zenon
    <2>2. /\ switches = 0 /\ (call.mode = "LFRU" => rmode = "LFRU")
          /\ \A l \in Lists : lists[l] = First(l)
      BY DEF Init
    <2>3. \A l \in Lists : Taken(l) = {} /\ Old(l) = {}
      BY <2>2, Zenon DEF Taken, Old
    <2>4. Cardinality({}) = 0
      BY FS_EmptySet, Zenon
    <2>5. \A l \in Lists : 2 * Cardinality(Old(l)) >= Cardinality(Taken(l))
      BY <2>3, <2>4
    <2>6. 0 \in Nat
      OBVIOUS
    <2>7. QED
      BY <2>1, <2>2, <2>5, <2>6, Zenon DEF OldInv
  <1>2. LoopInv /\ OldInv /\ [Next]_vars => LoopInv' /\ OldInv'
    <2> SUFFICES ASSUME LoopInv, OldInv, [Next]_vars PROVE OldInv'
      BY NextLoop, Zenon
    <2>1. CASE Visit
      BY <2>1, VisitOld, Zenon DEF LoopInv
    <2>2. ASSUME UNCHANGED <<call, lists>>,
                 \/ rmode' = rmode /\ switches' = switches
                 \/ switches' = switches + 1
          PROVE  OldInv'
      <3>1. \A l : Old(l)' = Old(l) /\ Taken(l)' = Taken(l)
        BY <2>2, OldSame, Zenon
      <3>2. switches \in Nat
        BY Zenon DEF OldInv
      <3>3. switches' \in Nat /\ (switches' = 0 => rmode' = rmode /\ switches' = switches)
        BY <2>2, <3>2
      <3>4. QED
        BY <2>2, <3>1, <3>3, Zenon DEF OldInv
    <2>3. CASE Turn
      BY <2>2, <2>3, TurnDoes, Zenon DEF LoopInv
    <2>4. CASE (\E m \in Modes : SetReplacement(m)) \/ UNCHANGED vars
      BY <2>2, <2>4, StillDoes, Zenon DEF StillOf
    <2>5. QED
      BY <2>1, <2>3, <2>4, Zenon DEF Next
  <1>3. OldInv => OldestGo
    BY Zenon DEF OldInv, OldestGo, Old
  <1>4. QED
    BY <1>1, <1>2, <1>3, PTL DEF Spec
=============================================================================
