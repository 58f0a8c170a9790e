----------------------------- MODULE McdReplace -----------------------------
(***************************************************************************)
(* What an eviction takes: shared_cache_free, partition_cf_weight_based and *)
(* partition_cf_adaptive_dynamic of xen/common/mcd.c with the replacement   *)
(* modes LFRU, FAST and SCORE.  A behaviour is one call.  One visit to a    *)
(* list is one step, as in the code, which holds the lock of the list for   *)
(* it; between two steps `xl mcd-cache-mode' may change replacement_mode.   *)
(*                                                                          *)
(* A list is a bucket in shared mode and the list of a domain in partition  *)
(* mode, where its number is the domid.  The entries are numbered in the    *)
(* order of their lists, so that a list is a set of numbers.  What becomes  *)
(* of the evicted entries is the matter of McdCache and McdTransfer.        *)
(***************************************************************************)
EXTENDS Integers, Sequences, FiniteSets, McdVictims

CONSTANTS
    LastList,       \* the lists are 0..LastList
    Calls,          \* the calls made, see ReplaceConstants
    Modes,          \* the replacement modes that `xl' sets
    Now,            \* NOW() when the function starts
    Total,          \* get_tot_mem_size()
    Alpha, Beta,    \* sd.mem.alpha, sd.mem.beta
    MaxRef,         \* the initial minref, 2^31 - 1
    MaxSwitches     \* bound on the changes of replacement_mode

Lists == 0..LastList

\* A call: the function, its arguments, the entries, and of each domain the
\* ratio, the hit rate and the recovery cost; stale is the curr of domain 0,
\* which dom_usage_update_all leaves alone.  The caller is no member of the
\* lists when mcd_domain_create asks for the memory of a new domain.
ASSUME ReplaceConstants ==
    /\ LastList \in Nat /\ Now \in Nat \ {0} /\ Total \in Nat \ {0}
    /\ Alpha \in Nat /\ Beta \in Nat /\ Alpha + Beta <= 100
    /\ MaxRef \in Nat /\ MaxSwitches \in Nat
    /\ Modes \subseteq {"LFRU", "FAST", "SCORE"}
    /\ \A c \in Calls :
         /\ c.algo \in {"shared", "WB", "AD"} /\ c.mode \in {"LFRU", "FAST", "SCORE"}
         /\ c.amount \in Nat \ {0} /\ c.caller \in Nat /\ c.stale \in Nat
         /\ c.stock \in Seq([list : Lists, bytes : Nat \ {0}, put : 0..Now,
                             ref : 0..(MaxRef - 1), query : Nat, val : Nat])
         /\ c.ratio \in [Lists -> Nat]
         /\ c.hitrate \in [Lists -> 0..100] /\ c.rec \in [Lists -> Nat]

VARIABLES
    call,           \* the call, a member of Calls
    rmode,          \* replacement_mode
    lists,          \* the entries of each list
    curr,           \* curr of each domain
    fair,           \* fair_rate
    phase,          \* the loop the call is in, "done" or "fault"
    at,             \* the list visited next; LastList + 1 at the end of a pass
    visited, tot,   \* as in the code
    switches

vars == <<call, rmode, lists, curr, fair, phase, at, visited, tot, switches>>

Entries == DOMAIN call.stock
Entry(e) == call.stock[e]
Size(V) == BytesOf([e \in Entries |-> Entry(e).bytes], V)
First(l) == {e \in Entries : Entry(e).list = l}

---------------------------------------------------------------------------
(* Which entries of the list S one visit takes.                             *)

\* The first of the members of T whose rank is least.
LeastBy(T, rank) ==
    {e \in T : \A f \in T : rank[e] < rank[f] \/ (rank[e] = rank[f] /\ e <= f)}

\* A bug: the order of the comparison is swapped.
NewestUsed(S) ==
    LeastBy({e \in S : Entry(e).put < Now}, [e \in S |-> Now - Entry(e).put])

\* The entry not used for longest: the last to become lru in the scan.
LeastRecent(S) ==
    LeastBy({e \in S : Entry(e).put < Now}, [e \in S |-> Entry(e).put])

\* The entries that were lru at some point of the scan, for which the code
\* does not look at the references.
OnceLeastRecent(S) ==
    {e \in S : Entry(e).put < Now /\ \A f \in S : f < e => Entry(f).put > Entry(e).put}

\* The entry with the fewest references among the others.
LeastFrequent(S) ==
    LeastBy({e \in S \ OnceLeastRecent(S) : Entry(e).ref < MaxRef},
            [e \in S |-> Entry(e).ref])

\* sd.mem.query_max, which set_query_time raises, and set_val_size too, in
\* place of val_max.
QueryMax ==
    LET all == {1} \cup UNION {{Entry(e).query, Entry(e).val} : e \in Entries}
    IN CHOOSE m \in all : \A n \in all : n <= m

ValMax == 1

\* SCORE: recency, query time and size, weighted by alpha, beta and the rest.
Score(e) ==
    (Alpha * ((Entry(e).put * 10) \div Now)
      + Beta * (10 - (Entry(e).query * 10) \div QueryMax)
      + (100 - Alpha - Beta) * ((Entry(e).val * 10) \div ValMax)) \div 1000

\* REPLACE_MODE_SUBROUTINE, and the visit to a bucket in shared_cache_free
\* for the modes LFRU and SCORE.
Chosen(S) ==
    CASE rmode = "LFRU" -> LeastRecent(S) \cup LeastFrequent(S)
      [] rmode = "SCORE" -> LeastBy(S, [e \in S |-> Score(e)])
      [] rmode = "FAST" -> S

\* From the front of the list until it is more than the amount: the mode FAST
\* of shared_cache_free, its loops `Force to suit the size', and domain 0.
Front(S) == {e \in S : tot + Size({f \in S : f < e}) <= call.amount}

---------------------------------------------------------------------------
(* Which lists are visited.                                                 *)

\* dom_usage_update of domain l while it has the entries S.
Usage(c, l, S) ==
    LET used == BytesOf([e \in DOMAIN c.stock |-> c.stock[e].bytes], S)
    IN IF c.ratio[l] = 0 THEN 0
       ELSE (((used * 100) \div Total) * 100) \div c.ratio[l]

\* FAIR_RATE.
FairRate(l) == curr[l] \div (call.ratio[l] + 1)

\* hr_dom: the first domain whose COST is least.
Cheapest ==
    LET top == CHOOSE m \in {1} \cup {call.rec[l] : l \in Lists} :
                 m >= 1 /\ \A l \in Lists : call.rec[l] <= m
        cost == [l \in Lists |->
                   (((100 - call.hitrate[l]) * (call.rec[l] * 100)) \div top) \div 100]
    IN LeastBy(Lists, cost)

\* A bug: the fair rate is not looked at.
WantsAny(l) ==
    CASE phase \in {"scan", "force", "brute"} -> TRUE
      [] phase = "others" -> l # call.caller
      [] phase = "self over" -> l = call.caller /\ curr[l] > 100
      [] phase = "others over" -> l # call.caller /\ curr[l] > 100
      [] phase \in {"self", "last"} -> l = call.caller /\ curr[l] > 0
      [] phase = "victim" -> l \in Cheapest
      [] phase = "own" -> l = call.caller

\* The condition under which the loop `phase' takes from list l.
Wants(l) ==
    CASE phase \in {"scan", "force", "brute"} -> TRUE
      [] phase = "others" -> l # call.caller /\ FairRate(l) > fair
      [] phase = "self over" -> l = call.caller /\ curr[l] > 100
      [] phase = "others over" -> l # call.caller /\ curr[l] > 100
      [] phase \in {"self", "last"} -> l = call.caller /\ curr[l] > 0
      [] phase = "victim" -> l \in Cheapest
      [] phase = "own" -> l = call.caller

Takes(l) ==
    CASE ~Wants(l) -> {}
      [] Wants(l) /\ phase \in {"force", "brute"} -> Front(lists[l])
      [] Wants(l) /\ phase = "last" -> lists[l]
      [] Wants(l) /\ phase \notin {"force", "brute", "last"} -> Chosen(lists[l])

---------------------------------------------------------------------------
(* The steps of a call.                                                     *)

\* The loop in which the function starts.  shared_cache_free reads
\* replacement_mode once, here.
FirstPhase(c) ==
    CASE c.algo = "shared" -> IF c.mode = "FAST" THEN "force" ELSE "scan"
      [] c.algo = "WB" -> IF c.caller = 0 THEN "brute" ELSE "others"
      [] c.algo = "AD" -> "victim"

\* A bug: the others beyond their share are forgotten.
NextPhaseSelfish ==
    CASE phase = "scan" -> "force"
      [] phase = "brute" -> "others"
      [] phase = "others" -> "self over"
      [] phase = "self over" -> "self"
      [] phase = "others over" -> "self"
      [] phase = "self" -> IF rmode = "LFRU" THEN "last" ELSE "done"
      [] phase = "victim" -> IF call.caller \in Lists THEN "own" ELSE "fault"
      [] phase \in {"force", "own"} -> "done"

\* A bug: the loop `Self release' is left out.
NextPhaseHasty ==
    CASE phase = "scan" -> "force"
      [] phase = "brute" -> "others"
      [] phase = "others" -> "self over"
      [] phase = "self over" -> "others over"
      [] phase = "others over" -> "last"
      [] phase = "self" -> IF rmode = "LFRU" THEN "last" ELSE "done"
      [] phase = "victim" -> IF call.caller \in Lists THEN "own" ELSE "fault"
      [] phase \in {"force", "own"} -> "done"

\* The loop after `phase' when there is not enough yet.  The adaptive
\* algorithm does not test that find_mcd_dom found the caller.
NextPhase ==
    CASE phase = "scan" -> "force"
      [] phase = "brute" -> "others"
      [] phase = "others" -> "self over"
      [] phase = "self over" -> "others over"
      [] phase = "others over" -> "self"
      [] phase = "self" -> IF rmode = "LFRU" THEN "last" ELSE "done"
      [] phase = "victim" -> IF call.caller \in Lists THEN "own" ELSE "fault"
      [] phase \in {"force", "own"} -> "done"

Init ==
    /\ call \in Calls
    /\ rmode = call.mode
    /\ lists = [l \in Lists |-> First(l)]
    /\ curr = [l \in Lists |-> IF l = 0 THEN call.stale ELSE Usage(call, l, First(l))]
    /\ fair = IF call.caller \in Lists THEN FairRate(call.caller) ELSE 0
    /\ phase = FirstPhase(call)
    /\ at = 0 /\ visited = FALSE /\ tot = 0 /\ switches = 0

\* The visit to one list; p_remove_hashT keeps curr up to date.
Visit ==
    /\ phase \notin {"done", "fault"} /\ at \in Lists
    /\ LET V == Takes(at) IN
         /\ lists' = [lists EXCEPT ![at] = @ \ V]
         /\ tot' = tot + Size(V)
         /\ visited' = (visited \/ V # {})
         /\ curr' = IF V = {} \/ call.algo = "shared" THEN curr
                    ELSE [curr EXCEPT ![at] = Usage(call, at, lists[at] \ V)]
    /\ at' = IF tot' > call.amount THEN LastList + 1 ELSE at + 1
    /\ UNCHANGED <<call, rmode, fair, phase, switches>>

\* A bug: every loop makes one pass.
AgainNever == FALSE

\* A bug: no loop has a safety escape.
AgainAlways == TRUE

\* Is there another pass of the same loop?  The last loop does not ask
\* whether the pass has found anything.
Again ==
    CASE phase \in {"force", "brute"} -> FALSE
      [] phase = "last" -> TRUE
      [] phase \notin {"force", "brute", "last"} -> visited

\* The end of a pass: return, start another, or go on to the next loop.
Turn ==
    /\ phase \notin {"done", "fault"} /\ at = LastList + 1
    /\ phase' = IF tot >= call.amount THEN "done" ELSE IF Again THEN phase ELSE NextPhase
    /\ fair' = IF phase = "brute" THEN FairRate(0) ELSE fair
    /\ at' = 0 /\ visited' = FALSE
    /\ UNCHANGED <<call, rmode, lists, curr, tot, switches>>

\* set_cache_mode(1, m) on another CPU, which takes no lock.
SetReplacement(m) ==
    /\ call.algo # "shared" /\ phase \notin {"done", "fault"}
    /\ switches < MaxSwitches /\ m # rmode
    /\ rmode' = m /\ switches' = switches + 1
    /\ UNCHANGED <<call, lists, curr, fair, phase, at, visited, tot>>

Next == Visit \/ Turn \/ \E m \in Modes : SetReplacement(m)

\* The CPU that evicts goes on with its call.
Spec == Init /\ [][Next]_vars /\ WF_vars(Visit \/ Turn)

---------------------------------------------------------------------------
(* Properties.                                                              *)

Taken(l) == First(l) \ lists[l]
AllTaken == UNION {Taken(l) : l \in Lists}

\* What McdCache relies on (its Victims) is what the loops do, in every
\* replacement mode and although the mode may change meanwhile: a call takes
\* enough, or everything there is to take, and tot is what it took.
ContractKept ==
    LET size == [e \in Entries |-> Entry(e).bytes]
    IN /\ tot = BytesOf(size, AllTaken)
       /\ phase = "done" =>
            CASE call.algo = "shared" ->
                   SharedMayTake(size, AllTaken, Entries, call.amount)
              [] call.algo = "WB" ->
                   WeightMayTake(size, AllTaken, Entries, call.amount, call.caller # 0)
              [] call.algo = "AD" -> \E h \in Lists :
                   AdaptiveMayTake(size, AllTaken, First(h),
                                   UNION {First(l) : l \in Lists \cap {call.caller}},
                                   call.amount)

\* curr of domain l before anything was taken.
FirstCurr(l) == IF l = 0 THEN call.stale ELSE Usage(call, l, First(l))
FirstRate(l) == FirstCurr(l) \div (call.ratio[l] + 1)

\* Weight based: a guest that needs memory takes none from a domain that uses
\* no more of its share than the guest does and is within its share, however
\* often the loops go round and the mode changes.
InnocentsKeep ==
    call.algo = "WB" /\ call.caller # 0 =>
      \A l \in Lists \ {call.caller} :
        ~(FirstRate(l) > fair) /\ ~(FirstCurr(l) > 100) => Taken(l) = {}

\* Weight based, `Find others first': a domain within its share loses an
\* entry only when the domains with a higher fair rate, and those beyond
\* their share, have nothing left.
CallerPaysLast ==
    call.algo = "WB" /\ call.caller \in Lists \ {0} /\ FirstCurr(call.caller) <= 100
      /\ Taken(call.caller) # {} =>
         \A l \in Lists \ {call.caller} :
           FairRate(l) > fair \/ curr[l] > 100 => lists[l] = {}

\* LFRU: at least half of what a list loses was used no later than all that
\* it keeps, although the least frequently used go as well.
OldestGo ==
    (phase \notin {"force", "brute"} /\ call.mode = "LFRU" /\ switches = 0
       /\ ~(call.algo = "WB" /\ call.caller = 0)) =>
      \A l \in Lists :
        LET old == {e \in Taken(l) : \A f \in lists[l] : Entry(e).put <= Entry(f).put}
        IN 2 * Cardinality(old) >= Cardinality(Taken(l))

\* The last loop of partition_cf_weight_based, which has no escape, finds
\* nothing to take: the caller has no entries, its curr is zero, or it is
\* not in the list of domains.
Spins ==
    /\ phase = "last" /\ tot < call.amount
    /\ \/ call.caller \notin Lists
       \/ call.caller \in Lists /\ (lists[call.caller] = {} \/ curr[call.caller] = 0)

\* That loop is reached only by calls for which it never ends: the loop before
\* it has taken all that the caller had.
LastLoopSpins == phase = "last" => Spins

\* Every call comes to an end, whatever the sizes, the shares and the changes
\* of the mode, but for a caller that is not in the list (adaptive) or has
\* nothing to give (weight based, LFRU), for which the code never returns.
EvictionEnds == <>[](phase \in {"done", "fault"} \/ Spins)
=============================================================================
