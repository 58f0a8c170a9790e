------------------------------ MODULE McdCache ------------------------------
(***************************************************************************)
(* The cache as the hypercalls see it (xen/common/mcd.c): the lists of      *)
(* entries in memory, the lists of mini-headers of entries that were moved  *)
(* to files, the files themselves, and the byte counters.  A hypercall is   *)
(* one step, and the requests it sends to the daemon are served in the      *)
(* same step; McdTransfer takes both apart.                                 *)
(*                                                                          *)
(* The code identifies a key with its hash, and so does the model.  The     *)
(* content of an entry is the put it stems from: whether the bytes survive  *)
(* their journey is the matter of McdTransfer.  What shared_cache_free and  *)
(* partition_cache_free choose to evict is given by a contract, Victims.    *)
(* The statistics (hit rates, ratios, nr_keys) are in McdDomains.           *)
(***************************************************************************)
EXTENDS Integers, Sequences, FiniteSets, McdVictims

CONSTANTS
    Doms, Dom0,     \* the domains that may exist; the one with domid 0
    Keys, Vals,
    Size,           \* nr_bytes of the entry of a key
    HeaderSize,     \* nr_bytes of an entry without a value
    DomainSize,     \* sizeof(mcd_domain_t)
    Safety,         \* SAFETY_BYTES
    Limits,         \* the sizes `xl mcd-size' is called with; 0 is no limit
    Setups,         \* how the system is set up: see CacheConstants
    RingFills,      \* may a request find the ring full?
    MaxHeaders      \* bound on the mini-headers of one key in one list

Shared == "shared"      \* the shared list, and MCD_CACHE_MODE_SHARED
Partition == "partition"
NoVal == "header only"  \* MCD_HASHT_MEASUREMENT: an entry without a value

\* A setup: the modes, whether the daemon runs, the operations performed and
\* the keys they are performed on; heap is the used and the free memory of the
\* hypervisor together.
ASSUME CacheConstants ==
    /\ IsFiniteSet(Doms) /\ Shared \notin Doms /\ NoVal \notin Vals
    /\ Size \in [Keys -> Nat \ {0}] /\ HeaderSize \in Nat \ {0}
    /\ DomainSize \in Nat \ {0} /\ Safety \in Nat \ {0}
    /\ Limits \subseteq Nat /\ RingFills \in BOOLEAN /\ MaxHeaders \in Nat
    /\ \A s \in Setups :
         /\ s.mode \in {Shared, Partition} /\ s.pmode \in {"BE", "WB", "AD"}
         /\ s.daemon \in BOOLEAN /\ s.keys \subseteq Keys /\ s.heap \in Nat
         /\ s.ops \subseteq {"put", "get", "remove", "check", "flush", "mode", "partition",
                            "memsize", "reset", "toggle", "domains", "restart"}

VARIABLES
    setup,          \* a member of Setups
    cache,          \* mem, mini, files, dir0 and the counters, see TypeOK
    mode, pmode,    \* cache_mode, partition_mode
    maxBytes,       \* max_mem_bytes
    alive,          \* g_mcd_domain_list
    enabled, user,  \* mcdctl_enabled, mcdctl_user_enabled
    truth,          \* history: the last put to each cell that still counts
    answer          \* <<cell, value>> if the last operation was a get

switches == <<mode, pmode, maxBytes, alive, enabled, user>>
vars == <<setup, cache, switches, truth, answer>>

Cells == (Doms \cup {Shared}) \X Keys
Cell(d, k) == <<IF mode = Shared THEN Shared ELSE d, k>>
On == enabled /\ user
Limit == IF maxBytes = 0 \/ setup.heap <= maxBytes THEN setup.heap ELSE maxBytes
CellsOf(s, L) == {x \in DOMAIN s.mem : x[1] \in L}
SizeIn(s) == [x \in DOMAIN s.mem |-> s.mem[x].bytes]
Bytes(s, V) == BytesOf(SizeIn(s), V)
Used(s) == s.shr + s.pri
File(s, x) == <<s.mem[x].dom, x[2]>>
Without(f, S) == [x \in DOMAIN f \ S |-> f[x]]
With(f, x, e) == [y \in DOMAIN f \cup {x} |-> IF y = x THEN e ELSE f[y]]

---------------------------------------------------------------------------
(* Steps that operations are made of, as functions of the cache.            *)

\* A bug: only the totals follow.
UnlistedKeepsUsed(s, V) ==
    [s EXCEPT !.mem = Without(@, V),
              !.shr = @ - Bytes(s, V \cap CellsOf(s, {Shared})),
              !.pri = @ - Bytes(s, V \cap CellsOf(s, Doms))]

\* p_remove_hashT or s_remove_hashT of the entries V, without paging out.
Unlisted(s, V) ==
    [s EXCEPT !.mem = Without(@, V),
              !.shr = @ - Bytes(s, V \cap CellsOf(s, {Shared})),
              !.pri = @ - Bytes(s, V \cap CellsOf(s, Doms)),
              !.used = [d \in Doms |->
                          @[d] - Bytes(s, {x \in V : s.mem[x].dom = d})]]

\* A bug: the shared total does not follow.
ListedUncounted(s, x, d, v, bytes) ==
    [s EXCEPT !.mem = With(@, x, [dom |-> d, val |-> v, bytes |-> bytes]),
              !.pri = IF x[1] = Shared THEN @ ELSE @ + bytes,
              !.used[d] = @ + bytes]

\* create_mcd_hashT once it has memory, and the list_add_tail that follows.
Listed(s, x, d, v, bytes) ==
    [s EXCEPT !.mem = With(@, x, [dom |-> d, val |-> v, bytes |-> bytes]),
              !.shr = IF x[1] = Shared THEN @ + bytes ELSE @,
              !.pri = IF x[1] = Shared THEN @ ELSE @ + bytes,
              !.used[d] = @ + bytes]

\* Which of the requests P reach the daemon while `up' holds.
Sent(up, P) == IF ~up THEN {{}} ELSE IF RingFills THEN SUBSET P ELSE {P}

\* mcd_page_out of P.  The daemon makes no directory for domain 0 by itself,
\* and a file that cannot be opened goes unnoticed.
PagedOut(s, P) ==
    LET written == {x \in P : s.mem[x].dom # Dom0 \/ s.dir0}
        of(f) == {x \in written : File(s, x) = f}
    IN [s EXCEPT !.mini = [x \in Cells |->
                    IF x \in P
                    THEN Append(@[x], [dom |-> s.mem[x].dom,
                                       put |-> s.mem[x].val, live |-> TRUE])
                    ELSE @[x]],
                 !.files = [f \in DOMAIN @ \cup {File(s, x) : x \in written} |->
                    IF of(f) = {} THEN @[f]
                    ELSE s.mem[CHOOSE x \in of(f) : TRUE].val]]

\* The entries V leave memory with MOVE_TO_SSD.
Moved(s, V) ==
    {Unlisted(PagedOut(s, P), V) :
        P \in Sent(On, {x \in V : s.mem[x].val # NoVal})}

\* minf_page_del and mcdctl_free of the first mini-header of x.
Deleted(s, x) ==
    {[s EXCEPT !.files = Without(@, F), !.mini[x] = IF On THEN Tail(@) ELSE @] :
        F \in Sent(enabled, {<<Head(s.mini[x]).dom, x[2]>>})}

---------------------------------------------------------------------------
(* Making room.  What an eviction of `amount' bytes may choose is a contract *)
(* of the replacement algorithms (McdVictims); McdReplace shows that they    *)
(* keep it.                                                                  *)

\* shared_cache_free.
SharedVictims(s, amount) ==
    LET most == CellsOf(s, {Shared})
    IN {V \in SUBSET most : SharedMayTake(SizeIn(s), V, most, amount)}

\* partition_cf_weight_based; d is domain 0 also for `xl mcd-size'.
WeightVictims(s, amount, d) ==
    LET most == CellsOf(s, Doms)
    IN {V \in SUBSET most : WeightMayTake(SizeIn(s), V, most, amount, d # Dom0)}

\* partition_cf_adaptive_dynamic: h is the domain of least cost.  Domain 0 is
\* always in g_mcd_domain_list, and calls for set_memsize.  For a domain not
\* yet listed the code does not survive a lack of memory, see McdReplace.
AdaptiveVictims(s, amount, d) ==
    LET known == alive \cup {Dom0}
    IN UNION {{V \in SUBSET CellsOf(s, {h, d}) :
                 /\ AdaptiveMayTake(SizeIn(s), V, CellsOf(s, {h}), CellsOf(s, {d}),
                                    amount)
                 /\ d \in known \/ Bytes(s, V) >= amount} : h \in known}

\* partition_cache_free has no case for best effort.
Victims(s, amount, d) ==
    CASE mode = Shared -> SharedVictims(s, amount)
      [] mode = Partition /\ pmode = "BE" -> {{}}
      [] mode = Partition /\ pmode = "WB" -> WeightVictims(s, amount, d)
      [] mode = Partition /\ pmode = "AD" -> AdaptiveVictims(s, amount, d)

\* shared_cache_free, partition_cache_free: the cache after, and the result.
Free(s, amount, d) ==
    UNION {{[cache |-> t,
             ok |-> Bytes(s, V) >= amount \/ (mode = Partition /\ pmode = "BE")] :
               t \in Moved(s, V)} : V \in Victims(s, amount, d)}

\* A bug: what is needed is compared with what is free before it is added.
MallocLate(s, size, d) ==
    LET amount == size + Safety
        first == IF Used(s) >= Limit
                 THEN Free(s, amount, d) ELSE {[cache |-> s, ok |-> TRUE]}
    IN {r \in first : r.ok}
       \cup UNION {Free(r.cache, amount, d) : r \in {q \in first : ~q.ok}}

\* mcd_malloc: evict if memory is short, and once more if that failed.
Malloc(s, size, d) ==
    LET amount == size + Safety
        first == IF Used(s) + amount >= Limit
                 THEN Free(s, amount, d) ELSE {[cache |-> s, ok |-> TRUE]}
    IN {r \in first : r.ok}
       \cup UNION {Free(r.cache, amount, d) : r \in {q \in first : ~q.ok}}

---------------------------------------------------------------------------
(* The hypercalls of a guest (do_mcd_op).                                   *)

FewHeaders == \A x \in Cells : Len(cache.mini[x]) <= MaxHeaders

Forgotten(L) == [x \in Cells |-> IF x[1] \in L THEN NoVal ELSE truth[x]]

\* A bug: the put does not look for a mini-header.
PutOver(d, k, v) ==
    LET x == Cell(d, k)
        s == IF x \in DOMAIN cache.mem THEN Unlisted(cache, {x}) ELSE cache
    IN /\ "put" \in setup.ops /\ FewHeaders /\ d \in alive
       /\ \E r \in Malloc(s, Size[k], d) :
            cache' = IF r.ok THEN Listed(r.cache, x, d, v, Size[k]) ELSE r.cache
       /\ truth' = [truth EXCEPT ![x] = v]
       /\ answer' = <<>>
       /\ UNCHANGED switches

\* What a put does with the old entry -- in partition mode it goes to a file --
\* or else with the first mini-header.
Replaced(x) ==
    IF x \in DOMAIN cache.mem
    THEN IF mode = Shared THEN {Unlisted(cache, {x})} ELSE Moved(cache, {x})
    ELSE IF cache.mini[x] # <<>> THEN Deleted(cache, x) ELSE {cache}

\* mcd_put: the old entry goes, and a new one is made.  A failed put stores
\* nothing.
Put(d, k, v) ==
    LET x == Cell(d, k)
    IN /\ "put" \in setup.ops /\ FewHeaders /\ d \in alive
       /\ \E s \in Replaced(x) : \E r \in Malloc(s, Size[k], d) :
            cache' = IF r.ok THEN Listed(r.cache, x, d, v, Size[k]) ELSE r.cache
       /\ truth' = [truth EXCEPT ![x] = v]
       /\ answer' = <<>>
       /\ UNCHANGED switches

\* mcd_page_in of the first mini-header of x: memory for the entry, then the
\* transfer, which unlinks the file; the mini-header is released even if the
\* ring was full.
PagedIn(s, x) ==
    LET h == Head(s.mini[x])
        Filled(t, F) == Listed([t EXCEPT !.files = Without(@, F), !.mini[x] = Tail(@)],
                               x, h.dom, h.put, Size[x[2]])
    IN UNION {IF r.ok THEN {[cache |-> Filled(r.cache, F), ok |-> TRUE] :
                              F \in Sent(TRUE, {<<h.dom, x[2]>>})}
                      ELSE {r} : r \in Malloc(s, Size[x[2]], h.dom)}

\* mcd_get.  The guest's buffer may be too small for the value.
Get(d, k) ==
    LET x == Cell(d, k)
        found == x \in DOMAIN cache.mem
    IN /\ "get" \in setup.ops /\ d \in alive
       /\ \E r \in IF ~found /\ cache.mini[x] # <<>> /\ On
                   THEN PagedIn(cache, x) ELSE {[cache |-> cache, ok |-> found]} :
          /\ cache' = r.cache
          /\ answer' \in {<<x, NoVal>>}
                         \cup IF r.ok THEN {<<x, r.cache.mem[x].val>>} ELSE {}
       /\ UNCHANGED <<switches, truth>>

\* mcd_remove: the entry or else the first mini-header.
Remove(d, k) ==
    LET x == Cell(d, k) IN
    /\ "remove" \in setup.ops /\ d \in alive
    /\ cache' \in IF x \in DOMAIN cache.mem THEN {Unlisted(cache, {x})}
                  ELSE IF cache.mini[x] # <<>> THEN Deleted(cache, x)
                                               ELSE {cache}
    /\ truth' = [truth EXCEPT ![x] = NoVal]
    /\ answer' = <<>>
    /\ UNCHANGED switches

\* mcd_check: a key that is not in memory gets an entry without a value, to
\* measure how long the guest takes to put it.
Check(d, k) ==
    LET x == Cell(d, k) IN
    /\ "check" \in setup.ops /\ d \in alive
    /\ IF x \in DOMAIN cache.mem THEN UNCHANGED cache
       ELSE \E r \in Malloc(cache, HeaderSize, d) :
              cache' = IF r.ok THEN Listed(r.cache, x, d, NoVal, HeaderSize)
                               ELSE r.cache
    /\ answer' = <<>>
    /\ UNCHANGED <<switches, truth>>

---------------------------------------------------------------------------
(* Flushing, the switches of `xl', domains and the daemon.                  *)

\* A bug: the flush empties the lists of mini-headers only.
EmptiedKeepsEntries(s, L, D) ==
    [s EXCEPT !.mini = [x \in Cells |-> IF x[1] \in L THEN <<>> ELSE @[x]],
              !.files = Without(@, D \X Keys)]

\* A bug: the flush empties the lists of entries only.
EmptiedKeepsHeaders(s, L, D) ==
    [Unlisted(s, CellsOf(s, L)) EXCEPT !.files = Without(@, D \X Keys)]

\* The lists L lose their entries and their mini-headers, the domains D
\* their files.
Emptied(s, L, D) ==
    [Unlisted(s, CellsOf(s, L)) EXCEPT
        !.mini = [x \in Cells |-> IF x[1] \in L THEN <<>> ELSE @[x]],
        !.files = Without(@, D \X Keys)]

\* exit_mcdctl: the pages that hold the mini-headers are freed.
HeadersFreed(s) ==
    [s EXCEPT !.mini = [x \in Cells |->
        [i \in DOMAIN @[x] |-> [@[x][i] EXCEPT !.live = FALSE]]]]

\* p_mcd_flush of the domains L, each with its request DOM_FLUSH, which makes
\* the directory of the domain anew.
DomsFlushed(s, L) ==
    {[Emptied(s, L, D) EXCEPT !.dir0 = @ \/ Dom0 \in D] : D \in Sent(enabled, L)}

\* s_mcd_flush: the shared lists, a request FLUSH_ALL, and exit_mcdctl.
SharedFlushed(s) ==
    {HeadersFreed(IF R = {} THEN Emptied(s, {Shared}, {})
                  ELSE [Emptied(s, {Shared}, Doms) EXCEPT !.dir0 = FALSE]) :
        R \in Sent(enabled, {"FLUSH_ALL"})}

\* p_mcd_flush_all: every domain but domain 0, and exit_mcdctl.
AllDomsFlushed(s) == {HeadersFreed(t) : t \in DomsFlushed(s, alive \ {Dom0})}

\* mcd_flush: in shared mode one guest flushes the entries of all.
Flush(d) ==
    /\ "flush" \in setup.ops /\ d \in alive
    /\ cache' \in IF mode = Shared THEN SharedFlushed(cache)
                                   ELSE DomsFlushed(cache, {d})
    /\ truth' = Forgotten({IF mode = Shared THEN Shared ELSE d})
    /\ answer' = <<>>
    /\ UNCHANGED switches

\* A new cache mode: flush what the old mode used.
SwitchTo(m) ==
    /\ mode' = m
    /\ cache' \in IF m = mode THEN {cache}
                  ELSE IF m = Shared THEN AllDomsFlushed(cache)
                                     ELSE SharedFlushed(cache)
    /\ truth' = IF m = mode THEN truth
                ELSE Forgotten(IF m = Shared THEN alive \ {Dom0} ELSE {Shared})
    /\ answer' = <<>>
    /\ UNCHANGED <<maxBytes, alive, enabled, user>>

\* set_cache_mode(0, m): the partition mode stays what it was.
SetCacheMode(m) ==
    "mode" \in setup.ops /\ SwitchTo(m) /\ UNCHANGED pmode

\* set_cache_mode(2, p): best effort is shared mode.
SetPartitionMode(p) ==
    /\ "partition" \in setup.ops
    /\ pmode' = p
    /\ SwitchTo(IF p = "BE" THEN Shared ELSE Partition)

\* set_memsize.
SetMemsize(m) ==
    /\ "memsize" \in setup.ops
    /\ maxBytes' = m
    /\ IF m # 0 /\ Used(cache) > m
       THEN \E r \in Free(cache, Used(cache) - m, Dom0) : cache' = r.cache
       ELSE UNCHANGED cache
    /\ answer' = <<>>
    /\ UNCHANGED <<mode, pmode, alive, enabled, user, truth>>

\* set_param(25, _, 1).
Reset ==
    /\ "reset" \in setup.ops
    /\ cache' \in IF mode = Shared THEN SharedFlushed(cache)
                                   ELSE AllDomsFlushed(cache)
    /\ truth' = Forgotten(IF mode = Shared THEN {Shared} ELSE alive \ {Dom0})
    /\ answer' = <<>>
    /\ UNCHANGED switches

\* set_param(25, _, 2).
ToggleUser ==
    /\ "toggle" \in setup.ops
    /\ user' = ~user
    /\ answer' = <<>>
    /\ UNCHANGED <<cache, mode, pmode, maxBytes, alive, enabled, truth>>

\* mcd_domain_create.
Create(d) ==
    /\ "domains" \in setup.ops /\ d \notin alive
    /\ \E r \in Malloc(cache, DomainSize, d) :
         IF r.ok
         THEN /\ alive' = alive \cup {d}
              /\ \E D \in Sent(enabled, {d}) :
                   cache' = [r.cache EXCEPT !.used[d] = 0,
                                            !.files = Without(@, D \X Keys)]
         ELSE cache' = r.cache /\ UNCHANGED alive
    /\ answer' = <<>>
    /\ UNCHANGED <<mode, pmode, maxBytes, enabled, user, truth>>

\* mcd_destroy: a request DOM_DESTROY, then p_mcd_flush, whatever the mode.
Destroy(d) ==
    /\ "domains" \in setup.ops /\ d \in alive \ {Dom0}
    /\ alive' = alive \ {d}
    /\ \E D \in Sent(enabled, {d}) :
         cache' \in DomsFlushed([cache EXCEPT !.files = Without(@, D \X Keys)], {d})
    /\ truth' = Forgotten({d})
    /\ answer' = <<>>
    /\ UNCHANGED <<mode, pmode, maxBytes, enabled, user>>

\* MCD_EVENT_OP_DISABLE, from the daemon as it shuts down.
DaemonStops ==
    /\ "restart" \in setup.ops /\ enabled
    /\ enabled' = FALSE
    /\ cache' = HeadersFreed(cache)
    /\ answer' = <<>>
    /\ UNCHANGED <<mode, pmode, maxBytes, alive, user, truth>>

\* A bug: the daemon's directory is not cleaned and no list is emptied.
DaemonStartsBare ==
    /\ "restart" \in setup.ops /\ ~enabled
    /\ enabled' = TRUE
    /\ cache' = [cache EXCEPT !.files = <<>>, !.dir0 = FALSE]
    /\ answer' = <<>>
    /\ UNCHANGED <<mode, pmode, maxBytes, alive, user, truth>>

\* MCD_EVENT_OP_ENABLE: mcdctl_start empties the shared mini-header lists,
\* and the daemon cleans its directory.
DaemonStarts ==
    /\ "restart" \in setup.ops /\ ~enabled
    /\ enabled' = TRUE
    /\ cache' = [cache EXCEPT
                   !.mini = [x \in Cells |-> IF x[1] = Shared THEN <<>> ELSE @[x]],
                   !.files = <<>>, !.dir0 = FALSE]
    /\ answer' = <<>>
    /\ UNCHANGED <<mode, pmode, maxBytes, alive, user, truth>>

---------------------------------------------------------------------------

Init ==
    /\ cache = [mem |-> <<>>, mini |-> [x \in Cells |-> <<>>], files |-> <<>>,
                dir0 |-> FALSE, shr |-> 0, pri |-> 0, used |-> [d \in Doms |-> 0]]
    /\ setup \in Setups
    /\ mode = setup.mode /\ pmode = setup.pmode /\ enabled = setup.daemon
    /\ maxBytes = 0 /\ alive = Doms /\ user = TRUE
    /\ truth = [x \in Cells |-> NoVal] /\ answer = <<>>

Guest == \E d \in Doms :
    \/ \E k \in setup.keys : \/ \E v \in Vals : Put(d, k, v)
                             \/ Get(d, k) \/ Remove(d, k) \/ Check(d, k)
    \/ Flush(d)

Toolstack ==
    \/ \E m \in {Shared, Partition} : SetCacheMode(m)
    \/ \E p \in {"BE", "WB", "AD"} : SetPartitionMode(p)
    \/ \E m \in Limits : SetMemsize(m)
    \/ Reset \/ ToggleUser
    \/ \E d \in Doms : Create(d) \/ Destroy(d)
    \/ DaemonStops \/ DaemonStarts

Next == (Guest \/ Toolstack) /\ UNCHANGED setup

Spec == Init /\ [][Next]_vars

---------------------------------------------------------------------------
(* Properties.                                                              *)

ModesStay == setup.ops \cap {"mode", "partition"} = {}

\* The system stays in shared mode, and nobody calls mcd_check or toggles
\* mcdctl_user_enabled, both of which leave outdated mini-headers; or there is
\* no daemon, and no file.
StaysShared ==
    setup.mode = Shared /\ ModesStay /\ setup.ops \cap {"check", "toggle"} = {}
NoFiles == ~setup.daemon /\ "restart" \notin setup.ops

\* Domains come and go in partition mode only: the shared list keeps the
\* entries of a domain that is destroyed.
StaysPartition == setup.mode = Partition /\ ModesStay
DomainsApart == "domains" \in setup.ops => StaysPartition

\* Domain 0, which is not flushed with the others, does not use the cache.
GuestsOnly == Dom0 \notin Doms

\* The shape of the state: mem and files are partial functions, at most one
\* entry per cell; the counters never fall below zero (they are unsigned).
TypeOK ==
    /\ DOMAIN cache.mem \subseteq Cells
    /\ \A x \in DOMAIN cache.mem :
         cache.mem[x] \in [dom : Doms, val : Vals \cup {NoVal}, bytes : Nat]
    /\ \A x \in Cells : cache.mini[x] \in
         Seq([dom : Doms, put : Vals, live : BOOLEAN])
    /\ DOMAIN cache.files \subseteq Doms \X Keys
    /\ \A f \in DOMAIN cache.files : cache.files[f] \in Vals
    /\ cache.dir0 \in BOOLEAN /\ cache.shr \in Nat /\ cache.pri \in Nat
    /\ cache.used \in [Doms -> Int]
    /\ DomainsApart => \A d \in Doms : cache.used[d] >= 0
    /\ mode \in {Shared, Partition} /\ pmode \in {"BE", "WB", "AD"}
    /\ maxBytes \in Limits \cup {0} /\ alive \subseteq Doms
    /\ enabled \in BOOLEAN /\ user \in BOOLEAN
    /\ truth \in [Cells -> Vals \cup {NoVal}]

\* shr_nr_bytes and pri_nr_bytes are the bytes of the entries in the shared
\* and in the domains' lists, and nr_used_bytes those of the entries the
\* domain made, through puts, evictions, page-ins, flushes and mode changes.
Accounting ==
    /\ cache.shr = Bytes(cache, CellsOf(cache, {Shared}))
    /\ cache.pri = Bytes(cache, CellsOf(cache, Doms))
    /\ DomainsApart => \A d \in alive : cache.used[d] =
         Bytes(cache, {x \in DOMAIN cache.mem : cache.mem[x].dom = d})

\* In shared mode, also after mode changes, the cache keeps within the maximum
\* that set_memsize stored and within the memory there is, whichever entries
\* the replacement picks.  (What domain 0 put in partition mode stays, and best
\* effort evicts nothing.)
WithinLimit == mode = Shared /\ (GuestsOnly \/ ModesStay) => Used(cache) <= Limit

\* In shared mode, while entries are moved to files, every mini-header has a
\* file, and the file holds the very entry the mini-header was made from.  (The
\* request for a domain that comes or goes deletes its files.)
FilesBehindHeaders ==
    StaysShared /\ GuestsOnly /\ "domains" \notin setup.ops /\ On =>
      \A x \in Cells : \A i \in DOMAIN cache.mini[x] :
        LET h == cache.mini[x][i]  f == <<h.dom, x[2]>>
        IN f \in DOMAIN cache.files /\ cache.files[f] = h.put

\* mcd_get never answers with an entry older than the last put, and never
\* with one that was removed or flushed: memory and mini-headers together
\* hold no outdated copy that a get could find.
GetsAreFresh ==
    answer # <<>> => answer[2] \in {truth[answer[1]], NoVal}

\* That is so in shared mode, with the daemon and through its restarts, and
\* without the daemon in all modes and through the changes between them.
SharedGetsAreFresh == StaysShared \/ NoFiles => GetsAreFresh

\* The domain an entry or a mini-header is charged to exists, so that
\* find_mcd_dom finds it.
OwnersAlive ==
    DomainsApart =>
      /\ \A x \in DOMAIN cache.mem : cache.mem[x].dom \in alive
      /\ \A x \in Cells : \A i \in DOMAIN cache.mini[x] :
           cache.mini[x][i].dom \in alive

\* exit_mcdctl frees no page that a list refers to: in one mode, where the
\* lists are emptied before.  In partition mode those of domain 0 are not, and
\* a restart of the daemon empties the shared ones only.
HeadersKept ==
    \/ setup.mode = Shared /\ ModesStay
    \/ StaysPartition /\ "restart" \notin setup.ops /\ (GuestsOnly \/ "reset" \notin setup.ops)
    \/ NoFiles

\* While the daemon serves, every mini-header in a list lies in a page that
\* exit_mcdctl has not freed.
HeadersLive ==
    HeadersKept /\ enabled =>
      \A x \in Cells : \A i \in DOMAIN cache.mini[x] : cache.mini[x][i].live
============================================================================
