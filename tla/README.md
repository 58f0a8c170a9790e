# UniCache: a TLA+ model of the hypervisor cache

UniCache (called *mortar* or *mcd* in the code) is a memcached-like key/value
cache inside Xen 4.1.2.  Guests call it through a hypercall; what does not fit
into spare memory is moved to files by a daemon in domain 0.  The code is in
`xen/common/mcd.c` (the cache), `xen/common/mcdctl.c` (the hypervisor's side of
the channel to the daemon), `tools/mcd/mcd.c` and `file_ops.c` (the daemon), and
their headers.  The rest of Xen is imported code and not modelled.

The build modelled is the one the sources select: `MCD_HASH_CHAINING` and
`MCD_QUERY_TIME_TESTING` on, `MCD_OVERHEAD_TESTING` and `MCDCTL_TESTING` off.

## 1. The system

| Part | State | Operations |
|---|---|---|
| Event ring (`mcdctl.c`, `ring.h`) | one page of slots shared by requests and responses, four free-running indices | check, push (any CPU); take, answer (daemon); RESUME, ENABLE, DISABLE |
| Page-out and page-in | `minf_put_lock`, `minf_get_lock`, shared pages, files, mini-headers | `mcd_page_out`, `mcd_page_in`, delete, domain flush, `increase_shared_page`, the daemon's handlers, `mcd_event_resume` |
| Cache operations | shared hash lists or one list per domain, mini-header lists, byte counters | get, put, remove, check, flush |
| Modes and parameters | `cache_mode`, `partition_mode`, `max_mem_bytes`, `mcdctl_user_enabled` | `set_memsize`, `set_cache_mode`, `set_weight`, `set_param` |
| Replacement | `replacement_mode`, score parameters, fair rates `curr` | `shared_cache_free`, `partition_cf_weight_based`, `partition_cf_adaptive_dynamic` |
| Domains | weight, ratio, hit rate, `nr_keys`, `rec_cost_avg` | create, destroy, `dom_weight_update`, `SET_HITRATE`, `P_REC_AVG_CAL` |
| Mini-header memory | pages, freelist | `mcdctl_malloc`, `mcdctl_free`, `exit_mcdctl` |
| Daemon policy, statistics, hash function, toolstack | | not modelled, see section 8 |

How they interact: a put, a page-in or a check needs memory (`mcd_malloc`); if
it is short the replacement evicts entries, and each evicted entry is paged out.
The CPU takes `minf_put_lock`, copies the first part into the shared pages,
pushes a request and *spins on the same lock*.  The daemon writes the part and
makes the RESUME hypercall, which, on the daemon's CPU, pushes the next part or
releases the lock.  The entry then lives on as a *mini-header* that names its
file.  A get of such a key goes the opposite way.

What makes it hard:

- check and push of a ring slot are two critical sections, on any CPU;
- requests and responses overwrite each other's slots;
- a lock is taken on one CPU and released on another, by the last of many steps;
- both directions use the same shared pages under different locks;
- the daemon may fail, stop or restart between any two steps;
- an entry may exist in memory, as a mini-header and as a file, and these have
  different lifetimes across mode changes, resets and restarts;
- a list is locked for the search, for the removal and for the addition of an
  entry, but not from one to the next, and entries are used after the unlock;
- the freelist of mini-headers is tested, refilled and linked partly outside its
  lock;
- an eviction changes the shares that its own loops look at;
- counters are updated in many places, in 32-bit arithmetic.

`PROJECT.json` lists the hazards with their lines.

## 2. Modules

| Module | Models |
|---|---|
| `McdChannel` | abstract: a request queue and a response queue |
| `McdRing` | the ring; implements `McdChannel` |
| `McdRingProofs` | proofs about `McdRing` |
| `McdTransfer` | page-out and page-in over a pair of queues |
| `McdTransferProofs` | proofs about its locks, its requests and what ends up in the files |
| `McdVictims` | abstract: what an eviction may take |
| `McdReplace` | the replacement algorithms; keep the contract of `McdVictims` |
| `McdReplaceProofs` | proofs about `McdReplace` |
| `McdCache` | the hypercalls, modes, domains, files and byte accounting; uses `McdVictims` |
| `McdCacheProofs` | proofs about `McdCache` |
| `McdBucket` | the hypercalls of shared mode, interleaved on one bucket |
| `McdBucketProofs` | proofs about `McdBucket`: entries and pointers, keys and values |
| `McdHeaders` | pages and freelist of the mini-headers |
| `McdHeadersProofs` | proofs about `McdHeaders` |
| `McdDomains` | weights, ratios, hit rates, key counts, costs |
| `McdDomainsProofs` | proofs about `McdDomains` |
| `McdSums`, `McdSumsProofs` | sums over finite sets, and what the proofs need of them |
| `MCRing`, `MCTransfer`, `MCReplace`, `MCCache`, `MCBucket`, `MCHeaders`, `MCDomains` | small instances for TLC |

The modules are layers, each using the one below as it promises to be: `McdRing`
shows that the ring is a pair of queues, `McdTransfer` works with queues;
`McdReplace` keeps the contract of `McdVictims`, and `McdCache` evicts whatever
the contract allows; `McdTransfer` looks at the bytes of a transfer, `McdCache`
takes a transfer as one step and an entry's content to be *which put it stems
from*.  The first two links are checked and proved (`RingIsChannel`, a
refinement, and `ContractKept`); the third is an abstraction justified by this text, and section
5 shows where the code breaks what `McdCache` assumes of transfers.  `McdBucket`
and `McdHeaders` look at the same lists as `McdCache`, in smaller steps and with
less around them.

Operators introduced by "A bug" or "Mutant" are altered copies of the definition
after them.  They are part of no specification: substituting one for its
original shows that a property can fail.

### McdRing

`req_prod`, `req_cons`, `rsp_prod`, `rsp_cons` and `ring` are those of `ring.h`;
the private and the shared copy of a producer index are one variable, since they
differ only under a lock.  Indices are modulo `IdxMod` (2^32).  `CheckRing` and
`PutRequest` are `mcd_event_check_ring` and `mcd_event_put_request`;
`GetRequest`, `PutResponse` and `SkipResponse` are the daemon's loop;
`GetResponse` is the start of `mcd_event_resume`, after which the daemon's CPU
may check and push once more.  A push after DISABLE goes to a page that is no
longer the ring and changes nothing in the model.

### McdTransfer

One domain's entries, cell by cell.  `OutStart`/`OutLock`/`OutSend`/`OutWait`
are `mcd_page_out` with `minf_page_out` and `mcdctl_page_out`; `In...` likewise;
`Serve...` are the cases of the daemon's switch; `Resume...` are the branches of
`mcd_event_resume`.  `DaemonRuns` says that spinning CPUs never leave the
hypervisor, so the daemon needs another one.  `OutStart` assumes that no other
CPU is paging the same key out.  In the place `fault` a CPU has written through
the NULL pointer that `create_mcdctl_hashT` does not test for.

### McdCache

`cache.mem` are the entries, by list (shared, or a domain) and key; `cache.mini`
the mini-header lists; `cache.files` the daemon's files; `shr`, `pri` and `used`
the byte counters.  A hypercall is one step and the daemon serves its requests
in that step, unless the ring is full (`RingFills`).  A page-in (`PagedIn`) gives
the put that its mini-header was made from, as if the file were read: that the
daemon truncates it first is the finding `transfer_in`, at the level of bytes,
and taking it over would leave nothing to say about freshness.  Keys are identified with
their hashes, as `find_mcd_hashT` does.  `truth` and `answer` are history: the
last put that counts, and what the last get returned.

Evictions follow the contract `McdVictims`.  It permits more than each algorithm
does, so invariants checked under it carry over, with one exception: the last
loop of the weight-based algorithm may never return, where the contract returns
a failure.  `xmalloc` is taken not to fail while the heap has room.  The stray
write through `find_mcd_dom` of a dead domain is not modelled; `OwnersAlive` is
the condition under which it cannot happen.  A behaviour begins with a choice of
`setup`: the modes, whether the daemon runs, and which operations occur.

### McdReplace

A behaviour is one call of `shared_cache_free`, `partition_cf_weight_based` or
`partition_cf_adaptive_dynamic`.  `phase` is the loop it is in, `at` the list it
visits next; a visit, for which the code holds the lock of the list, is one step
(`Visit`), and the end of a pass another (`Turn`).  Entries are numbered in the
order of their lists, so a list is a set.  `SetReplacement` is `xl` changing
`replacement_mode`, which takes no lock.  `curr` of domain 0 is never refreshed
by `dom_usage_update_all`: it is part of the call (`stale`).  In the phase
`fault` the adaptive algorithm has used the domain that `find_mcd_dom` did not
find.

### McdBucket

Each section that the code runs under one lock is one step, and so is each
access outside any lock.  `mem` is what the memory of an entry holds, `live` are
the entries with their magic number, `list` is the bucket (the place of each
entry in it), `mini` the mini-headers, numbered in the order they were made.  A freed block stays
readable, and `Create` may take any freed block; `reused` records that it took
one that another CPU still pointed to.  `work` says which keys each CPU works
on.  `fault` is the place after a `list_del` of something in no list, or a
`list_add_tail` of something in one.  The daemon serves a request at once.  The
test for room and an eviction are one step; it takes some entries, and
`mcd_malloc` then goes on or answers NOTMEM.

### McdHeaders

A header is a page and a number in it; `next` is its link, and `Reached` what
the freelist leads to.  A page has at least two headers (the code has dozens):
with one, the link of the last would never be written.  The steps of
`mcdctl_new_malloc` are those between which another CPU may run: the bound, the
counter (a load and a store), the table, the freelist, and each link.  DISABLE
frees the pages first and clears `mcdctl_enabled` last (`Disable`, `Exit`, `Zero`,
`Off`), so that other CPUs may come in between.  `raced` records that a CPU
fetched or freed pages, or was in this window, while another was in an operation.
`mcdctl_user_enabled` is on.

### McdDomains

One action per function that changes a field.  A get is two steps, `Count` (HIT or
MISS) and `Rated` (SET_HITRATE), for no lock joins them; each step, an increment
included, is atomic.  `own` and `shr` count the entries of a domain in its own list
and in the shared lists.  `mcd_destroy` empties only the former: entries in the
shared lists outlive their domain, and are charged to the next domain with its
id.  Flushes by a guest are sequences of `Dropped`.  `P_REC_AVG_CAL` reads and
increments `nr_keys` unsequenced, so `Stored` chooses either value.  A division by
zero ends the behaviour (`down`).  Histories say what the properties except:
`many` (the gets of a domain since its last reset fill the word), `cleared` (a
reset came between a count and its rate), `off` (`nr_keys` was started over
entries of an earlier domain, or has gone over the word).  `set_weight` for an
unknown domain is left out.

## 3. Runs that pass

| Run | Instance | Shows |
|---|---|---|
| `ring` | 2 vCPUs + daemon, 4 slots, indices mod 8, threshold 3 | `NoOverrun`, `SlotReserve`, the inductive `RingInv`, and `RingIsChannel` (refinement) |
| `transfer` | 2 vCPUs, 3 CPUs, entries of 1 and 5 cells, 1-2 pages of 2; two plans: 4 operations of every kind, opens may fail, ring of 4; 5 page-outs, deletes and added pages, ring of 6 | `LockDiscipline`, `PartIntact`, `StoredIsWhole` |
| `transfer_restart` | page-outs, page-ins, flushes, failures, shutdown and restart; `RestartSpec` | `RestartReleases` |
| `cache` | 2 domains, 2 keys (2 and 3 units), full ring; setups: shared mode with restarts and resets, heap 7, limit none or 4; all modes and switches, no daemon; partition modes with daemon while domains come and go, reset, toggle, 1 key, heap 5 | `Accounting`, `WithinLimit`, `FilesBehindHeaders`, `SharedGetsAreFresh`, `OwnersAlive`, `HeadersLive` |
| `replace` | 3 lists, 40 stocks of 4 entries, callers in and outside the list, 1 change of the mode | `ContractKept`, `InnocentsKeep`, `CallerPaysLast`, `OldestGo`, `LastLoopSpins`, `EvictionEnds` |
| `bucket` | 2 CPUs, 2 keys, room for 1 entry, 4 calls, with and without daemon, keys shared or not | `ListSound`, `ListDelSafe`, `OneEntryPerKey`, `FreshWithoutDaemon`, `SlightlyOver` |
| `headers` | 2 CPUs, 3 pages of 2 headers, at most 2 pages fetched | the inductive `HeadersInv`, `FreeOrUsed`, `FreelistSound`, `NoneLost`, `PagesEntered` |
| `domains` | word 2^7; 3 domains, weights 0, 1, 25, 40 and default 30; one domain, 2 gets at a time until the counters wrap; one domain, 3 entries, both modes, until `nr_keys` wraps; resets, creation and destruction | `TotalIsSum`, `RatiosCurrent`, `RatiosShareAHundred`, `HitrateWithin`, `DivisorsNonzero`, `KeysSuffice` |

Scope to keep in mind when reading them:

- `PartIntact` holds of the code as it is *because* a page-in truncates its file
  and so copies nothing into the shared pages.  Once page-ins read their files
  (the mutant `ServeGetReads`), a page-in and a page-out of two CPUs do mix, for
  they hold different locks.  Repairing the `O_TRUNC` finding needs one lock.
- `StoredIsWhole` is claimed for plans without page-ins, flushes or failures and
  with a slot for every operation (`RingAmple`).  With failures, or with flushes
  that overtake a page-out, it fails (section 5).
- `LockDiscipline` and `PartIntact` exclude shutdown: it empties the ring, and a
  restart initialises the locks under whoever holds them.
- `RestartReleases` needs more CPUs than spinning vCPUs.  It implies that a
  transfer ends in `idle` in every behaviour without shutdown, for `fault` is
  reached only after one.
- The properties of `McdCache` name the setups they are claimed for; beyond
  these they fail (section 5).  `SharedGetsAreFresh` and `FilesBehindHeaders`:
  shared mode without check and toggle (`StaysShared`), and the former also all
  modes without the daemon (`NoFiles`), the latter with domains that stay and
  do not include domain 0.  `OwnersAlive` and the counter of a domain in
  `Accounting`: domains come and go in partition mode only (`DomainsApart`).
  `HeadersLive`: one mode, and in partition mode neither a restart nor, with
  domain 0, a reset (`HeadersKept`).
- `WithinLimit` is claimed for shared mode, where a hypercall is one step, also
  after changes of the mode if domain 0 does not use the cache: its entries are
  not flushed and the shared replacement does not see them.  `SlightlyOver` says
  what remains of it when hypercalls interleave.
- The properties of `McdBucket` hold *until* the memory of an
  entry is reused while another CPU points to it (`reused`), those of
  `McdHeaders` until two CPUs meet where pages are fetched or freed (`raced`).
  Nothing in the code prevents either; section 5 lists what happens then.
  `ListSound` and `SlightlyOver` need no other condition; `ListDelSafe` also excepts CPUs that share keys while the daemon runs,
  `OneEntryPerKey` CPUs that share keys, and `FreshWithoutDaemon` both those and
  the daemon.  On the instance of `bucket`, `SlightlyOver` holds after a reuse
  too; only the proof needs the condition.
- `HitrateWithin`, `DivisorsNonzero` and `KeysSuffice` hold up to the events that
  `many`, `cleared` and `off` record; each of them does break them (section 5).
- `EvictionEnds` excepts the calls that the code does not survive: `fault`, and
  `Spins`.  `LastLoopSpins` says more about the latter: the loop "Self brutally
  release" is reached only by calls for which it never ends.

## 4. Bounds and fairness

Ring: 4 slots and indices modulo 8 make every index wrap, and threshold 3 with
3 CPUs is the tightest case of `Cardinality(Cpus) <= Threshold`; the theorem
removes the bound.  Transfers: 5 cells through pages of 2 give first, middle and
last parts, with the page count changing in between; `max` of a plan bounds how many
operations start, so these runs may end and deadlock is not checked.  Cache:
heap 7 holds two entries and the safety margin, so in partition mode a third put
evicts; limit 4 holds one, so in shared mode a second put already evicts, and
`set_memsize` itself does; `MaxHeaders` bounds the copies of one key in one
mini-header list (puts wait when it is exceeded).  Replacement: four entries in
one or two of three lists, whose times, references, query times and sizes are
ordered differently, with shares that are equal, unequal or zero, make
every loop of every algorithm take entries in some call and find none in another
(but for "Self brutally release", which never takes any); amount 11 exceeds what
there is.
Bucket: room for one entry makes the second of two puts evict; two CPUs suffice for
every pair of calls.  Headers: two headers to a
page and three pages reach the bound of pages, the end of a page and an empty
freelist; states after a meeting, of which nothing is claimed, are cut off
(`CONSTRAINT MCAlone`).  Domains: in a word of 2^7 every
counter and every product by a hundred wraps; only the weights together stay
below it (`RatiosShareAHundred` needs that).  Shares, rates and stock are fields
that no function combines, so each behaviour exercises one group of them, chosen
in `Init` (`Profiles`), together with creation and destruction; rates and stock of
one domain do not depend on another's, so one domain is followed.

`FairSpec` is weak fairness of the daemon and of each CPU inside an operation:
Xen's scheduler runs every runnable vCPU, and the daemon polls.  `Spec` of `McdReplace` is
weakly fair to the CPU that evicts: it runs on in the hypervisor.  No fairness is
assumed of guests, signals, failures or changes of the mode.  `RestartSpec` adds that a stopped
daemon is started again; nothing in the code does that, it is the condition
under which `RestartReleases` is claimed.

## 5. Where the code and its documentation disagree

Four runs end in a counterexample; `PROJECT.json` quotes the lines.

| Run | What happens |
|---|---|
| `ring_crowd` | enough CPUs pass the check together and fill the ring beyond what `ring.h` allows |
| `transfer_in` | page-in truncates the file before reading it |
| `transfer_stop` | a CPU waits for ever when the daemon stops during its page-out |
| `cache_old` | a put in partition mode leaves the old value in a file; a later get returns it |

Further disagreements are not kept as runs.  Each is a counterexample TLC gives
for a property of the project under constants other than those of its run:

| Property | Constants | What happens |
|---|---|---|
| `StoredIsWhole`, without its condition | a plan with failures | a failed open is not reported: a mini-header without a file (`mcd.c:484`) |
| `StoredIsWhole`, without its condition | a plan with flushes | the list is emptied before the daemon is told; a page-out in between loses its file (`mcd.c:617`) |
| `GetsAreFresh` | shared mode with daemon and check | a check hides a mini-header from the next put; a later get returns the old value (`mcd.c:2149`) |
| `FilesBehindHeaders` without its condition, `GetsAreFresh` | shared mode with daemon and toggle | a remove while the toggle is off deletes the file and keeps the mini-header (`mcd.c:2856`) |
| `OwnersAlive`, without its condition | shared mode, domains come and go | entries of a destroyed domain stay listed (`mcd.c:2518`) |
| `WithinLimit`, without its condition | `set_cache_mode(0, 1)` from best effort | partition with best effort never evicts (`mcd.c:1843`) |
| `HeadersLive`, without its condition | partition mode with domain 0, reset | mini-headers of domain 0 are freed while listed (`mcd.c:2538`) |
| `FilesBehindHeaders`, without its condition | partition mode with restart | domains' mini-headers outlive the files (`mcd.c:367`) |
| `RestartReleases` | `Cpus = 2`, as many as vCPUs | one CPU spins for its page-out, the other for the lock, and the daemon never runs (`mcd.c:472`) |
| `RatiosShareAHundred` | weights whose total exceeds the word (37 and 92 with 2^7) | the total wraps, and the quotients grow (`mcd.c:2703`).  A product `weight * 100` that wraps (`mcd.c:1260`) only makes a ratio too low |
| `HitrateWithin`, without `many` | `domains` | when the gets fill the word the sum wraps, and the rate exceeds 100: MISSRATE wraps (`xen/mcd.h:140`) |
| `DivisorsNonzero`, without `many` | `domains` | the 2^32-th get divides by zero |
| `DivisorsNonzero`, without `cleared` | `domains` | a reset between MISS and SET_HITRATE: division by zero in the hypervisor (`mcd.c:3149`) |
| `KeysSuffice`, without `off` | `domains` | a domain with the id of one that left entries in the shared lists starts with `nr_keys` 0; removing them wraps it (`mcd.c:761`) |
| `DivisorsNonzero`, without `off` | `domains` | two such entries are removed, and the next put divides by zero in `P_REC_AVG_CAL` (`mcd.c:104`) |
| `ListDelSafe`, without `Disjoint \/ ~daemon` | `bucket` | two CPUs find the same mini-header and both free it: the assertions of `list_del` fail (`xen/list.h:169`) |
| `OneEntryPerKey`, without `Disjoint` | `bucket` | two puts of one key both find nothing and both add an entry |
| `FreshWithoutDaemon`, without `~daemon` | `bucket` | the entry is evicted to its file while its CPU is about to remove it: the old value comes back |
| `ListSound`, `ListDelSafe`, `OneEntryPerKey`, `FreshWithoutDaemon`, without `~reused` | `bucket` | the magic number that guards a second removal is read from memory that is another entry by now |
| all of `McdHeaders`, without `~raced` | `headers`, without its constraint | two CPUs find the freelist empty, or one links or frees a page while another takes headers: headers are lost, handed out twice, or lie in freed pages |

Five more are plain from single actions.  `SkipResponse`: ADD_SHARED_PAGE is
never answered, so its ring slot is lost until a restart.  `Stored`: a put
counts its key twice in `nr_keys`, and with the unsequenced increment the
average cost can exceed every cost that went into it.  `Rated`: beyond 42 million
hits `get_succ * 100` wraps and the hit rate is too low.  `QueryMax`:
`set_val_size` raises `query_max` where `val_max` is meant, so that SCORE never
scales the sizes.

## 6. Proofs

TLAPS proves every safety property of the passing runs, for every value of the
constants that satisfies the named assumptions (`RingConstants` and so on) and
the hypotheses given here.  Inductive invariants were checked by TLC before they
were proved.

**The ring** (`McdRingProofs`), if `Cardinality(Cpus) <= Threshold`:
`RingInvariant`, `RingNeverOverrun`, `SlotsReserved`, `RingTypes`,
`RingImplementsChannel`.  `NoOverrun` is not inductive: a push is safe because
every CPU between its check and its push has a slot reserved (`SlotReserve`),
which in turn needs the order of the indices (`IndexOrder`), where the daemon is
(`Control`, `Lags`), and that queued slots still hold requests
(`QueuedAreRequests`).  The last one rests on `SlotDistinct`: two indices less
than `RingSize` apart never share a slot, also across the wrap, since `RingSize`
divides `IdxMod`.  `RingImplementsChannel` is the refinement: the initial states
map to those of `McdChannel`, and a step to a step (push to `Send`, take to
`Take`, answer to `Answer`, skip to `Forget`, RESUME to `Accept`, DISABLE to
`Drop`) or a stutter.  Machines with more CPUs than the threshold of 4 are outside these
theorems; `ring_crowd` shows why.

**Transfers** (`McdTransferProofs`), in three layers.
`LockInvariant` and `LocksDisciplined`: `LockInv` adds to `LockDiscipline` the
types and that no page-out or page-in is ever marked END, which RESUME would
take as a reason to keep the lock.  The discipline is one rule, instantiated for
both directions; generic lemmas say what sending, taking, answering and ending
do to it.
`DataInvariant`, `Typed`, `PartsIntact`: `TypeOK` and `PartIntact` hold whatever
fails, is flushed or is added.  Both directions use the shared pages under
different locks, so this needs that a page-in copies nothing: it truncates its
file, and a page-out of the same key that begins meanwhile stays *behind* it.
Each has one message on the ring, and the ring is first in, first out
(`Behind`, for every continued GET with the PUTs ahead of it).  Both layers are
about behaviours in which the daemon is not stopped (`NoStop`).
`WholeInvariant`, `ListedIsWhole`: `StoredIsWhole`, with no hypothesis beyond its
own.  `WholeInv` says of each continuation on the ring, of each answer and of
each page-out whose lock has been released how much of the entry is in the file,
and that a deletion of the same key, which is of an earlier value, is ahead of
the first part (`Written`).  That the ring never fills is a count: each
operation begun accounts for one slot (`OneSlotEach`).

**The cache** (`McdCacheProofs`), for any domains, keys, sizes, limits and setups,
with a ring that fills or not, and with no hypothesis beyond the conditions in
the properties: `CacheInvariant`, `CacheTyped`, `BytesAccounted`,
`NeverOverLimit`, `FilesThere`, `SharedFresh`, `OwnersStay`, `PagesStay`.  An
operation is a chain of caches (drop the old entry, evict, perhaps evict again,
add the new one), so the invariant `Sound(s, L, tr, on, en)` is about a cache
`s`, not about the variable: one lemma for each link of the chain, one for each
contract of `McdVictims`, one for each action.  The properties are not inductive
for these reasons.
A get is fresh because a key has one copy at most, in memory or behind one
mini-header (`HeadersTrue`), which a put removes before it adds the entry; that
holds while page-outs are on, so the invariant has `on` as a parameter.  A file is
behind a mini-header because two mini-headers never name the same file, which
follows from that one copy (`FilesTrue`).  The limit holds because an eviction
that reports success has freed enough, one that fails in shared mode has emptied
the list, and no other list counts, for the lists out of use are empty
(`EntriesPlaced`, `HeadersPlaced`).  The counters are sums over finite sets,
split where entries leave (`BytesOf` in `McdSumsProofs`).  `Steady` says which
switches cannot change in which setup.

**The bucket** (`McdBucketProofs`), for any number of CPUs,
keys and calls: `BucketSound`, `LimitAlmostKept`, `ListOperationsSafe`,
`OneEntry`, `GetsAreFresh`.
An addition is safe because the entry a CPU is about to add is live, in no list
and no other CPU's (`OwnIsOwn`).  For `SlightlyOver` a CPU that has passed the
test for room and not yet allocated counts as an entry (`PromisesKept`).  A
removal is safe because the entry is listed as long as it is valid (`DropSafe`),
and the mini-header a CPU has found is there when it frees it, since only CPUs
that work on its key do so (`HeaderThere`).  `OneEntryPerKey` rests on the search
of the bucket still being true when the entry is added, three critical sections
later (`NoneWhileMissed`), and `FreshWithoutDaemon` on every listed entry having
the last value put, or that of the put about to return (`ValuesCurrent`).  All
but the types hold until `reused`.

**The mini-headers** (`McdHeadersProofs`), for any number of CPUs, pages and
headers in a page: `HeadersInvariant` and the four properties, until `raced`.
The freelist is treated as the least set closed under `next`, so that no
induction over its length is needed: `IsList` (no header follows two others, and
none leads to the first) is enough to know what is left when the first header is
taken.  While a page is being linked, `LinkedTo` gives the links written so far.

**Replacement** (`McdReplaceProofs`), for any lists, stocks, shares and changes of
the mode: `InnocentsSpared`, `EvictionsKeepContract`, `LastLoopAlwaysSpins`,
`CallerAlwaysPaysLast`, `OldestAlwaysGo`.  `InnocentsKeep` compares with the
shares at the start, while the loops test the current ones; `SpareInv` bridges
this.  The others rest on `LoopInv`: `tot` is the size of what is gone
(`BaseInv`), a pass that has found nothing so far has left nothing wanted behind
it (`SweepInv`), and so it is known what each loop leaves to the next
(`TakeAllInv`, `AdaptiveInv`, `SpinInv`; `PayInv` for the order in which domains
pay).  `OldInv` keeps, per list, at least as many victims chosen for their age
as others.

**Domains** (`McdDomainsProofs`): `RatiosStayCurrent`, `TotalStaysSum`,
`KeysAlwaysSuffice`, `HitrateStaysWithin`, `DivisorsStayNonzero`,
`FieldsKeepWidth`; and `RatiosMakeAHundred` if `WeightsFit` (all weights together
are below the word; it is needed, see section 5).  The products by a hundred may
wrap in all of them: a quotient of a wrapped product is no larger.
`HitrateWithin` and `DivisorsNonzero` rest on the same fact, that the two counters
together stay below the word and that, while a get is between its count and its
rate, they are not both zero unless a reset came in between; `KeysSuffice`, and
the divisor of `P_REC_AVG_CAL`, on `nr_keys` being at least the entries of both
kinds, which a flush of one kind must leave true of the other.

Sums, and bounds on the size of finite sets, need induction over a finite set.
The library's induction theorems take an operator as a parameter, which the
provers cannot instantiate, so `McdSumsProofs` looks at a smallest
counterexample instead (`SmallestSubset`), in a set that is written out each time.

Only model-checked: the liveness properties `RestartReleases` and `EvictionEnds`.
Liveness under fairness is out of the prover's reach.

Under a hypothesis, and not beyond it: the ring (`Cardinality(Cpus) <= Threshold`),
the locks and parts of transfers (`NoStop`), and `WeightsFit`.  The link
between `McdCache` and `McdTransfer` is not a theorem (section 2).

## 7. Plan

1. `McdBucket` for partition mode, where the list of a domain is flushed while
   calls are under way.
2. A refinement from `McdTransfer` to the page-out of `McdCache`, for plans in
   which `StoredIsWhole` holds.

## 8. Not modelled

- `policy_default.c`: compiled into the daemon and called from nowhere in it.
- Statistics, display and histograms: they do not influence the cache.
- `getHash`, and collisions between keys: see `McdCache`.
- `libxc`, `libxl` and `xl`: marshalling of arguments.
- A daemon that dies without DISABLE.  Its pages go back to the kernel of domain 0
  while the hypervisor goes on using them, so what either side then reads is
  whatever the kernel put there; a comment in `mcdctl.c` (373) leaves the cache
  undefined in that case.  A shutdown by signal is modelled.
- ENABLE and DISABLE in smaller steps.  They meet a push only on a CPU that was
  delayed from before DISABLE, whose push the model already lets come late.
- Interleaved hypercalls in partition mode, and lost updates of the counters of a
  domain (`mcd.c:759`): `McdBucket` is shared mode with counters kept under their
  lock; `McdCache` and `McdDomains` take a hypercall as one step.
- `mcdctl_user_enabled` in `McdHeaders`: it is on.
- The daemon's file descriptors (one stays open when a transfer ends before its
  FINAL part), and the destruction of a domain whose creation had failed for lack
  of memory (`mcd.c:3253`).
- Memory safety as such (unmapped pages, freed entries): the model has the
  conditions (`HeadersLive`, `OwnersAlive`, the place `fault`), not the effects.
- The rest of the tree, some 1.4 million lines of Xen 4.1.2 imported unchanged.
  What the modules cover is most of the cache proper and, counted against the
  whole tree, well below one percent.
- `nr_avail`, which nothing reads, and the empty memory traps.
