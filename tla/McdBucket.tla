----------------------------- MODULE McdBucket ------------------------------
(***************************************************************************)
(* The hypercalls of shared mode on one bucket, interleaved (xen/common/    *)
(* mcd.c: s_mcd_put, s_mcd_get, s_mcd_remove, s_mcd_check).  The lock of    *)
(* the bucket is held for the search, for the removal and for the addition  *)
(* of an entry, and not in between; the list of mini-headers is searched    *)
(* without its lock.  What lies between two such sections is a step.        *)
(*                                                                          *)
(* A CPU may read an entry that another has freed: it finds the old content *)
(* or the entry that was made in its place since.                           *)
(* The daemon serves a request at once; see McdTransfer.                    *)
(***************************************************************************)
EXTENDS Integers, FiniteSets

CONSTANTS
    Cpus, Keys,
    Works,          \* which keys each CPU works on: functions of Cpus
    Daemon,         \* is the daemon there? a set of answers
    Ops,            \* the hypercalls made
    Limit,          \* the number of entries for which there is memory
    MaxCalls        \* bound on the calls

NoOne == 0                      \* NULL
NoVal == 0                      \* an entry without a value
NoJob == [op |-> "none", key |-> "none", val |-> NoVal]

ASSUME BucketConstants ==
    /\ IsFiniteSet(Cpus) /\ IsFiniteSet(Keys)
    /\ Works \subseteq [Cpus -> SUBSET Keys] /\ Daemon \subseteq BOOLEAN
    /\ Limit \in Nat \ {0} /\ MaxCalls \in Nat
    /\ Ops \subseteq {"put", "get", "remove", "check"}

VARIABLES
    work, daemon,   \* the choices made first
    blocks,         \* the memory used so far for entries is 1..blocks
    mem,            \* the key and the value of the entry in each block
    live,           \* the blocks whose entry has its magic number
    list,           \* the bucket: its blocks, with their places in it
    mini,           \* the mini-headers of the bucket: their keys and numbers, by
                    \* which they are ordered
    made,           \* the number of mini-headers made so far
    files,          \* what the file of each key holds; NoVal if there is none
    pc, mh, mch,    \* of each CPU: its place, and its pointers
    job,            \* its call
    calls,
    reused,         \* history: an entry took a block a CPU still points to
    truth,          \* history: what a get of each key should find
    answer          \* what the last get found, and should have found

choices == <<work, daemon>>
entries == <<blocks, mem, live, list>>
headers == <<mini, made>>
history == <<reused, truth, answer>>
vars == <<choices, entries, headers, files, pc, mh, mch, job, calls, history>>

Goto(c, place) == pc' = [pc EXCEPT ![c] = place]
Point(c, x) == mh' = [mh EXCEPT ![c] = x]

\* The call returns; its locals are gone.
Return(c) ==
    /\ Goto(c, "idle") /\ Point(c, NoOne)
    /\ mch' = [mch EXCEPT ![c] = NoOne]
    /\ job' = [job EXCEPT ![c] = NoJob]

\* Those of S that come first in the order of f; NULL if there are none.
FirstOf(S, f) ==
    IF S = {} THEN {NoOne} ELSE {x \in S : \A y \in S : f[x] <= f[y]}

\* find_mcd_hashT and find_mcdctl_hashT: the first with the hash.
FindEntry(k) == FirstOf({x \in DOMAIN list : mem[x].key = k}, list)
FindHeader(k) ==
    LET N == {h.nr : h \in {g \in mini : g.key = k}} IN FirstOf(N, [n \in N |-> n])

\* The place of x among S, in the order of f.
Rank(f, S, x) == Cardinality({y \in S : f[y] <= f[x]})

\* list_del and list_add_tail of the bucket.
Without(V) == [x \in DOMAIN list \ V |-> Rank(list, DOMAIN list \ V, x)]
With(new) ==
    [x \in DOMAIN list \cup {new} |->
       IF x = new THEN Cardinality(DOMAIN list) + 1 ELSE list[x]]

---------------------------------------------------------------------------
(* The steps.                                                               *)

Start(c, op, k) ==
    /\ pc[c] = "idle" /\ calls < MaxCalls /\ op \in Ops /\ k \in work[c]
    /\ calls' = calls + 1
    /\ Goto(c, "find")
    /\ job' = [job EXCEPT ![c] =
                 [op |-> op, key |-> k, val |-> IF op = "put" THEN calls + 1 ELSE NoVal]]
    /\ UNCHANGED <<choices, entries, headers, files, mh, mch, history>>

\* A bug: the old entry is left in the list.
FindIgnored(c) ==
    /\ pc[c] = "find"
    /\ \E x \in FindEntry(job[c].key) :
         /\ Point(c, x)
         /\ Goto(c, IF x = NoOne THEN "mini"
                    ELSE CASE job[c].op = "put" -> "create"
                           [] job[c].op = "remove" -> "drop"
                           [] job[c].op = "get" -> "use"
                           [] job[c].op = "check" -> "done")
    /\ UNCHANGED <<choices, entries, headers, files, mch, job, calls, history>>

\* The search for the entry (with the lock, but for a check).
Find(c) ==
    /\ pc[c] = "find"
    /\ \E x \in FindEntry(job[c].key) :
         /\ Point(c, x)
         /\ Goto(c, IF x = NoOne THEN "mini"
                    ELSE CASE job[c].op \in {"put", "remove"} -> "drop"
                           [] job[c].op = "get" -> "use"
                           [] job[c].op = "check" -> "done")
    /\ UNCHANGED <<choices, entries, headers, files, mch, job, calls, history>>

\* A bug: the magic number is not tested.
DropBlindly(c) ==
    /\ pc[c] = "drop"
    /\ list' = Without({mh[c]}) /\ live' = live \ {mh[c]}
    /\ Goto(c, IF mh[c] \notin DOMAIN list THEN "fault"
               ELSE IF job[c].op = "put" THEN "create" ELSE "done")
    /\ UNCHANGED <<choices, blocks, mem, headers, files, mh, mch, job, calls, history>>

\* s_remove_hashT, with the lock.  By now the entry may be gone, which its
\* magic number tells; list_del stumbles over an entry in no list.
Drop(c) ==
    /\ pc[c] = "drop"
    /\ IF mh[c] \in live
       THEN list' = Without({mh[c]}) /\ live' = live \ {mh[c]}
       ELSE UNCHANGED <<list, live>>
    /\ Goto(c, IF mh[c] \in live \ DOMAIN list THEN "fault"
               ELSE IF job[c].op = "put" THEN "create" ELSE "done")
    /\ UNCHANGED <<choices, blocks, mem, headers, files, mh, mch, job, calls, history>>

\* The search for the mini-header, without its lock.  mcd_page_in makes the
\* entry before it asks the daemon.
Mini(c) ==
    LET op == job[c].op IN
    /\ pc[c] = "mini"
    /\ \E m \in FindHeader(job[c].key) :
         /\ mch' = [mch EXCEPT ![c] = m]
         /\ Goto(c, CASE op = "check" \/ (op = "put" /\ m = NoOne) -> "create"
                      [] op = "get" /\ m # NoOne -> "create"
                      [] op \in {"put", "remove"} /\ m # NoOne -> "delete"
                      [] op \in {"get", "remove"} /\ m = NoOne -> "done")
    /\ UNCHANGED <<choices, entries, headers, files, mh, job, calls, history>>

\* minf_page_del.
Delete(c) ==
    /\ pc[c] = "delete"
    /\ files' = [files EXCEPT ![job[c].key] = NoVal]
    /\ Goto(c, "release")
    /\ UNCHANGED <<choices, entries, headers, mh, mch, job, calls, history>>

\* mcdctl_free, with the lock of the mini-headers: list_del stumbles over a
\* header that is not in the list.
Release(c) ==
    LET op == job[c].op IN
    /\ pc[c] = "release"
    /\ mini' = {h \in mini : h.nr # mch[c]}
    /\ Goto(c, IF mini' = mini THEN "fault"
               ELSE CASE op = "put" -> "create"
                      [] op = "remove" -> "done"
                      [] op = "get" -> "add")
    /\ UNCHANGED <<choices, entries, made, files, mh, mch, job, calls, history>>

Full == Cardinality(live) >= Limit

\* A bug: what is short is not looked at.
RoomNever(c) ==
    /\ pc[c] = "create"
    /\ Goto(c, "alloc")
    /\ UNCHANGED <<choices, entries, headers, files, mh, mch, job, calls, history>>

\* mcd_malloc: there is room, or there is none and nothing to evict.  The
\* memory is taken later.
Room(c) ==
    /\ pc[c] = "create" /\ (Full => DOMAIN list = {})
    /\ Goto(c, IF Full THEN "done" ELSE "alloc")
    /\ UNCHANGED <<choices, entries, headers, files, mh, mch, job, calls, history>>

\* A bug: shared_cache_free frees entries and leaves them in the list.
EvictListed(c) ==
    /\ pc[c] = "create" /\ Full
    /\ \E V \in (SUBSET DOMAIN list) \ {{}} : live' = live \ V
    /\ Goto(c, "alloc")
    /\ UNCHANGED <<choices, blocks, mem, list, headers, files, mh, mch, job, calls, history>>

\* mcd_page_out of the entries O, in their order.
PageOut(O) ==
    /\ made' = made + Cardinality(O)
    /\ mini' = mini \cup {[key |-> mem[x].key, nr |-> made + Rank(list, O, x)] : x \in O}
    /\ files' = [k \in Keys |->
         LET of == {x \in O : mem[x].key = k}
         IN IF of = {} THEN files[k]
            ELSE mem[CHOOSE x \in of : \A y \in of : list[y] <= list[x]].val]

\* mcd_malloc, shared_cache_free, with the lock: entries are evicted, and
\* paged out if they have a value and the daemon is there.  They may still be
\* too few, after the second trial as after the first.
Evict(c) ==
    /\ pc[c] = "create" /\ Full
    /\ \E V \in (SUBSET DOMAIN list) \ {{}} :
         /\ list' = Without(V) /\ live' = live \ V
         /\ PageOut({x \in V : daemon /\ mem[x].val # NoVal})
    /\ Goto(c, "alloc") \/ Goto(c, "done")
    /\ UNCHANGED <<choices, blocks, mem, mh, mch, job, calls, history>>

\* create_mcd_hashT once it has memory: new, or that of an entry freed before.
Create(c) ==
    /\ pc[c] = "alloc"
    /\ \E x \in 1..(blocks + 1) \ live :
         /\ blocks' = IF x > blocks THEN x ELSE blocks
         /\ mem' = [y \in 1..blocks' |->
                      IF y = x THEN [key |-> job[c].key, val |-> job[c].val] ELSE mem[y]]
         /\ live' = live \cup {x}
         /\ reused' = (reused \/ \E e \in Cpus \ {c} : mh[e] = x)
         /\ Point(c, x)
    /\ Goto(c, IF job[c].op = "get" THEN "load" ELSE "add")
    /\ UNCHANGED <<choices, list, headers, files, mch, job, calls, truth, answer>>

\* minf_page_in: the daemon reads the file and unlinks it.
Load(c) ==
    LET k == job[c].key IN
    /\ pc[c] = "load"
    /\ mem' = [mem EXCEPT ![mh[c]].val = files[k]]
    /\ files' = [files EXCEPT ![k] = NoVal]
    /\ Goto(c, "release")
    /\ UNCHANGED <<choices, blocks, live, list, headers, mh, mch, job, calls, history>>

\* list_add_tail, with the lock, of an entry that should be in no list.
Add(c) ==
    /\ pc[c] = "add"
    /\ list' = With(mh[c])
    /\ Goto(c, IF mh[c] \in DOMAIN list THEN "fault"
               ELSE IF job[c].op = "get" THEN "use" ELSE "done")
    /\ UNCHANGED <<choices, blocks, mem, live, headers, files, mh, mch, job, calls, history>>

\* The copy to the guest, without the lock.
Use(c) ==
    /\ pc[c] = "use"
    /\ answer' = <<mem[mh[c]].val, truth[job[c].key]>>
    /\ Return(c)
    /\ UNCHANGED <<choices, entries, headers, files, calls, reused, truth>>

\* The call returns, with its effect if it was a put or a remove.
Done(c) ==
    /\ pc[c] = "done"
    /\ truth' = IF job[c].op \in {"put", "remove"}
                THEN [truth EXCEPT ![job[c].key] = job[c].val] ELSE truth
    /\ Return(c)
    /\ UNCHANGED <<choices, entries, headers, files, calls, reused, answer>>

Init ==
    /\ work \in Works /\ daemon \in Daemon
    /\ blocks = 0 /\ mem = <<>> /\ live = {} /\ list = <<>>
    /\ mini = {} /\ made = 0
    /\ files = [k \in Keys |-> NoVal]
    /\ pc = [c \in Cpus |-> "idle"] /\ mh = [c \in Cpus |-> NoOne]
    /\ mch = [c \in Cpus |-> NoOne] /\ job = [c \in Cpus |-> NoJob] /\ calls = 0
    /\ reused = FALSE /\ truth = [k \in Keys |-> NoVal] /\ answer = <<>>

Step(c) ==
    \/ \E op \in Ops, k \in Keys : Start(c, op, k)
    \/ Find(c) \/ Drop(c) \/ Mini(c) \/ Delete(c) \/ Release(c) \/ Room(c)
    \/ Evict(c) \/ Create(c) \/ Load(c) \/ Add(c) \/ Use(c) \/ Done(c)

Next == \E c \in Cpus : Step(c)

Spec == Init /\ [][Next]_vars

---------------------------------------------------------------------------
(* Properties.                                                              *)

\* Every key has at most one CPU that works on it.
Disjoint == \A c, e \in Cpus : c # e => work[c] \cap work[e] = {}

Places == {"idle", "find", "drop", "mini", "delete", "release", "create", "alloc",
           "load", "add", "use", "done", "fault"}

\* The bucket has only entries that are valid, although CPUs hold pointers to
\* entries that others evict and remove; unless the memory of such an entry
\* has become another entry meanwhile.
ListSound == ~reused => DOMAIN list \subseteq live

\* list_del is called only on entries and mini-headers that are in a list
\* (the assertions of list.h), and list_add_tail only on others, if no two
\* CPUs work on a key or if the daemon is not there: the magic number catches
\* the second removal of an entry.
ListDelSafe ==
    ~reused /\ (Disjoint \/ ~daemon) => \A c \in Cpus : pc[c] # "fault"

\* A key that one CPU works on has one entry, although the others evict.
OneEntryPerKey ==
    ~reused /\ Disjoint =>
      \A x, y \in DOMAIN list : mem[x].key = mem[y].key => x = y

\* Without the daemon a get of such a key finds the last put or nothing,
\* although the entry is read after the lock was released.
FreshWithoutDaemon ==
    ~reused /\ Disjoint /\ ~daemon /\ answer # <<>> => answer[1] \in {answer[2], NoVal}

\* Memory is checked and taken in two steps: the cache exceeds its limit, but
\* by less than one entry for each CPU.
SlightlyOver == ~reused => Cardinality(live) < Limit + Cardinality(Cpus)

---------------------------------------------------------------------------
(* An inductive invariant, see McdBucketProofs.                             *)

Operations == {"put", "get", "remove", "check"}

\* c has made an entry that it will add to the bucket.
Owns(c) == pc[c] \in {"load", "add"} \/ (pc[c] = "release" /\ job[c].op = "get")

Shape ==
    /\ blocks \in Nat /\ live \subseteq 1..blocks /\ DOMAIN list \subseteq 1..blocks
    /\ pc \in [Cpus -> Places] /\ mh \in [Cpus -> 0..blocks] /\ DOMAIN job = Cpus
    /\ \A c \in Cpus :
         /\ pc[c] # "idle" => job[c].op \in Operations
         /\ pc[c] = "delete" => job[c].op \in {"put", "remove"}
         /\ pc[c] = "load" => job[c].op = "get"
         /\ pc[c] = "release" => job[c].op # "check"
         /\ Owns(c) => mh[c] # NoOne

\* Such an entry is in no list, and no other CPU points to it.
OwnIsOwn ==
    ~reused => \A c \in Cpus : Owns(c) =>
      mh[c] \in live \ DOMAIN list /\ \A e \in Cpus \ {c} : mh[e] # mh[c]

\* A CPU that was promised memory counts as an entry.
Promised == {c \in Cpus : pc[c] = "alloc"}

PromisesKept ==
    ~reused => Cardinality(live) + Cardinality(Promised) < Limit + Cardinality(Cpus)

\* Whatever the CPUs do to the entries and to each other's pointers, an entry
\* not yet listed belongs to one CPU, and promises of memory are covered.
BucketInv == Shape /\ ListSound /\ OwnIsOwn /\ PromisesKept

---------------------------------------------------------------------------
(* What makes list_del safe, and keeps one entry for each key.              *)

\* Every call has a key its CPU works on, and every entry a key.
Jobs ==
    /\ work \in [Cpus -> SUBSET Keys] /\ daemon \in BOOLEAN
    /\ DOMAIN mem = 1..blocks /\ \A x \in 1..blocks : mem[x].key \in Keys
    /\ \A c \in Cpus : pc[c] # "idle" =>
         job[c].key \in work[c] /\ (job[c].op # "put" => job[c].val = NoVal)

\* The places in the bucket, and the numbers of the mini-headers, tell apart.
Ordered ==
    /\ made \in Nat /\ mini \subseteq [key : Keys, nr : Nat] /\ DOMAIN mch = Cpus
    /\ ~reused =>
         /\ list \in [DOMAIN list -> 1..Cardinality(DOMAIN list)]
         /\ \A x, y \in DOMAIN list : list[x] = list[y] => x = y
         /\ \A g, h \in mini : g.nr \in 1..made /\ (g.nr = h.nr => g = h)

\* c relies on the mini-header it has found.
Relies(c) ==
    \/ pc[c] \in {"delete", "release", "load"}
    \/ pc[c] \in {"create", "alloc"} /\ job[c].op = "get"

HeaderThere ==
    /\ ~reused /\ Disjoint => \A c \in Cpus : Relies(c) =>
         \E h \in mini : h.nr = mch[c] /\ h.key = job[c].key
    /\ ~daemon => mini = {} /\ \A c \in Cpus : ~Relies(c)

\* An entry to be removed is in the bucket as long as it is valid.
DropSafe ==
    ~reused => \A c \in Cpus : pc[c] = "drop" => mh[c] \in DOMAIN list \/ mh[c] \notin live

SafeInv == Jobs /\ Ordered /\ HeaderThere /\ DropSafe /\ ListDelSafe

\* A CPU that has not found its key, or has removed the entry, finds the bucket
\* without it when it comes to add its own.
Missed(c) == pc[c] \in {"mini", "delete", "release", "create", "alloc", "load", "add"}

NoneWhileMissed ==
    ~reused /\ Disjoint => \A c \in Cpus, x \in DOMAIN list :
      mem[x].key = job[c].key =>
        /\ ~Missed(c)
        /\ pc[c] = "drop" => x = mh[c]
        /\ pc[c] = "done" => job[c].op # "remove"

OwnKey == ~reused => \A c \in Cpus : Owns(c) => mem[mh[c]].key = job[c].key

RemoveMakesNone ==
    \A c \in Cpus : pc[c] \in {"create", "alloc", "load", "add"} => job[c].op # "remove"

KeyInv == RemoveMakesNone /\ NoneWhileMissed /\ OwnKey /\ OneEntryPerKey

\* Without the daemon an entry has the value last put, or none, or the value
\* of the put that is about to return.
Putting(c, k) == pc[c] = "done" /\ job[c].op = "put" /\ job[c].key = k

Current(x, k) == mem[x].val \in {truth[k], NoVal}

ValuesCurrent ==
    ~reused /\ Disjoint /\ ~daemon =>
      /\ \A x \in DOMAIN list :
           /\ \A c \in Cpus : Putting(c, mem[x].key) => mem[x].val = job[c].val
           /\ Current(x, mem[x].key) \/ \E c \in Cpus : Putting(c, mem[x].key)
      /\ \A c \in Cpus : /\ pc[c] = "add" => mem[mh[c]].val = job[c].val
                         /\ pc[c] = "use" => mh[c] \in 1..blocks /\ Current(mh[c], job[c].key)

FreshInv == DOMAIN truth = Keys /\ ValuesCurrent /\ FreshWithoutDaemon
=============================================================================
