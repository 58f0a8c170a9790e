----------------------------- MODULE McdHeaders -----------------------------
(***************************************************************************)
(* The memory of the mini-headers (xen/common/mcd.c): pages cut into        *)
(* headers, a freelist linked through them, and the table mcdctl_pages from *)
(* which exit_mcdctl frees the pages.  Each access to the freelist, the     *)
(* table and its counter that is not in one critical section is a step.     *)
(* The lists that hold the headers in use are those of shared mode.         *)
(*                                                                          *)
(* The code does not see to it that a CPU is alone when it fetches a new    *)
(* page or frees all of them; raced records that it was not.                *)
(***************************************************************************)
EXTENDS Integers, FiniteSets

CONSTANTS
    Cpus,
    Pages,          \* the pages of the hypervisor's heap
    PerPage,        \* PAGE_SIZE / sizeof(mcdctl_hashT_t): about a hundred
    MaxPages        \* MAX_PAGES_FOR_MCDCTL

ASSUME HeadersConstants ==
    /\ IsFiniteSet(Cpus) /\ IsFiniteSet(Pages)
    /\ PerPage \in Nat \ {0, 1} /\ MaxPages \in Nat \ {0}

Headers == Pages \X (1..PerPage)
Null == <<>>
Junk == <<"junk">>      \* what a new page holds, and a freed one

VARIABLES
    next,           \* the member next of each header
    freelist,
    table, cnt,     \* mcdctl_pages, mcdctl_pages_cnt
    heap,           \* the pages that are allocated
    listed,         \* the headers in the lists of mini-headers
    enabled,        \* mcdctl_enabled
    cpu,            \* of each CPU: its place, and its locals
    raced           \* history: pages were fetched or freed by a CPU not alone

memory == <<next, freelist, table, cnt, heap>>
vars == <<memory, listed, enabled, cpu, raced>>

Idle == [pc |-> "idle", page |-> Null, ix |-> 0, mch |-> Null, stop |-> FALSE]
Goto(c, pc) == cpu' = [cpu EXCEPT ![c].pc = pc]
At(P) == {c \in Cpus : cpu[c].pc \in P}

\* What a pointer leads to: it is in every set that has the pointer, and with
\* a header the one that follows.
Pointers == Headers \cup {Null, Junk}
ReachedFrom(first, succ) ==
    LET Closed == {S \in SUBSET Pointers :
                     first \in S /\ \A h \in S \cap Headers : succ[h] \in S}
    IN {h \in Pointers : \A S \in Closed : h \in S}
Reached == ReachedFrom(freelist, next)
Free == Reached \cap Headers

\* The headers that a CPU has taken from the freelist and not listed yet.
InHand == {cpu[c].mch : c \in At({"list"})}

Quiet == \A c \in Cpus : cpu[c].pc = "idle"

\* Fetching a new page, or freeing all.
Exclusive ==
    {"new", "count", "enter", "publish", "linking", "link", "exit", "zero", "off"}

\* The step of c meets another CPU that fetches or frees pages, or it begins
\* that while another is in an operation.
Meets(c) == \E e \in Cpus \ {c} :
    \/ cpu[e].pc \in Exclusive
    \/ cpu[e].pc # "idle" /\ cpu'[c].pc \in Exclusive

---------------------------------------------------------------------------
(* create_mcdctl_hashT in mcd_page_out: mcdctl_malloc, mcdctl_new_malloc.   *)

\* mcdctl_malloc is called.
Malloc(c) ==
    /\ cpu[c].pc = "idle" /\ enabled
    /\ Goto(c, "test")
    /\ UNCHANGED <<memory, listed, enabled>>

\* freelist == NULL, outside the lock.
Test(c) ==
    /\ cpu[c].pc = "test"
    /\ Goto(c, IF freelist = Null THEN "new" ELSE "pop")
    /\ UNCHANGED <<memory, listed, enabled>>

\* A bug: the bound is off by one.
NewPageBeyond(c) ==
    /\ cpu[c].pc = "new"
    /\ \/ /\ enabled /\ cnt <= MaxPages
          /\ \E p \in Pages \ heap :
               /\ heap' = heap \cup {p}
               /\ next' = [h \in Headers |-> IF h[1] = p THEN Junk ELSE next[h]]
               /\ cpu' = [cpu EXCEPT ![c].pc = "count", ![c].page = p]
       \/ Goto(c, "pop") /\ UNCHANGED <<heap, next>>
    /\ UNCHANGED <<freelist, table, cnt, listed, enabled>>

\* Is the daemon still there?  The bound, and the allocation of a page, which
\* may fail.
NewPage(c) ==
    /\ cpu[c].pc = "new"
    /\ \/ /\ enabled /\ cnt < MaxPages
          /\ \E p \in Pages \ heap :
               /\ heap' = heap \cup {p}
               /\ next' = [h \in Headers |-> IF h[1] = p THEN Junk ELSE next[h]]
               /\ cpu' = [cpu EXCEPT ![c].pc = "count", ![c].page = p]
       \/ Goto(c, "pop") /\ UNCHANGED <<heap, next>>
    /\ UNCHANGED <<freelist, table, cnt, listed, enabled>>

\* mcdctl_pages_cnt++ is a load and a store.
Count(c) ==
    /\ cpu[c].pc = "count"
    /\ cpu' = [cpu EXCEPT ![c].pc = "enter", ![c].ix = cnt]
    /\ UNCHANGED <<memory, listed, enabled>>

\* A bug: the page is not entered.
EnterNothing(c) ==
    /\ cpu[c].pc = "enter"
    /\ cnt' = cpu[c].ix + 1
    /\ Goto(c, "publish")
    /\ UNCHANGED <<next, freelist, table, heap, listed, enabled>>

\* mcdctl_pages[..] = buf.  An index beyond the table overwrites something
\* else.
Enter(c) ==
    /\ cpu[c].pc = "enter"
    /\ cnt' = cpu[c].ix + 1
    /\ table' = [i \in DOMAIN table |-> IF i = cpu[c].ix THEN cpu[c].page ELSE table[i]]
    /\ Goto(c, "publish")
    /\ UNCHANGED <<next, freelist, heap, listed, enabled>>

\* freelist = buf, in the lock, before its headers are linked.
Publish(c) ==
    /\ cpu[c].pc = "publish"
    /\ freelist' = <<cpu[c].page, 1>>
    /\ Goto(c, "linking")
    /\ UNCHANGED <<next, table, cnt, heap, listed, enabled>>

\* mch = freelist, outside the lock: by then it may be another header, or
\* none at all.
Linking(c) ==
    /\ cpu[c].pc = "linking"
    /\ cpu' = [cpu EXCEPT ![c].mch = freelist,
                          ![c].pc = IF freelist \in Headers THEN "link" ELSE "fault"]
    /\ UNCHANGED <<memory, listed, enabled>>

\* A bug: the last header of the page is left out.
LinkShort(c) ==
    LET h == cpu[c].mch  n == <<h[1], h[2] + 1>> IN
    /\ cpu[c].pc = "link"
    /\ IF h[2] >= PerPage - 1
       THEN next' = [next EXCEPT ![h] = Null] /\ Goto(c, "pop")
       ELSE /\ next' = [next EXCEPT ![h] = n, ![n] = Null]
            /\ cpu' = [cpu EXCEPT ![c].mch = n]
    /\ UNCHANGED <<freelist, table, cnt, heap, listed, enabled>>

\* One round of the loop `making linked-list'.  A start in the middle of a
\* page would run beyond it.
Link(c) ==
    LET h == cpu[c].mch  n == <<h[1], h[2] + 1>> IN
    /\ cpu[c].pc = "link"
    /\ IF h[2] >= PerPage
       THEN Goto(c, "pop") /\ UNCHANGED next
       ELSE /\ next' = [next EXCEPT ![h] = n, ![n] = Null]
            /\ cpu' = [cpu EXCEPT ![c].mch = n]
    /\ UNCHANGED <<freelist, table, cnt, heap, listed, enabled>>

\* The first header of the freelist, in the lock.  create_mcdctl_hashT writes
\* to the header without looking whether there is one.
Pop(c) ==
    /\ cpu[c].pc = "pop"
    /\ IF freelist \in Headers
       THEN /\ cpu' = [cpu EXCEPT ![c].pc = "list", ![c].mch = freelist]
            /\ freelist' = next[freelist]
       ELSE Goto(c, "fault") /\ UNCHANGED freelist
    /\ UNCHANGED <<next, table, cnt, heap, listed, enabled>>

\* list_add_tail in mcd_page_out.
List(c) ==
    /\ cpu[c].pc = "list"
    /\ listed' = listed \cup {cpu[c].mch}
    /\ cpu' = [cpu EXCEPT ![c] = Idle]
    /\ UNCHANGED <<memory, enabled>>

---------------------------------------------------------------------------
(* Giving headers and pages back.                                           *)

\* mcdctl_free of the headers H, one after the other: what follows each, and
\* the one that was freed last.
Pushed(H, order) ==
    [h \in Headers |->
       IF h \notin H THEN next[h]
       ELSE LET n == {g \in H : order[g] = order[h] - 1}
            IN IF n = {} THEN freelist ELSE CHOOSE g \in n : TRUE]
LastOf(H, order) ==
    IF H = {} THEN {freelist} ELSE {h \in H : \A g \in H : order[g] <= order[h]}

\* A bug: the mini-header is freed and stays in its list.
FreeOneListed(c) ==
    /\ cpu[c].pc = "idle" /\ enabled
    /\ \E h \in listed :
         /\ next' = [next EXCEPT ![h] = freelist]
         /\ freelist' = h
    /\ UNCHANGED <<table, cnt, heap, listed, enabled, cpu>>

\* A get, a put or a remove frees the mini-header of its key.
FreeOne(c) ==
    /\ cpu[c].pc = "idle" /\ enabled
    /\ \E h \in listed :
         /\ listed' = listed \ {h}
         /\ next' = [next EXCEPT ![h] = freelist]
         /\ freelist' = h
    /\ UNCHANGED <<table, cnt, heap, enabled, cpu>>

\* mcdctl_flush: while the daemon serves, the listed headers go back to the
\* freelist, in the order of the lists; else the lists are merely emptied.
Flush(c) ==
    /\ cpu[c].pc = "idle"
    /\ listed' = {}
    /\ IF enabled
       THEN \E order \in {o \in [listed -> 1..Cardinality(listed)] :
                            \A g, h \in listed : o[g] = o[h] => g = h} :
              next' = Pushed(listed, order) /\ freelist' \in LastOf(listed, order)
       ELSE UNCHANGED <<next, freelist>>
    /\ Goto(c, "exit")
    /\ UNCHANGED <<table, cnt, heap, enabled>>

\* MCD_EVENT_OP_DISABLE: exit_mcdctl, with mcdctl_enabled still set; the lists
\* stay as they are.
Disable(c) ==
    /\ cpu[c].pc = "idle" /\ enabled
    /\ cpu' = [cpu EXCEPT ![c].pc = "exit", ![c].stop = TRUE]
    /\ UNCHANGED <<memory, listed, enabled>>

\* A bug: exit_mcdctl forgets the freelist.
ExitKeepsFreelist(c) ==
    /\ cpu[c].pc = "exit"
    /\ heap' = heap \ {table[i] : i \in {i \in DOMAIN table : i < cnt}}
    /\ table' = [i \in DOMAIN table |-> IF i < cnt THEN Null ELSE table[i]]
    /\ next' = [h \in Headers |-> IF h[1] \in heap' THEN next[h] ELSE Junk]
    /\ Goto(c, "zero")
    /\ UNCHANGED <<freelist, cnt, listed, enabled>>

\* exit_mcdctl: the pages of the table are freed, and the freelist is empty.
Exit(c) ==
    /\ cpu[c].pc = "exit"
    /\ heap' = heap \ {table[i] : i \in {i \in DOMAIN table : i < cnt}}
    /\ table' = [i \in DOMAIN table |-> IF i < cnt THEN Null ELSE table[i]]
    /\ next' = [h \in Headers |-> IF h[1] \in heap' THEN next[h] ELSE Junk]
    /\ freelist' = Null
    /\ Goto(c, "zero")
    /\ UNCHANGED <<cnt, listed, enabled>>

\* mcdctl_pages_cnt = 0.
Zero(c) ==
    /\ cpu[c].pc = "zero"
    /\ cnt' = 0
    /\ IF cpu[c].stop THEN Goto(c, "off") ELSE cpu' = [cpu EXCEPT ![c] = Idle]
    /\ UNCHANGED <<next, freelist, table, heap, listed, enabled>>

\* mcdctl_enabled = 0, after mcd_event_disable.
Off(c) ==
    /\ cpu[c].pc = "off"
    /\ enabled' = FALSE
    /\ cpu' = [cpu EXCEPT ![c] = Idle]
    /\ UNCHANGED <<memory, listed>>

\* MCD_EVENT_OP_ENABLE: mcdctl_start.
Enable(c) ==
    /\ cpu[c].pc = "idle" /\ ~enabled
    /\ enabled' = TRUE /\ listed' = {}
    /\ freelist' = Null /\ cnt' = 0
    /\ UNCHANGED <<next, table, heap, cpu>>

---------------------------------------------------------------------------

Init ==
    /\ next = [h \in Headers |-> Junk] /\ freelist = Null
    /\ table = [i \in 0..(MaxPages - 1) |-> Null] /\ cnt = 0
    /\ heap = {} /\ listed = {} /\ enabled = TRUE
    /\ cpu = [c \in Cpus |-> Idle] /\ raced = FALSE

Step(c) ==
    \/ Malloc(c) \/ Test(c) \/ NewPage(c) \/ Count(c) \/ Enter(c) \/ Publish(c)
    \/ Linking(c) \/ Link(c) \/ Pop(c) \/ List(c)
    \/ FreeOne(c) \/ Flush(c) \/ Disable(c) \/ Exit(c) \/ Zero(c) \/ Off(c)
    \/ Enable(c)

Next == \E c \in Cpus : Step(c) /\ raced' = (raced \/ Meets(c))

Spec == Init /\ [][Next]_vars

---------------------------------------------------------------------------
(* Properties.                                                              *)

\* The freelist and the links lead to headers, if anywhere; the counter stays
\* within mcdctl_pages.
TypeOK ==
    /\ next \in [Headers -> Headers \cup {Null, Junk}]
    /\ freelist \in Headers \cup {Null, Junk}
    /\ table \in [0..(MaxPages - 1) -> Pages \cup {Null}]
    /\ cnt \in Nat /\ (~raced => cnt <= MaxPages)
    /\ heap \subseteq Pages /\ listed \subseteq Headers
    /\ enabled \in BOOLEAN /\ raced \in BOOLEAN

\* A header is free or in use, and never both: what mcdctl_malloc hands out
\* belongs to no other entry, and the freelist has no header twice.
FreeOrUsed == ~raced /\ enabled => Free \cap (listed \cup InHand) = {}

\* While the daemon serves and no CPU is linking a new page, the freelist
\* leads only to headers of allocated pages that were linked.
FreelistSound ==
    ~raced /\ enabled /\ (\A c \in Cpus : cpu[c].pc \notin {"linking", "link"}) =>
      \A h \in Reached : h = Null \/ (h \in Headers /\ h[1] \in heap)

\* No header is lost: those of the allocated pages are free or in use.
NoneLost ==
    ~raced /\ enabled /\ Quiet =>
      \A p \in heap : {p} \X (1..PerPage) \subseteq Free \cup listed

\* Every page that mcdctl_new_malloc fetched is in mcdctl_pages, where
\* exit_mcdctl finds it (`XXX needed for flush').
PagesEntered ==
    ~raced /\ Quiet => heap = {table[i] : i \in {i \in DOMAIN table : i < cnt}}

---------------------------------------------------------------------------
(* An inductive invariant, see McdHeadersProofs.                            *)

Places == {"idle", "test", "pop", "list", "fault"} \cup Exclusive

Cpu == [pc : Places, page : Pages \cup {Null}, ix : Nat, mch : Pointers, stop : BOOLEAN]

Shape ==
    /\ cpu \in [Cpus -> Cpu]
    /\ \A c \in Cpus :
         /\ cpu[c].pc \in {"count", "enter", "publish"} => cpu[c].page \in Pages
         /\ cpu[c].pc \in {"link", "list"} => cpu[c].mch \in Headers

\* Whoever fetches or frees pages is alone, and without the daemon nobody
\* takes headers.
Apart ==
    /\ \A c, e \in Cpus : cpu[c].pc \in Exclusive /\ e # c => cpu[e].pc = "idle"
    /\ ~enabled => \A c \in Cpus : cpu[c].pc \in {"idle", "exit", "zero", "off"}

Entered == {table[i] : i \in {i \in DOMAIN table : i < cnt}}

\* The pages are in the table, but the one that is being fetched; it is not
\* linked yet.
Fetched ==
    /\ \A c \in Cpus :
         /\ cpu[c].pc \in {"count", "enter"} =>
              cnt < MaxPages /\ cpu[c].page \in heap /\ heap = Entered \cup {cpu[c].page}
         /\ cpu[c].pc = "enter" => cpu[c].ix = cnt
         /\ cpu[c].pc \in {"zero", "off"} => heap = {} /\ freelist = Null
         /\ cpu[c].pc = "off" => cnt = 0
         /\ cpu[c].pc \in {"new", "count", "enter", "publish"} => freelist = Null
         /\ cpu[c].pc \in {"count", "enter", "publish", "linking"} =>
              cpu[c].page \in heap /\ \A i \in 1..PerPage : next[<<cpu[c].page, i>>] = Junk
    /\ At({"count", "enter", "zero"}) = {} => heap = Entered
    /\ ~enabled /\ At({"exit"}) = {} => heap = {}

\* The headers 1..k of the page are linked, and are what the freelist leads to.
LinkedTo(p, k) ==
    /\ p \in heap /\ k \in 1..PerPage
    /\ freelist = <<p, 1>> /\ Free = {p} \X (1..k)
    /\ \A i \in 1..k : next[<<p, i>>] = IF i < k THEN <<p, i + 1>>
                                       ELSE IF k = 1 THEN Junk ELSE Null

\* The headers of the pages P are listed, or in the hands of a CPU, or of F.
SharedOut(P, F) ==
    /\ P \X (1..PerPage) = F \cup listed \cup InHand
    /\ F \cap (listed \cup InHand) = {} /\ listed \cap InHand = {}

\* The freelist is a list: it ends, and no header follows two others.
IsList ==
    /\ Junk \notin Reached
    /\ \A h \in Free : next[h] # freelist
    /\ \A g, h \in Free : next[g] = next[h] => g = h

Unpublished == {cpu[c].page : c \in At({"count", "enter", "publish"})}

\* While the pages are freed only a CPU that stops the daemon leaves headers in
\* the lists.
FreeHeaders ==
    /\ \A c, e \in At({"list"}) : cpu[c].mch = cpu[e].mch => c = e
    /\ At({"linking", "link", "exit", "zero", "off"}) = {} =>
         IsList /\ SharedOut(heap \ Unpublished, Free)
    /\ \A c \in At({"linking"}) :
         LinkedTo(cpu[c].page, 1) /\ SharedOut(heap \ {cpu[c].page}, {})
    /\ \A c \in At({"link"}) :
         LinkedTo(cpu[c].mch[1], cpu[c].mch[2]) /\ SharedOut(heap \ {cpu[c].mch[1]}, {})
    /\ \A c \in At({"exit", "zero", "off"}) :
         /\ Free \cap listed = {} /\ Reached \subseteq (heap \X (1..PerPage)) \cup {Null}
         /\ listed = {} \/ cpu[c].stop

\* Whatever CPUs take, free and flush headers: if nobody meets a CPU that
\* fetches or frees pages, the headers of all pages are shared out.
HeadersInv ==
    TypeOK /\ Shape /\ (~raced => Apart /\ Fetched /\ (enabled => FreeHeaders))
=============================================================================
