---------------------------- MODULE McdTransfer ----------------------------
(***************************************************************************)
(* Moving cache entries between the hypervisor and files: mcd_page_out and  *)
(* mcd_page_in (mcd.c), mcdctl_page_out, mcdctl_page_in and                 *)
(* mcd_event_resume (mcdctl.c), and the main loop of the daemon             *)
(* (tools/mcd/mcd.c).  An entry larger than the shared pages travels in     *)
(* parts.  The initiating CPU takes minf_put_lock (minf_get_lock), sends    *)
(* the first part and then spins on the same lock; the RESUME hypercall of  *)
(* the daemon sends the further parts and finally releases it.              *)
(*                                                                          *)
(* The ring is the pair of queues that McdRing implements; since the daemon *)
(* answers one request at a time the response is the daemon's own variable. *)
(* The shared pages are one array: every page but the last is used in full. *)
(***************************************************************************)
EXTENDS Integers, Sequences, FiniteSets

CONSTANTS
    Vcpus,          \* CPUs running guest vCPUs
    Cpus,           \* how many physical CPUs there are, the daemon's included
    Keys,           \* the entries, by hash, of one domain
    SizeOf,         \* key_size + val_size of each
    PageSize, MaxPages, Threshold,
    Plans           \* what happens: see TransferConstants

NoOne == "no one"
NoFile == <<>>      \* absent or empty
Junk == <<>>        \* memory nobody has written yet

\* A plan: the operations performed and a bound on their number, whether
\* open() may fail in the daemon, and the slots of the ring.
ASSUME TransferConstants ==
    /\ IsFiniteSet(Vcpus) /\ NoOne \notin Vcpus /\ Keys # {}
    /\ Cpus \in Nat \ {0} /\ PageSize \in Nat \ {0} /\ MaxPages \in Nat \ {0}
    /\ SizeOf \in [Keys -> Nat \ {0}]
    /\ \A p \in Plans :
         /\ p.ops \subseteq {"out", "in", "del", "add", "flush", "stop"}
         /\ p.max \in Nat /\ p.fails \in BOOLEAN
         /\ p.ring \in Nat /\ Threshold \in 1..p.ring

VARIABLES
    enabled,        \* mcdctl_enabled, and ring_page is mapped
    putLock, getLock,   \* minf_put_lock_v, minf_get_lock_v: who locked
    queue,          \* requests on the ring
    leaked,         \* ring slots lost to unanswered requests
    shared,         \* contents of the shared pages
    npages,         \* num_shared_page
    daemon,         \* where the daemon's main loop is
    rsp,            \* the response it is about to deliver
    files,          \* the file of each key
    orphan,         \* the file being written has been unlinked
    pc, job, buf,   \* per CPU: place, key, and key_val of the entry paged in
    stored,         \* keys that have a mini-header (mcdctl list)
    ver,            \* which value of the key is current
    ops, plan       \* the operations started so far; the plan

locks == <<putLock, getLock>>
disk == <<files, orphan>>
cpu == <<pc, job, buf>>
env == <<ops, plan>>
vars == <<enabled, locks, queue, leaked, shared, npages, daemon, rsp, disk,
          cpu, stored, ver, env>>

---------------------------------------------------------------------------
Value(k) == [i \in 1..SizeOf[k] |-> <<k, ver[k], i>>]

Capacity == npages * PageSize

Smaller(a, b) == IF a < b THEN a ELSE b

\* mcd_event_check_ring fails; n slots are taken besides the queue.
RingFull(n) == plan.ring - (Len(queue) + leaked + n) < Threshold

Answering == IF daemon = "resume" THEN 1 ELSE 0

\* The spinning CPUs stay in the hypervisor: the daemon needs another one.
DaemonRuns == Cardinality({v \in Vcpus : pc[v] # "idle"}) < Cpus

\* The array from with the cells of s written at 1..n.
Overwrite(from, s, n) == [i \in DOMAIN from |-> IF i <= n THEN s[i] ELSE from[i]]

Msg(type, v, k, flags) ==
    [type |-> type, key |-> k, from |-> v, flags |-> flags, acc |-> 0, cur |-> 0]

Sending == {"out_lock", "out_send", "out_wait"}

Places == Sending \cup {"idle", "in_lock", "in_send", "in_wait", "got", "flush", "fault"}

NoMsg == Msg("NONE", NoOne, CHOOSE k \in Keys : TRUE, {})

\* mcdctl_free does nothing while mcdctl is disabled.
Freed(k) == IF enabled THEN stored \ {k} ELSE stored

\* mcdctl_page_out after the ring check: the part that starts at acc.
OutPart(v, k, acc, new) ==
    LET left == SizeOf[k] - acc
        cur  == Smaller(left, Capacity)
    IN  [type |-> "PUT", key |-> k, from |-> v,
         flags |-> new \cup (IF left > PageSize THEN {"CONT"} ELSE {})
                       \cup (IF left <= Capacity THEN {"FINAL"} ELSE {}),
         acc |-> acc + cur, cur |-> cur]

\* mcdctl_page_in of the response m: the request for what comes after it.
InPart(m) ==
    [type |-> "GET", key |-> m.key, from |-> m.from, flags |-> {},
     acc |-> m.acc + m.cur, cur |-> 0]

OutPartCells(k, acc, n) == SubSeq(Value(k), acc + 1, acc + n)

---------------------------------------------------------------------------
Init ==
    /\ enabled = TRUE
    /\ putLock = NoOne /\ getLock = NoOne
    /\ queue = <<>> /\ leaked = 0
    /\ shared = [i \in 1..(MaxPages * PageSize) |-> Junk] /\ npages = 1
    /\ daemon = "poll" /\ rsp = NoMsg
    /\ files = [k \in Keys |-> NoFile] /\ orphan = FALSE
    /\ pc = [v \in Vcpus |-> "idle"]
    /\ job = [v \in Vcpus |-> CHOOSE k \in Keys : TRUE]
    /\ buf = [v \in Vcpus |-> <<>>]
    /\ stored = {} /\ ver = [k \in Keys |-> 0]
    /\ ops = 0 /\ plan \in Plans

\* Some operation of the environment begins.
Begin(op) ==
    op \in plan.ops /\ ops < plan.max /\ ops' = ops + 1 /\ UNCHANGED plan

Goto(v, place) == pc' = [pc EXCEPT ![v] = place]

\* mcd_page_out of an entry that eviction has unlinked from the cache.
OutStart(v, k) ==
    /\ Begin("out") /\ enabled /\ pc[v] = "idle"
    /\ k \notin stored /\ \A w \in Vcpus : pc[w] \in Sending => job[w] # k
    /\ Goto(v, "out_lock") /\ job' = [job EXCEPT ![v] = k]
    /\ UNCHANGED <<enabled, locks, queue, leaked, shared, npages, daemon, rsp,
                   disk, buf, stored, ver>>

OutLock(v) ==
    /\ pc[v] = "out_lock" /\ putLock = NoOne
    /\ putLock' = v /\ Goto(v, "out_send")
    /\ UNCHANGED <<enabled, getLock, queue, leaked, shared, npages, daemon, rsp,
                   disk, job, buf, stored, ver, env>>

\* Mutant: the lock is not given back when the ring is full.
OutSendKeepsLock(v) ==
    LET m == OutPart(v, job[v], 0, {"NEW"}) IN
    /\ pc[v] = "out_send"
    /\ IF ~enabled \/ RingFull(Answering)
         THEN Goto(v, "idle") /\ UNCHANGED <<queue, shared>>
         ELSE /\ shared' = Overwrite(shared, OutPartCells(job[v], 0, m.cur), m.cur)
              /\ queue' = Append(queue, m) /\ Goto(v, "out_wait")
    /\ UNCHANGED <<enabled, locks, leaked, npages, daemon, rsp, disk, job, buf,
                   stored, ver, env>>

\* minf_page_out, and mcdctl_page_out for the first part.
OutSend(v) ==
    LET m == OutPart(v, job[v], 0, {"NEW"}) IN
    /\ pc[v] = "out_send"
    /\ IF ~enabled \/ RingFull(Answering)
         THEN /\ putLock' = NoOne /\ Goto(v, "idle")
              /\ UNCHANGED <<queue, shared>>
         ELSE /\ shared' = Overwrite(shared, OutPartCells(job[v], 0, m.cur), m.cur)
              /\ queue' = Append(queue, m)
              /\ Goto(v, "out_wait") /\ UNCHANGED putLock
    /\ UNCHANGED <<enabled, getLock, leaked, npages, daemon, rsp, disk, job, buf,
                   stored, ver, env>>

\* Mutant: the mini-header is listed without waiting for the transfer.
OutWaitBlindly(v) ==
    /\ pc[v] = "out_wait"
    /\ IF enabled THEN stored' = stored \cup {job[v]} /\ Goto(v, "idle")
                  ELSE Goto(v, "fault") /\ UNCHANGED stored
    /\ UNCHANGED <<enabled, locks, queue, leaked, shared, npages, daemon, rsp,
                   disk, job, buf, ver, env>>

\* The second minf_put_lock() succeeds; the mini-header is listed.  Once
\* mcdctl is disabled mcdctl_malloc returns NULL, which is then written to.
OutWait(v) ==
    /\ pc[v] = "out_wait" /\ putLock = NoOne
    /\ IF enabled THEN stored' = stored \cup {job[v]} /\ Goto(v, "idle")
                  ELSE Goto(v, "fault") /\ UNCHANGED stored
    /\ UNCHANGED <<enabled, locks, queue, leaked, shared, npages, daemon, rsp,
                   disk, job, buf, ver, env>>

\* mcd_page_in of a key that has a mini-header; create_mcd_hashT leaves the
\* buffer uninitialised.
InStart(v, k) ==
    /\ Begin("in") /\ enabled /\ pc[v] = "idle" /\ k \in stored
    /\ Goto(v, "in_lock") /\ job' = [job EXCEPT ![v] = k]
    /\ buf' = [buf EXCEPT ![v] = [i \in 1..SizeOf[k] |-> Junk]]
    /\ UNCHANGED <<enabled, locks, queue, leaked, shared, npages, daemon, rsp,
                   disk, stored, ver>>

InLock(v) ==
    /\ pc[v] = "in_lock" /\ getLock = NoOne
    /\ getLock' = v /\ Goto(v, "in_send")
    /\ UNCHANGED <<enabled, putLock, queue, leaked, shared, npages, daemon, rsp,
                   disk, job, buf, stored, ver, env>>

\* minf_page_in; when it fails mcd_page_in goes on all the same.
InSend(v) ==
    /\ pc[v] = "in_send"
    /\ IF ~enabled \/ RingFull(Answering)
         THEN /\ getLock' = NoOne /\ Goto(v, "got")
              /\ stored' = Freed(job[v]) /\ UNCHANGED queue
         ELSE /\ queue' = Append(queue, Msg("GET", v, job[v], {"NEW"}))
              /\ Goto(v, "in_wait") /\ UNCHANGED <<getLock, stored>>
    /\ UNCHANGED <<enabled, putLock, leaked, shared, npages, daemon, rsp, disk,
                   job, buf, ver, env>>

\* The second minf_get_lock() succeeds; the mini-header is freed.
InWait(v) ==
    /\ pc[v] = "in_wait" /\ getLock = NoOne
    /\ stored' = Freed(job[v]) /\ Goto(v, "got")
    /\ UNCHANGED <<enabled, locks, queue, leaked, shared, npages, daemon, rsp,
                   disk, job, buf, ver, env>>

\* The entry goes into the cache and its value to the guest.
InReturn(v) ==
    /\ pc[v] = "got" /\ Goto(v, "idle") /\ buf' = [buf EXCEPT ![v] = <<>>]
    /\ UNCHANGED <<enabled, locks, queue, leaked, shared, npages, daemon, rsp,
                   disk, job, stored, ver, env>>

\* A put or a remove finds the mini-header: minf_page_del, mcdctl_free.  The
\* next value of the key is another one.
Del(v, k) ==
    /\ Begin("del") /\ enabled /\ pc[v] = "idle" /\ k \in stored
    /\ stored' = stored \ {k} /\ ver' = [ver EXCEPT ![k] = 1 - @]
    /\ queue' = IF RingFull(Answering) THEN queue
                ELSE Append(queue, Msg("DEL", v, k, {}))
    /\ UNCHANGED <<enabled, locks, leaked, shared, npages, daemon, rsp, disk, cpu>>

\* mcdctl_dom_flush: the list is emptied under its lock ...
FlushList(v) ==
    /\ Begin("flush") /\ pc[v] = "idle"
    /\ stored' = {} /\ Goto(v, "flush")
    /\ UNCHANGED <<enabled, locks, queue, leaked, shared, npages, daemon, rsp,
                   disk, job, buf, ver>>

\* ... and only then the daemon is told.
FlushSend(v) ==
    /\ pc[v] = "flush" /\ Goto(v, "idle")
    /\ queue' = IF ~enabled \/ RingFull(Answering) THEN queue
                ELSE Append(queue, Msg("DOM_FLUSH", v, job[v], {}))
    /\ UNCHANGED <<enabled, locks, leaked, shared, npages, daemon, rsp, disk, job,
                   buf, stored, ver, env>>

\* increase_shared_page(1).
AddSharedPage(v) ==
    /\ Begin("add") /\ pc[v] = "idle"
    /\ queue' = IF ~enabled \/ RingFull(Answering) THEN queue
                ELSE Append(queue, Msg("ADD_SHARED_PAGE", v, job[v], {}))
    /\ UNCHANGED <<enabled, locks, leaked, shared, npages, daemon, rsp, disk, cpu,
                   stored, ver>>

---------------------------------------------------------------------------
(* The daemon: one turn of the inner loop of main up to mcd_resume_page.    *)

Request(type) ==
    /\ DaemonRuns /\ daemon = "poll" /\ queue # <<>> /\ Head(queue).type = type
    /\ queue' = Tail(queue)

\* The request, slightly changed, becomes the response.
Respond(m, flags, cur) ==
    /\ daemon' = "resume"
    /\ rsp' = [type |-> m.type, key |-> m.key, from |-> m.from,
               flags |-> flags \ {"NEW"}, acc |-> m.acc, cur |-> cur]

\* Mutant: opening does not truncate the file.
ServePutAppends ==
    LET m == Head(queue) IN
    /\ Request("PUT")
    /\ Respond(m, m.flags, 0)
    /\ files' = [files EXCEPT ![m.key] = @ \o SubSeq(shared, 1, m.cur)]
    /\ UNCHANGED <<enabled, locks, leaked, shared, npages, orphan, cpu, stored,
                   ver, env>>

ServePut ==
    LET m   == Head(queue)
        new == "NEW" \in m.flags
        old == IF new THEN <<>> ELSE files[m.key]
    IN
    /\ Request("PUT")
    /\ \/ /\ Respond(m, m.flags, 0)
          /\ files' = IF orphan /\ ~new THEN files
                      ELSE [files EXCEPT ![m.key] = old \o SubSeq(shared, 1, m.cur)]
          /\ orphan' = (orphan /\ ~new)
       \/ /\ plan.fails /\ new
          /\ Respond(m, m.flags \cup {"ERROR"}, m.cur)
          /\ UNCHANGED disk
    /\ UNCHANGED <<enabled, locks, leaked, shared, npages, cpu, stored, ver, env>>

\* Mutant: opening for a page-in keeps what was paged out.
ServeGetReads ==
    LET m     == Head(queue)
        file  == files[m.key]
        left  == SizeOf[m.key] - m.acc
        cur   == Smaller(left, Capacity)
    IN
    /\ Request("GET")
    /\ shared' = [i \in DOMAIN shared |->
                    IF i <= cur /\ m.acc + i <= Len(file)
                      THEN file[m.acc + i] ELSE shared[i]]
    /\ Respond(m, IF left <= Capacity THEN {"FINAL"} ELSE {"CONT"}, cur)
    /\ UNCHANGED <<enabled, locks, leaked, npages, disk, cpu, stored, ver, env>>

\* open() truncates; a continuation reads from accsize + 1; bytes beyond the
\* end of the file leave the page as it was.
ServeGet ==
    LET m     == Head(queue)
        new   == "NEW" \in m.flags
        file  == IF new THEN <<>> ELSE files[m.key]
        left  == SizeOf[m.key] - m.acc
        cur   == Smaller(left, Capacity)
        start == IF m.acc = 0 THEN 0 ELSE m.acc + 1
        final == left <= Capacity
    IN
    /\ Request("GET")
    /\ \/ /\ shared' = [i \in DOMAIN shared |->
                          IF i <= cur /\ start + i <= Len(file)
                            THEN file[start + i] ELSE shared[i]]
          /\ files' = [files EXCEPT ![m.key] = IF final THEN NoFile ELSE file]
          /\ Respond(m, m.flags \cup (IF left >= PageSize THEN {"CONT"} ELSE {})
                               \cup (IF final THEN {"FINAL"} ELSE {}), cur)
          /\ UNCHANGED orphan
       \/ /\ plan.fails /\ new
          /\ Respond(m, m.flags \cup {"ERROR"}, m.cur)
          /\ UNCHANGED <<shared, disk>>
    /\ UNCHANGED <<enabled, locks, leaked, npages, cpu, stored, ver, env>>

\* Unlinking a file that is being written does not stop the writer.
ServeDel ==
    LET m == Head(queue) IN
    /\ Request("DEL")
    /\ files' = [files EXCEPT ![m.key] = NoFile]
    /\ Respond(m, {"END"}, 0)
    /\ UNCHANGED <<enabled, locks, leaked, shared, npages, orphan, cpu, stored,
                   ver, env>>

ServeDomFlush ==
    /\ Request("DOM_FLUSH")
    /\ files' = [k \in Keys |-> NoFile] /\ orphan' = TRUE
    /\ Respond(Head(queue), {"END"}, 0)
    /\ UNCHANGED <<enabled, locks, leaked, shared, npages, cpu, stored, ver, env>>

\* resume_need = false: the slot of the request is not given back.
ServeAddSharedPage ==
    /\ Request("ADD_SHARED_PAGE")
    /\ npages' = Smaller(npages + 1, MaxPages) /\ leaked' = leaked + 1
    /\ UNCHANGED <<enabled, locks, shared, daemon, rsp, disk, cpu, stored, ver, env>>

---------------------------------------------------------------------------
(* mcd_event_resume, in the hypercall of the daemon.                        *)

Resuming == DaemonRuns /\ daemon = "resume" /\ daemon' = "poll" /\ rsp' = NoMsg

\* The label "final".
Unlock(type) ==
    /\ putLock' = IF type = "PUT" THEN NoOne ELSE putLock
    /\ getLock' = IF type = "GET" THEN NoOne ELSE getLock

ResumeError ==
    /\ Resuming /\ "ERROR" \in rsp.flags
    /\ Unlock(rsp.type)
    /\ UNCHANGED <<enabled, queue, leaked, shared, npages, disk, cpu, stored, ver, env>>

ResumeEnd ==
    /\ Resuming /\ "END" \in rsp.flags
    /\ UNCHANGED <<enabled, locks, queue, leaked, shared, npages, disk, cpu, stored,
                   ver, env>>

\* mcdctl_page_in of a response.
ResumeGet ==
    LET v == rsp.from IN
    /\ Resuming /\ rsp.type = "GET" /\ "ERROR" \notin rsp.flags
    /\ buf' = IF RingFull(0) THEN buf
              ELSE [buf EXCEPT ![v] = [i \in DOMAIN @ |->
                      IF i \in (rsp.acc + 1)..(rsp.acc + rsp.cur)
                        THEN shared[i - rsp.acc] ELSE @[i]]]
    /\ IF RingFull(0) \/ "FINAL" \in rsp.flags
         THEN Unlock("GET") /\ UNCHANGED queue
         ELSE /\ queue' = Append(queue, InPart(rsp))
              /\ UNCHANGED locks
    /\ UNCHANGED <<enabled, leaked, shared, npages, disk, pc, job, stored, ver, env>>

\* mcdctl_page_out of the next part.
ResumePut ==
    LET m == OutPart(rsp.from, rsp.key, rsp.acc, {}) IN
    /\ Resuming /\ rsp.type = "PUT" /\ "ERROR" \notin rsp.flags
    /\ IF RingFull(0) \/ "FINAL" \in rsp.flags
         THEN Unlock("PUT") /\ UNCHANGED <<queue, shared>>
         ELSE /\ shared' = Overwrite(shared, OutPartCells(m.key, rsp.acc, m.cur), m.cur)
              /\ queue' = Append(queue, m)
              /\ UNCHANGED locks
    /\ UNCHANGED <<enabled, leaked, npages, disk, cpu, stored, ver, env>>

---------------------------------------------------------------------------
(* The daemon comes and goes.                                               *)

\* A signal is noticed only when the ring has been drained.
Interrupted ==
    /\ Begin("stop") /\ DaemonRuns /\ daemon = "poll" /\ queue = <<>>
    /\ daemon' = "closing"
    /\ UNCHANGED <<enabled, locks, queue, leaked, shared, npages, rsp, disk, cpu,
                   stored, ver>>

\* mcd_teardown: MCD_EVENT_OP_DISABLE, then del_dir(root).
Disable ==
    /\ DaemonRuns /\ daemon = "closing" /\ daemon' = "off"
    /\ enabled' = FALSE /\ queue' = <<>>
    /\ files' = [k \in Keys |-> NoFile] /\ orphan' = TRUE
    /\ UNCHANGED <<locks, leaked, shared, npages, rsp, cpu, stored, ver, env>>

\* Mutant: the locks are not initialised again.
EnableKeepsLocks ==
    /\ DaemonRuns /\ daemon = "off" /\ daemon' = "poll"
    /\ enabled' = TRUE /\ npages' = 1 /\ leaked' = 0 /\ stored' \in {{}, stored}
    /\ UNCHANGED <<locks, queue, shared, rsp, disk, cpu, ver, env>>

\* mcd_init: MCD_EVENT_OP_ENABLE, whose mcdctl_start empties the shared lists
\* and initialises both locks.  The list of a domain stays as it is.
Enable ==
    /\ DaemonRuns /\ daemon = "off" /\ daemon' = "poll"
    /\ enabled' = TRUE /\ npages' = 1 /\ leaked' = 0
    /\ putLock' = NoOne /\ getLock' = NoOne /\ stored' \in {{}, stored}
    /\ UNCHANGED <<queue, shared, rsp, disk, cpu, ver, env>>

---------------------------------------------------------------------------
DaemonStep ==
    \/ ServePut \/ ServeGet \/ ServeDel \/ ServeDomFlush \/ ServeAddSharedPage
    \/ ResumeError \/ ResumeEnd \/ ResumeGet \/ ResumePut \/ Disable

CpuStep(v) ==
    \/ OutLock(v) \/ OutSend(v) \/ OutWait(v)
    \/ InLock(v) \/ InSend(v) \/ InWait(v) \/ InReturn(v) \/ FlushSend(v)

Environment(v) ==
    \/ \E k \in Keys : OutStart(v, k) \/ InStart(v, k) \/ Del(v, k)
    \/ FlushList(v) \/ AddSharedPage(v)

Next ==
    \/ DaemonStep \/ Interrupted \/ Enable
    \/ \E v \in Vcpus : CpuStep(v) \/ Environment(v)

Spec == Init /\ [][Next]_vars

\* The scheduler of Xen runs every vCPU, the daemon's included, in the end.
FairSpec == Spec /\ WF_vars(DaemonStep) /\ \A v \in Vcpus : WF_vars(CpuStep(v))

\* ... and somebody starts the daemon again.
RestartSpec == FairSpec /\ WF_vars(Enable)

---------------------------------------------------------------------------
\* Every variable has the type its C declaration and its use give it; the
\* progress of a transfer stays within the entry and the shared pages.
TypeOK ==
    /\ enabled \in BOOLEAN /\ orphan \in BOOLEAN
    /\ putLock \in Vcpus \cup {NoOne} /\ getLock \in Vcpus \cup {NoOne}
    /\ leaked \in Nat /\ npages \in 1..MaxPages /\ ops \in 0..plan.max /\ plan \in Plans
    /\ daemon \in {"poll", "resume", "closing", "off"}
    /\ \A m \in {queue[i] : i \in DOMAIN queue} \cup {rsp} :
         /\ m.type \in {"PUT", "GET", "DEL", "DOM_FLUSH", "ADD_SHARED_PAGE", "NONE"}
         /\ m.key \in Keys /\ m.from \in Vcpus \cup {NoOne}
         /\ m.flags \subseteq {"NEW", "CONT", "FINAL", "END", "ERROR"}
         /\ m.acc \in 0..SizeOf[m.key] /\ m.cur \in 0..(MaxPages * PageSize)
    /\ pc \in [Vcpus -> Places]
    /\ job \in [Vcpus -> Keys] /\ stored \subseteq Keys /\ ver \in [Keys -> {0, 1}]
    /\ \A k \in Keys : Len(files[k]) <= SizeOf[k]
    /\ \A v \in Vcpus : Len(buf[v]) \in {0, SizeOf[job[v]]}

Flying(type) == {i \in DOMAIN queue : queue[i].type = type}

Returning(type) == daemon = "resume" /\ rsp.type = type

\* What one of the two locks stands for: its holder is about to send, or is
\* waiting for exactly one message of its own, on the ring or being answered.
Discipline(type, lock, send, wait) ==
    /\ lock # NoOne => pc[lock] \in {send, wait}
    /\ \A v \in Vcpus : pc[v] = send => lock = v
    /\ \A i, j \in Flying(type) : i = j
    /\ Returning(type) => Flying(type) = {}
    /\ \A i \in Flying(type) :
         lock # NoOne /\ pc[lock] = wait /\ queue[i].from = lock
    /\ Returning(type) => lock # NoOne /\ pc[lock] = wait /\ rsp.from = lock
    /\ lock # NoOne /\ pc[lock] = wait => Flying(type) # {} \/ Returning(type)

\* minf_put_lock and minf_get_lock, taken by one CPU and released by the RESUME
\* hypercall of another, are neither lost nor released twice: a lock is held
\* exactly while its holder has one transfer of that direction under way.
LockDiscipline ==
    /\ Discipline("PUT", putLock, "out_send", "out_wait")
    /\ Discipline("GET", getLock, "in_send", "in_wait")

Message == [type : {"PUT", "GET", "DEL", "DOM_FLUSH", "ADD_SHARED_PAGE", "NONE"},
            key : Keys, from : Vcpus \cup {NoOne},
            flags : SUBSET {"NEW", "CONT", "FINAL", "END", "ERROR"},
            acc : Int, cur : Int]

\* The inductive form of LockDiscipline, while nobody stops the daemon: besides
\* the types it says that the daemon never marks a page-out or a page-in END,
\* which mcd_event_resume would take as a reason not to release the lock.
LockInv ==
    /\ enabled /\ daemon \in {"poll", "resume"}
    /\ queue \in Seq(Message) /\ rsp \in Message /\ npages \in Nat
    /\ putLock \in Vcpus \cup {NoOne} /\ getLock \in Vcpus \cup {NoOne}
    /\ pc \in [Vcpus -> Places] /\ job \in [Vcpus -> Keys]
    /\ \A i \in DOMAIN queue : "END" \notin queue[i].flags
    /\ rsp.type \in {"PUT", "GET"} => "END" \notin rsp.flags
    /\ LockDiscipline

\* The part of an entry described by a PUT request on the ring is still in the
\* shared pages when the daemon comes to write it, although page-outs and
\* page-ins use the same pages under different locks.
PartIntact ==
    \A i \in Flying("PUT") :
      LET m == queue[i] IN
      SubSeq(shared, 1, m.cur) = OutPartCells(m.key, m.acc - m.cur, m.cur)

\* An operation has at most one slot of the ring at a time: with so many slots
\* mcd_event_check_ring never fails.
RingAmple == plan.ring >= plan.max - 1 + Threshold

\* With page-outs, deletes and new shared pages, files that can be opened and
\* a ring that never fills, a key with a mini-header has the whole of its
\* current value in its file: no part lost, repeated, out of order or of
\* another entry.
StoredIsWhole ==
    plan.ops \subseteq {"out", "del", "add"} /\ ~plan.fails /\ RingAmple =>
      \A k \in stored : files[k] = Value(k)

\* An entry paged in is the entry that was paged out.
PagedInWhole == \A v \in Vcpus : pc[v] = "got" => buf[v] = Value(job[v])

\* A CPU that pages an entry out or in, or flushes, is eventually done.
TransfersEnd == \A v \in Vcpus : pc[v] # "idle" ~> pc[v] = "idle"

\* Starting the daemon again releases the CPUs that its shutdown left spinning,
\* since mcdctl_start initialises the locks anew (some then fault, see OutWait).
RestartReleases == \A v \in Vcpus : pc[v] # "idle" ~> pc[v] \in {"idle", "fault"}
============================================================================
