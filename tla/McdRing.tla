------------------------------ MODULE McdRing ------------------------------
(***************************************************************************)
(* The shared ring between the hypervisor (front end, mcdctl.c) and the mcd *)
(* daemon in dom0 (back end, tools/mcd/mcd.c), built from the macros of     *)
(* public/io/ring.h.  Any CPU may be inside mcdctl_page_*: it looks at the  *)
(* free slots under the ring lock, releases the lock, and pushes later.     *)
(* The daemon takes one request at a time, answers it in place and makes    *)
(* the RESUME hypercall, in which its own CPU may push the next part of a   *)
(* transfer.                                                                *)
(*                                                                          *)
(* req_prod stands for req_prod_pvt and sring->req_prod, rsp_prod for       *)
(* rsp_prod_pvt and sring->rsp_prod: each pair is written under one lock    *)
(* and equal whenever the lock is free.  RING_IDX arithmetic is modulo      *)
(* IdxMod (2^32 in the code).                                               *)
(***************************************************************************)
EXTENDS Integers, Sequences, FiniteSets

CONSTANTS
    Vcpus,          \* CPUs that run guest vCPUs inside the hypervisor
    Daemon,         \* the CPU that runs the daemon
    Types,          \* the request types in use
    RingSize,       \* RING_SIZE, a power of two (64 in the code)
    IdxMod,         \* 2^32 in the code
    Threshold       \* MCD_EVENT_RING_THRESHOLD

\* Types whose response makes mcd_event_resume push a further request.
MultiPart == {"PUT", "GET"}

\* Types the daemon does not answer (resume_need = false).
NoReply == {"ADD_SHARED_PAGE"}

ASSUME RingConstants ==
    /\ Daemon \notin Vcpus
    /\ IsFiniteSet(Vcpus)
    /\ RingSize \in Nat \ {0}
    /\ IdxMod \in Nat
    /\ IdxMod >= 2 * RingSize
    /\ IdxMod % RingSize = 0
    /\ Threshold \in 1..RingSize

Cpus == Vcpus \cup {Daemon}

Request == [type : Types, from : Cpus]

NoEntry == [tag |-> "none"]

Entry == {NoEntry} \cup [tag : {"req", "rsp"}, msg : Request]

VARIABLES
    attached,       \* d->mcd_event.ring_page is mapped
    req_prod, req_cons, rsp_prod, rsp_cons,
    ring,           \* sring->ring: requests and responses share the slots
    pc,             \* where each CPU is
    req             \* the daemon's copy of the request it serves

indices == <<req_prod, req_cons, rsp_prod, rsp_cons>>
vars == <<attached, indices, ring, pc, req>>

---------------------------------------------------------------------------
\* Unsigned arithmetic on RING_IDX.
Inc(i) == IF i = IdxMod - 1 THEN 0 ELSE i + 1
Sub(a, b) == IF a >= b THEN a - b ELSE a - b + IdxMod

Slot(i) == i % RingSize

\* RING_FREE_REQUESTS; the code keeps it in an int, so it may be negative.
FreeRequests == RingSize - Sub(req_prod, rsp_cons)

\* RING_HAS_UNCONSUMED_REQUESTS
Unconsumed ==
    LET queued == Sub(req_prod, req_cons)
        room   == RingSize - Sub(req_cons, rsp_prod)
    IN  IF queued < room THEN queued ELSE room

Home(c) == IF c = Daemon THEN "drain" ELSE "idle"

---------------------------------------------------------------------------
Init ==
    /\ attached = FALSE
    /\ req_prod = 0 /\ req_cons = 0 /\ rsp_prod = 0 /\ rsp_cons = 0
    /\ ring = [i \in 0..RingSize-1 |-> NoEntry]
    /\ pc = [c \in Cpus |-> IF c = Daemon THEN "off" ELSE "idle"]
    /\ req = NoEntry

\* mcd_init, then the ENABLE operation: both ends of a fresh ring.  A ring
\* that is still mapped would answer EBUSY.
Enable ==
    /\ pc[Daemon] = "off"
    /\ ~attached
    /\ attached' = TRUE
    /\ req_prod' = 0 /\ req_cons' = 0 /\ rsp_prod' = 0 /\ rsp_cons' = 0
    /\ ring' = [i \in 0..RingSize-1 |-> NoEntry]
    /\ pc' = [pc EXCEPT ![Daemon] = "drain"]
    /\ UNCHANGED req

\* Mutant of CheckRing: only a full ring stops the caller.
CheckRingFull(c) ==
    /\ attached
    /\ pc[c] = IF c = Daemon THEN "resumed" ELSE "idle"
    /\ \/ /\ FreeRequests # 0
          /\ pc' = [pc EXCEPT ![c] = "checked"]
       \/ /\ c = Daemon
          /\ pc' = [pc EXCEPT ![c] = Home(c)]
    /\ UNCHANGED <<attached, indices, ring, req>>

\* mcd_event_check_ring: the caller goes on when it returns 0.  The last
\* part of a page-in checks the ring too, and then pushes nothing.
CheckRing(c) ==
    /\ attached
    /\ pc[c] = IF c = Daemon THEN "resumed" ELSE "idle"
    /\ \/ /\ FreeRequests >= Threshold
          /\ pc' = [pc EXCEPT ![c] = "checked"]
       \/ /\ c = Daemon
          /\ pc' = [pc EXCEPT ![c] = Home(c)]
    /\ UNCHANGED <<attached, indices, ring, req>>

\* mcd_event_put_request.  After a disable the write goes to a page that is
\* no longer the ring.
PutRequest(c) ==
    /\ pc[c] = "checked"
    /\ pc' = [pc EXCEPT ![c] = Home(c)]
    /\ \E t \in IF c = Daemon THEN Types \cap MultiPart ELSE Types :
         IF attached
         THEN /\ ring' = [ring EXCEPT ![Slot(req_prod)] =
                            [tag |-> "req", msg |-> [type |-> t, from |-> c]]]
              /\ req_prod' = Inc(req_prod)
         ELSE UNCHANGED <<ring, req_prod>>
    /\ UNCHANGED <<attached, req_cons, rsp_prod, rsp_cons, req>>

\* Mutant of GetRequest: the loop does not look whether a request is there.
GetRequestBlindly ==
    /\ pc[Daemon] = "drain"
    /\ req' = ring[Slot(req_cons)]
    /\ req_cons' = Inc(req_cons)
    /\ pc' = [pc EXCEPT ![Daemon] = "serve"]
    /\ UNCHANGED <<attached, req_prod, rsp_prod, rsp_cons, ring>>

\* get_request of the daemon
GetRequest ==
    /\ pc[Daemon] = "drain"
    /\ Unconsumed # 0
    /\ req' = ring[Slot(req_cons)]
    /\ req_cons' = Inc(req_cons)
    /\ pc' = [pc EXCEPT ![Daemon] = "serve"]
    /\ UNCHANGED <<attached, req_prod, rsp_prod, rsp_cons, ring>>

\* Mutant of PutResponse: the response goes where the next request lies.
PutResponseAtCons ==
    /\ pc[Daemon] = "serve"
    /\ req.msg.type \notin NoReply
    /\ ring' = [ring EXCEPT ![Slot(req_cons)] = [req EXCEPT !.tag = "rsp"]]
    /\ rsp_prod' = Inc(rsp_prod)
    /\ req' = NoEntry
    /\ pc' = [pc EXCEPT ![Daemon] = "answered"]
    /\ UNCHANGED <<attached, req_prod, req_cons, rsp_cons>>

\* The daemon reuses the request as the response.
PutResponse ==
    /\ pc[Daemon] = "serve"
    /\ req.msg.type \notin NoReply
    /\ ring' = [ring EXCEPT ![Slot(rsp_prod)] = [req EXCEPT !.tag = "rsp"]]
    /\ rsp_prod' = Inc(rsp_prod)
    /\ req' = NoEntry
    /\ pc' = [pc EXCEPT ![Daemon] = "answered"]
    /\ UNCHANGED <<attached, req_prod, req_cons, rsp_cons>>

\* ADD_SHARED_PAGE is served and dropped: resume_need is false.
SkipResponse ==
    /\ pc[Daemon] = "serve"
    /\ req.msg.type \in NoReply
    /\ req' = NoEntry
    /\ pc' = [pc EXCEPT ![Daemon] = "drain"]
    /\ UNCHANGED <<attached, indices, ring>>

\* mcd_event_get_response in the RESUME hypercall; PUT and GET may continue
\* with a further request, every other type (and an ERROR) ends here.
GetResponse ==
    /\ pc[Daemon] = "answered"
    /\ rsp_cons' = Inc(rsp_cons)
    /\ \E next \in IF ring[Slot(rsp_cons)].msg.type \in MultiPart
                   THEN {"resumed", "drain"} ELSE {"drain"} :
          pc' = [pc EXCEPT ![Daemon] = next]
    /\ UNCHANGED <<attached, req_prod, req_cons, rsp_prod, ring, req>>

\* A signal: the outer loop ends once the ring has been seen empty.
Interrupted ==
    /\ pc[Daemon] = "drain"
    /\ Unconsumed = 0
    /\ pc' = [pc EXCEPT ![Daemon] = "closing"]
    /\ UNCHANGED <<attached, indices, ring, req>>

\* mcd_teardown: the DISABLE operation unmaps the ring page.
Disable ==
    /\ pc[Daemon] = "closing"
    /\ attached' = FALSE
    /\ pc' = [pc EXCEPT ![Daemon] = "off"]
    /\ UNCHANGED <<indices, ring, req>>

Next ==
    \/ Enable
    \/ \E c \in Cpus : CheckRing(c) \/ PutRequest(c)
    \/ GetRequest \/ PutResponse \/ SkipResponse \/ GetResponse
    \/ Interrupted \/ Disable

Spec == Init /\ [][Next]_vars

---------------------------------------------------------------------------
DaemonPlaces == {"off", "drain", "serve", "answered", "resumed", "checked",
                 "closing"}
Places == DaemonPlaces \cup {"idle"}

\* Every variable has the shape the code gives it.
TypeOK ==
    /\ attached \in BOOLEAN
    /\ req_prod \in 0..IdxMod-1 /\ req_cons \in 0..IdxMod-1
    /\ rsp_prod \in 0..IdxMod-1 /\ rsp_cons \in 0..IdxMod-1
    /\ ring \in [0..RingSize-1 -> Entry]
    /\ pc \in [Cpus -> Places]
    /\ req \in Entry

\* CPUs that mcd_event_check_ring let through and that have not pushed yet.
Checked == {c \in Cpus : pc[c] = "checked"}

\* A push never lands on a slot still in use, although check and push are
\* two critical sections: at most RingSize requests are outstanding.  It needs
\* no more CPUs than MCD_EVENT_RING_THRESHOLD.
NoOverrun == attached => Sub(req_prod, rsp_cons) <= RingSize

\* What makes it so: the threshold leaves a slot for every CPU between its
\* check and its push.
SlotReserve ==
    attached => FreeRequests + Cardinality(Cpus) >= Cardinality(Checked) + Threshold

\* The indices chase one another in the order the protocol says: a response
\* is accepted after it is produced, produced after its request is consumed.
IndexOrder ==
    attached =>
      /\ Sub(rsp_prod, rsp_cons) <= Sub(req_cons, rsp_cons)
      /\ Sub(req_cons, rsp_cons) <= Sub(req_prod, rsp_cons)

\* Where each CPU can be; the ring is mapped exactly while a daemon runs.
Control ==
    /\ pc[Daemon] \in DaemonPlaces
    /\ \A v \in Vcpus : pc[v] \in {"idle", "checked"}
    /\ attached <=> pc[Daemon] # "off"

\* What the daemon's place says of the indices and of its copy.
Lags ==
    /\ pc[Daemon] = "serve" => req.tag = "req" /\ Sub(req_cons, rsp_prod) >= 1
    /\ attached => Sub(rsp_prod, rsp_cons) = IF pc[Daemon] = "answered" THEN 1 ELSE 0

\* Every slot between req_cons and req_prod still holds the request that was
\* pushed into it.
QueuedAreRequests ==
    attached => \A i \in 0..IdxMod-1 :
        Sub(i, req_cons) < Sub(req_prod, req_cons) => ring[Slot(i)].tag = "req"

\* The inductive strengthening of TypeOK and NoOverrun: the push of one CPU
\* keeps them because of what the check of every other CPU left reserved, and
\* the daemon's answer because it only overwrites the request it answers.
RingInv ==
    TypeOK /\ Control /\ Lags /\ NoOverrun /\ SlotReserve /\ IndexOrder /\ QueuedAreRequests

\* What ring.h asks of its users (lines 150 to 152): never more than
\* RING_SIZE()-1 requests outstanding.
OutstandingBelowSize == attached => Sub(req_prod, rsp_cons) <= RingSize - 1

\* The n entries of the ring r from index i on, as far as they carry the tag.
Entries(r, tag, i, n) ==
    [k \in 1..n |-> LET e == r[Slot(i + k - 1)]
                    IN  IF e.tag = tag THEN e.msg ELSE NoEntry]

\* The queues of McdChannel as the ring holds them.
Requests ==
    IF attached THEN Entries(ring, "req", req_cons, Sub(req_prod, req_cons)) ELSE <<>>
Serving == IF pc[Daemon] = "serve" THEN <<req.msg>> ELSE <<>>
Responses ==
    IF attached THEN Entries(ring, "rsp", rsp_cons, Sub(rsp_prod, rsp_cons)) ELSE <<>>

Channel == INSTANCE McdChannel WITH
    requests <- Requests, serving <- Serving, responses <- Responses

\* The ring is a pair of queues: put_request, get_request, put_response and
\* get_response together lose, reorder, change and invent nothing, although
\* responses overwrite the slots of requests.
RingIsChannel == Channel!Spec
============================================================================
