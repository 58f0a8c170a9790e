--------------------------- MODULE McdRingProofs ---------------------------
(***************************************************************************)
(* For every ring size, index width and set of CPUs no larger than          *)
(* MCD_EVENT_RING_THRESHOLD: a push never overruns the ring.                *)
(***************************************************************************)
EXTENDS McdRing, FiniteSetTheorems, SequenceTheorems, TLAPS

\* Division with remainder, for slot numbers.
LEMMA DivMod ==
  ASSUME NEW N \in Nat \ {0}, NEW x \in Nat
  PROVE  /\ x % N \in 0..N-1
         /\ \E q \in Nat : x = (N * q) + (x % N)
<1>1. x % N \in 0..N-1 /\ x \div N \in Nat /\ x = (N * (x \div N)) + (x % N)  BY SMT
<1>   QED  BY <1>1

\* No multiple of N lies strictly between 0 and N.
LEMMA NoMultiple ==
  ASSUME NEW N \in Nat \ {0}, NEW d \in Int, 0 < N * d, N * d < N
  PROVE  FALSE
<1>1. CASE d <= 0
  <2>1. N * d <= 0  BY <1>1, SMT
  <2>   QED  BY <2>1, SMT
<1>2. CASE d >= 1
  <2>1. N * d >= N  BY <1>2, SMT
  <2>   QED  BY <2>1, SMT
<1> QED  BY <1>1, <1>2, SMT

\* Multiplication distributes over addition, stated once for the SMT solver.
LEMMA Distribute ==
  ASSUME NEW N \in Int, NEW a \in Int, NEW b \in Int
  PROVE  N * (a + b) = N * a + N * b  /\  N * (a - b) = N * a - N * b
BY SMT

\* Two indices less than a ring apart use different slots, across the wrap of
\* RING_IDX too: the ring size divides 2^32.
LEMMA SlotDistinct ==
  ASSUME NEW i \in 0..IdxMod-1, NEW j \in 0..IdxMod-1,
         i # j, Sub(i, j) < RingSize
  PROVE  Slot(i) # Slot(j)
<1> SUFFICES ASSUME i % RingSize = j % RingSize PROVE FALSE
  BY DEF Slot
<1> USE RingConstants
<1>n. i \in Nat /\ j \in Nat  OBVIOUS
<1>1. PICK qi \in Nat : i = (RingSize * qi) + (i % RingSize)  BY <1>n, DivMod
<1>2. PICK qj \in Nat : j = (RingSize * qj) + (j % RingSize)  BY <1>n, DivMod
<1>3. PICK q \in Nat : IdxMod = RingSize * q
  <2>1. PICK q \in Nat : IdxMod = (RingSize * q) + (IdxMod % RingSize)  BY DivMod
  <2>2. RingSize * q \in Nat  OBVIOUS
  <2>3. IdxMod = RingSize * q  BY <2>1, <2>2
  <2>   WITNESS q \in Nat
  <2>   QED  BY <2>3
<1>m. i % RingSize \in Nat /\ j % RingSize \in Nat  BY <1>n, DivMod
<1>4. CASE i >= j
  <2>1. i - j = RingSize * qi - RingSize * qj  BY <1>1, <1>2, <1>m
  <2>2. i - j = RingSize * (qi - qj)  BY <2>1, Distribute
  <2>3. 0 < i - j /\ i - j < RingSize  BY <1>4 DEF Sub
  <2>   QED  BY <2>2, <2>3, NoMultiple
<1>5. CASE i < j
  <2>1. i - j + IdxMod = RingSize * qi - RingSize * qj + RingSize * q
    BY <1>1, <1>2, <1>3, <1>m
  <2>2. RingSize * (qi - qj) = RingSize * qi - RingSize * qj  BY Distribute
  <2>3. RingSize * ((qi - qj) + q) = RingSize * (qi - qj) + RingSize * q  BY Distribute
  <2>4. i - j + IdxMod = RingSize * ((qi - qj) + q)  BY <2>1, <2>2, <2>3
  <2>5. 0 < i - j + IdxMod /\ i - j + IdxMod < RingSize  BY <1>5 DEF Sub
  <2>   QED  BY <2>4, <2>5, NoMultiple
<1> QED  BY <1>4, <1>5

---------------------------------------------------------------------------
Index == 0..IdxMod-1

\* Unsigned arithmetic on RING_IDX, as the actions use it.
LEMMA IndexArithmetic ==
  ASSUME NEW a \in Index, NEW b \in Index
  PROVE  /\ Inc(a) \in Index
         /\ Sub(a, b) \in Index
         /\ Sub(a, a) = 0
         /\ Sub(a, b) = 0 => a = b
         /\ Sub(a, b) < IdxMod - 1 => Sub(Inc(a), b) = Sub(a, b) + 1
         /\ Sub(a, b) > 0 => Sub(a, Inc(b)) = Sub(a, b) - 1
BY RingConstants DEF Index, Inc, Sub

\* The difference of two ring indices is an index.
LEMMA SubNat ==
  ASSUME NEW a \in Index, NEW b \in Index
  PROVE  Sub(a, b) \in Nat
BY RingConstants DEF Index, Sub

\* Distances measured from a common origin subtract.
LEMMA SubSplit ==
  ASSUME NEW a \in Index, NEW b \in Index, NEW c \in Index,
         Sub(b, c) <= Sub(a, c)
  PROVE  Sub(a, b) = Sub(a, c) - Sub(b, c)
BY RingConstants DEF Index, Sub

\* An index between c and p is at least as far from r as c is, and nearer
\* than p.
LEMMA SubBetween ==
  ASSUME NEW i \in Index, NEW p \in Index, NEW c \in Index, NEW r \in Index,
         Sub(c, r) <= Sub(p, r), Sub(i, c) < Sub(p, c)
  PROVE  Sub(c, r) <= Sub(i, r) /\ Sub(i, r) < Sub(p, r)
BY RingConstants DEF Index, Sub

\* An index reduced by the ring size is a slot.
LEMMA SlotType ==
  ASSUME NEW i \in Index
  PROVE  Slot(i) \in 0..RingSize-1
<1>1. i \in Nat  BY RingConstants DEF Index
<1>   QED  BY <1>1, DivMod, RingConstants DEF Slot

\* There are finitely many CPUs that send requests.
LEMMA CpusFinite == IsFiniteSet(Cpus) /\ Cardinality(Cpus) \in Nat
BY RingConstants, FS_AddElement, FS_CardinalityType DEF Cpus

\* The CPUs between check and push are no more than all CPUs; a CPU that
\* leaves "checked" takes one away, any other move outside it none.
LEMMA CheckedBound == IsFiniteSet(Checked) /\ Cardinality(Checked) \in 0..Cardinality(Cpus)
<1>1. Checked \in SUBSET Cpus  BY DEF Checked
<1>   QED  BY <1>1, CpusFinite, FS_Subset, FS_CardinalityType

\* How a CPU that moves changes the set of CPUs between check and push.
LEMMA CheckedStep ==
  ASSUME pc \in [Cpus -> Places], NEW c \in Cpus, NEW place \in Places,
         pc' = [pc EXCEPT ![c] = place], place # "checked"
  PROVE  Cardinality(Checked') =
           IF pc[c] = "checked" THEN Cardinality(Checked) - 1 ELSE Cardinality(Checked)
<1>1. Checked' = Checked \ {c}  BY DEF Checked
<1>   QED  BY <1>1, CheckedBound, FS_RemoveElement DEF Checked

\* No more CPUs than there are can be between check and push.
LEMMA CheckedBoundNext == Cardinality(Checked') \in 0..Cardinality(Cpus)
<1>1. Checked' \in SUBSET Cpus  BY DEF Checked
<1>   QED  BY <1>1, CpusFinite, FS_Subset, FS_CardinalityType

---------------------------------------------------------------------------
\* A ring that nobody has enabled satisfies the invariant.
LEMMA InitInv == Init => RingInv
<1> SUFFICES ASSUME Init PROVE RingInv  OBVIOUS
<1> USE RingConstants DEF Init
<1>1. TypeOK
  <2>1. attached \in BOOLEAN  OBVIOUS
  <2>2. pc \in [Cpus -> Places]  BY DEF Places, DaemonPlaces
  <2>3. ring \in [0..RingSize-1 -> Entry] /\ req \in Entry  BY DEF Entry
  <2>4. 0 \in 0..IdxMod-1  OBVIOUS
  <2>   QED  BY <2>1, <2>2, <2>3, <2>4 DEF TypeOK
<1>2. Control  BY DEF Control, Cpus, DaemonPlaces
<1>3. Lags /\ NoOverrun /\ SlotReserve /\ IndexOrder /\ QueuedAreRequests
  BY DEF Lags, NoOverrun, SlotReserve, IndexOrder, QueuedAreRequests, Cpus
<1> QED  BY <1>1, <1>2, <1>3 DEF RingInv

\* A fresh ring (FRONT_RING_INIT, BACK_RING_INIT) satisfies it.
LEMMA EnableInv ==
  ASSUME RingInv, Enable
  PROVE  RingInv'
<1> USE RingConstants DEF RingInv, Enable
<1>1. TypeOK'  BY DEF TypeOK, Cpus, Places, DaemonPlaces, Entry
<1>2. Control'  BY DEF Control, TypeOK, Cpus, DaemonPlaces
<1>3. Lags' /\ NoOverrun' /\ IndexOrder' /\ QueuedAreRequests'
  BY DEF Lags, NoOverrun, IndexOrder, QueuedAreRequests, TypeOK, Cpus, Sub
<1>4. SlotReserve'
  BY CheckedBoundNext, CpusFinite DEF SlotReserve, FreeRequests, Sub
<1> QED  BY <1>1, <1>2, <1>3, <1>4

\* mcd_event_check_ring reserves no slot, but adds a CPU that will push.
LEMMA CheckRingInv ==
  ASSUME RingInv, NEW c \in Cpus, CheckRing(c)
  PROVE  RingInv'
<1> USE RingConstants DEF RingInv, CheckRing, indices
<1>1. TypeOK'  BY DEF TypeOK, Cpus, Places, DaemonPlaces, Home
<1>2. Control'  BY DEF Control, TypeOK, Cpus, DaemonPlaces, Home
<1>3. Lags' /\ NoOverrun' /\ IndexOrder' /\ QueuedAreRequests'
  BY DEF Lags, NoOverrun, IndexOrder, QueuedAreRequests, TypeOK, Cpus, Home, Control, DaemonPlaces
<1>4. SlotReserve'
  <2>0. FreeRequests \in Int /\ FreeRequests' = FreeRequests
    BY IndexArithmetic DEF FreeRequests, TypeOK, Index
  <2>1. CASE FreeRequests >= Threshold
    BY <2>0, <2>1, CheckedBoundNext, CpusFinite DEF SlotReserve
  <2>2. CASE c = Daemon /\ pc' = [pc EXCEPT ![c] = Home(c)]
    BY <2>0, <2>2, CheckedStep, CheckedBound, CpusFinite
    DEF SlotReserve, Home, TypeOK, Places, DaemonPlaces
  <2> QED  BY <2>1, <2>2
<1> QED  BY <1>1, <1>2, <1>3, <1>4

\* The push is the step that could overrun: the slot it takes was reserved by
\* the check, whatever the other CPUs pushed in between.
LEMMA PutRequestInv ==
  ASSUME RingInv, NEW c \in Cpus, PutRequest(c), Cardinality(Cpus) <= Threshold
  PROVE  RingInv'
<1> USE RingConstants DEF RingInv, PutRequest
<1>t. /\ req_prod \in Index /\ req_cons \in Index /\ rsp_prod \in Index /\ rsp_cons \in Index
      /\ pc \in [Cpus -> Places] /\ ring \in [0..RingSize-1 -> Entry]
  BY DEF TypeOK, Index
<1>s. /\ Sub(req_prod, rsp_cons) \in Nat /\ Sub(req_cons, rsp_cons) \in Nat
      /\ Sub(rsp_prod, rsp_cons) \in Nat /\ Sub(req_prod, req_cons) \in Nat
  BY <1>t DEF Sub, Index
<1>c. Cardinality(Checked') = Cardinality(Checked) - 1 /\ Cardinality(Checked) \in Nat
      /\ Cardinality(Checked) >= 1 /\ Cardinality(Cpus) \in Nat
  <2>1. Cardinality(Checked') = Cardinality(Checked) - 1
    BY <1>t, CheckedStep DEF Home, Places, DaemonPlaces
  <2>   QED  BY <2>1, CheckedBound, CheckedBoundNext, CpusFinite
<1>2. Control'  BY <1>t DEF Control, Cpus, DaemonPlaces, Home
<1>3. CASE ~attached
  <2>1. TypeOK'  BY <1>3, <1>t DEF TypeOK, Cpus, Places, DaemonPlaces, Home
  <2>2. Lags'  BY <1>3, <1>t, <1>2 DEF Lags, Control, Home
  <2>   QED  BY <2>1, <2>2, <1>2, <1>3
             DEF NoOverrun, SlotReserve, IndexOrder, QueuedAreRequests
<1>4. CASE attached
  <2>1. PICK t \in Types :
          /\ ring' = [ring EXCEPT ![Slot(req_prod)] =
                        [tag |-> "req", msg |-> [type |-> t, from |-> c]]]
          /\ req_prod' = Inc(req_prod)
    BY <1>4
  <2>2. Sub(req_prod, rsp_cons) < RingSize
    BY <1>4, <1>c, <1>s DEF SlotReserve, FreeRequests
  <2>3. Sub(req_prod', rsp_cons') = Sub(req_prod, rsp_cons) + 1
    BY <2>1, <2>2, <1>t, IndexArithmetic DEF Index
  <2>4. TypeOK'
    <3>1. [tag |-> "req", msg |-> [type |-> t, from |-> c]] \in Entry  BY DEF Entry, Request
    <3>2. ring' \in [0..RingSize-1 -> Entry]  BY <3>1, <2>1, <1>t
    <3>3. req_prod' \in 0..IdxMod-1  BY <2>1, <1>t, IndexArithmetic DEF Index
    <3>4. pc' \in [Cpus -> Places]  BY <1>t DEF Places, DaemonPlaces, Home
    <3>   QED  BY <3>2, <3>3, <3>4 DEF TypeOK
  <2>5. Lags'  BY <1>4, <1>t, <1>2 DEF Lags, Control, Home
  <2>6. NoOverrun'  BY <2>2, <2>3, <1>t, IndexArithmetic DEF NoOverrun, Index
  <2>7. SlotReserve'
    BY <2>2, <2>3, <1>4, <1>c, <1>s DEF SlotReserve, FreeRequests
  <2>8. IndexOrder'
    BY <2>3, <1>4, <1>s DEF IndexOrder
  <2>9. QueuedAreRequests'
    <3> SUFFICES ASSUME NEW i \in Index, Sub(i, req_cons) < Sub(req_prod', req_cons)
                 PROVE  ring'[Slot(i)].tag = "req"
      BY <1>4 DEF QueuedAreRequests, Index
    <3>0. Slot(i) \in 0..RingSize-1 /\ Slot(req_prod) \in 0..RingSize-1  BY <1>t, SlotType
    <3>1. Sub(req_cons, rsp_cons) <= Sub(req_prod, rsp_cons)  BY <1>4 DEF IndexOrder
    <3>2. Sub(req_prod, req_cons) = Sub(req_prod, rsp_cons) - Sub(req_cons, rsp_cons)
      BY <3>1, <1>t, SubSplit
    <3>3. Sub(req_prod', req_cons) = Sub(req_prod, req_cons) + 1
      <4>1. Sub(req_prod, req_cons) < IdxMod - 1  BY <3>2, <2>2, <1>s
      <4>   QED  BY <4>1, <2>1, <1>t, IndexArithmetic
    <3>4. CASE i = req_prod  BY <3>4, <3>0, <2>1, <1>t
    <3>5. CASE i # req_prod
      <4>1. Sub(i, req_cons) < Sub(req_prod, req_cons)
        BY <3>3, <3>5, <1>t DEF Sub, Index
      <4>2. Sub(req_prod, i) < RingSize
        BY <4>1, <3>2, <2>2, <1>t DEF Sub, Index
      <4>3. Slot(req_prod) # Slot(i)  BY <4>2, <3>5, <1>t, SlotDistinct DEF Index
      <4>4. ring[Slot(i)].tag = "req"  BY <4>1, <1>4 DEF QueuedAreRequests, Index
      <4>   QED  BY <4>3, <4>4, <3>0, <2>1, <1>t
    <3> QED  BY <3>4, <3>5
  <2> QED  BY <1>2, <2>4, <2>5, <2>6, <2>7, <2>8, <2>9
<1> QED  BY <1>3, <1>4

\* A daemon step that leaves "checked" alone keeps the reserve as long as no
\* slot is taken.
LEMMA DaemonReserve ==
  ASSUME TypeOK, SlotReserve, attached, NEW place \in Places,
         pc' = [pc EXCEPT ![Daemon] = place],
         place # "checked", pc[Daemon] # "checked",
         FreeRequests' \in Int, FreeRequests' >= FreeRequests
  PROVE  SlotReserve'
<1>1. Cardinality(Checked') = Cardinality(Checked)  BY CheckedStep DEF TypeOK, Cpus
<1>2. FreeRequests \in Int  BY IndexArithmetic, RingConstants DEF FreeRequests, TypeOK, Index
<1>   QED  BY <1>1, <1>2, CheckedBound, CpusFinite, RingConstants DEF SlotReserve

\* get_request moves one request from the ring to the daemon.
LEMMA GetRequestInv ==
  ASSUME RingInv, GetRequest
  PROVE  RingInv'
<1> USE RingConstants DEF RingInv, GetRequest
<1>t. /\ req_prod \in Index /\ req_cons \in Index /\ rsp_prod \in Index /\ rsp_cons \in Index
      /\ pc \in [Cpus -> Places] /\ ring \in [0..RingSize-1 -> Entry] /\ Daemon \in Cpus
  BY DEF TypeOK, Index, Cpus
<1>a. attached /\ rsp_prod = rsp_cons
  <2>1. attached  BY DEF Control
  <2>   QED  BY <2>1, <1>t, IndexArithmetic DEF Lags
<1>1. Sub(req_prod, req_cons) > 0
  <2>1. /\ Sub(req_cons, rsp_prod) <= Sub(req_prod, rsp_cons)
        /\ Sub(req_prod, rsp_cons) <= RingSize
    BY <1>a DEF IndexOrder, NoOverrun
  <2>2. /\ Sub(req_prod, req_cons) \in Nat /\ Sub(req_cons, rsp_prod) \in Nat
        /\ Sub(req_prod, rsp_cons) \in Nat
    BY <1>t DEF Sub, Index
  <2>   QED  BY <2>1, <2>2 DEF Unconsumed
<1>2. /\ req_cons' \in Index
      /\ Sub(req_prod, req_cons') = Sub(req_prod, req_cons) - 1
      /\ Sub(req_cons', rsp_cons) = Sub(req_cons, rsp_cons) + 1
      /\ Sub(req_cons', rsp_cons) <= Sub(req_prod, rsp_cons)
      /\ Sub(req_cons, rsp_cons) \in Nat /\ Sub(req_prod, rsp_cons) \in Nat
  BY <1>1, <1>a, <1>t DEF IndexOrder, Index, Sub, Inc
<1>3. ring[Slot(req_cons)] \in Entry /\ ring[Slot(req_cons)].tag = "req"
  <2>1. Slot(req_cons) \in 0..RingSize-1  BY <1>t, SlotType
  <2>2. Sub(req_cons, req_cons) = 0  BY <1>t, IndexArithmetic
  <2>   QED  BY <2>1, <2>2, <1>1, <1>a, <1>t DEF QueuedAreRequests, Index
<1>4. TypeOK'  BY <1>2, <1>3, <1>t DEF TypeOK, Index, Places, DaemonPlaces
<1>5. Control'  BY <1>t DEF Control, DaemonPlaces, Cpus
<1>6. Lags'  BY <1>2, <1>3, <1>a, <1>t DEF Lags
<1>7. NoOverrun' /\ IndexOrder'  BY <1>2, <1>a, <1>t, IndexArithmetic DEF NoOverrun, IndexOrder
<1>8. SlotReserve'
  <2>1. FreeRequests' = FreeRequests /\ FreeRequests \in Int
    BY <1>t DEF FreeRequests, Sub, Index
  <2>   QED  BY <2>1, <1>a, DaemonReserve DEF Places, DaemonPlaces
<1>9. QueuedAreRequests'
  <2> SUFFICES ASSUME NEW i \in Index, Sub(i, req_cons') < Sub(req_prod, req_cons')
               PROVE  ring[Slot(i)].tag = "req"
    BY DEF QueuedAreRequests, Index
  <2>1. Sub(i, req_cons) < Sub(req_prod, req_cons)
    BY <1>1, <1>2, <1>t DEF Sub, Inc, Index
  <2>   QED  BY <2>1, <1>a DEF QueuedAreRequests, Index
<1> QED  BY <1>4, <1>5, <1>6, <1>7, <1>8, <1>9

\* The answer overwrites only the slot of a request already consumed.
LEMMA PutResponseInv ==
  ASSUME RingInv, PutResponse
  PROVE  RingInv'
<1> USE RingConstants DEF RingInv, PutResponse
<1>t. /\ req_prod \in Index /\ req_cons \in Index /\ rsp_prod \in Index /\ rsp_cons \in Index
      /\ pc \in [Cpus -> Places] /\ ring \in [0..RingSize-1 -> Entry] /\ Daemon \in Cpus
  BY DEF TypeOK, Index, Cpus
<1>a. attached /\ rsp_prod = rsp_cons
  <2>1. attached  BY DEF Control
  <2>   QED  BY <2>1, <1>t, IndexArithmetic DEF Lags
<1>1. /\ Sub(req_cons, rsp_cons) >= 1 /\ Sub(req_cons, rsp_cons) <= Sub(req_prod, rsp_cons)
      /\ Sub(req_prod, rsp_cons) <= RingSize
      /\ Sub(req_prod, rsp_cons) \in Nat /\ Sub(req_cons, rsp_cons) \in Nat
  <2>1. Sub(req_prod, rsp_cons) \in Nat /\ Sub(req_cons, rsp_cons) \in Nat
    BY <1>t, SubNat
  <2>   QED  BY <2>1, <1>a DEF Lags, IndexOrder, NoOverrun
<1>2. rsp_prod' \in Index /\ Sub(rsp_prod', rsp_cons) = 1
  BY <1>a, <1>t, IndexArithmetic DEF Index
<1>3. TypeOK'
  <2>1. [req EXCEPT !.tag = "rsp"] \in Entry
    <3>1. req \in [tag : {"req", "rsp"}, msg : Request]
      BY DEF TypeOK, Lags, Entry, NoEntry
    <3>   QED  BY <3>1 DEF Entry
  <2>2. ring' \in [0..RingSize-1 -> Entry]  BY <2>1, <1>t
  <2>3. pc' \in [Cpus -> Places]  BY <1>t DEF Places, DaemonPlaces
  <2>   QED  BY <2>2, <2>3, <1>2 DEF TypeOK, Index, Entry
<1>4. Control'  BY <1>t DEF Control, DaemonPlaces, Cpus
<1>5. Lags'  BY <1>2, <1>t DEF Lags
<1>6. NoOverrun' /\ IndexOrder'  BY <1>1, <1>2, <1>a DEF NoOverrun, IndexOrder
<1>7. SlotReserve'
  <2>1. FreeRequests' = FreeRequests /\ FreeRequests \in Int
    BY <1>t DEF FreeRequests, Sub, Index
  <2>   QED  BY <2>1, <1>a, DaemonReserve DEF Places, DaemonPlaces
<1>8. QueuedAreRequests'
  <2> SUFFICES ASSUME NEW i \in Index, Sub(i, req_cons) < Sub(req_prod, req_cons)
               PROVE  ring'[Slot(i)].tag = "req"
    BY DEF QueuedAreRequests, Index
  <2>1. ring[Slot(i)].tag = "req"  BY <1>a DEF QueuedAreRequests, Index
  <2>2. i # rsp_prod /\ Sub(i, rsp_prod) < RingSize
    <3>1. Sub(req_cons, rsp_prod) <= Sub(i, rsp_prod) /\ Sub(i, rsp_prod) < Sub(req_prod, rsp_prod)
      BY <1>1, <1>a, <1>t, SubBetween
    <3>2. Sub(i, rsp_prod) \in Nat /\ Sub(rsp_prod, rsp_prod) = 0
      BY <1>t DEF Sub, Index
    <3>   QED  BY <3>1, <3>2, <1>1, <1>a
  <2>3. Slot(i) # Slot(rsp_prod)  BY <2>2, <1>t, SlotDistinct DEF Index
  <2>   QED  BY <2>1, <2>3, <1>t, SlotType
<1> QED  BY <1>3, <1>4, <1>5, <1>6, <1>7, <1>8

\* A request that the daemon does not answer (ADD_SHARED_PAGE).
LEMMA SkipResponseInv ==
  ASSUME RingInv, SkipResponse
  PROVE  RingInv'
<1> USE RingConstants DEF RingInv, SkipResponse, indices
<1>t. /\ req_prod \in Index /\ rsp_cons \in Index
      /\ pc \in [Cpus -> Places] /\ Daemon \in Cpus
  BY DEF TypeOK, Index, Cpus
<1>a. attached  BY DEF Control
<1>1. TypeOK'  BY <1>t DEF TypeOK, Places, DaemonPlaces, Entry
<1>2. Control'  BY <1>t DEF Control, DaemonPlaces, Cpus
<1>3. Lags' /\ NoOverrun' /\ IndexOrder' /\ QueuedAreRequests'
  BY <1>t DEF Lags, NoOverrun, IndexOrder, QueuedAreRequests
<1>4. SlotReserve'
  <2>1. FreeRequests' = FreeRequests /\ FreeRequests \in Int
    BY <1>t, SubNat DEF FreeRequests
  <2>   QED  BY <2>1, <1>a, DaemonReserve DEF Places, DaemonPlaces
<1> QED  BY <1>1, <1>2, <1>3, <1>4

\* Accepting a response frees the slot: everything is measured from rsp_cons.
LEMMA GetResponseInv ==
  ASSUME RingInv, GetResponse
  PROVE  RingInv'
<1> USE RingConstants DEF RingInv, GetResponse
<1>t. /\ req_prod \in Index /\ req_cons \in Index /\ rsp_prod \in Index /\ rsp_cons \in Index
      /\ pc \in [Cpus -> Places] /\ Daemon \in Cpus
  BY DEF TypeOK, Index, Cpus
<1>a. attached  BY DEF Control
<1>1. PICK next \in {"resumed", "drain"} : pc' = [pc EXCEPT ![Daemon] = next]  OBVIOUS
<1>2. /\ Sub(rsp_prod, rsp_cons) = 1
      /\ 1 <= Sub(req_cons, rsp_cons) /\ Sub(req_cons, rsp_cons) <= Sub(req_prod, rsp_cons)
      /\ Sub(req_prod, rsp_cons) <= RingSize
      /\ Sub(req_prod, rsp_cons) \in Nat /\ Sub(req_cons, rsp_cons) \in Nat
  BY <1>a, <1>t, SubNat DEF Lags, IndexOrder, NoOverrun
<1>3. /\ rsp_cons' \in Index
      /\ Sub(rsp_prod, rsp_cons') = 0
      /\ Sub(req_cons, rsp_cons') = Sub(req_cons, rsp_cons) - 1
      /\ Sub(req_prod, rsp_cons') = Sub(req_prod, rsp_cons) - 1
  <2>0. rsp_cons' = Inc(rsp_cons)  OBVIOUS
  <2>   HIDE RingConstants DEF RingInv, GetResponse
  <2>1. rsp_cons' \in Index  BY <2>0, <1>t, IndexArithmetic
  <2>2. /\ Sub(rsp_prod, rsp_cons) > 0 /\ Sub(req_cons, rsp_cons) > 0
        /\ Sub(req_prod, rsp_cons) > 0
    BY <1>2
  <2>3. /\ Sub(rsp_prod, rsp_cons') = Sub(rsp_prod, rsp_cons) - 1
        /\ Sub(req_cons, rsp_cons') = Sub(req_cons, rsp_cons) - 1
        /\ Sub(req_prod, rsp_cons') = Sub(req_prod, rsp_cons) - 1
    BY <2>0, <2>2, <1>t, IndexArithmetic
  <2> QED  BY <2>1, <2>3, <1>2
<1>4. TypeOK'  BY <1>1, <1>3, <1>t DEF TypeOK, Places, DaemonPlaces, Index
<1>5. Control'  BY <1>1, <1>t DEF Control, DaemonPlaces, Cpus
<1>6. Lags'  BY <1>1, <1>3, <1>t DEF Lags
<1>7. NoOverrun' /\ IndexOrder'  BY <1>2, <1>3 DEF NoOverrun, IndexOrder
<1>8. SlotReserve'
  <2>1. FreeRequests' \in Int /\ FreeRequests' >= FreeRequests
    BY <1>2, <1>3 DEF FreeRequests
  <2>   QED  BY <2>1, <1>1, <1>a, DaemonReserve DEF Places, DaemonPlaces
<1>9. QueuedAreRequests'  BY DEF QueuedAreRequests
<1> QED  BY <1>4, <1>5, <1>6, <1>7, <1>8, <1>9

\* The end of the main loop and MCD_EVENT_OP_DISABLE.
LEMMA ShutdownInv ==
  ASSUME RingInv, Interrupted \/ Disable
  PROVE  RingInv'
<1> USE RingConstants DEF RingInv, indices
<1>t. /\ req_prod \in Index /\ rsp_cons \in Index
      /\ pc \in [Cpus -> Places] /\ Daemon \in Cpus
  BY DEF TypeOK, Index, Cpus
<1>1. CASE Interrupted
  <2>a. attached  BY <1>1 DEF Control, Interrupted
  <2>1. TypeOK'  BY <1>1, <1>t DEF TypeOK, Places, DaemonPlaces, Interrupted
  <2>2. Control'  BY <1>1, <1>t DEF Control, DaemonPlaces, Cpus, Interrupted
  <2>3. Lags' /\ NoOverrun' /\ IndexOrder' /\ QueuedAreRequests'
    BY <1>1, <1>t DEF Lags, NoOverrun, IndexOrder, QueuedAreRequests, Interrupted
  <2>4. SlotReserve'
    <3>1. FreeRequests' = FreeRequests /\ FreeRequests \in Int
      BY <1>1, <1>t, SubNat DEF FreeRequests, Interrupted
    <3>   QED  BY <3>1, <2>a, <1>1, DaemonReserve DEF Places, DaemonPlaces, Interrupted
  <2> QED  BY <2>1, <2>2, <2>3, <2>4
<1>2. CASE Disable
  <2>1. TypeOK'  BY <1>2, <1>t DEF TypeOK, Places, DaemonPlaces, Disable
  <2>2. Control'  BY <1>2, <1>t DEF Control, DaemonPlaces, Cpus, Disable
  <2>3. Lags' /\ NoOverrun' /\ IndexOrder' /\ QueuedAreRequests' /\ SlotReserve'
    BY <1>2, <1>t DEF Lags, NoOverrun, IndexOrder, QueuedAreRequests, SlotReserve, Disable
  <2> QED  BY <2>1, <2>2, <2>3
<1> QED  BY <1>1, <1>2

\* A step of something else changes nothing.
LEMMA StutterInv ==
  ASSUME RingInv, UNCHANGED vars
  PROVE  RingInv'
BY DEF vars, indices, RingInv, TypeOK, Control, Lags, NoOverrun, SlotReserve,
       IndexOrder, QueuedAreRequests, FreeRequests, Checked

\* Every step keeps the invariant.
LEMMA NextInv ==
  ASSUME RingInv, [Next]_vars, Cardinality(Cpus) <= Threshold
  PROVE  RingInv'
<1>1. CASE Enable  BY <1>1, EnableInv
<1>2. ASSUME NEW c \in Cpus, CheckRing(c) PROVE RingInv'  BY <1>2, CheckRingInv
<1>3. ASSUME NEW c \in Cpus, PutRequest(c) PROVE RingInv'  BY <1>3, PutRequestInv
<1>4. CASE GetRequest  BY <1>4, GetRequestInv
<1>5. CASE PutResponse  BY <1>5, PutResponseInv
<1>6. CASE SkipResponse  BY <1>6, SkipResponseInv
<1>7. CASE GetResponse  BY <1>7, GetResponseInv
<1>8. CASE Interrupted \/ Disable  BY <1>8, ShutdownInv
<1>9. CASE UNCHANGED vars  BY <1>9, StutterInv
<1> QED  BY <1>1, <1>2, <1>3, <1>4, <1>5, <1>6, <1>7, <1>8, <1>9 DEF Next

\* With no more CPUs than MCD_EVENT_RING_THRESHOLD the inductive invariant
\* holds in every reachable state.
THEOREM RingInvariant ==
  ASSUME Cardinality(Cpus) <= Threshold
  PROVE  Spec => []RingInv
<1>1. Init => RingInv  BY InitInv
<1>2. RingInv /\ [Next]_vars => RingInv'  BY NextInv
<1> QED  BY <1>1, <1>2, PTL DEF Spec

\* mcd_event_put_request never overruns the ring, although the lock is
\* released between mcd_event_check_ring and the push.
THEOREM RingNeverOverrun ==
  ASSUME Cardinality(Cpus) <= Threshold
  PROVE  Spec => []NoOverrun
<1>1. RingInv => NoOverrun  BY DEF RingInv
<1> QED  BY <1>1, RingInvariant, PTL

\* Indices, slots, places and the daemon's copy keep their types: get_request
\* never hands the daemon a slot that holds no request.
THEOREM RingTypes ==
  ASSUME Cardinality(Cpus) <= Threshold
  PROVE  Spec => []TypeOK
<1>1. RingInv => TypeOK  BY DEF RingInv
<1> QED  BY <1>1, RingInvariant, PTL

\* The threshold leaves a slot for every CPU that is between the check and
\* the push.
THEOREM SlotsReserved ==
  ASSUME Cardinality(Cpus) <= Threshold
  PROVE  Spec => []SlotReserve
<1>1. RingInv => SlotReserve  BY DEF RingInv
<1> QED  BY <1>1, RingInvariant, PTL
---------------------------------------------------------------------------
(***************************************************************************)
(* The ring implements the pair of queues of McdChannel.                    *)
(***************************************************************************)
\* Adding a multiple of the ring size does not change the slot.
LEMMA ModShift ==
  ASSUME NEW N \in Nat \ {0}, NEW x \in Nat, NEW q \in Nat
  PROVE  (x + N * q) % N = x % N
<1>0. N * q \in Nat /\ x + N * q \in Nat  BY SMT
<1>1. PICK a \in Nat : x + N * q = (N * a) + ((x + N * q) % N)  BY <1>0, DivMod
<1>2. PICK b \in Nat : x = (N * b) + (x % N)  BY DivMod
<1>3. x % N \in 0..N-1 /\ (x + N * q) % N \in 0..N-1  BY <1>0, DivMod
<1>4. N * ((a - b) - q) = (x % N) - ((x + N * q) % N)
  <2>1. N * (a - b) = N * a - N * b  BY Distribute
  <2>2. N * ((a - b) - q) = N * (a - b) - N * q  BY Distribute
  <2>3. PICK A \in Int, B \in Int, Q \in Int : A = N * a /\ B = N * b /\ Q = N * q
    OBVIOUS
  <2>4. x + Q = A + ((x + N * q) % N) /\ x = B + (x % N)  BY <2>3, <1>1, <1>2
  <2>5. (A - B) - Q = (x % N) - ((x + N * q) % N)  BY <2>4, <1>3
  <2>   QED  BY <2>1, <2>2, <2>3, <2>5
<1>5. CASE x % N > (x + N * q) % N
  BY <1>3, <1>4, <1>5, NoMultiple
<1>6. CASE x % N < (x + N * q) % N
  <2>1. N * (q - (a - b)) = N * q - N * (a - b)  BY Distribute
  <2>2. N * ((a - b) - q) = N * (a - b) - N * q  BY Distribute
  <2>3. N * (a - b) \in Int /\ N * q \in Int  OBVIOUS
  <2>4. N * (q - (a - b)) = ((x + N * q) % N) - (x % N)  BY <2>1, <2>2, <2>3, <1>3, <1>4
  <2>   QED  BY <2>4, <1>3, <1>6, NoMultiple
<1> QED  BY <1>3, <1>5, <1>6

\* The index k places after i.
After(i, k) == IF i + k < IdxMod THEN i + k ELSE i + k - IdxMod

\* Counting on from an index and wrapping, or not wrapping, leads to the same
\* slot.
LEMMA AfterIsIndex ==
  ASSUME NEW i \in Index, NEW k \in Index
  PROVE  /\ After(i, k) \in Index
         /\ Sub(After(i, k), i) = k
         /\ Slot(i + k) = Slot(After(i, k))
<1> USE RingConstants
<1>1. After(i, k) \in Index /\ Sub(After(i, k), i) = k  BY DEF After, Sub, Index
<1>2. Slot(i + k) = Slot(After(i, k))
  <2>1. CASE i + k < IdxMod  BY <2>1 DEF After
  <2>2. CASE i + k >= IdxMod
    <3>1. PICK q \in Nat : IdxMod = RingSize * q
      <4>1. PICK q \in Nat : IdxMod = (RingSize * q) + (IdxMod % RingSize)  BY DivMod
      <4>2. RingSize * q \in Nat  OBVIOUS
      <4>   QED  BY <4>1, <4>2
    <3>2. After(i, k) \in Nat /\ i + k = After(i, k) + RingSize * q
      BY <3>1, <2>2 DEF After, Index
    <3>3. (After(i, k) + RingSize * q) % RingSize = After(i, k) % RingSize
      BY <3>2, ModShift
    <3>   QED  BY <3>2, <3>3 DEF Slot
  <2> QED  BY <2>1, <2>2 DEF Index
<1> QED  BY <1>1, <1>2

\* Messages as the refinement sees them, and the states of the slots.
Seen == Request \cup {NoEntry}
Slots == [0..RingSize-1 -> Entry]

\* What a slot shows of the requests, or of the responses.
Shown(e, tag) == IF e.tag = tag THEN e.msg ELSE NoEntry

\* The n entries of r from index i on, with indices that wrap.
Cells(r, tag, i, n) == [k \in 1..n |-> Shown(r[Slot(After(i, k - 1))], tag)]

\* A slot shows a message.
LEMMA ShownType ==
  ASSUME NEW e \in Entry, NEW tag \in {"req", "rsp"}
  PROVE  Shown(e, tag) \in Seen
<1>1. CASE e = NoEntry  BY <1>1 DEF Shown, Seen, NoEntry
<1>2. CASE e # NoEntry  BY <1>2 DEF Shown, Seen, Entry
<1> QED  BY <1>1, <1>2

\* Places after an index, as far as an index can count.
LEMMA PlaceAfter ==
  ASSUME NEW i \in Index, NEW n \in Index, NEW k \in 1..n
  PROVE  /\ k - 1 \in Index
         /\ After(i, k - 1) \in Index
         /\ Slot(After(i, k - 1)) \in 0..RingSize-1
         /\ Slot(i + k - 1) = Slot(After(i, k - 1))
<1>1. k - 1 \in Index /\ i + k - 1 = i + (k - 1)  BY RingConstants DEF Index
<1>   QED  BY <1>1, AfterIsIndex, SlotType

\* The entries from an index on form a sequence of the given length.
LEMMA CellsSeq ==
  ASSUME NEW r \in Slots, NEW tag \in {"req", "rsp"}, NEW i \in Index, NEW n \in Index
  PROVE  /\ Cells(r, tag, i, n) \in Seq(Seen)
         /\ Len(Cells(r, tag, i, n)) = n
         /\ \A k \in 1..n : Cells(r, tag, i, n)[k] = Shown(r[Slot(After(i, k - 1))], tag)
<1>0. n \in Nat  BY RingConstants DEF Index
<1>1. \A k \in 1..n : Shown(r[Slot(After(i, k - 1))], tag) \in Seen
  BY PlaceAfter, ShownType DEF Slots
<1>2. Cells(r, tag, i, n) \in [1..n -> Seen]  BY <1>1 DEF Cells
<1>3. Cells(r, tag, i, n) \in Seq(Seen)  BY <1>2, <1>0, SeqDef
<1>4. Len(Cells(r, tag, i, n)) = n  BY <1>3, <1>2, <1>0, LenProperties
<1> QED  BY <1>3, <1>4 DEF Cells

\* An empty stretch of the ring is the empty queue.
LEMMA CellsEmpty ==
  ASSUME NEW r \in Slots, NEW tag \in {"req", "rsp"}, NEW i \in Index
  PROVE  Cells(r, tag, i, 0) = <<>>
<1>1. 0 \in Index  BY RingConstants DEF Index
<1>2. Cells(r, tag, i, 0) \in Seq(Seen) /\ Len(Cells(r, tag, i, 0)) = 0  BY <1>1, CellsSeq
<1>   QED  BY <1>2, EmptySeq

\* A write outside a stretch leaves the queue as it is.
LEMMA CellsOutside ==
  ASSUME NEW r \in Slots, NEW tag \in {"req", "rsp"}, NEW i \in Index, NEW n \in Index,
         NEW s \in 0..RingSize-1, NEW w,
         \A t \in 0..RingSize-1 : t # s => w[t] = r[t],
         \A k \in 1..n : Slot(After(i, k - 1)) # s
  PROVE  Cells(w, tag, i, n) = Cells(r, tag, i, n)
<1>1. \A k \in 1..n : w[Slot(After(i, k - 1))] = r[Slot(After(i, k - 1))]
  BY PlaceAfter DEF Slots
<1> QED  BY <1>1 DEF Cells

\* Places in a stretch no longer than the ring are in different slots.
LEMMA PlacesDiffer ==
  ASSUME NEW i \in Index, NEW j \in Nat, NEW k \in Nat, j < k, k < RingSize
  PROVE  Slot(After(i, j)) # Slot(After(i, k))
<1>1. j \in Index /\ k \in Index  BY RingConstants DEF Index
<1>2. After(i, j) \in Index /\ After(i, k) \in Index  BY <1>1, AfterIsIndex
<1>3. After(i, k) # After(i, j) /\ Sub(After(i, k), After(i, j)) < RingSize
  BY <1>1, RingConstants DEF Index, After, Sub
<1> QED  BY <1>2, <1>3, SlotDistinct DEF Index

\* Writing a request behind the last one appends it to the queue.
LEMMA CellsAppend ==
  ASSUME NEW r \in Slots, NEW i \in Index, NEW n \in Nat, n < RingSize, NEW m \in Request,
         NEW w \in Slots, w[Slot(After(i, n))] = [tag |-> "req", msg |-> m],
         \A t \in 0..RingSize-1 : t # Slot(After(i, n)) => w[t] = r[t]
  PROVE  Cells(w, "req", i, n + 1) = Append(Cells(r, "req", i, n), m)
<1> DEFINE old == Cells(r, "req", i, n)
           new == Cells(w, "req", i, n + 1)
<1>0. n \in Index /\ n + 1 \in Index /\ m \in Seen  BY RingConstants DEF Index, Seen
<1>1. /\ old \in Seq(Seen) /\ Len(old) = n
      /\ \A k \in 1..n : old[k] = Shown(r[Slot(After(i, k - 1))], "req")
  BY <1>0, CellsSeq
<1>2. /\ new \in Seq(Seen) /\ Len(new) = n + 1
      /\ \A k \in 1..(n+1) : new[k] = Shown(w[Slot(After(i, k - 1))], "req")
  <2>1. \A l \in Index : /\ Cells(w, "req", i, l) \in Seq(Seen)
                         /\ Len(Cells(w, "req", i, l)) = l
                         /\ \A k \in 1..l : Cells(w, "req", i, l)[k] =
                                             Shown(w[Slot(After(i, k - 1))], "req")
    BY CellsSeq
  <2>   QED  BY <2>1, <1>0
<1> HIDE DEF old, new
<1>3. /\ Append(old, m) \in Seq(Seen) /\ Len(Append(old, m)) = n + 1
      /\ \A k \in 1..n : Append(old, m)[k] = old[k]
      /\ Append(old, m)[n + 1] = m
  BY <1>0, <1>1, AppendProperties
<1>4. ASSUME NEW k \in 1..(n+1) PROVE new[k] = Append(old, m)[k]
  <2>1. CASE k = n + 1
    <3>1. After(i, n) \in Index /\ k - 1 = n  BY <2>1, <1>0, AfterIsIndex
    <3>   QED  BY <3>1, <2>1, <1>2, <1>3 DEF Shown
  <2>2. CASE k # n + 1
    <3>1. k \in 1..n /\ k - 1 \in Nat /\ k - 1 < n  BY <2>2
    <3>2. Slot(After(i, k - 1)) # Slot(After(i, n))  BY <3>1, PlacesDiffer
    <3>3. Slot(After(i, k - 1)) \in 0..RingSize-1  BY <3>1, <1>0, PlaceAfter
    <3>4. w[Slot(After(i, k - 1))] = r[Slot(After(i, k - 1))]  BY <3>2, <3>3
    <3>   QED  BY <3>1, <3>4, <1>1, <1>2, <1>3
  <2> QED  BY <2>1, <2>2
<1>5. new = Append(old, m)  BY <1>2, <1>3, <1>4, SeqEqual
<1> QED  BY <1>5 DEF old, new

\* Advancing the consumer index takes the head of the queue.
LEMMA CellsTail ==
  ASSUME NEW r \in Slots, NEW tag \in {"req", "rsp"}, NEW i \in Index, NEW n \in Index, n > 0
  PROVE  /\ Cells(r, tag, i, n) # <<>>
         /\ Head(Cells(r, tag, i, n)) = Shown(r[Slot(i)], tag)
         /\ Tail(Cells(r, tag, i, n)) = Cells(r, tag, Inc(i), n - 1)
<1> DEFINE old == Cells(r, tag, i, n)
           new == Cells(r, tag, Inc(i), n - 1)
<1>0. n - 1 \in Index /\ Inc(i) \in Index /\ n \in Nat  BY RingConstants DEF Index, Inc
<1>1. /\ old \in Seq(Seen) /\ Len(old) = n
      /\ \A k \in 1..n : old[k] = Shown(r[Slot(After(i, k - 1))], tag)
  BY CellsSeq
<1>2. /\ new \in Seq(Seen) /\ Len(new) = n - 1
      /\ \A k \in 1..(n-1) : new[k] = Shown(r[Slot(After(Inc(i), k - 1))], tag)
  BY <1>0, CellsSeq
<1> HIDE DEF old, new
<1>3. old # <<>>  BY <1>0, <1>1, EmptySeq
<1>4. /\ Tail(old) \in Seq(Seen) /\ Len(Tail(old)) = n - 1
      /\ \A k \in 1..(n-1) : Tail(old)[k] = old[k + 1]
  BY <1>1, <1>3, HeadTailProperties
<1>5. ASSUME NEW k \in 1..(n-1) PROVE Tail(old)[k] = new[k]
  <2>1. After(i, (k + 1) - 1) = After(Inc(i), k - 1)
    BY <1>0, RingConstants DEF Index, After, Inc
  <2>2. k + 1 \in 1..n  BY <1>0
  <2>   QED  BY <2>1, <2>2, <1>1, <1>2, <1>4
<1>6. Tail(old) = new  BY <1>2, <1>4, <1>5, SeqEqual
<1>7. Head(old) = Shown(r[Slot(i)], tag)
  <2>1. After(i, 1 - 1) = i /\ 1 \in 1..n  BY <1>0, RingConstants DEF After, Index
  <2>2. Head(old) = old[1]  BY <1>1, <1>3
  <2>   QED  BY <2>1, <2>2, <1>1
<1> QED  BY <1>3, <1>6, <1>7 DEF old, new

\* The entries the refinement mapping names are these cells.
LEMMA EntriesAreCells ==
  ASSUME NEW r, NEW tag, NEW i \in Index, NEW n \in Index
  PROVE  Entries(r, tag, i, n) = Cells(r, tag, i, n)
BY PlaceAfter DEF Entries, Cells, Shown

\* The queues, with indices that wrap.
LEMMA QueuesAreCells ==
  ASSUME TypeOK
  PROVE  /\ attached => Requests = Cells(ring, "req", req_cons, Sub(req_prod, req_cons))
         /\ attached => Responses = Cells(ring, "rsp", rsp_cons, Sub(rsp_prod, rsp_cons))
         /\ ~attached => Requests = <<>> /\ Responses = <<>>
<1>1. /\ req_prod \in Index /\ req_cons \in Index /\ rsp_prod \in Index /\ rsp_cons \in Index
  BY DEF TypeOK, Index
<1>2. Sub(req_prod, req_cons) \in Index /\ Sub(rsp_prod, rsp_cons) \in Index
  BY <1>1, IndexArithmetic
<1> QED  BY <1>1, <1>2, EntriesAreCells DEF Requests, Responses

\* The same in the next state.
LEMMA QueuesAreCellsNext ==
  ASSUME TypeOK'
  PROVE  /\ attached' => Requests' = Cells(ring', "req", req_cons', Sub(req_prod', req_cons'))
         /\ attached' => Responses' = Cells(ring', "rsp", rsp_cons', Sub(rsp_prod', rsp_cons'))
         /\ ~attached' => Requests' = <<>> /\ Responses' = <<>>
<1>1. /\ req_prod' \in Index /\ req_cons' \in Index /\ rsp_prod' \in Index /\ rsp_cons' \in Index
  BY DEF TypeOK, Index
<1>2. Sub(req_prod', req_cons') \in Index /\ Sub(rsp_prod', rsp_cons') \in Index
  BY <1>1, IndexArithmetic
<1> QED  BY <1>1, <1>2, EntriesAreCells DEF Requests, Responses

\* What every action's proof needs: types, and how far the indices lie apart.
LEMMA Distances ==
  ASSUME RingInv, attached
  PROVE  /\ req_prod \in Index /\ req_cons \in Index /\ rsp_prod \in Index /\ rsp_cons \in Index
         /\ ring \in Slots /\ pc \in [Cpus -> Places] /\ Daemon \in Cpus
         /\ Sub(req_prod, req_cons) \in Index /\ Sub(rsp_prod, rsp_cons) \in Index
         /\ Sub(req_prod, rsp_cons) \in Index /\ Sub(req_cons, rsp_cons) \in Index
         /\ Sub(req_prod, rsp_cons) <= RingSize
         /\ Sub(req_cons, rsp_cons) + Sub(req_prod, req_cons) = Sub(req_prod, rsp_cons)
<1>1. /\ req_prod \in Index /\ req_cons \in Index /\ rsp_prod \in Index /\ rsp_cons \in Index
      /\ ring \in Slots /\ pc \in [Cpus -> Places] /\ Daemon \in Cpus
  BY DEF RingInv, TypeOK, Index, Slots, Cpus
<1>2. /\ Sub(req_prod, req_cons) \in Index /\ Sub(rsp_prod, rsp_cons) \in Index
      /\ Sub(req_prod, rsp_cons) \in Index /\ Sub(req_cons, rsp_cons) \in Index
  BY <1>1, IndexArithmetic
<1>3. Sub(req_prod, rsp_cons) <= RingSize  BY DEF RingInv, NoOverrun
<1>4. Sub(req_prod, req_cons) = Sub(req_prod, rsp_cons) - Sub(req_cons, rsp_cons)
  BY <1>1, SubSplit DEF RingInv, IndexOrder
<1> QED  BY <1>1, <1>2, <1>3, <1>4, RingConstants DEF Index

\* The queued requests lie behind the slots of the requests being served and
\* answered, and the free ones behind them.
LEMMA QueuedPlaces ==
  ASSUME RingInv, attached, NEW k \in 1..Sub(req_prod, req_cons)
  PROVE  After(req_cons, k - 1) = After(rsp_cons, Sub(req_cons, rsp_cons) + k - 1)
BY Distances, RingConstants DEF After, Sub, Index

\* An index is reached by counting the difference on.
LEMMA AfterSub ==
  ASSUME NEW i \in Index, NEW p \in Index
  PROVE  After(i, Sub(p, i)) = p
BY RingConstants DEF After, Sub, Index

\* A CPU that passed the check finds a slot when it pushes.
LEMMA RoomToPush ==
  ASSUME RingInv, attached, NEW c \in Cpus, pc[c] = "checked", Cardinality(Cpus) <= Threshold
  PROVE  Sub(req_prod, rsp_cons) < RingSize
<1>1. c \in Checked  BY DEF Checked
<1>2. Cardinality(Checked) # 0  BY <1>1, CheckedBound, FS_EmptySet
<1>3. Cardinality(Checked) \in Nat /\ Cardinality(Cpus) \in Nat  BY CheckedBound, CpusFinite
<1>4. Sub(req_prod, rsp_cons) \in Nat  BY Distances, RingConstants DEF Index
<1> QED  BY <1>2, <1>3, <1>4, RingConstants DEF RingInv, SlotReserve, FreeRequests

\* put_request appends a request to the queue.
LEMMA PutRequestSends ==
  ASSUME RingInv, RingInv', NEW c \in Cpus, PutRequest(c), Cardinality(Cpus) <= Threshold
  PROVE  [Channel!Next]_(Channel!vars)
<1>p. pc \in [Cpus -> Places] /\ Daemon \in Cpus  BY DEF RingInv, TypeOK, Cpus
<1>s. Serving' = Serving  BY <1>p DEF PutRequest, Serving, Home
<1>1. CASE ~attached
  <2>1. Requests' = Requests /\ Responses' = Responses
    BY <1>1 DEF PutRequest, Requests, Responses
  <2>   QED  BY <2>1, <1>s DEF Channel!vars
<1>2. CASE attached
  <2> DEFINE n == Sub(req_prod, req_cons)
             d == Sub(req_prod, rsp_cons)
             l == Sub(rsp_prod, rsp_cons)
  <2>1. PICK m \in Request :
          /\ ring' = [ring EXCEPT ![Slot(req_prod)] = [tag |-> "req", msg |-> m]]
          /\ req_prod' = Inc(req_prod)
    <3>1. PICK t \in Types :
            /\ ring' = [ring EXCEPT ![Slot(req_prod)] =
                          [tag |-> "req", msg |-> [type |-> t, from |-> c]]]
            /\ req_prod' = Inc(req_prod)
      BY <1>2 DEF PutRequest
    <3>2. [type |-> t, from |-> c] \in Request  BY DEF Request
    <3>   QED  BY <3>1, <3>2
  <2>2. attached' /\ req_cons' = req_cons /\ rsp_prod' = rsp_prod /\ rsp_cons' = rsp_cons
    BY <1>2 DEF PutRequest
  <2>3. ring \in Slots /\ ring' \in Slots /\ rsp_cons \in Index /\ req_cons \in Index
        /\ req_prod \in Index /\ n \in Index /\ d \in Index /\ l \in Index
    BY <1>2, Distances DEF RingInv, TypeOK, Slots
  <2>4. d < RingSize /\ n <= d /\ n \in Nat /\ d \in Nat
    <3>1. d < RingSize  BY <1>2, RoomToPush DEF PutRequest
    <3>   QED  BY <3>1, <1>2, Distances, RingConstants DEF Index
  <2> HIDE DEF n, d, l
  <2>5. Requests' = Append(Requests, m)
    <3>1. After(req_cons, n) = req_prod  BY <2>3, AfterSub DEF n
    <3>2. Cells(ring', "req", req_cons, n + 1) = Append(Cells(ring, "req", req_cons, n), m)
      <4>1. /\ ring'[Slot(After(req_cons, n))] = [tag |-> "req", msg |-> m]
            /\ \A t \in 0..RingSize-1 : t # Slot(After(req_cons, n)) => ring'[t] = ring[t]
        BY <3>1, <2>1, <2>3, SlotType DEF Slots
      <4>2. n \in Nat /\ n < RingSize  BY <2>4, RingConstants
      <4>   QED  BY <4>1, <4>2, <2>3, CellsAppend
    <3>3. Sub(req_prod', req_cons') = n + 1
      <4>1. n < IdxMod - 1  BY <2>4, RingConstants
      <4>   QED  BY <4>1, <2>1, <2>2, <2>3, IndexArithmetic DEF n
    <3>4. Requests' = Cells(ring', "req", req_cons', Sub(req_prod', req_cons'))
      BY <2>2, QueuesAreCellsNext DEF RingInv
    <3>5. Requests = Cells(ring, "req", req_cons, n)  BY <1>2, QueuesAreCells DEF RingInv, n
    <3>   QED  BY <3>2, <3>3, <3>4, <3>5, <2>2
  <2>6. Responses' = Responses
    <3>1. ASSUME NEW k \in 1..l PROVE Slot(After(rsp_cons, k - 1)) # Slot(req_prod)
      <4>1. k - 1 = 0 /\ 0 < d
        <5>1. l \in {0, 1}  BY <1>2 DEF RingInv, Lags, l
        <5>2. l <= Sub(req_cons, rsp_cons) /\ Sub(req_cons, rsp_cons) <= d
              /\ Sub(req_cons, rsp_cons) \in Int
          BY <1>2, Distances, RingConstants DEF RingInv, IndexOrder, Index, l, d
        <5>   QED  BY <5>1, <5>2, <2>4
      <4>2. Slot(After(rsp_cons, 0)) # Slot(After(rsp_cons, d))
        BY <4>1, <2>3, <2>4, PlacesDiffer
      <4>3. After(rsp_cons, d) = req_prod  BY <2>3, AfterSub DEF d
      <4>   QED  BY <4>1, <4>2, <4>3
    <3>2. Slot(req_prod) \in 0..RingSize-1  BY <2>3, SlotType
    <3>3. Cells(ring', "rsp", rsp_cons, l) = Cells(ring, "rsp", rsp_cons, l)
      <4>1. \A k \in 1..l : Slot(After(rsp_cons, k - 1)) # Slot(req_prod)  BY <3>1
      <4>2. \A t \in 0..RingSize-1 : t # Slot(req_prod) => ring'[t] = ring[t]
        BY <2>1, <2>3 DEF Slots
      <4>   QED  BY <4>1, <4>2, <3>2, <2>3, CellsOutside
    <3>4. Responses' = Cells(ring', "rsp", rsp_cons', Sub(rsp_prod', rsp_cons'))
      BY <2>2, QueuesAreCellsNext DEF RingInv
    <3>5. Responses = Cells(ring, "rsp", rsp_cons, l)  BY <1>2, QueuesAreCells DEF RingInv, l
    <3>   QED  BY <3>3, <3>4, <3>5, <2>2 DEF l
  <2>7. Channel!Send  BY <2>5, <2>6, <1>s DEF Channel!Send
  <2>   QED  BY <2>7 DEF Channel!Next
<1> QED  BY <1>1, <1>2

\* get_request takes the oldest request.
LEMMA GetRequestTakes ==
  ASSUME RingInv, RingInv', GetRequest
  PROVE  Channel!Take
<1> DEFINE n == Sub(req_prod, req_cons)
           l == Sub(rsp_prod, rsp_cons)
<1>a. attached /\ attached'  BY DEF RingInv, Control, GetRequest
<1>t. req_cons \in Index /\ req_prod \in Index /\ rsp_cons \in Index /\ ring \in Slots
      /\ n \in Index /\ pc \in [Cpus -> Places] /\ Daemon \in Cpus
  BY <1>a, Distances
<1>u. ring' = ring /\ req_prod' = req_prod /\ rsp_prod' = rsp_prod /\ rsp_cons' = rsp_cons
      /\ req_cons' = Inc(req_cons) /\ req' = ring[Slot(req_cons)]
      /\ pc[Daemon] = "drain" /\ pc'[Daemon] = "serve"
  BY <1>t DEF GetRequest
<1>1. n > 0
  <2>1. n # 0
    <3>1. rsp_prod = rsp_cons
      BY <1>a, <1>t, <1>u, IndexArithmetic DEF RingInv, Lags, TypeOK, Index
    <3>2. Sub(req_cons, rsp_cons) + n = Sub(req_prod, rsp_cons)
          /\ Sub(req_prod, rsp_cons) <= RingSize
          /\ Sub(req_cons, rsp_cons) \in Nat
      BY <1>a, Distances, RingConstants DEF Index
    <3>   QED  BY <3>1, <3>2, RingConstants, <1>t DEF GetRequest, Unconsumed, Index
  <2> QED  BY <2>1, <1>t, RingConstants DEF Index
<1>2. ring[Slot(req_cons)].tag = "req"
  BY <1>1, <1>a, <1>t, IndexArithmetic DEF RingInv, QueuedAreRequests, Index
<1>3. Requests = Cells(ring, "req", req_cons, n)  BY <1>a, QueuesAreCells DEF RingInv
<1>4. Requests' = Cells(ring, "req", Inc(req_cons), n - 1)
  <2>1. Sub(req_prod, Inc(req_cons)) = n - 1  BY <1>t, <1>1, IndexArithmetic
  <2>   QED  BY <2>1, <1>a, <1>u, QueuesAreCellsNext DEF RingInv
<1>5. Requests # <<>> /\ Head(Requests) = ring[Slot(req_cons)].msg /\ Requests' = Tail(Requests)
  BY <1>1, <1>2, <1>3, <1>4, <1>t, CellsTail DEF Shown
<1>6. Serving = <<>> /\ Serving' = <<Head(Requests)>>
  BY <1>5, <1>u DEF Serving
<1>7. Responses' = Responses  BY <1>a, <1>u DEF Responses
<1> QED  BY <1>5, <1>6, <1>7 DEF Channel!Take

\* The response that reuses its request answers it, and leaves the queued
\* requests alone.
LEMMA PutResponseAnswers ==
  ASSUME RingInv, RingInv', PutResponse
  PROVE  Channel!Answer
<1> DEFINE n == Sub(req_prod, req_cons)
           e == [req EXCEPT !.tag = "rsp"]
<1>a. attached /\ attached'  BY DEF RingInv, Control, PutResponse
<1>t. req_cons \in Index /\ req_prod \in Index /\ rsp_cons \in Index /\ ring \in Slots
      /\ rsp_prod \in Index
      /\ n \in Index /\ pc \in [Cpus -> Places] /\ Daemon \in Cpus
  BY <1>a, Distances
<1>u. ring' = [ring EXCEPT ![Slot(rsp_prod)] = e] /\ rsp_prod' = Inc(rsp_prod)
      /\ req_prod' = req_prod /\ req_cons' = req_cons /\ rsp_cons' = rsp_cons
      /\ pc[Daemon] = "serve" /\ pc'[Daemon] = "answered"
  BY <1>t DEF PutResponse
<1>r. rsp_prod = rsp_cons  BY <1>a, <1>t, <1>u, IndexArithmetic DEF RingInv, Lags
<1>e. req.msg \in Request /\ e.tag = "rsp" /\ e.msg = req.msg
  <2>1. req \in [tag : {"req", "rsp"}, msg : Request]
    BY <1>u DEF RingInv, TypeOK, Lags, Entry, NoEntry
  <2>   QED  BY <2>1
<1>1. Requests' = Requests
  <2>1. ASSUME NEW k \in 1..n PROVE Slot(After(req_cons, k - 1)) # Slot(rsp_prod)
    <3>1. After(req_cons, k - 1) = After(rsp_cons, Sub(req_cons, rsp_cons) + k - 1)
      BY <1>a, QueuedPlaces
    <3>2. 0 < Sub(req_cons, rsp_cons) + k - 1 /\ Sub(req_cons, rsp_cons) + k - 1 < RingSize
          /\ Sub(req_cons, rsp_cons) + k - 1 \in Nat
      <4>1. Sub(req_cons, rsp_cons) >= 1  BY <1>r, <1>u DEF RingInv, Lags
      <4>   QED  BY <4>1, <1>a, Distances, RingConstants DEF Index
    <3>3. Slot(After(rsp_cons, 0)) # Slot(After(req_cons, k - 1))
      BY <3>1, <3>2, <1>t, PlacesDiffer
    <3>4. After(rsp_cons, 0) = rsp_prod  BY <1>r, <1>t, RingConstants DEF After, Index
    <3>   QED  BY <3>3, <3>4
  <2>2. Slot(rsp_prod) \in 0..RingSize-1  BY <1>t, SlotType
  <2>3. Cells(ring', "req", req_cons, n) = Cells(ring, "req", req_cons, n)
    <3>1. \A k \in 1..n : Slot(After(req_cons, k - 1)) # Slot(rsp_prod)  BY <2>1
    <3>2. \A t \in 0..RingSize-1 : t # Slot(rsp_prod) => ring'[t] = ring[t]
      BY <1>t, <1>u DEF Slots
    <3>   QED  BY <3>1, <3>2, <2>2, <1>t, CellsOutside
  <2>4. Requests = Cells(ring, "req", req_cons, n)  BY <1>a, QueuesAreCells DEF RingInv
  <2>5. Requests' = Cells(ring', "req", req_cons', Sub(req_prod', req_cons'))
    BY <1>a, QueuesAreCellsNext DEF RingInv
  <2>   QED  BY <2>3, <2>4, <2>5, <1>u
<1>2. Responses = <<>>
  <2>1. Sub(rsp_prod, rsp_cons) = 0  BY <1>r, <1>t, IndexArithmetic
  <2>   QED  BY <2>1, <1>a, <1>t, QueuesAreCells, CellsEmpty DEF RingInv
<1>3. Responses' = <<req.msg>>
  <2>1. Sub(rsp_prod', rsp_cons') = 1
    BY <1>a, <1>u DEF RingInv, Lags
  <2>2. Responses' = Cells(ring', "rsp", rsp_cons, 1)
    BY <2>1, <1>a, <1>u, QueuesAreCellsNext DEF RingInv
  <2>3. Cells(ring', "rsp", rsp_cons, 1) = [k \in 1..1 |-> req.msg]
    <3>1. After(rsp_cons, 1 - 1) = rsp_prod  BY <1>r, <1>t, RingConstants DEF After, Index
    <3>2. Shown(ring'[Slot(rsp_prod)], "rsp") = req.msg
      BY <1>e, <1>t, <1>u, SlotType DEF Shown, Slots
    <3>   QED  BY <3>1, <3>2 DEF Cells
  <2>   QED  BY <2>2, <2>3
<1>4. Serving = <<req.msg>> /\ Serving' = <<>>  BY <1>u DEF Serving
<1>5. <<>> \o <<req.msg>> = <<req.msg>>
  <2>1. <<req.msg>> \in Seq(Request)  BY <1>e
  <2>   QED  BY <2>1, ConcatEmptySeq
<1> QED  BY <1>1, <1>2, <1>3, <1>4, <1>5 DEF Channel!Answer

\* get_response accepts the oldest response.
LEMMA GetResponseAccepts ==
  ASSUME RingInv, RingInv', GetResponse
  PROVE  Channel!Accept
<1>a. attached /\ attached'  BY DEF RingInv, Control, GetResponse
<1>t. rsp_cons \in Index /\ rsp_prod \in Index /\ ring \in Slots
      /\ pc \in [Cpus -> Places] /\ Daemon \in Cpus /\ 1 \in Index
  BY <1>a, Distances, RingConstants DEF Index
<1>u. ring' = ring /\ req_prod' = req_prod /\ rsp_prod' = rsp_prod /\ req_cons' = req_cons
      /\ rsp_cons' = Inc(rsp_cons) /\ req' = req
      /\ pc[Daemon] = "answered" /\ pc'[Daemon] # "serve"
  BY <1>t DEF GetResponse
<1>1. Sub(rsp_prod, rsp_cons) = 1  BY <1>a, <1>u DEF RingInv, Lags
<1>2. Responses = Cells(ring, "rsp", rsp_cons, 1)
  BY <1>1, <1>a, QueuesAreCells DEF RingInv
<1>3. Responses' = Cells(ring, "rsp", Inc(rsp_cons), 1 - 1)
  <2>1. Sub(rsp_prod, Inc(rsp_cons)) = 1 - 1  BY <1>1, <1>t, IndexArithmetic
  <2>   QED  BY <2>1, <1>a, <1>u, QueuesAreCellsNext DEF RingInv
<1>4. Responses # <<>> /\ Responses' = Tail(Responses)
  BY <1>2, <1>3, <1>t, CellsTail
<1>5. Requests' = Requests  BY <1>a, <1>u DEF Requests
<1>6. Serving' = Serving  BY <1>u DEF Serving
<1> QED  BY <1>4, <1>5, <1>6 DEF Channel!Accept

\* The other steps leave the queues alone, forget a request, or drop all.
LEMMA OtherSteps ==
  ASSUME RingInv, RingInv'
  PROVE  /\ Enable => UNCHANGED Channel!vars
         /\ \A c \in Cpus : CheckRing(c) => UNCHANGED Channel!vars
         /\ SkipResponse => Channel!Forget
         /\ Interrupted => UNCHANGED Channel!vars
         /\ Disable => Channel!Drop
         /\ UNCHANGED vars => UNCHANGED Channel!vars
<1>t. pc \in [Cpus -> Places] /\ Daemon \in Cpus  BY DEF RingInv, TypeOK, Cpus
<1>0. 0 \in Index /\ Sub(0, 0) = 0  BY RingConstants DEF Index, Sub
<1>1. Enable => UNCHANGED Channel!vars
  <2> SUFFICES ASSUME Enable PROVE UNCHANGED Channel!vars  OBVIOUS
  <2>1. ~attached /\ attached' /\ req_cons' = 0 /\ req_prod' = 0 /\ rsp_cons' = 0
        /\ rsp_prod' = 0 /\ ring' \in Slots
        /\ pc[Daemon] = "off" /\ pc'[Daemon] = "drain"
    BY <1>t DEF Enable, RingInv, TypeOK, Slots
  <2>2. Requests = <<>> /\ Responses = <<>>  BY <2>1 DEF Requests, Responses
  <2>3. Requests' = <<>> /\ Responses' = <<>>
    BY <2>1, <1>0, QueuesAreCellsNext, CellsEmpty DEF RingInv
  <2>4. Serving' = Serving  BY <2>1 DEF Serving
  <2> QED  BY <2>2, <2>3, <2>4 DEF Channel!vars
<1>2. ASSUME NEW c \in Cpus, CheckRing(c) PROVE UNCHANGED Channel!vars
  <2>1. attached' = attached /\ UNCHANGED <<req_prod, req_cons, rsp_prod, rsp_cons, ring, req>>
        /\ (pc[Daemon] = "serve" <=> pc'[Daemon] = "serve")
    BY <1>2, <1>t DEF CheckRing, indices, Home
  <2> QED  BY <2>1 DEF Channel!vars, Requests, Responses, Serving
<1>3. ASSUME SkipResponse PROVE Channel!Forget
  BY <1>3, <1>t DEF SkipResponse, indices, Channel!Forget, Requests, Responses, Serving
<1>4. ASSUME Interrupted PROVE UNCHANGED Channel!vars
  BY <1>4, <1>t DEF Interrupted, indices, Channel!vars, Requests, Responses, Serving
<1>5. ASSUME Disable PROVE Channel!Drop
  <2>1. attached /\ ~attached' /\ pc[Daemon] = "closing" /\ pc'[Daemon] = "off"
    BY <1>5, <1>t DEF Disable, RingInv, Control
  <2>2. Sub(rsp_prod, rsp_cons) = 0  BY <2>1 DEF RingInv, Lags
  <2>3. Responses = <<>>
    BY <2>1, <2>2, QueuesAreCells, CellsEmpty, Distances DEF RingInv
  <2>4. Requests' = <<>> /\ Responses' = <<>>  BY <2>1 DEF Requests, Responses
  <2>5. Serving = <<>> /\ Serving' = <<>>  BY <2>1 DEF Serving
  <2> QED  BY <2>3, <2>4, <2>5 DEF Channel!Drop
<1>6. ASSUME UNCHANGED vars PROVE UNCHANGED Channel!vars
  BY <1>6 DEF vars, indices, Channel!vars, Requests, Responses, Serving
<1> QED  BY <1>1, <1>2, <1>3, <1>4, <1>5, <1>6

\* Requests and responses share the slots, and the check and the push of a
\* request are apart; still the ring is a pair of first-in first-out queues
\* that lose, reorder, change and invent nothing (put_request, get_request,
\* put_response and mcd_event_get_response), for every ring size, index width
\* and set of CPUs no larger than MCD_EVENT_RING_THRESHOLD.
THEOREM RingImplementsChannel ==
  ASSUME Cardinality(Cpus) <= Threshold
  PROVE  Spec => RingIsChannel
<1>1. Init => Channel!Init
  <2> SUFFICES ASSUME Init PROVE Channel!Init  OBVIOUS
  <2>1. pc[Daemon] = "off" /\ ~attached  BY DEF Init, Cpus
  <2> QED  BY <2>1 DEF Channel!Init, Requests, Responses, Serving
<1>2. RingInv /\ RingInv' /\ [Next]_vars => [Channel!Next]_(Channel!vars)
  <2> SUFFICES ASSUME RingInv, RingInv', [Next]_vars PROVE [Channel!Next]_(Channel!vars)
    OBVIOUS
  <2>1. CASE \E c \in Cpus : PutRequest(c)  BY <2>1, PutRequestSends
  <2>2. CASE GetRequest  BY <2>2, GetRequestTakes DEF Channel!Next
  <2>3. CASE PutResponse  BY <2>3, PutResponseAnswers DEF Channel!Next
  <2>4. CASE GetResponse  BY <2>4, GetResponseAccepts DEF Channel!Next
  <2>5. CASE \/ Enable \/ SkipResponse \/ Interrupted \/ Disable \/ UNCHANGED vars
             \/ \E c \in Cpus : CheckRing(c)
    BY <2>5, OtherSteps DEF Channel!Next
  <2> QED  BY <2>1, <2>2, <2>3, <2>4, <2>5 DEF Next
<1>3. Spec => []RingInv  BY RingInvariant
<1> QED  BY <1>1, <1>2, <1>3, PTL DEF Spec, RingIsChannel, Channel!Spec
============================================================================
