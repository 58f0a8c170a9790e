-------------------------- MODULE McdBucketProofs ---------------------------
(***************************************************************************)
(* The bucket is sound and the memory limit is exceeded by less than one    *)
(* entry for each CPU, for any number of CPUs, keys and calls (McdBucket).  *)
(*                                                                          *)
(* Neither is inductive.  The list stays sound because an entry that a CPU  *)
(* has made and not listed yet is its own: it is live, in no list, and no   *)
(* other CPU points to it.  The limit holds because a CPU that was promised *)
(* memory counts as an entry: such a promise is given only when there is    *)
(* room, or in exchange for an entry evicted, which is live since the list  *)
(* is sound.                                                                *)
(*                                                                          *)
(* The list operations are safe because an entry to be removed is listed as *)
(* long as it is valid, and a mini-header that a CPU relies on is there:    *)
(* only a CPU that works on its key releases it.                            *)
(*                                                                          *)
(* A call that adds an entry has searched the bucket before, in an earlier  *)
(* section of the lock.  When no two CPUs work on a key, only calls for     *)
(* other keys come in between, so that the search still tells the truth     *)
(* when the entry is added: no key has two entries (KeyInv).  Without the   *)
(* daemon a get then returns the last value put or nothing (FreshInv).      *)
(***************************************************************************)
EXTENDS McdBucket, FiniteSetTheorems, TLAPS

\* Memory that is not given away keeps the promises.
LEMMA FewerPromises ==
  ASSUME Shape, PromisesKept, live' \subseteq live, Promised' \subseteq Promised,
         UNCHANGED reused
  PROVE  PromisesKept'
  <1>1. IsFiniteSet(live) /\ IsFiniteSet(Promised)
    <2>0. 1 \in Int /\ blocks \in Int
      BY SMT DEF Shape
    <2>1. IsFiniteSet(1..blocks)
      BY <2>0, FS_Interval, Zenon
    <2>2. QED
      BY <2>1, FS_Subset, BucketConstants, Zenon DEF Shape, Promised
  <1>2. /\ IsFiniteSet(live') /\ Cardinality(live') <= Cardinality(live)
        /\ IsFiniteSet(Promised') /\ Cardinality(Promised') <= Cardinality(Promised)
    BY <1>1, FS_Subset, Zenon
  <1>3. /\ Cardinality(live) \in Nat /\ Cardinality(live') \in Nat
        /\ Cardinality(Promised) \in Nat /\ Cardinality(Promised') \in Nat
        /\ Cardinality(Cpus) \in Nat
    BY <1>1, <1>2, FS_CardinalityType, BucketConstants, Zenon
  <1>4. QED
    BY <1>2, <1>3, BucketConstants DEF PromisesKept

\* One CPU goes on, without an entry of its own and without a promise, and no
\* entry is made or moved.
LEMMA PlainStep ==
  ASSUME BucketInv, NEW c \in Cpus, NEW place \in Places,
         place \notin {"alloc", "load", "add"}, Goto(c, place),
         place = "release" => job[c].op \in {"put", "remove"},
         place # "idle" => job'[c].op \in Operations,
         place = "delete" => job[c].op \in {"put", "remove"},
         DOMAIN job' = Cpus, \A e \in Cpus \ {c} : job'[e] = job[e],
         place \in {"release", "delete"} => UNCHANGED job,
         UNCHANGED <<blocks, live, list, mh, reused>>
  PROVE  BucketInv'
  <1>1. Shape'
    BY Zenon DEF BucketInv, Shape, Owns, Goto
  <1>2. ListSound'
    BY Zenon DEF BucketInv, ListSound
  <1>3. OwnIsOwn'
    BY Zenon DEF BucketInv, Shape, OwnIsOwn, Owns, Goto
  <1>4. Promised' \subseteq Promised
    BY Zenon DEF BucketInv, Shape, Promised, Goto
  <1>5. QED
    BY <1>1, <1>2, <1>3, <1>4, FewerPromises, Zenon DEF BucketInv

LEMMA StartInv ==
  ASSUME BucketInv, NEW c \in Cpus, NEW op \in Ops, NEW k \in Keys, Start(c, op, k)
  PROVE  BucketInv'
  <1>1. Goto(c, "find") /\ UNCHANGED <<blocks, live, list, mh, reused>>
    BY Zenon DEF Start, entries, history
  <1>2. /\ DOMAIN job' = Cpus /\ \A e \in Cpus \ {c} : job'[e] = job[e]
        /\ job'[c].op \in Operations
    BY BucketConstants, Zenon DEF Start, BucketInv, Shape, Operations
  <1>3. QED
    BY <1>1, <1>2, PlainStep, Zenon DEF Places

LEMMA MiniInv ==
  ASSUME BucketInv, NEW c \in Cpus, Mini(c)
  PROVE  BucketInv'
  <1>1. UNCHANGED <<blocks, live, list, mh, reused, job>>
    BY Zenon DEF Mini, entries, history
  <1>2. job[c].op \in Operations
    BY Zenon DEF Mini, BucketInv, Shape
  <1>3. PICK m \in FindHeader(job[c].key) :
          Goto(c, CASE job[c].op = "check" \/ (job[c].op = "put" /\ m = NoOne) -> "create"
                    [] job[c].op = "get" /\ m # NoOne -> "create"
                    [] job[c].op \in {"put", "remove"} /\ m # NoOne -> "delete"
                    [] job[c].op \in {"get", "remove"} /\ m = NoOne -> "done")
    BY Zenon DEF Mini
  <1>4. \/ Goto(c, "create") \/ Goto(c, "done")
        \/ Goto(c, "delete") /\ job[c].op \in {"put", "remove"}
    BY <1>2, <1>3, Zenon DEF Operations
  <1>5. DOMAIN job = Cpus
    BY Zenon DEF BucketInv, Shape
  <1>6. QED
    BY <1>1, <1>2, <1>4, <1>5, PlainStep, Zenon DEF Places

LEMMA DeleteInv ==
  ASSUME BucketInv, NEW c \in Cpus, Delete(c)
  PROVE  BucketInv'
  <1>1. UNCHANGED <<blocks, live, list, mh, reused, job>> /\ Goto(c, "release")
    BY Zenon DEF Delete, entries, history
  <1>2. job[c].op \in {"put", "remove"} /\ job[c].op \in Operations /\ DOMAIN job = Cpus
    BY Zenon DEF Delete, BucketInv, Shape
  <1>3. QED
    BY <1>1, <1>2, PlainStep, Zenon DEF Places

\* The CPU has an entry of its own, before the step and after.
LEMMA OwnerStep ==
  ASSUME BucketInv, NEW c \in Cpus, NEW place \in {"release", "add"}, Goto(c, place),
         Owns(c), pc[c] # "alloc", job[c].op \in Operations,
         place = "release" => job[c].op = "get",
         UNCHANGED <<blocks, live, list, mh, reused, job>>
  PROVE  BucketInv'
  <1>1. Shape'
    BY Zenon DEF BucketInv, Shape, Owns, Goto, Places
  <1>2. ListSound'
    BY Zenon DEF BucketInv, ListSound
  <1>3. OwnIsOwn'
    BY DEF BucketInv, Shape, OwnIsOwn, Owns, Goto
  <1>4. Promised' \subseteq Promised
    BY Zenon DEF BucketInv, Shape, Promised, Goto
  <1>5. QED
    BY <1>1, <1>2, <1>3, <1>4, FewerPromises, Zenon DEF BucketInv

LEMMA ReleaseInv ==
  ASSUME BucketInv, NEW c \in Cpus, Release(c)
  PROVE  BucketInv'
  <1>1. UNCHANGED <<blocks, live, list, mh, reused, job>>
    BY Zenon DEF Release, entries, history
  <1>2. pc[c] = "release" /\ DOMAIN job = Cpus /\ job[c].op \in {"put", "remove", "get"}
    BY Zenon DEF Release, BucketInv, Shape, Operations
  <1>3. \/ Goto(c, "fault") \/ Goto(c, "create") \/ Goto(c, "done")
        \/ Goto(c, "add") /\ job[c].op = "get"
    BY <1>2, Zenon DEF Release
  <1>4. CASE Goto(c, "add") /\ job[c].op = "get"
    BY <1>1, <1>2, <1>4, OwnerStep, Zenon DEF Owns, Operations
  <1>5. CASE Goto(c, "fault") \/ Goto(c, "create") \/ Goto(c, "done")
    BY <1>1, <1>2, <1>5, PlainStep, Zenon DEF Places, Operations
  <1>6. QED
    BY <1>3, <1>4, <1>5, Zenon

LEMMA LoadInv ==
  ASSUME BucketInv, NEW c \in Cpus, Load(c)
  PROVE  BucketInv'
  <1>1. UNCHANGED <<blocks, live, list, mh, reused, job>> /\ Goto(c, "release")
    BY Zenon DEF Load, history
  <1>2. pc[c] = "load" /\ job[c].op = "get"
    BY Zenon DEF Load, BucketInv, Shape
  <1>3. QED
    BY <1>1, <1>2, OwnerStep, Zenon DEF Owns, Operations

\* A pointer found in the bucket leads to nobody's own entry.
LEMMA FindInv ==
  ASSUME BucketInv, NEW c \in Cpus, Find(c)
  PROVE  BucketInv'
  <1>1. UNCHANGED <<blocks, live, list, reused, job>> /\ pc[c] = "find"
    BY Zenon DEF Find, entries, history
  <1>2. PICK x \in FindEntry(job[c].key) :
          /\ Point(c, x)
          /\ Goto(c, IF x = NoOne THEN "mini"
                     ELSE CASE job[c].op \in {"put", "remove"} -> "drop"
                            [] job[c].op = "get" -> "use"
                            [] job[c].op = "check" -> "done")
    BY Zenon DEF Find
  <1>3. x = 0 \/ x \in DOMAIN list
    BY Zenon DEF FindEntry, FirstOf, NoOne
  <1>4. PICK place \in {"mini", "drop", "use", "done"} : Goto(c, place)
    BY <1>1, <1>2, Zenon DEF BucketInv, Shape, Operations
  <1>5. Shape'
    <2>1. mh' = [mh EXCEPT ![c] = x] /\ x \in 0..blocks
      BY <1>2, <1>3 DEF Point, BucketInv, Shape
    <2>2. mh' \in [Cpus -> 0..blocks] /\ \A e \in Cpus \ {c} : mh'[e] = mh[e]
      BY <2>1, Zenon DEF BucketInv, Shape
    <2>3. /\ pc' \in [Cpus -> Places] /\ \A e \in Cpus \ {c} : pc'[e] = pc[e]
          /\ pc'[c] \in {"mini", "drop", "use", "done"}
      BY <1>4, Zenon DEF Goto, BucketInv, Shape, Places
    <2>4. QED
      BY <1>1, <2>2, <2>3 DEF BucketInv, Shape, Owns
  <1>6. ListSound'
    BY <1>1, Zenon DEF BucketInv, ListSound
  <1>7. OwnIsOwn'
    <2>1. SUFFICES ASSUME ~reused, NEW o \in Cpus, Owns(o)'
                   PROVE  /\ mh'[o] \in live \ DOMAIN list
                          /\ \A e \in Cpus \ {o} : mh'[e] # mh'[o]
      BY <1>1, Zenon DEF OwnIsOwn
    <2>2. o # c /\ Owns(o)
      BY <1>1, <1>4, <2>1, Zenon DEF Owns, Goto, BucketInv, Shape
    <2>3. mh'[o] = mh[o] /\ mh[o] \in live \ DOMAIN list
          /\ \A e \in Cpus \ {o} : mh[e] # mh[o]
      BY <1>2, <2>1, <2>2, Zenon DEF Point, BucketInv, Shape, OwnIsOwn
    <2>4. mh'[c] = x /\ x # mh[o]
      BY <1>2, <1>3, <2>3 DEF Point, BucketInv, Shape
    <2>5. QED
      BY <1>2, <2>3, <2>4, Zenon DEF Point, BucketInv, Shape
  <1>8. Promised' \subseteq Promised
    BY <1>4, Zenon DEF BucketInv, Shape, Promised, Goto
  <1>9. QED
    BY <1>1, <1>5, <1>6, <1>7, <1>8, FewerPromises, Zenon DEF BucketInv

\* A removal, although it may come late, takes nobody's own entry.
LEMMA DropInv ==
  ASSUME BucketInv, NEW c \in Cpus, Drop(c)
  PROVE  BucketInv'
  <1>1. UNCHANGED <<blocks, mh, reused, job>> /\ pc[c] = "drop"
    BY Zenon DEF Drop, history
  <1>2. /\ live' \subseteq live /\ live \ {mh[c]} \subseteq live'
        /\ DOMAIN list' \subseteq DOMAIN list
        /\ mh[c] \in live => mh[c] \notin DOMAIN list' /\ live' = live \ {mh[c]}
        /\ mh[c] \notin live => live' = live
    BY Zenon DEF Drop, Without
  <1>3. PICK place \in {"fault", "create", "done"} : Goto(c, place)
    BY Zenon DEF Drop
  <1>4. Shape'
    BY <1>1, <1>2, <1>3, Zenon DEF BucketInv, Shape, Owns, Goto, Places
  <1>5. ListSound'
    BY <1>1, <1>2, Zenon DEF BucketInv, ListSound
  <1>6. OwnIsOwn'
    BY <1>1, <1>2, <1>3 DEF BucketInv, Shape, OwnIsOwn, Owns, Goto
  <1>7. Promised' \subseteq Promised
    BY <1>3, Zenon DEF BucketInv, Shape, Promised, Goto
  <1>8. QED
    BY <1>1, <1>2, <1>4, <1>5, <1>6, <1>7, FewerPromises, Zenon DEF BucketInv

\* The entry that a CPU adds was its own.
LEMMA AddInv ==
  ASSUME BucketInv, NEW c \in Cpus, Add(c)
  PROVE  BucketInv'
  <1>1. UNCHANGED <<blocks, live, mh, reused, job>> /\ pc[c] = "add"
    BY Zenon DEF Add, history
  <1>2. DOMAIN list' = DOMAIN list \cup {mh[c]}
    BY Zenon DEF Add, With
  <1>3. PICK place \in {"fault", "use", "done"} : Goto(c, place)
    BY Zenon DEF Add
  <1>4. ~reused => mh[c] \in live /\ \A e \in Cpus \ {c} : Owns(e) => mh[e] # mh[c]
    BY <1>1, Zenon DEF BucketInv, OwnIsOwn, Owns
  <1>5. ListSound'
    BY <1>1, <1>2, <1>4, Zenon DEF BucketInv, ListSound
  <1>6. OwnIsOwn'
    BY <1>1, <1>2, <1>3, <1>4, Zenon DEF BucketInv, Shape, OwnIsOwn, Owns, Goto
  <1>7. Promised' \subseteq Promised
    BY <1>3, Zenon DEF BucketInv, Shape, Promised, Goto
  <1>8. Shape'
    <2>1. mh[c] \in 1..blocks
      BY <1>1 DEF BucketInv, Shape, Owns, NoOne
    <2>2. QED
      BY <1>1, <1>2, <1>3, <2>1, Zenon DEF BucketInv, Shape, Owns, Goto, Places
  <1>9. QED
    BY <1>1, <1>5, <1>6, <1>7, <1>8, FewerPromises, Zenon DEF BucketInv

\* A call that returns forgets its pointers.
LEMMA ReturnInv ==
  ASSUME BucketInv, NEW c \in Cpus, Return(c), pc[c] # "idle",
         UNCHANGED <<blocks, live, list, reused>>
  PROVE  BucketInv'
  <1>1. Goto(c, "idle") /\ Point(c, NoOne)
    BY Zenon DEF Return
  <1>2. DOMAIN job' = Cpus /\ \A e \in Cpus \ {c} : job'[e] = job[e]
    BY Zenon DEF Return, BucketInv, Shape
  <1>3. Shape'
    BY <1>1, <1>2 DEF BucketInv, Shape, Owns, Goto, Point, Places, NoOne
  <1>4. ListSound'
    BY Zenon DEF BucketInv, ListSound
  <1>5. OwnIsOwn'
    BY <1>1, <1>2, Zenon DEF BucketInv, Shape, OwnIsOwn, Owns, Goto, Point, NoOne
  <1>6. Promised' \subseteq Promised
    BY <1>1, Zenon DEF BucketInv, Shape, Promised, Goto
  <1>7. QED
    BY <1>3, <1>4, <1>5, <1>6, FewerPromises, Zenon DEF BucketInv

\* The CPUs, the live blocks and the promises are finitely many.
LEMMA Finite ==
  ASSUME Shape
  PROVE  /\ IsFiniteSet(live) /\ IsFiniteSet(Promised) /\ IsFiniteSet(Cpus)
         /\ Cardinality(live) \in Nat /\ Cardinality(Promised) \in Nat
         /\ Cardinality(Cpus) \in Nat /\ Cardinality(Promised) <= Cardinality(Cpus)
  <1>0. 1 \in Int /\ blocks \in Int
    BY SMT DEF Shape
  <1>1. IsFiniteSet(1..blocks)
    BY <1>0, FS_Interval, Zenon
  <1>2. IsFiniteSet(live) /\ IsFiniteSet(Promised) /\ Cardinality(Promised) <= Cardinality(Cpus)
    BY <1>1, FS_Subset, BucketConstants, Zenon DEF Shape, Promised
  <1>3. QED
    BY <1>2, FS_CardinalityType, BucketConstants, Zenon

\* What becomes of the promises when c gets one.
LEMMA OnePromise ==
  ASSUME BucketInv, NEW c \in Cpus, pc[c] # "alloc", Goto(c, "alloc"),
         UNCHANGED <<blocks, mh, reused, job>>, pc[c] = "create",
         live' \subseteq live, DOMAIN list' \subseteq DOMAIN list,
         ~reused => \A x \in live : x \notin live' => x \in DOMAIN list,
         ~reused => DOMAIN list' \subseteq live'
  PROVE  /\ Shape' /\ ListSound' /\ OwnIsOwn'
         /\ Promised' = Promised \cup {c} /\ c \notin Promised
  <1>1. Shape'
    BY Zenon DEF BucketInv, Shape, Owns, Goto, Places
  <1>2. ListSound'
    BY Zenon DEF ListSound
  <1>3. OwnIsOwn'
    BY Zenon DEF BucketInv, Shape, OwnIsOwn, Owns, Goto
  <1>4. Promised' = Promised \cup {c} /\ c \notin Promised
    BY Zenon DEF BucketInv, Shape, Promised, Goto
  <1>5. QED
    BY <1>1, <1>2, <1>3, <1>4, Zenon

\* A promise is given while there is room: with all other CPUs' promises the
\* limit is not exceeded by more than theirs.
LEMMA RoomInv ==
  ASSUME BucketInv, NEW c \in Cpus, Room(c)
  PROVE  BucketInv'
  <1>1. pc[c] = "create" /\ UNCHANGED <<blocks, live, list, mh, reused, job>>
    BY Zenon DEF Room, entries, history
  <1>2. CASE Full
    <2>1. Goto(c, "done") /\ DOMAIN job = Cpus /\ job[c].op \in Operations
      BY <1>1, <1>2, Zenon DEF Room, BucketInv, Shape
    <2>2. QED
      BY <1>1, <2>1, PlainStep, Zenon DEF Places
  <1>3. CASE ~Full
    <2>1. Goto(c, "alloc")
      BY <1>3, Zenon DEF Room
    <2>2. Shape' /\ ListSound' /\ OwnIsOwn'
      BY <1>1, <2>1, OnePromise, Zenon DEF BucketInv, ListSound
    <2>3. /\ Cardinality(live') \in Nat /\ Cardinality(live') < Limit
          /\ Cardinality(Promised') \in Nat /\ Cardinality(Cpus) \in Nat
          /\ Cardinality(Promised') <= Cardinality(Cpus)
      <3>1. Cardinality(live) \in Nat /\ Cardinality(live) < Limit
        BY <1>3, Finite, BucketConstants DEF Full, BucketInv
      <3>2. IsFiniteSet(Promised') /\ Cardinality(Promised') <= Cardinality(Cpus)
        BY FS_Subset, BucketConstants, Zenon DEF Promised
      <3>3. QED
        BY <1>1, <3>1, <3>2, FS_CardinalityType, BucketConstants, Zenon
    <2>4. PromisesKept'
      BY <2>3, BucketConstants DEF PromisesKept
    <2>5. QED
      BY <2>2, <2>4, Zenon DEF BucketInv
  <1>4. QED
    BY <1>2, <1>3, Zenon

\* An eviction gives at least one entry for the promise.
LEMMA EvictInv ==
  ASSUME BucketInv, NEW c \in Cpus, Evict(c)
  PROVE  BucketInv'
  <1>1. /\ pc[c] = "create" /\ UNCHANGED <<blocks, mh, reused, job>>
        /\ Goto(c, "alloc") \/ Goto(c, "done")
    BY Zenon DEF Evict, history
  <1>2. PICK V \in (SUBSET DOMAIN list) \ {{}} : list' = Without(V) /\ live' = live \ V
    BY Zenon DEF Evict
  <1>3. DOMAIN list' = DOMAIN list \ V
    BY <1>2, Zenon DEF Without
  <1>4. CASE Goto(c, "done")
    <2>1. Shape'
      BY <1>1, <1>2, <1>3, <1>4, Zenon DEF BucketInv, Shape, Owns, Goto, Places
    <2>2. ListSound'
      BY <1>1, <1>2, <1>3, Zenon DEF BucketInv, ListSound
    <2>3. OwnIsOwn'
      BY <1>1, <1>2, <1>3, <1>4, Zenon DEF BucketInv, Shape, OwnIsOwn, ListSound, Owns, Goto
    <2>4. Promised' \subseteq Promised /\ live' \subseteq live
      BY <1>2, <1>4, Zenon DEF BucketInv, Shape, Promised, Goto
    <2>5. QED
      BY <1>1, <2>1, <2>2, <2>3, <2>4, FewerPromises, Zenon DEF BucketInv
  <1>5. CASE Goto(c, "alloc")
    <2>1. /\ Shape' /\ ListSound' /\ OwnIsOwn'
          /\ Promised' = Promised \cup {c} /\ c \notin Promised
      BY <1>1, <1>2, <1>3, <1>5, OnePromise, Zenon DEF BucketInv, ListSound
    <2>2. PromisesKept'
      <3>1. SUFFICES ASSUME ~reused
                     PROVE  Cardinality(live') + Cardinality(Promised') < Limit + Cardinality(Cpus)
        BY <1>1, Zenon DEF PromisesKept
      <3>2. PICK x \in V : x \in live
        BY <1>2, <3>1, Zenon DEF BucketInv, ListSound
      <3>3. /\ IsFiniteSet(live \ {x}) /\ Cardinality(live \ {x}) = Cardinality(live) - 1
        BY <3>2, Finite, FS_RemoveElement, Zenon DEF BucketInv
      <3>4. IsFiniteSet(live') /\ Cardinality(live') <= Cardinality(live \ {x})
        BY <1>2, <3>2, <3>3, FS_Subset, Zenon
      <3>5. Cardinality(Promised') = Cardinality(Promised) + 1
        BY <2>1, Finite, FS_AddElement, Zenon DEF BucketInv
      <3>6. /\ Cardinality(live) \in Nat /\ Cardinality(live') \in Nat
            /\ Cardinality(Promised) \in Nat /\ Cardinality(Cpus) \in Nat
        BY <3>4, Finite, FS_CardinalityType, Zenon DEF BucketInv
      <3>7. Cardinality(live) + Cardinality(Promised) < Limit + Cardinality(Cpus)
        BY <3>1, Zenon DEF BucketInv, PromisesKept
      <3>8. QED
        BY <3>3, <3>4, <3>5, <3>6, <3>7, BucketConstants
    <2>3. QED
      BY <2>1, <2>2, Zenon DEF BucketInv
  <1>6. QED
    BY <1>1, <1>4, <1>5, Zenon

\* A new entry redeems the promise, and is the CPU's own unless another one
\* still pointed to its memory.
LEMMA CreateInv ==
  ASSUME BucketInv, NEW c \in Cpus, Create(c)
  PROVE  BucketInv'
  <1>1. pc[c] = "alloc" /\ UNCHANGED <<list, job>>
    BY Zenon DEF Create
  <1>2. PICK x \in 1..(blocks + 1) \ live :
          /\ blocks' = IF x > blocks THEN x ELSE blocks
          /\ live' = live \cup {x}
          /\ reused' = (reused \/ \E e \in Cpus \ {c} : mh[e] = x)
          /\ Point(c, x)
    BY Zenon DEF Create
  <1>3. job[c].op \in Operations
    BY <1>1, Zenon DEF BucketInv, Shape
  <1>4. PICK place \in {"load", "add"} :
          Goto(c, place) /\ (place = "load" => job[c].op = "get")
    BY Zenon DEF Create
  <1>5. blocks \in Nat /\ blocks' \in Nat /\ blocks <= blocks' /\ x \in 1..blocks'
    BY <1>2 DEF BucketInv, Shape
  <1>6. /\ mh' \in [Cpus -> 0..blocks'] /\ mh'[c] = x
        /\ \A e \in Cpus \ {c} : mh'[e] = mh[e]
    BY <1>2, <1>5 DEF Point, BucketInv, Shape
  <1>7. /\ pc' \in [Cpus -> Places] /\ pc'[c] = place
        /\ \A e \in Cpus \ {c} : pc'[e] = pc[e]
    BY <1>4, Zenon DEF Goto, BucketInv, Shape, Places
  <1>8. Shape'
    <2>1. live' \subseteq 1..blocks' /\ DOMAIN list \subseteq 1..blocks'
      <3>1. 1..blocks \subseteq 1..blocks'
        BY <1>5
      <3>2. QED
        BY <1>2, <1>5, <3>1, Zenon DEF BucketInv, Shape
    <2>2. QED
      BY <1>1, <1>3, <1>4, <1>5, <1>6, <1>7, <2>1 DEF BucketInv, Shape, Owns, NoOne
  <1>9. ListSound'
    BY <1>1, <1>2, Zenon DEF BucketInv, ListSound
  <1>10. OwnIsOwn'
    <2>1. SUFFICES ASSUME ~reused', NEW o \in Cpus, Owns(o)'
                   PROVE  /\ mh'[o] \in live' \ DOMAIN list
                          /\ \A e \in Cpus \ {o} : mh'[e] # mh'[o]
      BY <1>1, Zenon DEF OwnIsOwn
    <2>2. ~reused /\ \A e \in Cpus \ {c} : mh[e] # x
      BY <1>2, <2>1, Zenon
    <2>3. CASE o = c
      BY <1>2, <1>6, <2>2, <2>3, Zenon DEF BucketInv, ListSound
    <2>4. CASE o # c
      <3>1. Owns(o)
        BY <1>1, <1>7, <2>1, <2>4, Zenon DEF Owns
      <3>2. mh[o] \in live \ DOMAIN list /\ \A e \in Cpus \ {o} : mh[e] # mh[o]
        BY <2>2, <3>1, Zenon DEF BucketInv, OwnIsOwn
      <3>3. QED
        BY <1>2, <1>6, <2>4, <3>2, Zenon
    <2>5. QED
      BY <2>3, <2>4, Zenon
  <1>11. PromisesKept'
    <2>1. Promised' = Promised \ {c} /\ c \in Promised
      BY <1>1, <1>7, Zenon DEF Promised
    <2>2. Cardinality(Promised') = Cardinality(Promised) - 1
      BY <2>1, Finite, FS_RemoveElement, Zenon DEF BucketInv
    <2>3. Cardinality(live') = Cardinality(live) + 1
      BY <1>2, Finite, FS_AddElement, Zenon DEF BucketInv
    <2>4. /\ Cardinality(live) \in Nat /\ Cardinality(Promised) \in Nat
          /\ Cardinality(Cpus) \in Nat
      BY Finite, Zenon DEF BucketInv
    <2>5. ~reused' => ~reused
      BY <1>2, Zenon
    <2>6. QED
      BY <2>2, <2>3, <2>4, <2>5, BucketConstants DEF BucketInv, PromisesKept
  <1>12. QED
    BY <1>8, <1>9, <1>10, <1>11, Zenon DEF BucketInv

\* Every step preserves the invariant.
LEMMA NextInv ==
  ASSUME BucketInv, [Next]_vars
  PROVE  BucketInv'
  <1>1. ASSUME NEW c \in Cpus, Use(c) \/ Done(c) PROVE BucketInv'
    <2>1. /\ Return(c) /\ UNCHANGED <<blocks, live, list, reused>>
          /\ pc[c] # "idle"
      BY <1>1, Zenon DEF Use, Done, entries
    <2>2. QED
      BY <2>1, ReturnInv, Zenon
  <1>2. ASSUME NEW c \in Cpus, Step(c) PROVE BucketInv'
    BY <1>1, <1>2, StartInv, FindInv, DropInv, MiniInv, DeleteInv, ReleaseInv, RoomInv,
       EvictInv, CreateInv, LoadInv, AddInv, Zenon DEF Step
  <1>3. ASSUME UNCHANGED vars PROVE BucketInv'
    BY <1>3, Zenon DEF vars, entries, history, BucketInv, Shape, Owns, ListSound, OwnIsOwn,
       PromisesKept, Promised
  <1>4. QED
    BY <1>2, <1>3, Zenon DEF Next

LEMMA InitInv == Init => BucketInv
  <1> SUFFICES ASSUME Init PROVE BucketInv
    BY Zenon
  <1>1. DOMAIN list = {} /\ live = {} /\ Promised = {}
    BY DEF Init, Promised
  <1>2. Shape /\ ListSound /\ OwnIsOwn
    BY <1>1 DEF Init, Shape, Owns, Places, ListSound, OwnIsOwn, NoOne
  <1>3. Cardinality(live) = 0 /\ Cardinality(Promised) = 0 /\ Cardinality(Cpus) \in Nat
    BY <1>1, FS_EmptySet, FS_CardinalityType, BucketConstants, Zenon
  <1>4. QED
    BY <1>2, <1>3, BucketConstants DEF BucketInv, PromisesKept

\* BucketInv is an invariant whatever the CPUs, the keys they share, the limit
\* and the calls are.
THEOREM BucketInvariant == Spec => []BucketInv
  <1>1. BucketInv /\ [Next]_vars => BucketInv'
    BY NextInv, Zenon
  <1>2. QED
    BY <1>1, InitInv, PTL DEF Spec

\* The bucket has only valid entries, for every instance: pointers that CPUs
\* keep while the lock is free do no harm until their memory is another entry.
THEOREM BucketSound == Spec => []ListSound
  <1>1. BucketInv => ListSound
    BY Zenon DEF BucketInv
  <1>2. QED
    BY <1>1, BucketInvariant, PTL

\* Since memory is checked in one step and taken in another, the limit may be
\* exceeded, but by less than one entry for each CPU, for every instance.
THEOREM LimitAlmostKept == Spec => []SlightlyOver
  <1>1. BucketInv => SlightlyOver
    BY Finite, BucketConstants DEF BucketInv, PromisesKept, SlightlyOver
  <1>2. QED
    BY <1>1, BucketInvariant, PTL

---------------------------------------------------------------------------
(***************************************************************************)
(* list_del is safe.  A removal finds its entry listed or no longer valid;  *)
(* a mini-header that a CPU relies on is still there, because another CPU   *)
(* frees only headers of its own keys, and numbers tell headers apart.      *)
(***************************************************************************)
\* Places counted in an order without ties are different, and no larger than
\* the number of those counted.
LEMMA RankProperties ==
  ASSUME NEW S, IsFiniteSet(S), NEW f,
         \A x \in S : f[x] \in Nat, \A x, y \in S : f[x] = f[y] => x = y
  PROVE  /\ \A x \in S : Rank(f, S, x) \in 1..Cardinality(S)
         /\ \A x, y \in S : Rank(f, S, x) = Rank(f, S, y) => x = y
  <1> DEFINE Upto(x) == {y \in S : f[y] <= f[x]}
  <1>1. ASSUME NEW x \in S
        PROVE  /\ IsFiniteSet(Upto(x)) /\ x \in Upto(x)
               /\ Cardinality(Upto(x)) \in 1..Cardinality(S)
    <2>1. x \in Upto(x) /\ Upto(x) \subseteq S
      OBVIOUS
    <2>2. IsFiniteSet(Upto(x)) /\ Cardinality(Upto(x)) <= Cardinality(S)
      BY <2>1, FS_Subset, Zenon
    <2>3. Cardinality(Upto(x)) \in Nat /\ Cardinality(Upto(x)) # 0 /\ Cardinality(S) \in Nat
      BY <2>1, <2>2, FS_CardinalityType, FS_EmptySet, Zenon
    <2>4. QED
      BY <2>1, <2>2, <2>3
  <1>2. ASSUME NEW x \in S, NEW y \in S, f[x] < f[y]
        PROVE  Cardinality(Upto(x)) < Cardinality(Upto(y))
    <2>1. Upto(x) \subseteq Upto(y) \ {y}
      BY <1>2
    <2>2. IsFiniteSet(Upto(y) \ {y}) /\ Cardinality(Upto(y) \ {y}) = Cardinality(Upto(y)) - 1
      BY <1>1, FS_RemoveElement, Zenon
    <2>3. Cardinality(Upto(x)) <= Cardinality(Upto(y) \ {y})
      BY <2>1, <2>2, FS_Subset, Zenon
    <2>4. QED
      BY <1>1, <2>2, <2>3
  <1>3. \A x \in S : Rank(f, S, x) = Cardinality(Upto(x))
    BY Zenon DEF Rank
  <1> HIDE DEF Upto
  <1>4. ASSUME NEW x \in S, NEW y \in S, x # y
        PROVE  Rank(f, S, x) # Rank(f, S, y)
    <2>1. f[x] < f[y] \/ f[y] < f[x]
      BY <1>4
    <2>2. Cardinality(Upto(x)) \in Nat /\ Cardinality(Upto(y)) \in Nat
      BY <1>1
    <2>3. QED
      BY <1>2, <1>3, <2>1, <2>2
  <1>5. QED
    BY <1>1, <1>3, <1>4, Zenon

\* The bucket has finitely many entries.
LEMMA ListFinite ==
  ASSUME Shape
  PROVE  IsFiniteSet(DOMAIN list)
  <1>0. 1 \in Int /\ blocks \in Int
    BY SMT DEF Shape
  <1>1. IsFiniteSet(1..blocks)
    BY <1>0, FS_Interval, Zenon
  <1>2. QED
    BY <1>1, FS_Subset, Zenon DEF Shape

\* Taking entries out of the bucket leaves the others in their order.
LEMMA WithoutOrdered ==
  ASSUME Shape, Ordered, ~reused, NEW V
  PROVE  /\ DOMAIN Without(V) = DOMAIN list \ V
         /\ Without(V) \in [DOMAIN list \ V -> 1..Cardinality(DOMAIN list \ V)]
         /\ \A x, y \in DOMAIN list \ V : Without(V)[x] = Without(V)[y] => x = y
  <1>1. IsFiniteSet(DOMAIN list \ V)
    BY ListFinite, FS_Subset, Zenon
  <1>2. /\ \A x \in DOMAIN list \ V : list[x] \in Nat
        /\ \A x, y \in DOMAIN list \ V : list[x] = list[y] => x = y
    BY DEF Ordered
  <1>3. /\ \A x \in DOMAIN list \ V :
             Rank(list, DOMAIN list \ V, x) \in 1..Cardinality(DOMAIN list \ V)
        /\ \A x, y \in DOMAIN list \ V :
             Rank(list, DOMAIN list \ V, x) = Rank(list, DOMAIN list \ V, y) => x = y
    BY <1>1, <1>2, RankProperties, Zenon
  <1>4. QED
    BY <1>3, Zenon DEF Without

\* An entry added comes after all others.
LEMMA WithOrdered ==
  ASSUME Shape, Ordered, ~reused, NEW x, x \notin DOMAIN list
  PROVE  /\ DOMAIN With(x) = DOMAIN list \cup {x}
         /\ With(x) \in [DOMAIN list \cup {x} -> 1..Cardinality(DOMAIN list \cup {x})]
         /\ \A y, z \in DOMAIN list \cup {x} : With(x)[y] = With(x)[z] => y = z
  <1>1. IsFiniteSet(DOMAIN list)
    BY ListFinite, Zenon
  <1>2. /\ Cardinality(DOMAIN list) \in Nat
        /\ Cardinality(DOMAIN list \cup {x}) = Cardinality(DOMAIN list) + 1
    BY <1>1, FS_AddElement, FS_CardinalityType, Zenon
  <1>3. /\ \A y \in DOMAIN list : list[y] \in 1..Cardinality(DOMAIN list)
        /\ \A y, z \in DOMAIN list : list[y] = list[z] => y = z
    BY Zenon DEF Ordered
  <1>4. \A y \in DOMAIN list \cup {x} :
          With(x)[y] = IF y = x THEN Cardinality(DOMAIN list) + 1 ELSE list[y]
    BY Zenon DEF With
  <1>5. \A y \in DOMAIN list \cup {x} : With(x)[y] \in 1..Cardinality(DOMAIN list \cup {x})
    BY <1>2, <1>3, <1>4
  <1>6. \A y, z \in DOMAIN list \cup {x} : With(x)[y] = With(x)[z] => y = z
    BY <1>2, <1>3, <1>4
  <1>7. QED
    BY <1>5, <1>6, Zenon DEF With

\* c moves, and the bucket and the mini-headers stay as they are.
LEMMA SafeQuiet ==
  ASSUME BucketInv, SafeInv, NEW c \in Cpus, NEW place \in Places \ {"fault"}, Goto(c, place),
         UNCHANGED <<work, daemon, blocks, live, list, mini, made, reused>>,
         DOMAIN mem' = DOMAIN mem, \A x \in 1..blocks : mem'[x].key = mem[x].key,
         DOMAIN mch' = Cpus,
         \A e \in Cpus \ {c} : job'[e] = job[e] /\ mch'[e] = mch[e] /\ mh'[e] = mh[e],
         place # "idle" =>
           job'[c].key \in work[c] /\ (job'[c].op # "put" => job'[c].val = NoVal),
         place = "drop" => mh'[c] \in DOMAIN list,
         Relies(c)' => daemon /\ (~reused /\ Disjoint =>
                          \E h \in mini : h.nr = mch'[c] /\ h.key = job'[c].key)
  PROVE  SafeInv'
  <1>1. pc'[c] = place /\ \A e \in Cpus \ {c} : pc'[e] = pc[e]
    BY Zenon DEF Goto, BucketInv, Shape
  <1>2. Jobs'
    BY <1>1 DEF SafeInv, Jobs
  <1>3. Ordered'
    BY Zenon DEF SafeInv, Ordered
  <1>4. HeaderThere'
    <2>1. \A e \in Cpus \ {c} : Relies(e)' <=> Relies(e)
      BY <1>1, Zenon DEF Relies
    <2>2. Disjoint' <=> Disjoint
      BY Zenon DEF Disjoint
    <2>3. QED
      BY <2>1, <2>2 DEF SafeInv, HeaderThere, Jobs
  <1>5. DropSafe'
    BY <1>1, Zenon DEF SafeInv, DropSafe
  <1>6. ListDelSafe'
    BY <1>1, Zenon DEF SafeInv, ListDelSafe, Disjoint
  <1>7. QED
    BY <1>2, <1>3, <1>4, <1>5, <1>6, Zenon DEF SafeInv

LEMMA StartSafe ==
  ASSUME BucketInv, SafeInv, NEW c \in Cpus, NEW op \in Ops, NEW k \in Keys, Start(c, op, k)
  PROVE  SafeInv'
  <1>1. /\ Goto(c, "find") /\ k \in work[c]
        /\ UNCHANGED <<work, daemon, blocks, mem, live, list, mini, made, reused, mch, mh>>
    BY Zenon DEF Start, choices, entries, headers, history
  <1>2. /\ job'[c] = [op |-> op, key |-> k, val |-> IF op = "put" THEN calls + 1 ELSE NoVal]
        /\ \A e \in Cpus \ {c} : job'[e] = job[e]
    BY Zenon DEF Start, BucketInv, Shape
  <1>3. ~Relies(c)'
    BY <1>1, Zenon DEF Relies, Goto, BucketInv, Shape
  <1>4. DOMAIN mch' = Cpus
    BY <1>1, Zenon DEF SafeInv, Ordered
  <1>5. QED
    BY <1>1, <1>2, <1>3, <1>4, SafeQuiet DEF Places

LEMMA FindSafe ==
  ASSUME BucketInv, SafeInv, NEW c \in Cpus, Find(c)
  PROVE  SafeInv'
  <1>1. /\ UNCHANGED <<work, daemon, blocks, mem, live, list, mini, made, reused, mch, job>>
        /\ pc[c] = "find"
    BY Zenon DEF Find, choices, entries, headers, history
  <1>2. PICK x \in FindEntry(job[c].key) :
          /\ Point(c, x)
          /\ Goto(c, IF x = NoOne THEN "mini"
                     ELSE CASE job[c].op \in {"put", "remove"} -> "drop"
                            [] job[c].op = "get" -> "use"
                            [] job[c].op = "check" -> "done")
    BY Zenon DEF Find
  <1>3. x = NoOne \/ x \in DOMAIN list
    BY Zenon DEF FindEntry, FirstOf
  <1>4. PICK place \in {"mini", "drop", "use", "done"} :
          Goto(c, place) /\ (place = "drop" => x \in DOMAIN list)
    BY <1>1, <1>2, <1>3, Zenon DEF BucketInv, Shape, Operations
  <1>5. mh'[c] = x /\ \A e \in Cpus \ {c} : mh'[e] = mh[e]
    BY <1>2, Zenon DEF Point, BucketInv, Shape
  <1>6. ~Relies(c)'
    BY <1>4, Zenon DEF Relies, Goto, BucketInv, Shape
  <1>7. /\ DOMAIN mch' = Cpus /\ job[c].key \in work[c]
        /\ (job[c].op # "put" => job[c].val = NoVal)
    BY <1>1, Zenon DEF SafeInv, Ordered, Jobs
  <1>8. QED
    BY <1>1, <1>4, <1>5, <1>6, <1>7, SafeQuiet, Zenon DEF Places

\* The header found is in the list, with the key looked for.
LEMMA HeaderFound ==
  ASSUME NEW k, NEW m \in FindHeader(k), m # NoOne
  PROVE  \E h \in mini : h.nr = m /\ h.key = k
  BY Zenon DEF FindHeader, FirstOf

LEMMA MiniSafe ==
  ASSUME BucketInv, SafeInv, NEW c \in Cpus, Mini(c)
  PROVE  SafeInv'
  <1>1. /\ UNCHANGED <<work, daemon, blocks, mem, live, list, mini, made, reused, mh, job>>
        /\ pc[c] = "mini" /\ job[c].op \in Operations
    BY Zenon DEF Mini, choices, entries, headers, history, BucketInv, Shape
  <1>2. PICK m \in FindHeader(job[c].key) :
         /\ mch' = [mch EXCEPT ![c] = m]
         /\ Goto(c, CASE job[c].op = "check" \/ (job[c].op = "put" /\ m = NoOne) -> "create"
                      [] job[c].op = "get" /\ m # NoOne -> "create"
                      [] job[c].op \in {"put", "remove"} /\ m # NoOne -> "delete"
                      [] job[c].op \in {"get", "remove"} /\ m = NoOne -> "done")
    BY Zenon DEF Mini
  <1>3. PICK place \in {"create", "done", "delete"} :
          /\ Goto(c, place)
          /\ place = "delete" \/ (place = "create" /\ job[c].op = "get") => m # NoOne
    BY <1>1, <1>2, Zenon DEF Operations
  <1>4. DOMAIN mch' = Cpus /\ mch'[c] = m /\ \A e \in Cpus \ {c} : mch'[e] = mch[e]
    BY <1>2, Zenon DEF SafeInv, Ordered
  <1>5. ASSUME Relies(c)'
        PROVE  daemon /\ \E h \in mini : h.nr = mch'[c] /\ h.key = job'[c].key
    <2>1. m # NoOne
      BY <1>1, <1>3, <1>5, Zenon DEF Relies, Goto, BucketInv, Shape
    <2>2. \E h \in mini : h.nr = m /\ h.key = job[c].key
      BY <2>1, HeaderFound, Zenon
    <2>3. QED
      BY <1>1, <1>4, <2>2, Zenon DEF SafeInv, HeaderThere
  <1>6. job[c].key \in work[c] /\ (job[c].op # "put" => job[c].val = NoVal)
    BY <1>1, Zenon DEF SafeInv, Jobs
  <1>7. QED
    BY <1>1, <1>3, <1>4, <1>5, <1>6, SafeQuiet, Zenon DEF Places

\* A CPU that goes on relying on its header, or relies on none.
LEMMA SafeOn ==
  ASSUME BucketInv, SafeInv, NEW c \in Cpus, NEW place \in Places \ {"fault", "drop"},
         Goto(c, place), pc[c] # "idle",
         UNCHANGED <<work, daemon, blocks, live, list, mini, made, reused, mch, mh, job>>,
         DOMAIN mem' = DOMAIN mem, \A x \in 1..blocks : mem'[x].key = mem[x].key,
         Relies(c)' => Relies(c)
  PROVE  SafeInv'
  <1>1. /\ DOMAIN mch' = Cpus /\ job'[c].key \in work[c]
        /\ (job'[c].op # "put" => job'[c].val = NoVal)
    BY Zenon DEF SafeInv, Ordered, Jobs
  <1>2. Relies(c)' => daemon /\ (~reused /\ Disjoint =>
                          \E h \in mini : h.nr = mch'[c] /\ h.key = job'[c].key)
    BY Zenon DEF SafeInv, HeaderThere, Jobs
  <1>3. QED
    BY <1>1, <1>2, SafeQuiet, Zenon

LEMMA DeleteSafe ==
  ASSUME BucketInv, SafeInv, NEW c \in Cpus, Delete(c)
  PROVE  SafeInv'
  <1>1. /\ UNCHANGED <<work, daemon, blocks, mem, live, list, mini, made, reused, mch, mh, job>>
        /\ Goto(c, "release") /\ pc[c] = "delete"
    BY Zenon DEF Delete, choices, entries, headers, history
  <1>2. Relies(c)
    BY <1>1, Zenon DEF Relies
  <1>3. QED
    BY <1>1, <1>2, SafeOn, Zenon DEF Places

LEMMA LoadSafe ==
  ASSUME BucketInv, SafeInv, NEW c \in Cpus, Load(c)
  PROVE  SafeInv'
  <1>1. /\ UNCHANGED <<work, daemon, blocks, live, list, mini, made, reused, mch, mh, job>>
        /\ Goto(c, "release") /\ pc[c] = "load"
        /\ mem' = [mem EXCEPT ![mh[c]].val = files[job[c].key]]
    BY Zenon DEF Load, choices, headers, history
  <1>2. Relies(c)
    BY <1>1, Zenon DEF Relies
  <1>3. DOMAIN mem' = DOMAIN mem /\ \A x \in 1..blocks : mem'[x].key = mem[x].key
    BY <1>1 DEF SafeInv, Jobs
  <1>4. QED
    BY <1>1, <1>2, <1>3, SafeOn, Zenon DEF Places

LEMMA RoomSafe ==
  ASSUME BucketInv, SafeInv, NEW c \in Cpus, Room(c)
  PROVE  SafeInv'
  <1>1. /\ UNCHANGED <<work, daemon, blocks, mem, live, list, mini, made, reused, mch, mh, job>>
        /\ pc[c] = "create"
    BY Zenon DEF Room, choices, entries, headers, history
  <1>2. PICK place \in {"done", "alloc"} : Goto(c, place)
    BY Zenon DEF Room
  <1>3. Relies(c)' => Relies(c)
    BY <1>1, <1>2, Zenon DEF Relies, Goto, BucketInv, Shape
  <1>4. QED
    BY <1>1, <1>2, <1>3, SafeOn, Zenon DEF Places

LEMMA ReturnSafe ==
  ASSUME BucketInv, SafeInv, NEW c \in Cpus, Return(c),
         UNCHANGED <<work, daemon, blocks, mem, live, list, mini, made, reused>>
  PROVE  SafeInv'
  <1>1. Goto(c, "idle") /\ Point(c, NoOne)
    BY Zenon DEF Return
  <1>2. \A e \in Cpus \ {c} : job'[e] = job[e] /\ mch'[e] = mch[e] /\ mh'[e] = mh[e]
    BY Zenon DEF Return, Point, BucketInv, Shape, SafeInv, Ordered
  <1>3. DOMAIN mch' = Cpus /\ ~Relies(c)'
    BY <1>1, Zenon DEF Return, SafeInv, Ordered, Relies, Goto, BucketInv, Shape
  <1>4. QED
    BY <1>1, <1>2, <1>3, SafeQuiet, Zenon DEF Places

\* mcdctl_free takes the header of the CPU's own key, and finds it.
LEMMA ReleaseSafe ==
  ASSUME BucketInv, SafeInv, NEW c \in Cpus, Release(c)
  PROVE  SafeInv'
  <1>1. /\ UNCHANGED <<work, daemon, blocks, mem, live, list, made, reused, mch, mh, job>>
        /\ pc[c] = "release" /\ mini' = {h \in mini : h.nr # mch[c]}
        /\ job[c].op \in {"put", "get", "remove"} /\ Relies(c)
    BY Zenon DEF Release, choices, entries, history, BucketInv, Shape, Operations, Relies
  <1>2. PICK place \in {"fault", "create", "done", "add"} :
          /\ Goto(c, place) /\ (place = "fault" => mini' = mini)
          /\ (place = "create" => job[c].op = "put")
    BY <1>1, Zenon DEF Release
  <1>3. pc'[c] = place /\ \A e \in Cpus \ {c} : pc'[e] = pc[e]
    BY <1>2, Zenon DEF Goto, BucketInv, Shape
  <1>4. Jobs'
    BY <1>1, <1>3, Zenon DEF SafeInv, Jobs
  <1>5. Ordered'
    BY <1>1, Zenon DEF SafeInv, Ordered
  <1>6. (Disjoint' <=> Disjoint) /\ daemon
    BY <1>1, Zenon DEF Disjoint, SafeInv, HeaderThere, Jobs
  <1>7. HeaderThere'
    <2>1. ~Relies(c)' /\ \A e \in Cpus \ {c} : Relies(e)' <=> Relies(e)
      BY <1>1, <1>2, <1>3, Zenon DEF Relies
    <2>2. ASSUME ~reused, Disjoint, NEW e \in Cpus \ {c}, Relies(e)
          PROVE  \E h \in mini' : h.nr = mch[e] /\ h.key = job[e].key
      <3>1. PICK h \in mini : h.nr = mch[e] /\ h.key = job[e].key
        BY <2>2, Zenon DEF SafeInv, HeaderThere
      <3>2. PICK g \in mini : g.nr = mch[c] /\ g.key = job[c].key
        BY <1>1, <2>2, Zenon DEF SafeInv, HeaderThere
      <3>3. job[e].key \in work[e] /\ job[c].key \in work[c]
        BY <1>1, <2>2, Zenon DEF SafeInv, Jobs, Relies
      <3>4. h # g
        BY <2>2, <3>1, <3>2, <3>3, Zenon DEF Disjoint
      <3>5. h.nr # mch[c]
        BY <2>2, <3>2, <3>4, Zenon DEF SafeInv, Ordered
      <3>6. QED
        BY <1>1, <3>1, <3>5, Zenon
    <2>3. QED
      BY <1>1, <1>6, <2>1, <2>2, Zenon DEF HeaderThere
  <1>8. DropSafe'
    BY <1>1, <1>2, <1>3, Zenon DEF SafeInv, DropSafe
  <1>9. ListDelSafe'
    <2>1. ASSUME ~reused, Disjoint PROVE place # "fault"
      <3>1. PICK g \in mini : g.nr = mch[c]
        BY <1>1, <2>1, Zenon DEF SafeInv, HeaderThere
      <3>2. QED
        BY <1>1, <1>2, <3>1, Zenon
    <2>2. QED
      BY <1>1, <1>3, <1>6, <2>1, Zenon DEF SafeInv, ListDelSafe
  <1>10. QED
    BY <1>4, <1>5, <1>7, <1>8, <1>9, Zenon DEF SafeInv

\* c moves, and only the bucket changes: entries that leave it are no longer
\* valid.
LEMMA SafeListStep ==
  ASSUME BucketInv, SafeInv, NEW c \in Cpus, NEW place \in Places, Goto(c, place),
         place # "drop", pc[c] # "idle", Relies(c)' => Relies(c),
         ~reused /\ (Disjoint \/ ~daemon) => place # "fault",
         UNCHANGED <<work, daemon, blocks, mem, mini, made, reused, mch, mh, job>>,
         live' \subseteq live, \A x \in DOMAIN list : x \in DOMAIN list' \/ x \notin live',
         ~reused => /\ list' \in [DOMAIN list' -> 1..Cardinality(DOMAIN list')]
                    /\ \A x, y \in DOMAIN list' : list'[x] = list'[y] => x = y
  PROVE  SafeInv'
  <1>1. pc'[c] = place /\ \A e \in Cpus \ {c} : pc'[e] = pc[e]
    BY Zenon DEF Goto, BucketInv, Shape
  <1>2. Jobs'
    BY <1>1, Zenon DEF SafeInv, Jobs
  <1>3. Ordered'
    BY Zenon DEF SafeInv, Ordered
  <1>4. HeaderThere'
    <2>1. \A e \in Cpus \ {c} : Relies(e)' <=> Relies(e)
      BY <1>1, Zenon DEF Relies
    <2>2. Disjoint' <=> Disjoint
      BY Zenon DEF Disjoint
    <2>3. QED
      BY <2>1, <2>2, Zenon DEF SafeInv, HeaderThere
  <1>5. DropSafe'
    BY <1>1, Zenon DEF SafeInv, DropSafe
  <1>6. ListDelSafe'
    BY <1>1, Zenon DEF SafeInv, ListDelSafe, Disjoint
  <1>7. QED
    BY <1>2, <1>3, <1>4, <1>5, <1>6, Zenon DEF SafeInv

LEMMA DropSafely ==
  ASSUME BucketInv, SafeInv, NEW c \in Cpus, Drop(c)
  PROVE  SafeInv'
  <1>1. /\ UNCHANGED <<work, daemon, blocks, mem, mini, made, reused, mch, mh, job>>
        /\ pc[c] = "drop" /\ job[c].op \in Operations
    BY Zenon DEF Drop, choices, headers, history, BucketInv, Shape
  <1>2. PICK place \in {"fault", "create", "done"} :
          /\ Goto(c, place)
          /\ place = "fault" => mh[c] \in live \ DOMAIN list
          /\ place = "create" => job[c].op = "put"
    BY Zenon DEF Drop
  <1>3. ~reused => place # "fault"
    BY <1>1, <1>2, Zenon DEF SafeInv, DropSafe
  <1>4. ~Relies(c)'
    BY <1>1, <1>2, Zenon DEF Relies, Goto, BucketInv, Shape
  <1>5. live' \subseteq live /\ \A x \in DOMAIN list : x \in DOMAIN list' \/ x \notin live'
    BY Zenon DEF Drop, Without
  <1>6. ASSUME ~reused
        PROVE  /\ list' \in [DOMAIN list' -> 1..Cardinality(DOMAIN list')]
               /\ \A x, y \in DOMAIN list' : list'[x] = list'[y] => x = y
    <2>1. CASE mh[c] \in live
      <3>1. list' = Without({mh[c]})
        BY <2>1, Zenon DEF Drop
      <3>2. DOMAIN list' = DOMAIN list \ {mh[c]}
        BY <3>1, Zenon DEF Without
      <3>3. Shape /\ Ordered
        BY Zenon DEF BucketInv, SafeInv
      <3>4. QED
        BY <1>6, <3>1, <3>2, <3>3, WithoutOrdered, Zenon
    <2>2. CASE mh[c] \notin live
      BY <1>6, <2>2, Zenon DEF Drop, SafeInv, Ordered
    <2>3. QED
      BY <2>1, <2>2, Zenon
  <1>7. QED
    BY <1>1, <1>2, <1>3, <1>4, <1>5, <1>6, SafeListStep, Zenon DEF Places

LEMMA AddSafe ==
  ASSUME BucketInv, SafeInv, NEW c \in Cpus, Add(c)
  PROVE  SafeInv'
  <1>1. /\ UNCHANGED <<work, daemon, blocks, mem, live, mini, made, reused, mch, mh, job>>
        /\ pc[c] = "add" /\ list' = With(mh[c])
    BY Zenon DEF Add, choices, headers, history
  <1>2. PICK place \in {"fault", "use", "done"} :
          Goto(c, place) /\ (place = "fault" => mh[c] \in DOMAIN list)
    BY Zenon DEF Add
  <1>3. ~reused => mh[c] \notin DOMAIN list
    BY <1>1, Zenon DEF BucketInv, OwnIsOwn, Owns
  <1>4. ~Relies(c)'
    BY <1>2, Zenon DEF Relies, Goto, BucketInv, Shape
  <1>5. DOMAIN list \subseteq DOMAIN list'
    BY <1>1, Zenon DEF With
  <1>6. ~reused => /\ list' \in [DOMAIN list' -> 1..Cardinality(DOMAIN list')]
                   /\ \A x, y \in DOMAIN list' : list'[x] = list'[y] => x = y
    <2>1. Shape /\ Ordered
      BY Zenon DEF BucketInv, SafeInv
    <2>2. ASSUME ~reused
          PROVE  /\ DOMAIN list' = DOMAIN list \cup {mh[c]}
                 /\ list' \in [DOMAIN list \cup {mh[c]}
                               -> 1..Cardinality(DOMAIN list \cup {mh[c]})]
                 /\ \A x, y \in DOMAIN list \cup {mh[c]} : list'[x] = list'[y] => x = y
      BY <1>1, <1>3, <2>1, <2>2, WithOrdered, Zenon
    <2>3. QED
      BY <2>2, Zenon
  <1>7. QED
    BY <1>1, <1>2, <1>3, <1>4, <1>5, <1>6, SafeListStep, Zenon DEF Places

\* The headers of the entries paged out get new numbers.
LEMMA PageOutOrdered ==
  ASSUME BucketInv, SafeInv, NEW O \in SUBSET DOMAIN list, PageOut(O),
         NEW news, news = {[key |-> mem[x].key, nr |-> made + Rank(list, O, x)] : x \in O}
  PROVE  /\ mini' = mini \cup news /\ made' \in Nat /\ mini' \subseteq [key : Keys, nr : Nat]
         /\ ~reused => \A g, h \in mini' : g.nr \in 1..made' /\ (g.nr = h.nr => g = h)
  <1>1. mini' = mini \cup news
    BY Zenon DEF PageOut
  <1>2. IsFiniteSet(O) /\ Cardinality(O) \in Nat
    BY ListFinite, FS_Subset, FS_CardinalityType, Zenon DEF BucketInv
  <1>3. made \in Nat /\ made' = made + Cardinality(O) /\ made' \in Nat
    BY <1>2 DEF PageOut, SafeInv, Ordered
  <1>4. \A x \in O : Rank(list, O, x) \in Nat
    <2>1. \A x \in O : IsFiniteSet({y \in O : list[y] <= list[x]})
      BY <1>2, FS_Subset, Zenon
    <2>2. QED
      BY <2>1, FS_CardinalityType, Zenon DEF Rank
  <1>5. \A x \in O : mem[x].key \in Keys
    BY Zenon DEF SafeInv, Jobs, BucketInv, Shape
  <1>6. news \subseteq [key : Keys, nr : Nat]
    BY <1>3, <1>4, <1>5
  <1>7. ASSUME ~reused, NEW g \in mini', NEW h \in mini'
        PROVE  g.nr \in 1..made' /\ (g.nr = h.nr => g = h)
    <2>1. /\ \A x \in O : Rank(list, O, x) \in 1..Cardinality(O)
          /\ \A x, y \in O : Rank(list, O, x) = Rank(list, O, y) => x = y
      <3>1. \A x \in O : list[x] \in Nat
        BY <1>7 DEF SafeInv, Ordered
      <3>2. \A x, y \in O : list[x] = list[y] => x = y
        BY <1>7, Zenon DEF SafeInv, Ordered
      <3>3. QED
        BY <1>2, <3>1, <3>2, RankProperties, Zenon
    <2>2. \A m \in mini : m.nr \in 1..made
      BY <1>7, Zenon DEF SafeInv, Ordered
    <2>3. \A m \in news : m.nr \in (made + 1)..made'
      BY <1>2, <1>3, <2>1
    <2>4. \A m, n \in news : m.nr = n.nr => m = n
      BY <1>2, <1>3, <1>4, <2>1
    <2>5. \A m, n \in mini : m.nr = n.nr => m = n
      BY <1>7, Zenon DEF SafeInv, Ordered
    <2>6. g.nr \in 1..made'
      BY <1>1, <1>2, <1>3, <2>2, <2>3
    <2>7. ASSUME NEW m \in mini, NEW n \in news PROVE m.nr # n.nr
      <3>1. m.nr \in 1..made /\ n.nr \in (made + 1)..made'
        BY <2>2, <2>3, Zenon
      <3>2. QED
        BY <1>3, <3>1
    <2>8. g.nr = h.nr => g = h
      BY <1>1, <2>4, <2>5, <2>7, Zenon
    <2>9. QED
      BY <2>6, <2>8, Zenon
  <1>8. QED
    BY <1>1, <1>3, <1>6, <1>7, Zenon DEF SafeInv, Ordered

\* Evicted entries are removed and freed together; the headers made for them
\* leave the others alone.
LEMMA EvictSafe ==
  ASSUME BucketInv, SafeInv, NEW c \in Cpus, Evict(c)
  PROVE  SafeInv'
  <1>1. /\ UNCHANGED <<work, daemon, blocks, mem, reused, mch, mh, job>>
        /\ pc[c] = "create" /\ (Goto(c, "alloc") \/ Goto(c, "done"))
    BY Zenon DEF Evict, choices, history
  <1>2. PICK V \in (SUBSET DOMAIN list) \ {{}} :
          /\ list' = Without(V) /\ live' = live \ V
          /\ PageOut({x \in V : daemon /\ mem[x].val # NoVal})
    BY Zenon DEF Evict
  <1>3. pc'[c] \in {"alloc", "done"} /\ \A e \in Cpus \ {c} : pc'[e] = pc[e]
    BY <1>1, Zenon DEF Goto, BucketInv, Shape
  <1> DEFINE O == {x \in V : daemon /\ mem[x].val # NoVal}
             news == {[key |-> mem[x].key, nr |-> made + Rank(list, O, x)] : x \in O}
  <1>4. O \in SUBSET DOMAIN list /\ PageOut(O) /\ (~daemon => news = {})
    BY <1>2, Zenon
  <1>5. /\ mini' = mini \cup news /\ made' \in Nat /\ mini' \subseteq [key : Keys, nr : Nat]
        /\ ~reused => \A g, h \in mini' : g.nr \in 1..made' /\ (g.nr = h.nr => g = h)
    <2> HIDE DEF O
    <2>1. QED
      BY <1>4, PageOutOrdered, Zenon
  <1> HIDE DEF O, news
  <1>6. Jobs'
    BY <1>1, <1>3, Zenon DEF SafeInv, Jobs
  <1>7. Ordered'
    <2>1. ASSUME ~reused
          PROVE  /\ list' \in [DOMAIN list' -> 1..Cardinality(DOMAIN list')]
                 /\ \A x, y \in DOMAIN list' : list'[x] = list'[y] => x = y
      <3>1. DOMAIN list' = DOMAIN list \ V
        BY <1>2, Zenon DEF Without
      <3>2. Shape /\ Ordered
        BY Zenon DEF BucketInv, SafeInv
      <3>3. QED
        BY <1>2, <2>1, <3>1, <3>2, WithoutOrdered, Zenon
    <2>2. QED
      BY <1>1, <1>5, <2>1, Zenon DEF SafeInv, Ordered
  <1>8. HeaderThere'
    <2>1. \A e \in Cpus : Relies(e)' => Relies(e)
      BY <1>1, <1>3, Zenon DEF Relies
    <2>2. Disjoint' <=> Disjoint
      BY <1>1, Zenon DEF Disjoint
    <2>3. QED
      BY <1>1, <1>4, <1>5, <2>1, <2>2, Zenon DEF SafeInv, HeaderThere
  <1>9. DropSafe'
    <2>1. DOMAIN list' = DOMAIN list \ V
      BY <1>2, Zenon DEF Without
    <2>2. QED
      BY <1>1, <1>2, <1>3, <2>1, Zenon DEF SafeInv, DropSafe
  <1>10. ListDelSafe'
    BY <1>1, <1>3, Zenon DEF SafeInv, ListDelSafe, Disjoint
  <1>11. QED
    BY <1>6, <1>7, <1>8, <1>9, <1>10, Zenon DEF SafeInv

\* What a new entry changes in memory.
LEMMA NewEntry ==
  ASSUME BucketInv, Jobs, NEW c \in Cpus, Create(c)
  PROVE  \E x \in 1..(blocks + 1) \ live :
           /\ blocks' \in Nat /\ blocks' >= blocks /\ x \in 1..blocks'
           /\ DOMAIN mem' = 1..blocks' /\ live' = live \cup {x}
           /\ mem'[x] = [key |-> job[c].key, val |-> job[c].val]
           /\ \A y \in 1..blocks : y # x => mem'[y] = mem[y]
           /\ \A y \in 1..blocks' : y = x \/ y \in 1..blocks
           /\ reused' = (reused \/ \E e \in Cpus \ {c} : mh[e] = x)
           /\ mh'[c] = x /\ \A e \in Cpus \ {c} : mh'[e] = mh[e]
  <1>1. PICK x \in 1..(blocks + 1) \ live :
          /\ blocks' = IF x > blocks THEN x ELSE blocks
          /\ mem' = [y \in 1..blocks' |->
                       IF y = x THEN [key |-> job[c].key, val |-> job[c].val] ELSE mem[y]]
          /\ live' = live \cup {x}
          /\ reused' = (reused \/ \E e \in Cpus \ {c} : mh[e] = x)
          /\ Point(c, x)
    BY Zenon DEF Create
  <1>2. /\ blocks \in Nat /\ blocks' \in Nat /\ blocks' >= blocks /\ x \in 1..blocks'
        /\ 1..blocks' = {x} \cup 1..blocks
        /\ \A y \in 1..blocks' : y = x \/ y \in 1..blocks
    <2>1. blocks \in Nat /\ x \in 1..(blocks + 1) /\ blocks' = IF x > blocks THEN x ELSE blocks
      BY <1>1, Zenon DEF BucketInv, Shape
    <2>2. \/ x \in 1..blocks /\ blocks' = blocks
          \/ x = blocks + 1 /\ blocks' = blocks + 1
      BY <2>1
    <2>3. 1..(blocks + 1) = {blocks + 1} \cup 1..blocks
      BY <2>1
    <2>4. 1..blocks' = {x} \cup 1..blocks
      BY <2>2, <2>3, Zenon
    <2>5. blocks \in Nat /\ blocks' \in Nat /\ blocks' >= blocks
      BY <2>1, <2>2
    <2>6. QED
      BY <2>4, <2>5, Zenon
  <1>3. /\ DOMAIN mem' = 1..blocks'
        /\ mem'[x] = [key |-> job[c].key, val |-> job[c].val]
        /\ \A y \in 1..blocks : y # x => mem'[y] = mem[y]
    BY <1>1, <1>2, Zenon
  <1>4. mh'[c] = x /\ \A e \in Cpus \ {c} : mh'[e] = mh[e]
    BY <1>1, Zenon DEF Point, BucketInv, Shape
  <1>5. QED
    BY <1>1, <1>2, <1>3, <1>4, Zenon

LEMMA CreateSafe ==
  ASSUME BucketInv, SafeInv, NEW c \in Cpus, Create(c)
  PROVE  SafeInv'
  <1>1. /\ UNCHANGED <<work, daemon, list, mini, made, mch, job>>
        /\ pc[c] = "alloc"
    BY Zenon DEF Create, choices, headers
  <1>2. PICK x \in 1..(blocks + 1) \ live :
           /\ blocks' \in Nat /\ blocks' >= blocks /\ x \in 1..blocks'
           /\ DOMAIN mem' = 1..blocks' /\ live' = live \cup {x}
           /\ mem'[x] = [key |-> job[c].key, val |-> job[c].val]
           /\ \A y \in 1..blocks : y # x => mem'[y] = mem[y]
           /\ \A y \in 1..blocks' : y = x \/ y \in 1..blocks
           /\ reused' = (reused \/ \E e \in Cpus \ {c} : mh[e] = x)
           /\ mh'[c] = x /\ \A e \in Cpus \ {c} : mh'[e] = mh[e]
    BY NewEntry, Zenon DEF SafeInv
  <1>3. PICK place \in {"load", "add"} :
          Goto(c, place) /\ (place = "load" => job[c].op = "get")
    BY Zenon DEF Create
  <1>4. pc'[c] = place /\ \A e \in Cpus \ {c} : pc'[e] = pc[e]
    BY <1>3, Zenon DEF Goto, BucketInv, Shape
  <1>5. ~reused' => ~reused /\ \A e \in Cpus \ {c} : mh[e] # x
    BY <1>2, Zenon
  <1>6. Jobs'
    <2>1. job[c].key \in work[c] /\ job[c].key \in Keys
      BY <1>1, Zenon DEF SafeInv, Jobs
    <2>2. \A y \in 1..blocks' : mem'[y].key \in Keys
      BY <1>2, <2>1 DEF SafeInv, Jobs
    <2>3. QED
      BY <1>1, <1>2, <1>4, <2>2, Zenon DEF SafeInv, Jobs
  <1>7. Ordered'
    BY <1>1, <1>5, Zenon DEF SafeInv, Ordered
  <1>8. HeaderThere'
    <2>1. (Relies(c)' => Relies(c)) /\ \A e \in Cpus \ {c} : Relies(e)' <=> Relies(e)
      BY <1>1, <1>3, <1>4, Zenon DEF Relies
    <2>2. Disjoint' <=> Disjoint
      BY <1>1, Zenon DEF Disjoint
    <2>3. QED
      BY <1>1, <1>5, <2>1, <2>2, Zenon DEF SafeInv, HeaderThere
  <1>9. DropSafe'
    BY <1>1, <1>2, <1>4, <1>5, Zenon DEF SafeInv, DropSafe
  <1>10. ListDelSafe'
    BY <1>1, <1>4, <1>5, Zenon DEF SafeInv, ListDelSafe, Disjoint
  <1>11. QED
    BY <1>6, <1>7, <1>8, <1>9, <1>10, Zenon DEF SafeInv

\* Every step keeps removals safe.
LEMMA NextSafe ==
  ASSUME BucketInv, SafeInv, [Next]_vars
  PROVE  SafeInv'
  <1>1. ASSUME NEW c \in Cpus, Use(c) \/ Done(c) PROVE SafeInv'
    <2>1. Return(c) /\ UNCHANGED <<work, daemon, blocks, mem, live, list, mini, made, reused>>
      BY <1>1, Zenon DEF Use, Done, choices, entries, headers
    <2>2. QED
      BY <2>1, ReturnSafe, Zenon
  <1>2. ASSUME NEW c \in Cpus, Step(c) PROVE SafeInv'
    BY <1>1, <1>2, StartSafe, FindSafe, DropSafely, MiniSafe, DeleteSafe, ReleaseSafe, RoomSafe,
       EvictSafe, CreateSafe, LoadSafe, AddSafe, Zenon DEF Step
  <1>3. ASSUME UNCHANGED vars PROVE SafeInv'
    BY <1>3 DEF vars, choices, entries, headers, history, SafeInv, Jobs, Ordered, HeaderThere,
       Relies, DropSafe, ListDelSafe, Disjoint
  <1>4. QED
    BY <1>2, <1>3, Zenon DEF Next

LEMMA InitSafe == Init => SafeInv
  <1> SUFFICES ASSUME Init PROVE SafeInv
    BY Zenon
  <1>1. Jobs
    BY BucketConstants DEF Init, Jobs
  <1>2. Ordered
    <2>1. DOMAIN list = {} /\ list = [x \in {} |-> 0]
      BY DEF Init
    <2>2. list \in [DOMAIN list -> 1..Cardinality(DOMAIN list)]
      BY <2>1, Zenon
    <2>3. QED
      BY <2>1, <2>2, Zenon DEF Init, Ordered
  <1>3. HeaderThere /\ DropSafe /\ ListDelSafe
    BY Zenon DEF Init, HeaderThere, Relies, DropSafe, ListDelSafe
  <1>4. QED
    BY <1>1, <1>2, <1>3, Zenon DEF SafeInv

\* list_del and list_add_tail never meet an entry or a mini-header in the
\* wrong state, for any number of CPUs, keys and calls, as long as no memory
\* is reused under a pointer, and no two CPUs work on a key or the daemon is
\* not there.
THEOREM ListOperationsSafe == Spec => []ListDelSafe
  <1>1. BucketInv /\ SafeInv /\ [Next]_vars => SafeInv'
    BY NextSafe, Zenon
  <1>2. SafeInv => ListDelSafe
    BY Zenon DEF SafeInv
  <1>3. QED
    BY <1>1, <1>2, InitSafe, BucketInvariant, PTL DEF Spec

---------------------------------------------------------------------------
(***************************************************************************)
(* A key that one CPU works on has one entry: the CPU adds one only after   *)
(* it has found none or removed it, and nobody else adds one.               *)
(***************************************************************************)
\* c moves, and no entry is added or gets another key.
LEMMA KeyQuiet ==
  ASSUME BucketInv, SafeInv, KeyInv, NEW c \in Cpus, NEW place, Goto(c, place),
         UNCHANGED <<work, reused>>, DOMAIN list' \subseteq DOMAIN list,
         \A x \in 1..blocks : mem'[x].key = mem[x].key,
         \A e \in Cpus \ {c} : job'[e] = job[e] /\ mh'[e] = mh[e],
         ~reused /\ Disjoint => \A x \in DOMAIN list' : mem[x].key = job'[c].key =>
           /\ ~Missed(c)' /\ (place = "drop" => x = mh'[c])
           /\ (place = "done" => job'[c].op # "remove"),
         ~reused /\ Owns(c)' => mh'[c] \in 1..blocks /\ mem[mh'[c]].key = job'[c].key,
         place \in {"create", "alloc", "load", "add"} => job'[c].op # "remove"
  PROVE  KeyInv'
  <1>1. pc'[c] = place /\ \A e \in Cpus \ {c} : pc'[e] = pc[e]
    BY Zenon DEF Goto, BucketInv, Shape
  <1>2. \A e \in Cpus \ {c} : (Missed(e)' <=> Missed(e)) /\ (Owns(e)' <=> Owns(e))
    BY <1>1, Zenon DEF Missed, Owns
  <1>3. (Disjoint' <=> Disjoint) /\ \A x \in DOMAIN list' : mem'[x].key = mem[x].key
    BY Zenon DEF Disjoint, BucketInv, Shape
  <1>4. NoneWhileMissed'
    BY <1>1, <1>2, <1>3 DEF KeyInv, NoneWhileMissed
  <1>5. OwnKey'
    <2>1. ASSUME ~reused, NEW e \in Cpus \ {c}, Owns(e)
          PROVE  mem'[mh[e]].key = job[e].key
      <3>1. mh[e] \in 1..blocks
        BY <2>1, Zenon DEF BucketInv, OwnIsOwn, Shape
      <3>2. QED
        BY <2>1, <3>1, Zenon DEF KeyInv, OwnKey
    <2>2. QED
      BY <1>2, <2>1, Zenon DEF OwnKey
  <1>6. OneEntryPerKey'
    BY <1>3, Zenon DEF KeyInv, OneEntryPerKey
  <1>7. RemoveMakesNone'
    BY <1>1, Zenon DEF KeyInv, RemoveMakesNone
  <1>8. QED
    BY <1>4, <1>5, <1>6, <1>7, Zenon DEF KeyInv

\* A CPU whose key has no entry goes on, with the same call.
LEMMA KeyMissed ==
  ASSUME BucketInv, SafeInv, KeyInv, NEW c \in Cpus, NEW place, Goto(c, place),
         UNCHANGED <<work, reused, mh, job>>, DOMAIN list' \subseteq DOMAIN list,
         \A x \in 1..blocks : mem'[x].key = mem[x].key,
         Missed(c), Owns(c)' => Owns(c),
         place \in {"create", "alloc", "load", "add"} => job[c].op # "remove"
  PROVE  KeyInv'
  <1>1. ~reused /\ Disjoint => \A x \in DOMAIN list' : mem[x].key # job'[c].key
    BY Zenon DEF KeyInv, NoneWhileMissed
  <1>2. ~reused /\ Owns(c)' => mh'[c] \in 1..blocks /\ mem[mh'[c]].key = job'[c].key
    BY Zenon DEF KeyInv, OwnKey, BucketInv, OwnIsOwn, Shape
  <1>3. QED
    BY <1>1, <1>2, KeyQuiet, Zenon

LEMMA StartKey ==
  ASSUME BucketInv, SafeInv, KeyInv, NEW c \in Cpus, NEW op \in Ops, NEW k \in Keys,
         Start(c, op, k)
  PROVE  KeyInv'
  <1>1. Goto(c, "find") /\ UNCHANGED <<work, mem, list, reused, mh>>
    BY Zenon DEF Start, choices, entries, history
  <1>2. ~Missed(c)' /\ ~Owns(c)'
    BY <1>1, Zenon DEF Missed, Owns, Goto, BucketInv, Shape
  <1>3. \A e \in Cpus \ {c} : job'[e] = job[e]
    BY Zenon DEF Start, BucketInv, Shape
  <1>4. QED
    BY <1>1, <1>2, <1>3, KeyQuiet, Zenon

\* The search finds the only entry of the key, or there is none.
LEMMA FindKey ==
  ASSUME BucketInv, SafeInv, KeyInv, NEW c \in Cpus, Find(c)
  PROVE  KeyInv'
  <1>1. UNCHANGED <<work, mem, list, reused, job>> /\ pc[c] = "find"
    BY Zenon DEF Find, choices, entries, history
  <1>2. PICK x \in FindEntry(job[c].key) :
          /\ Point(c, x)
          /\ Goto(c, IF x = NoOne THEN "mini"
                     ELSE CASE job[c].op \in {"put", "remove"} -> "drop"
                            [] job[c].op = "get" -> "use"
                            [] job[c].op = "check" -> "done")
    BY Zenon DEF Find
  <1>3. PICK place \in {"mini", "drop", "use", "done"} :
          /\ Goto(c, place)
          /\ place = "mini" <=> x = NoOne
          /\ place = "done" => job[c].op = "check"
    BY <1>1, <1>2, Zenon DEF BucketInv, Shape, Operations
  <1>4. mh'[c] = x /\ \A e \in Cpus \ {c} : mh'[e] = mh[e]
    BY <1>2, Zenon DEF Point, BucketInv, Shape
  <1>5. pc'[c] = place /\ ~Owns(c)' /\ (Missed(c)' <=> place = "mini")
    BY <1>3, Zenon DEF Owns, Missed, Goto, BucketInv, Shape
  <1>6. ASSUME ~reused, Disjoint, NEW y \in DOMAIN list, mem[y].key = job[c].key
        PROVE  x # NoOne /\ x = y
    <2>1. x \in DOMAIN list /\ mem[x].key = job[c].key
      BY <1>2, <1>6 DEF FindEntry, FirstOf
    <2>2. x # NoOne
      BY <2>1 DEF BucketInv, Shape, NoOne
    <2>3. QED
      BY <1>6, <2>1, <2>2, Zenon DEF KeyInv, OneEntryPerKey
  <1>7. QED
    BY <1>1, <1>3, <1>4, <1>5, <1>6, KeyQuiet, Zenon

\* The removal leaves no entry of the key.
LEMMA DropKey ==
  ASSUME BucketInv, SafeInv, KeyInv, NEW c \in Cpus, Drop(c)
  PROVE  KeyInv'
  <1>1. UNCHANGED <<work, mem, reused, mh, job>> /\ pc[c] = "drop"
    BY Zenon DEF Drop, choices, history
  <1>2. PICK place \in {"fault", "create", "done"} :
          Goto(c, place) /\ (place = "create" => job[c].op = "put")
    BY Zenon DEF Drop
  <1>3. DOMAIN list' \subseteq DOMAIN list /\ (mh[c] \in live => mh[c] \notin DOMAIN list')
    BY Zenon DEF Drop, Without
  <1>4. ~reused => mh[c] \notin DOMAIN list'
    BY <1>3, Zenon DEF BucketInv, ListSound
  <1>5. ~Owns(c)'
    BY <1>2, Zenon DEF Owns, Goto, BucketInv, Shape
  <1>6. ~reused /\ Disjoint => \A x \in DOMAIN list' : mem[x].key # job[c].key
    BY <1>1, <1>3, <1>4, Zenon DEF KeyInv, NoneWhileMissed
  <1>7. QED
    BY <1>1, <1>2, <1>3, <1>5, <1>6, KeyQuiet, Zenon

\* The steps of a CPU that has no entry of its key in the bucket.
LEMMA MissedKey ==
  ASSUME BucketInv, SafeInv, KeyInv, NEW c \in Cpus,
         Mini(c) \/ Delete(c) \/ Release(c) \/ Room(c) \/ Evict(c) \/ Load(c)
  PROVE  KeyInv'
  <1>1. CASE Mini(c)
    <2>1. UNCHANGED <<work, mem, list, reused, mh, job>> /\ Missed(c) /\ job[c].op \in Operations
      BY <1>1, Zenon DEF Mini, choices, entries, history, Missed, BucketInv, Shape
    <2>2. PICK place \in {"create", "done", "delete"} :
            Goto(c, place) /\ (place = "create" => job[c].op # "remove")
      BY <1>1, <2>1, Zenon DEF Mini, Operations
    <2>3. ~Owns(c)'
      BY <2>2, Zenon DEF Owns, Goto, BucketInv, Shape
    <2>4. QED
      BY <2>1, <2>2, <2>3, KeyMissed, Zenon
  <1>2. CASE Delete(c)
    <2>1. UNCHANGED <<work, mem, list, reused, mh, job>> /\ Missed(c) /\ Goto(c, "release")
      BY <1>2, Zenon DEF Delete, choices, entries, history, Missed
    <2>2. ~Owns(c)'
      BY <1>2, <2>1, Zenon DEF Delete, Owns, Goto, BucketInv, Shape
    <2>3. QED
      BY <2>1, <2>2, KeyMissed, Zenon
  <1>3. CASE Release(c)
    <2>1. /\ UNCHANGED <<work, mem, list, reused, mh, job>> /\ Missed(c) /\ pc[c] = "release"
          /\ job[c].op \in {"put", "get", "remove"}
      BY <1>3, Zenon DEF Release, choices, entries, history, Missed, BucketInv, Shape, Operations
    <2>2. PICK place \in {"fault", "create", "done", "add"} :
            /\ Goto(c, place) /\ (place = "add" => job[c].op = "get")
            /\ (place = "create" => job[c].op = "put")
      BY <1>3, <2>1, Zenon DEF Release
    <2>3. Owns(c)' => Owns(c)
      BY <2>1, <2>2, Zenon DEF Owns, Goto, BucketInv, Shape
    <2>4. QED
      BY <2>1, <2>2, <2>3, KeyMissed, Zenon
  <1>4. CASE Room(c)
    <2>1. /\ UNCHANGED <<work, mem, list, reused, mh, job>> /\ Missed(c)
          /\ job[c].op # "remove"
      BY <1>4, Zenon DEF Room, choices, entries, history, Missed, KeyInv, RemoveMakesNone
    <2>2. PICK place \in {"done", "alloc"} : Goto(c, place)
      BY <1>4, Zenon DEF Room
    <2>3. ~Owns(c)'
      BY <2>2, Zenon DEF Owns, Goto, BucketInv, Shape
    <2>4. QED
      BY <2>1, <2>2, <2>3, KeyMissed, Zenon
  <1>5. CASE Evict(c)
    <2>1. /\ UNCHANGED <<work, mem, reused, mh, job>> /\ Missed(c)
          /\ job[c].op # "remove"
      BY <1>5, Zenon DEF Evict, choices, history, Missed, KeyInv, RemoveMakesNone
    <2>2. PICK place \in {"done", "alloc"} : Goto(c, place)
      BY <1>5, Zenon DEF Evict
    <2>3. ~Owns(c)' /\ DOMAIN list' \subseteq DOMAIN list
      BY <1>5, <2>2, Zenon DEF Evict, Without, Owns, Goto, BucketInv, Shape
    <2>4. QED
      BY <2>1, <2>2, <2>3, KeyMissed, Zenon
  <1>6. CASE Load(c)
    <2>1. UNCHANGED <<work, list, reused, mh, job>> /\ Missed(c) /\ Goto(c, "release") /\ Owns(c)
      BY <1>6, Zenon DEF Load, choices, history, Missed, Owns
    <2>2. \A x \in 1..blocks : mem'[x].key = mem[x].key
      BY <1>6 DEF Load, SafeInv, Jobs
    <2>3. QED
      BY <2>1, <2>2, KeyMissed, Zenon
  <1>7. QED
    BY <1>1, <1>2, <1>3, <1>4, <1>5, <1>6, Zenon

\* A new entry has the key of the call, in memory that no listed entry has.
LEMMA CreateKey ==
  ASSUME BucketInv, SafeInv, KeyInv, NEW c \in Cpus, Create(c)
  PROVE  KeyInv'
  <1>1. UNCHANGED <<work, list, job>> /\ pc[c] = "alloc" /\ Missed(c)
    BY Zenon DEF Create, choices, Missed
  <1>2. PICK x \in 1..(blocks + 1) \ live :
           /\ mem'[x] = [key |-> job[c].key, val |-> job[c].val]
           /\ \A y \in 1..blocks : y # x => mem'[y] = mem[y]
           /\ reused' = (reused \/ \E e \in Cpus \ {c} : mh[e] = x)
           /\ mh'[c] = x /\ \A e \in Cpus \ {c} : mh'[e] = mh[e]
    BY NewEntry, Zenon DEF SafeInv
  <1>3. PICK place \in {"load", "add"} : Goto(c, place)
    BY Zenon DEF Create
  <1>4. pc'[c] = place /\ \A e \in Cpus \ {c} : pc'[e] = pc[e]
    BY <1>3, Zenon DEF Goto, BucketInv, Shape
  <1>5. \A e \in Cpus \ {c} : (Missed(e)' <=> Missed(e)) /\ (Owns(e)' <=> Owns(e))
    BY <1>1, <1>4, Zenon DEF Missed, Owns
  <1>6. ~reused' => ~reused
    BY <1>2, Zenon
  <1>7. ~reused => \A y \in DOMAIN list : mem'[y] = mem[y]
    BY <1>2, Zenon DEF BucketInv, Shape, ListSound
  <1>8. NoneWhileMissed'
    BY <1>1, <1>2, <1>4, <1>5, <1>6, <1>7 DEF KeyInv, NoneWhileMissed, Disjoint
  <1>9. OwnKey'
    <2>1. ASSUME ~reused, NEW e \in Cpus \ {c}, Owns(e)
          PROVE  mem'[mh[e]].key = job[e].key
      <3>1. mh[e] \in 1..blocks /\ mh[e] # x
        BY <1>2, <2>1, Zenon DEF BucketInv, OwnIsOwn, Shape
      <3>2. QED
        BY <1>2, <2>1, <3>1, Zenon DEF KeyInv, OwnKey
    <2>2. QED
      BY <1>1, <1>2, <1>5, <1>6, <2>1 DEF OwnKey
  <1>10. OneEntryPerKey'
    BY <1>1, <1>6, <1>7, Zenon DEF KeyInv, OneEntryPerKey, Disjoint
  <1>11. RemoveMakesNone'
    BY <1>1, <1>4, Zenon DEF KeyInv, RemoveMakesNone
  <1>12. QED
    BY <1>8, <1>9, <1>10, <1>11, Zenon DEF KeyInv

\* The entry added is the first of its key, which nobody else looks for.
LEMMA AddKey ==
  ASSUME BucketInv, SafeInv, KeyInv, NEW c \in Cpus, Add(c)
  PROVE  KeyInv'
  <1>1. /\ UNCHANGED <<work, blocks, mem, reused, mh, job>> /\ pc[c] = "add"
        /\ Missed(c) /\ Owns(c)
    BY Zenon DEF Add, choices, history, Missed, Owns
  <1>2. DOMAIN list' = DOMAIN list \cup {mh[c]}
    BY Zenon DEF Add, With
  <1>3. PICK place \in {"fault", "use", "done"} : Goto(c, place)
    BY Zenon DEF Add
  <1>4. pc'[c] = place /\ \A e \in Cpus \ {c} : pc'[e] = pc[e]
    BY <1>3, Zenon DEF Goto, BucketInv, Shape
  <1>5. ~Owns(c)' /\ ~Missed(c)'
    BY <1>4, Zenon DEF Owns, Missed
  <1>6. \A e \in Cpus \ {c} : (Missed(e)' <=> Missed(e)) /\ (Owns(e)' <=> Owns(e))
    BY <1>1, <1>4, Zenon DEF Missed, Owns
  <1>7. ~reused => mem[mh[c]].key = job[c].key
    BY <1>1, Zenon DEF KeyInv, OwnKey
  <1>8. ~reused /\ Disjoint => \A x \in DOMAIN list : mem[x].key # job[c].key
    BY <1>1, Zenon DEF KeyInv, NoneWhileMissed
  <1>9. Disjoint => \A e \in Cpus \ {c} : pc[e] # "idle" => job[e].key # job[c].key
    BY <1>1, Zenon DEF SafeInv, Jobs, Disjoint
  <1>10. job[c].op # "remove"
    BY <1>1, Zenon DEF KeyInv, RemoveMakesNone
  <1>11. NoneWhileMissed'
    <2>1. SUFFICES ASSUME ~reused, Disjoint, NEW e \in Cpus, NEW x \in DOMAIN list',
                          mem[x].key = job[e].key
                   PROVE  /\ ~Missed(e)'
                          /\ pc'[e] = "drop" => x = mh[e]
                          /\ pc'[e] = "done" => job[e].op # "remove"
      BY <1>1, Zenon DEF NoneWhileMissed, Disjoint
    <2>2. CASE e = c
      BY <1>3, <1>4, <1>5, <1>10, <2>2, Zenon
    <2>3. CASE e # c /\ x = mh[c]
      BY <1>4, <1>6, <1>7, <1>9, <2>1, <2>3, Zenon DEF Missed
    <2>4. CASE e # c /\ x # mh[c]
      BY <1>2, <1>4, <1>6, <2>1, <2>4, Zenon DEF KeyInv, NoneWhileMissed
    <2>5. QED
      BY <2>2, <2>3, <2>4, Zenon
  <1>12. OwnKey'
    BY <1>1, <1>5, <1>6, Zenon DEF KeyInv, OwnKey
  <1>13. OneEntryPerKey'
    BY <1>1, <1>2, <1>7, <1>8 DEF KeyInv, OneEntryPerKey, Disjoint
  <1>14. RemoveMakesNone'
    BY <1>1, <1>4, Zenon DEF KeyInv, RemoveMakesNone
  <1>15. QED
    BY <1>11, <1>12, <1>13, <1>14, Zenon DEF KeyInv

LEMMA ReturnKey ==
  ASSUME BucketInv, SafeInv, KeyInv, NEW c \in Cpus, Return(c),
         UNCHANGED <<work, blocks, mem, list, reused>>
  PROVE  KeyInv'
  <1>1. Goto(c, "idle") /\ \A e \in Cpus \ {c} : job'[e] = job[e] /\ mh'[e] = mh[e]
    BY Zenon DEF Return, Point, BucketInv, Shape
  <1>2. ~Missed(c)' /\ ~Owns(c)'
    BY <1>1, Zenon DEF Missed, Owns, Goto, BucketInv, Shape
  <1>3. QED
    BY <1>1, <1>2, KeyQuiet, Zenon

LEMMA NextKey ==
  ASSUME BucketInv, SafeInv, KeyInv, [Next]_vars
  PROVE  KeyInv'
  <1>1. ASSUME NEW c \in Cpus, Use(c) \/ Done(c) PROVE KeyInv'
    <2>1. Return(c) /\ UNCHANGED <<work, blocks, mem, list, reused>>
      BY <1>1, Zenon DEF Use, Done, choices, entries
    <2>2. QED
      BY <2>1, ReturnKey, Zenon
  <1>2. ASSUME NEW c \in Cpus, Step(c) PROVE KeyInv'
    BY <1>1, <1>2, StartKey, FindKey, DropKey, MissedKey, CreateKey, AddKey, Zenon DEF Step
  <1>3. ASSUME UNCHANGED vars PROVE KeyInv'
    BY <1>3, Zenon DEF vars, choices, entries, history, KeyInv, NoneWhileMissed, OwnKey, Owns,
       Missed, OneEntryPerKey, RemoveMakesNone, Disjoint
  <1>4. QED
    BY <1>2, <1>3, Zenon DEF Next

LEMMA InitKey == Init => KeyInv
  BY DEF Init, KeyInv, NoneWhileMissed, OwnKey, Owns, Missed, OneEntryPerKey, RemoveMakesNone

\* The two invariants that the rest builds on.
LEMMA SafeAndKey == Spec => [](BucketInv /\ SafeInv /\ KeyInv)
  <1>1. BucketInv /\ SafeInv /\ [Next]_vars => SafeInv'
    BY NextSafe, Zenon
  <1>2. BucketInv /\ SafeInv /\ KeyInv /\ [Next]_vars => KeyInv'
    BY NextKey, Zenon
  <1>3. QED
    BY <1>1, <1>2, InitSafe, InitKey, BucketInvariant, PTL DEF Spec

\* s_mcd_put removes the old entry in one critical section and adds the new
\* one in another: a key that one CPU works on still never has two entries,
\* for any number of CPUs, keys and calls, while others evict.
THEOREM OneEntry == Spec => []OneEntryPerKey
  <1>1. KeyInv => OneEntryPerKey
    BY Zenon DEF KeyInv
  <1>2. QED
    BY <1>1, SafeAndKey, PTL

---------------------------------------------------------------------------
(***************************************************************************)
(* Without the daemon a get finds the last value put, or nothing: no call   *)
(* ever relies on a mini-header, and an entry has the value of truth or of  *)
(* the put that is about to return.                                         *)
(***************************************************************************)
\* The conditions under which it holds.
Alone == ~reused /\ Disjoint /\ ~daemon

\* c moves, and no entry is added or changed.
LEMMA ValueQuiet ==
  ASSUME BucketInv, FreshInv, NEW c \in Cpus, NEW place, Goto(c, place), pc[c] # "done",
         UNCHANGED <<work, daemon, blocks, mem, reused, truth, answer>>,
         DOMAIN list' \subseteq DOMAIN list,
         \A e \in Cpus \ {c} : job'[e] = job[e] /\ mh'[e] = mh[e],
         Alone /\ place = "done" /\ job'[c].op = "put" =>
           \A x \in DOMAIN list' : mem[x].key # job'[c].key,
         Alone /\ place = "use" => mh'[c] \in 1..blocks /\ Current(mh'[c], job'[c].key),
         place # "add"
  PROVE  FreshInv'
  <1>1. pc'[c] = place /\ \A e \in Cpus \ {c} : pc'[e] = pc[e]
    BY Zenon DEF Goto, BucketInv, Shape
  <1>2. /\ \A e \in Cpus \ {c} : \A k : Putting(e, k)' <=> Putting(e, k)
        /\ \A k : ~Putting(c, k)
        /\ Alone => \A x \in DOMAIN list' : ~Putting(c, mem[x].key)'
    BY <1>1, Zenon DEF Putting
  <1>3. (Alone' <=> Alone) /\ \A x, k : Current(x, k)' <=> Current(x, k)
    BY Zenon DEF Alone, Disjoint, Current
  <1>4. ASSUME Alone, NEW x \in DOMAIN list'
        PROVE  /\ \A e \in Cpus : Putting(e, mem[x].key)' => mem[x].val = job'[e].val
               /\ Current(x, mem[x].key) \/ \E e \in Cpus : Putting(e, mem[x].key)'
    BY <1>2, <1>4 DEF Alone, FreshInv, ValuesCurrent
  <1>5. ASSUME Alone, NEW e \in Cpus
        PROVE  /\ pc'[e] = "add" => mem[mh'[e]].val = job'[e].val
               /\ pc'[e] = "use" => mh'[e] \in 1..blocks /\ Current(mh'[e], job'[e].key)
    BY <1>1, <1>5, Zenon DEF Alone, FreshInv, ValuesCurrent
  <1>6. ValuesCurrent'
    BY <1>3, <1>4, <1>5, Zenon DEF ValuesCurrent, Alone
  <1>7. QED
    BY <1>6, Zenon DEF FreshInv, FreshWithoutDaemon, Disjoint

LEMMA StartFresh ==
  ASSUME BucketInv, FreshInv, NEW c \in Cpus, NEW op \in Ops, NEW k \in Keys, Start(c, op, k)
  PROVE  FreshInv'
  <1>1. /\ Goto(c, "find") /\ pc[c] = "idle"
        /\ UNCHANGED <<work, daemon, blocks, mem, list, reused, truth, answer, mh>>
    BY Zenon DEF Start, choices, entries, history
  <1>2. \A e \in Cpus \ {c} : job'[e] = job[e]
    BY Zenon DEF Start, BucketInv, Shape
  <1>3. QED
    BY <1>1, <1>2, ValueQuiet, Zenon

\* What the search finds is current: its own put is not about to return, and
\* nobody else puts this key.
LEMMA FindFresh ==
  ASSUME BucketInv, SafeInv, FreshInv, NEW c \in Cpus, Find(c)
  PROVE  FreshInv'
  <1>1. /\ UNCHANGED <<work, daemon, blocks, mem, list, reused, truth, answer, job>>
        /\ pc[c] = "find"
    BY Zenon DEF Find, choices, entries, history
  <1>2. PICK x \in FindEntry(job[c].key) :
          /\ Point(c, x)
          /\ Goto(c, IF x = NoOne THEN "mini"
                     ELSE CASE job[c].op \in {"put", "remove"} -> "drop"
                            [] job[c].op = "get" -> "use"
                            [] job[c].op = "check" -> "done")
    BY Zenon DEF Find
  <1>3. PICK place \in {"mini", "drop", "use", "done"} :
          /\ Goto(c, place)
          /\ place = "use" => x # NoOne
          /\ place = "done" => job[c].op = "check"
    BY <1>1, <1>2, Zenon DEF BucketInv, Shape, Operations
  <1>4. mh'[c] = x /\ \A e \in Cpus \ {c} : mh'[e] = mh[e]
    BY <1>2, Zenon DEF Point, BucketInv, Shape
  <1>5. ASSUME Alone, place = "use"
        PROVE  x \in 1..blocks /\ Current(x, job[c].key)
    <2>1. x \in DOMAIN list /\ mem[x].key = job[c].key
      BY <1>2, <1>3, <1>5, Zenon DEF FindEntry, FirstOf
    <2>2. \A e \in Cpus : ~Putting(e, job[c].key)
      BY <1>1, <1>5, Zenon DEF Putting, SafeInv, Jobs, Alone, Disjoint
    <2>3. QED
      BY <1>5, <2>1, <2>2, Zenon DEF FreshInv, ValuesCurrent, Alone, BucketInv, Shape
  <1>6. QED
    BY <1>1, <1>3, <1>4, <1>5, ValueQuiet, Zenon

LEMMA DropFresh ==
  ASSUME BucketInv, FreshInv, NEW c \in Cpus, Drop(c)
  PROVE  FreshInv'
  <1>1. /\ UNCHANGED <<work, daemon, blocks, mem, reused, truth, answer, job, mh>>
        /\ pc[c] = "drop" /\ DOMAIN list' \subseteq DOMAIN list
    BY Zenon DEF Drop, Without, choices, history
  <1>2. PICK place \in {"fault", "create", "done"} :
          Goto(c, place) /\ (place = "done" => job[c].op # "put")
    BY Zenon DEF Drop
  <1>3. QED
    BY <1>1, <1>2, ValueQuiet, Zenon

LEMMA MiniFresh ==
  ASSUME BucketInv, FreshInv, NEW c \in Cpus, Mini(c)
  PROVE  FreshInv'
  <1>1. /\ UNCHANGED <<work, daemon, blocks, mem, list, reused, truth, answer, job, mh>>
        /\ pc[c] = "mini" /\ job[c].op \in Operations
    BY Zenon DEF Mini, choices, entries, history, BucketInv, Shape
  <1>2. PICK place \in {"create", "done", "delete"} :
          Goto(c, place) /\ (place = "done" => job[c].op # "put")
    BY <1>1, Zenon DEF Mini, Operations
  <1>3. QED
    BY <1>1, <1>2, ValueQuiet, Zenon

\* Whoever relies on a mini-header has a daemon.
LEMMA WithDaemon ==
  ASSUME SafeInv, NEW c \in Cpus, Relies(c), FreshInv, UNCHANGED <<daemon, truth, answer>>,
         ~reused' => ~reused, UNCHANGED work
  PROVE  FreshInv'
  <1>1. daemon
    BY Zenon DEF SafeInv, HeaderThere, Jobs
  <1>2. QED
    BY <1>1, Zenon DEF FreshInv, ValuesCurrent, FreshWithoutDaemon, Disjoint

\* The memory limit keeps a put from listing its entry: the key has none.
LEMMA RoomFresh ==
  ASSUME BucketInv, SafeInv, KeyInv, FreshInv, NEW c \in Cpus, Room(c) \/ Evict(c)
  PROVE  FreshInv'
  <1>1. /\ UNCHANGED <<work, daemon, blocks, mem, reused, truth, answer, job, mh>>
        /\ pc[c] = "create" /\ Missed(c)
    BY Zenon DEF Room, Evict, choices, entries, history, Missed
  <1>2. DOMAIN list' \subseteq DOMAIN list
    BY Zenon DEF Room, Evict, Without, entries
  <1>3. PICK place \in {"done", "alloc"} : Goto(c, place)
    BY Zenon DEF Room, Evict
  <1>4. Alone => \A x \in DOMAIN list' : mem[x].key # job[c].key
    BY <1>1, <1>2, Zenon DEF Alone, KeyInv, NoneWhileMissed
  <1>5. QED
    BY <1>1, <1>2, <1>3, <1>4, ValueQuiet, Zenon

\* A new entry has the value of the call, in memory that nobody reads.
LEMMA CreateFresh ==
  ASSUME BucketInv, SafeInv, KeyInv, FreshInv, NEW c \in Cpus, Create(c)
  PROVE  FreshInv'
  <1>1. /\ UNCHANGED <<work, daemon, list, truth, answer, job>> /\ pc[c] = "alloc"
    BY Zenon DEF Create, choices
  <1>2. PICK x \in 1..(blocks + 1) \ live :
           /\ blocks' \in Nat /\ blocks' >= blocks
           /\ mem'[x] = [key |-> job[c].key, val |-> job[c].val]
           /\ \A y \in 1..blocks : y # x => mem'[y] = mem[y]
           /\ reused' = (reused \/ \E e \in Cpus \ {c} : mh[e] = x)
           /\ mh'[c] = x /\ \A e \in Cpus \ {c} : mh'[e] = mh[e]
    BY NewEntry, Zenon DEF SafeInv
  <1>3. CASE job[c].op = "get"
    <2>1. Relies(c)
      BY <1>1, <1>3, Zenon DEF Relies
    <2>2. QED
      BY <1>1, <1>2, <2>1, WithDaemon, Zenon
  <1>4. CASE job[c].op # "get"
    <2>1. pc'[c] = "add" /\ \A e \in Cpus \ {c} : pc'[e] = pc[e]
      BY <1>4, Zenon DEF Create, Goto, BucketInv, Shape
    <2>2. Alone' => Alone /\ \A e \in Cpus \ {c} : mh[e] # x
      BY <1>1, <1>2, Zenon DEF Alone, Disjoint
    <2>3. Alone => \A y \in DOMAIN list : mem'[y] = mem[y]
      BY <1>2, Zenon DEF Alone, BucketInv, Shape, ListSound
    <2>4. \A e \in Cpus : \A k : Putting(e, k)' <=> Putting(e, k)
      BY <1>1, <2>1, Zenon DEF Putting
    <2>5. ASSUME Alone', NEW y \in DOMAIN list'
          PROVE  /\ \A e \in Cpus : Putting(e, mem[y].key)' => mem'[y].val = job'[e].val
                 /\ Current(y, mem[y].key)' \/ \E e \in Cpus : Putting(e, mem[y].key)'
      BY <1>1, <2>2, <2>3, <2>4, <2>5 DEF FreshInv, ValuesCurrent, Alone, Current
    <2>6. ASSUME Alone', NEW e \in Cpus, pc'[e] = "add" PROVE mem'[mh'[e]].val = job'[e].val
      <3>1. CASE e = c
        BY <1>1, <1>2, <3>1
      <3>2. CASE e # c
        <4>1. mh[e] \in 1..blocks /\ mh[e] # x /\ pc[e] = "add"
          BY <2>1, <2>2, <2>6, <3>2, Zenon DEF Alone, BucketInv, OwnIsOwn, Owns, Shape
        <4>2. QED
          BY <1>1, <1>2, <2>2, <2>6, <3>2, <4>1 DEF FreshInv, ValuesCurrent, Alone
      <3>3. QED
        BY <3>1, <3>2, Zenon
    <2>7. ASSUME Alone', NEW e \in Cpus, pc'[e] = "use"
          PROVE  mh'[e] \in 1..blocks' /\ Current(mh[e], job[e].key)'
      <3>1. e # c /\ pc[e] = "use" /\ Alone /\ mh'[e] = mh[e] /\ mh[e] # x
        BY <1>2, <2>1, <2>2, <2>7, Zenon
      <3>2. mh[e] \in 1..blocks /\ Current(mh[e], job[e].key)
        BY <3>1, Zenon DEF FreshInv, ValuesCurrent, Alone
      <3>3. blocks \in Nat
        BY Zenon DEF BucketInv, Shape
      <3>4. QED
        BY <1>1, <1>2, <3>1, <3>2, <3>3 DEF Current
    <2>8. ValuesCurrent'
      BY <2>5, <2>6, <2>7, Zenon DEF ValuesCurrent, Alone
    <2>9. QED
      BY <1>1, <1>2, <2>8, Zenon DEF FreshInv, FreshWithoutDaemon, Disjoint
  <1>5. QED
    BY <1>3, <1>4, Zenon

\* The entry that a put adds has the value that truth will have.
LEMMA AddFresh ==
  ASSUME BucketInv, SafeInv, KeyInv, FreshInv, NEW c \in Cpus, Add(c)
  PROVE  FreshInv'
  <1>1. /\ UNCHANGED <<work, daemon, blocks, mem, reused, truth, answer, job, mh>>
        /\ pc[c] = "add" /\ Missed(c) /\ Owns(c) /\ job[c].op \in Operations
    BY Zenon DEF Add, choices, history, Missed, Owns, BucketInv, Shape
  <1>2. DOMAIN list' = DOMAIN list \cup {mh[c]}
    BY Zenon DEF Add, With
  <1>3. ~reused => mh[c] \in 1..blocks /\ mh[c] \notin DOMAIN list /\ mem[mh[c]].key = job[c].key
    BY <1>1, Zenon DEF BucketInv, OwnIsOwn, Shape, KeyInv, OwnKey
  <1>4. ~reused => pc' = [pc EXCEPT ![c] = IF job[c].op = "get" THEN "use" ELSE "done"]
    BY <1>3, Zenon DEF Add, Goto
  <1>5. ~reused => /\ pc'[c] = IF job[c].op = "get" THEN "use" ELSE "done"
                   /\ \A e \in Cpus \ {c} : pc'[e] = pc[e]
    BY <1>4, Zenon DEF BucketInv, Shape
  <1>6. (Alone' <=> Alone) /\ \A x, k : Current(x, k)' <=> Current(x, k)
    BY <1>1, Zenon DEF Alone, Disjoint, Current
  <1>7. SUFFICES ASSUME Alone PROVE ValuesCurrent'
    BY <1>1, <1>6, Zenon DEF FreshInv, FreshWithoutDaemon, Disjoint, ValuesCurrent, Alone
  <1>8. /\ mem[mh[c]].val = job[c].val
        /\ job[c].op # "put" => Current(mh[c], job[c].key)
    BY <1>1, <1>7, Zenon DEF FreshInv, ValuesCurrent, Alone, SafeInv, Jobs, Current
  <1>9. /\ \A e \in Cpus \ {c} : pc[e] # "idle" => job[e].key # job[c].key
        /\ \A x \in DOMAIN list : mem[x].key # job[c].key
    BY <1>1, <1>7, Zenon DEF SafeInv, Jobs, Alone, Disjoint, KeyInv, NoneWhileMissed
  <1>10. ASSUME NEW x \in DOMAIN list'
         PROVE  /\ \A e \in Cpus : Putting(e, mem[x].key)' => mem[x].val = job[e].val
                /\ Current(x, mem[x].key) \/ \E e \in Cpus : Putting(e, mem[x].key)'
    <2>1. CASE x = mh[c]
      <3>1. mem[x].key = job[c].key
        BY <1>3, <1>7, <2>1, Zenon DEF Alone
      <3>2. \A e \in Cpus \ {c} : ~Putting(e, mem[x].key)'
        BY <1>1, <1>5, <1>7, <1>9, <3>1, Zenon DEF Putting, Alone
      <3>3. job[c].op = "put" => Putting(c, mem[x].key)'
        BY <1>1, <1>5, <1>7, <3>1, Zenon DEF Putting, Alone
      <3>4. QED
        BY <1>8, <2>1, <3>1, <3>2, <3>3, Zenon
    <2>2. CASE x # mh[c]
      <3>1. x \in DOMAIN list /\ mem[x].key # job[c].key
        BY <1>2, <1>9, <2>2, Zenon
      <3>2. ~Putting(c, mem[x].key) /\ ~Putting(c, mem[x].key)'
        BY <1>1, <3>1, Zenon DEF Putting
      <3>3. /\ \A e \in Cpus : Putting(e, mem[x].key) => mem[x].val = job[e].val
            /\ Current(x, mem[x].key) \/ \E e \in Cpus : Putting(e, mem[x].key)
        BY <1>7, <3>1, Zenon DEF FreshInv, ValuesCurrent, Alone
      <3>4. QED
        BY <1>1, <1>5, <1>7, <3>2, <3>3, Zenon DEF Putting, Alone
    <2>3. QED
      BY <2>1, <2>2, Zenon
  <1>11. ASSUME NEW e \in Cpus
         PROVE  /\ pc'[e] = "add" => mem[mh[e]].val = job[e].val
                /\ pc'[e] = "use" => mh[e] \in 1..blocks /\ Current(mh[e], job[e].key)
    BY <1>3, <1>5, <1>7, <1>8, Zenon DEF FreshInv, ValuesCurrent, Alone
  <1>12. QED
    BY <1>1, <1>6, <1>10, <1>11, Zenon DEF ValuesCurrent

\* The copy to the guest, after the lock was released, is of a current value.
LEMMA UseFresh ==
  ASSUME BucketInv, FreshInv, NEW c \in Cpus, Use(c)
  PROVE  FreshInv'
  <1>1. /\ UNCHANGED <<work, daemon, blocks, mem, list, reused, truth>>
        /\ pc[c] = "use" /\ Return(c)
        /\ answer' = <<mem[mh[c]].val, truth[job[c].key]>>
    BY Zenon DEF Use, choices, entries
  <1>2. /\ pc'[c] = "idle" /\ \A e \in Cpus \ {c} : pc'[e] = pc[e]
        /\ \A e \in Cpus \ {c} : job'[e] = job[e] /\ mh'[e] = mh[e]
    BY <1>1, Zenon DEF Return, Goto, Point, BucketInv, Shape
  <1>3. (Alone' <=> Alone) /\ \A x, k : Current(x, k)' <=> Current(x, k)
    BY <1>1, Zenon DEF Alone, Disjoint, Current
  <1>4. ASSUME Alone, NEW x \in DOMAIN list
        PROVE  /\ \A e \in Cpus : Putting(e, mem[x].key)' => mem[x].val = job'[e].val
               /\ Current(x, mem[x].key) \/ \E e \in Cpus : Putting(e, mem[x].key)'
    <2>1. \A k : ~Putting(c, k)
      BY <1>1, Zenon DEF Putting
    <2>2. QED
      BY <1>1, <1>2, <1>4, <2>1 DEF Alone, FreshInv, ValuesCurrent, Putting
  <1>5. ASSUME Alone, NEW e \in Cpus
        PROVE  /\ pc'[e] = "add" => mem[mh'[e]].val = job'[e].val
               /\ pc'[e] = "use" => mh'[e] \in 1..blocks /\ Current(mh'[e], job'[e].key)
    BY <1>2, <1>5, Zenon DEF Alone, FreshInv, ValuesCurrent
  <1>6. ValuesCurrent'
    BY <1>1, <1>3, <1>4, <1>5, Zenon DEF ValuesCurrent, Alone
  <1>7. FreshWithoutDaemon'
    <2>1. Alone => Current(mh[c], job[c].key)
      BY <1>1, Zenon DEF Alone, FreshInv, ValuesCurrent
    <2>2. QED
      BY <1>1, <1>3, <2>1, Zenon DEF FreshWithoutDaemon, Alone, Current
  <1>8. QED
    BY <1>1, <1>6, <1>7, Zenon DEF FreshInv

\* A put or remove that returns makes its value the truth, which the entry of
\* its key already has.
LEMMA DoneFresh ==
  ASSUME BucketInv, SafeInv, KeyInv, FreshInv, NEW c \in Cpus, Done(c)
  PROVE  FreshInv'
  <1>1. /\ UNCHANGED <<work, daemon, blocks, mem, list, reused, answer>>
        /\ pc[c] = "done" /\ Return(c)
        /\ truth' = IF job[c].op \in {"put", "remove"}
                    THEN [truth EXCEPT ![job[c].key] = job[c].val] ELSE truth
    BY Zenon DEF Done, choices, entries
  <1>2. /\ pc'[c] = "idle" /\ \A e \in Cpus \ {c} : pc'[e] = pc[e]
        /\ \A e \in Cpus \ {c} : job'[e] = job[e] /\ mh'[e] = mh[e]
    BY <1>1, Zenon DEF Return, Goto, Point, BucketInv, Shape
  <1>3. /\ \A e \in Cpus \ {c} : \A k : Putting(e, k)' <=> Putting(e, k)
        /\ \A k : ~Putting(c, k)'
    BY <1>1, <1>2, Zenon DEF Putting
  <1>4. (Alone' <=> Alone) /\ DOMAIN truth' = Keys
    BY <1>1, Zenon DEF Alone, Disjoint, FreshInv
  <1>5. \A k : k # job[c].key => truth'[k] = truth[k]
    BY <1>1
  <1>6. ASSUME Alone, NEW x \in DOMAIN list
        PROVE  /\ \A e \in Cpus : Putting(e, mem[x].key)' => mem[x].val = job'[e].val
               /\ Current(x, mem[x].key)' \/ \E e \in Cpus : Putting(e, mem[x].key)'
    <2>1. /\ \A e \in Cpus : Putting(e, mem[x].key) => mem[x].val = job[e].val
          /\ Current(x, mem[x].key) \/ \E e \in Cpus : Putting(e, mem[x].key)
      BY <1>6, Zenon DEF Alone, FreshInv, ValuesCurrent
    <2>2. \A e \in Cpus : Putting(e, mem[x].key)' => mem[x].val = job'[e].val
      BY <1>1, <1>2, <2>1, Zenon DEF Putting
    <2>3. CASE mem[x].key # job[c].key
      <3>1. ~Putting(c, mem[x].key) /\ (Current(x, mem[x].key)' <=> Current(x, mem[x].key))
        BY <1>1, <1>5, <2>3, Zenon DEF Putting, Current
      <3>2. QED
        BY <1>1, <1>2, <2>1, <2>2, <3>1, Zenon DEF Putting
    <2>4. CASE mem[x].key = job[c].key /\ job[c].op = "put"
      <3>1. mem[x].val = job[c].val
        BY <1>1, <2>1, <2>4, Zenon DEF Putting
      <3>2. truth'[mem[x].key] = job[c].val
        <4>1. mem[x].key \in Keys
          BY Zenon DEF SafeInv, Jobs, BucketInv, Shape
        <4>2. QED
          BY <1>1, <2>4, <4>1, Zenon DEF FreshInv
      <3>3. QED
        BY <1>1, <2>2, <3>1, <3>2, Zenon DEF Current
    <2>5. CASE mem[x].key = job[c].key /\ job[c].op # "put"
      <3>1. job[c].op # "remove"
        BY <1>1, <1>6, <2>5, Zenon DEF KeyInv, NoneWhileMissed, Alone
      <3>2. truth' = truth /\ \A k : ~Putting(c, k)
        BY <1>1, <2>5, <3>1, Zenon DEF Putting
      <3>3. QED
        BY <1>1, <1>3, <2>1, <2>2, <3>2, Zenon DEF Current
    <2>6. QED
      BY <2>3, <2>4, <2>5, Zenon
  <1>7. ASSUME Alone, NEW e \in Cpus
        PROVE  /\ pc'[e] = "add" => mem[mh'[e]].val = job'[e].val
               /\ pc'[e] = "use" => mh'[e] \in 1..blocks /\ Current(mh[e], job[e].key)'
    <2>1. CASE e = c
      BY <1>2, <2>1, Zenon
    <2>2. CASE e # c
      <3>1. pc[e] # "idle" => job[e].key # job[c].key
        BY <1>1, <1>7, <2>2, Zenon DEF SafeInv, Jobs, Alone, Disjoint
      <3>2. pc[e] # "idle" => (Current(mh[e], job[e].key)' <=> Current(mh[e], job[e].key))
        BY <1>1, <1>2, <1>5, <2>2, <3>1 DEF Current
      <3>3. QED
        BY <1>2, <1>7, <2>2, <3>2, Zenon DEF Alone, FreshInv, ValuesCurrent
    <2>3. QED
      BY <2>1, <2>2, Zenon
  <1>8. ValuesCurrent'
    BY <1>1, <1>4, <1>6, <1>7, Zenon DEF ValuesCurrent, Alone
  <1>9. QED
    BY <1>1, <1>4, <1>8, Zenon DEF FreshInv, FreshWithoutDaemon, Disjoint

LEMMA NextFresh ==
  ASSUME BucketInv, SafeInv, KeyInv, FreshInv, [Next]_vars
  PROVE  FreshInv'
  <1>1. ASSUME NEW c \in Cpus, Delete(c) \/ Release(c) \/ Load(c) PROVE FreshInv'
    <2>1. Relies(c) /\ UNCHANGED <<work, daemon, reused, truth, answer>>
      BY <1>1, Zenon DEF Delete, Release, Load, Relies, choices, history
    <2>2. QED
      BY <2>1, WithDaemon, Zenon
  <1>2. ASSUME NEW c \in Cpus, Step(c) PROVE FreshInv'
    BY <1>1, <1>2, StartFresh, FindFresh, DropFresh, MiniFresh, RoomFresh, CreateFresh, AddFresh,
       UseFresh, DoneFresh, Zenon DEF Step
  <1>3. ASSUME UNCHANGED vars PROVE FreshInv'
    BY <1>3, Zenon DEF vars, choices, entries, history, FreshInv, ValuesCurrent, FreshWithoutDaemon,
       Putting, Current, Disjoint
  <1>4. QED
    BY <1>2, <1>3, Zenon DEF Next

LEMMA InitFresh == Init => FreshInv
  BY DEF Init, FreshInv, ValuesCurrent, FreshWithoutDaemon

\* Without the daemon a get of a key that one CPU works on returns the value
\* of the last put, or nothing, for any number of CPUs, keys and calls,
\* although the entry is read after the lock of the bucket was released.
THEOREM GetsAreFresh == Spec => []FreshWithoutDaemon
  <1>1. BucketInv /\ SafeInv /\ KeyInv /\ FreshInv /\ [Next]_vars => FreshInv'
    BY NextFresh, Zenon
  <1>2. FreshInv => FreshWithoutDaemon
    BY Zenon DEF FreshInv
  <1>3. QED
    BY <1>1, <1>2, InitFresh, SafeAndKey, PTL DEF Spec
=============================================================================
