--------------------------- MODULE McdCacheProofs ---------------------------
(***************************************************************************)
(* Every safety property of McdCache, for any domains, keys, sizes, limits  *)
(* and setups.                                                              *)
(*                                                                          *)
(* The inductive invariant is Sound, a predicate of a cache s: the books    *)
(* agree with the entries (Books), the lists L are the only ones in use     *)
(* (Books, HeadersPlaced), memory and mini-headers hold the put tr that     *)
(* still counts (EntriesTrue, HeadersTrue), every mini-header has its file  *)
(* (FilesTrue) and its page (HeadersPaged).  It has the cache as a          *)
(* parameter because an operation passes through several of them: one lemma *)
(* per step of McdCache (Unlisted, PagedOut, Listed, Deleted, Emptied,      *)
(* HeadersFreed) shows that the step keeps it, one per way of making room   *)
(* that an eviction keeps it, and one per action puts these together.       *)
(***************************************************************************)
EXTENDS McdCache, McdSumsProofs

\* The prover of a leaf that names none.
USE Zenon

---------------------------------------------------------------------------
(* The invariant.                                                           *)

Entry == [dom : Doms, val : Vals \cup {NoVal}, bytes : Nat]
Header == [dom : Doms, put : Vals, live : BOOLEAN]
Heads(q) == {q[i] : i \in DOMAIN q}

\* The premises of the properties.
OneList == GuestsOnly \/ ModesStay
Truthful == StaysShared \/ NoFiles
FilesKept == StaysShared /\ GuestsOnly /\ "domains" \notin setup.ops

\* The fields of a cache.
Record(s) ==
    s = [mem |-> s.mem, mini |-> s.mini, files |-> s.files, dir0 |-> s.dir0,
         shr |-> s.shr, pri |-> s.pri, used |-> s.used]

Own(s, d) == {x \in DOMAIN s.mem : s.mem[x].dom = d}

\* Entries and counters: each entry of a domain's list is the domain's, all
\* are in the lists L, and the counters are their sums.
EntriesShaped(s) ==
    /\ IsFiniteSet(DOMAIN s.mem) /\ DOMAIN s.mem \subseteq Cells
    /\ \A x \in DOMAIN s.mem : s.mem[x] \in Entry
EntriesPlaced(s, L) ==
    \A x \in DOMAIN s.mem : /\ x[1] \in Doms => s.mem[x].dom = x[1]
                            /\ OneList => x[1] \in L
Counted(s) ==
    /\ s.shr = Bytes(s, CellsOf(s, {Shared})) /\ s.pri = Bytes(s, CellsOf(s, Doms))
    /\ s.used \in [Doms -> Int]
Charged(s) == \A d \in Doms : s.used[d] = Bytes(s, Own(s, d))

Books(s, L) ==
    /\ EntriesShaped(s) /\ EntriesPlaced(s, L) /\ Counted(s)
    /\ DomainsApart => Charged(s)

\* Mini-headers and files: the same for the mini-headers.
HeadersPlaced(s, L) ==
    /\ s.mini \in [Cells -> Seq(Header)]
    /\ \A x \in Cells : \A h \in Heads(s.mini[x]) :
         /\ x[1] \in Doms => h.dom = x[1]
         /\ OneList => x[1] \in L
FilesShaped(s) ==
    /\ DOMAIN s.files \subseteq Doms \X Keys /\ s.dir0 \in BOOLEAN
    /\ \A f \in DOMAIN s.files : s.files[f] \in Vals
NoHeaders(s) == \A x \in Cells : s.mini[x] = <<>>

\* An entry is the put that counts, or has no value.
EntriesTrue(s, tr) ==
    Truthful => \A x \in DOMAIN s.mem : s.mem[x].val \in {tr[x], NoVal}

\* A key has one copy at most, in memory or behind a mini-header.
HeadersTrue(s, tr, on) ==
    /\ NoFiles => NoHeaders(s)
    /\ StaysShared /\ on => \A x \in Cells : s.mini[x] # <<>> =>
         /\ x \notin DOMAIN s.mem /\ Tail(s.mini[x]) = <<>>
         /\ \A h \in Heads(s.mini[x]) : h.put = tr[x]

FilesTrue(s, on) ==
    FilesKept /\ on => \A x \in Cells : \A h \in Heads(s.mini[x]) :
        <<h.dom, x[2]>> \in DOMAIN s.files /\ s.files[<<h.dom, x[2]>>] = h.put

HeadersPaged(s, en) ==
    HeadersKept /\ en => \A x \in Cells : \A h \in Heads(s.mini[x]) : h.live

Sound(s, L, tr, on, en) ==
    /\ Record(s) /\ Books(s, L) /\ HeadersPlaced(s, L) /\ FilesShaped(s)
    /\ EntriesTrue(s, tr) /\ HeadersTrue(s, tr, on) /\ FilesTrue(s, on)
    /\ HeadersPaged(s, en)

\* The lists in use.
Lists == IF mode = Shared THEN {Shared} ELSE alive

\* What the switches are, given what may be done to them.
Steady ==
    /\ setup \in Setups /\ mode \in {Shared, Partition} /\ pmode \in {"BE", "WB", "AD"}
    /\ maxBytes \in Limits \cup {0} /\ alive \subseteq Doms
    /\ enabled \in BOOLEAN /\ user \in BOOLEAN
    /\ truth \in [Cells -> Vals \cup {NoVal}]
    /\ ModesStay => mode = setup.mode
    /\ "domains" \notin setup.ops => alive = Doms
    /\ "toggle" \notin setup.ops => user
    /\ NoFiles => ~enabled

CacheInv ==
    /\ Steady /\ Sound(cache, Lists, truth, On, enabled)
    /\ WithinLimit /\ SharedGetsAreFresh

---------------------------------------------------------------------------
(* Lists of mini-headers, as the set of what is in them.                    *)

LEMMA NoHeads == <<>> \in Seq(Header) /\ Heads(<<>>) = {}
  BY SMT DEF Heads

LEMMA SomeHeads ==
  ASSUME NEW q \in Seq(Header)
  PROVE  Heads(q) \subseteq Header /\ (Heads(q) # {} => q # <<>>)
  BY SMT DEF Heads

LEMMA HeadsAppend ==
  ASSUME NEW q \in Seq(Header), NEW h \in Header
  PROVE  /\ Append(q, h) \in Seq(Header) /\ Heads(Append(q, h)) = Heads(q) \cup {h}
         /\ q = <<>> => Tail(Append(q, h)) = <<>>
  <1>1. Append(q, h) \in Seq(Header)
    BY SMT
  <1>2. /\ Len(q) \in Nat /\ DOMAIN q = 1..Len(q)
        /\ DOMAIN Append(q, h) = 1..(Len(q) + 1) /\ Append(q, h)[Len(q) + 1] = h
        /\ \A i \in 1..Len(q) : Append(q, h)[i] = q[i]
    BY SMT
  <1>3. Heads(Append(q, h)) \subseteq Heads(q) \cup {h}
    BY <1>2, SMT DEF Heads
  <1>4. Heads(q) \cup {h} \subseteq Heads(Append(q, h))
    <2>1. \A i \in DOMAIN q : i \in DOMAIN Append(q, h) /\ Append(q, h)[i] = q[i]
      BY <1>2, SMT
    <2>2. Len(q) + 1 \in DOMAIN Append(q, h)
      BY <1>2, SMT
    <2>3. QED
      BY <2>1, <2>2, <1>2 DEF Heads
  <1>5. q = <<>> => Tail(Append(q, h)) = <<>>
    <2>1. Tail(Append(<<>>, h)) = <<>>
      BY SMT
    <2>2. QED
      BY <2>1
  <1>6. QED
    BY <1>1, <1>3, <1>4, <1>5

LEMMA HeadsTail ==
  ASSUME NEW q \in Seq(Header), q # <<>>
  PROVE  /\ Tail(q) \in Seq(Header) /\ Heads(Tail(q)) \subseteq Heads(q)
         /\ Head(q) \in Heads(q)
  <1>1. Tail(q) \in Seq(Header)
    BY SMT
  <1>2. /\ Len(q) \in Nat /\ DOMAIN q = 1..Len(q) /\ Len(q) # 0
        /\ DOMAIN Tail(q) = 1..(Len(q) - 1) /\ Head(q) = q[1]
        /\ \A i \in 1..(Len(q) - 1) : Tail(q)[i] = q[i + 1]
    BY SMT
  <1>3. \A i \in DOMAIN Tail(q) : i + 1 \in DOMAIN q /\ Tail(q)[i] = q[i + 1]
    BY <1>2, SMT
  <1>4. 1 \in DOMAIN q
    BY <1>2, SMT
  <1>5. Heads(Tail(q)) \subseteq Heads(q)
    BY <1>3 DEF Heads
  <1>6. Head(q) \in Heads(q)
    BY <1>2, <1>4 DEF Heads
  <1>7. QED
    BY <1>1, <1>5, <1>6

\* The list after exit_mcdctl.
Freed(q) == [i \in DOMAIN q |-> [q[i] EXCEPT !.live = FALSE]]

LEMMA HeadsFreed ==
  ASSUME NEW q \in Seq(Header)
  PROVE  /\ Freed(q) \in Seq(Header) /\ (q = <<>> => Freed(q) = <<>>)
         /\ \A g \in Heads(Freed(q)) : \E h \in Heads(q) : g.dom = h.dom
  <1>1. Len(q) \in Nat /\ DOMAIN q = 1..Len(q) /\ \A i \in DOMAIN q : q[i] \in Header
    BY SMT
  <1>2. \A i \in DOMAIN q : [q[i] EXCEPT !.live = FALSE] \in Header
    BY <1>1 DEF Header
  <1>3. Freed(q) \in [1..Len(q) -> Header]
    BY <1>1, <1>2 DEF Freed
  <1>4. Freed(q) \in Seq(Header) /\ DOMAIN Freed(q) = DOMAIN q
    BY <1>1, <1>3, SMT
  <1>5. \A i \in DOMAIN q : Freed(q)[i].dom = q[i].dom
    BY <1>1, SMT DEF Freed, Header
  <1>6. q = <<>> => Freed(q) = <<>>
    BY <1>4, SMT
  <1>7. QED
    BY <1>4, <1>5, <1>6 DEF Heads

---------------------------------------------------------------------------
(* The books.                                                               *)

LEMMA EntryFields ==
  ASSUME NEW s, EntriesShaped(s), NEW x \in DOMAIN s.mem
  PROVE  /\ s.mem[x].dom \in Doms /\ s.mem[x].val \in Vals \cup {NoVal}
         /\ s.mem[x].bytes \in Nat
         /\ x \in Cells /\ x[1] \in Doms \cup {Shared} /\ x[2] \in Keys
  <1>1. s.mem[x] \in Entry /\ x \in Cells
    BY DEF EntriesShaped
  <1>2. QED
    BY <1>1, SMT DEF Entry, Cells

LEMMA SizesNat ==
  ASSUME NEW s, EntriesShaped(s), NEW V, V \subseteq DOMAIN s.mem
  PROVE  IsFiniteSet(V) /\ \A x \in V : SizeIn(s)[x] \in Nat /\ SizeIn(s)[x] \in Int
  <1>1. IsFiniteSet(V)
    BY FS_Subset DEF EntriesShaped
  <1>2. \A x \in V : SizeIn(s)[x] = s.mem[x].bytes
    BY DEF SizeIn
  <1>3. \A x \in V : s.mem[x].bytes \in Nat
    BY EntryFields
  <1>4. \A n \in Nat : n \in Int
    BY SMT
  <1>5. QED
    BY <1>1, <1>2, <1>3, <1>4

LEMMA BytesNat ==
  ASSUME NEW s, EntriesShaped(s), NEW V, V \subseteq DOMAIN s.mem
  PROVE  Bytes(s, V) \in Nat
  BY SizesNat, SumNat DEF Bytes, BytesOf

LEMMA BytesSplit ==
  ASSUME NEW s, EntriesShaped(s), NEW V, V \subseteq DOMAIN s.mem, NEW W
  PROVE  Bytes(s, V) = Bytes(s, V \cap W) + Bytes(s, V \ W)
  <1>1. /\ V = (V \cap W) \cup (V \ W) /\ (V \cap W) \cap (V \ W) = {}
        /\ V \cap W \subseteq DOMAIN s.mem /\ V \ W \subseteq DOMAIN s.mem
    OBVIOUS
  <1>2. IsFiniteSet(V \cap W) /\ IsFiniteSet(V \ W)
    BY <1>1, SizesNat
  <1>3. \A x \in (V \cap W) \cup (V \ W) : SizeIn(s)[x] \in Int
    BY SizesNat
  <1>4. SumOf(SizeIn(s), (V \cap W) \cup (V \ W)) =
          SumOf(SizeIn(s), V \cap W) + SumOf(SizeIn(s), V \ W)
    BY <1>1, <1>2, <1>3, SumUnion
  <1>5. QED
    BY <1>1, <1>4 DEF Bytes, BytesOf

\* Bytes looks at the entries alone.
LEMMA BytesSame ==
  ASSUME NEW s, EntriesShaped(s), NEW t, NEW V, V \subseteq DOMAIN s.mem,
         V \subseteq DOMAIN t.mem, \A x \in V : t.mem[x] = s.mem[x]
  PROVE  Bytes(t, V) = Bytes(s, V)
  <1>1. IsFiniteSet(V)
    BY SizesNat
  <1>2. \A x \in V : SizeIn(t)[x] = SizeIn(s)[x]
    BY DEF SizeIn
  <1>3. QED
    BY <1>1, <1>2, SumSame DEF Bytes, BytesOf

\* The entries are those of the shared list and those of the domains.
LEMMA UsedIsBytes ==
  ASSUME NEW s, NEW L, Books(s, L), Shared \notin Doms
  PROVE  /\ Used(s) = Bytes(s, DOMAIN s.mem) /\ Used(s) \in Nat
         /\ s.shr \in Nat /\ s.pri \in Nat
  <1>1. /\ EntriesShaped(s) /\ s.shr = Bytes(s, CellsOf(s, {Shared}))
        /\ s.pri = Bytes(s, CellsOf(s, Doms))
    BY DEF Books, Counted
  <1>2. \A x \in DOMAIN s.mem : x[1] \in Doms \cup {Shared}
    BY <1>1, EntryFields
  <1>3. /\ DOMAIN s.mem \cap CellsOf(s, {Shared}) = CellsOf(s, {Shared})
        /\ DOMAIN s.mem \ CellsOf(s, {Shared}) = CellsOf(s, Doms)
    <2>1. CellsOf(s, {Shared}) \subseteq DOMAIN s.mem
      BY DEF CellsOf
    <2>2. \A x \in DOMAIN s.mem : x \notin CellsOf(s, {Shared}) <=> x \in CellsOf(s, Doms)
      BY <1>2 DEF CellsOf
    <2>3. CellsOf(s, Doms) \subseteq DOMAIN s.mem
      BY DEF CellsOf
    <2>4. QED
      BY <2>1, <2>2, <2>3
  <1>4. DOMAIN s.mem \subseteq DOMAIN s.mem
    OBVIOUS
  <1>5. Bytes(s, DOMAIN s.mem) = s.shr + s.pri
    <2>1. Bytes(s, DOMAIN s.mem) = Bytes(s, DOMAIN s.mem \cap CellsOf(s, {Shared}))
                                     + Bytes(s, DOMAIN s.mem \ CellsOf(s, {Shared}))
      BY <1>1, <1>4, BytesSplit, SMT
    <2>2. QED
      BY <1>1, <1>3, <2>1
  <1>6. CellsOf(s, {Shared}) \subseteq DOMAIN s.mem /\ CellsOf(s, Doms) \subseteq DOMAIN s.mem
    BY DEF CellsOf
  <1>7. s.shr \in Nat /\ s.pri \in Nat
    BY <1>1, <1>6, BytesNat
  <1>8. QED
    BY <1>5, <1>7, SMT DEF Used

\* t is s without the entries V, in memory and in the books.
Less(s, V) == [d \in Doms |-> s.used[d] - Bytes(s, {x \in V : s.mem[x].dom = d})]
TakenOut(s, t, V) ==
    /\ t.mem = Without(s.mem, V)
    /\ t.shr = s.shr - Bytes(s, V \cap CellsOf(s, {Shared}))
    /\ t.pri = s.pri - Bytes(s, V \cap CellsOf(s, Doms))
    /\ t.used = Less(s, V)

LEMMA WithoutIs ==
  ASSUME NEW f, NEW S
  PROVE  /\ DOMAIN Without(f, S) = DOMAIN f \ S
         /\ \A x \in DOMAIN f \ S : Without(f, S)[x] = f[x]
  BY DEF Without

\* What remains is unchanged, and has the bytes that were not taken.
Remain(s, t, V) ==
    /\ EntriesShaped(t) /\ DOMAIN t.mem = DOMAIN s.mem \ V
    /\ \A x \in DOMAIN t.mem : t.mem[x] = s.mem[x]
RemainingBytes(s, t, V) ==
    \A W \in SUBSET DOMAIN s.mem :
        /\ Bytes(t, W \ V) = Bytes(s, W) - Bytes(s, V \cap W)
        /\ Bytes(s, V \cap W) \in Nat /\ Bytes(s, W) \in Nat

LEMMA BytesTaken ==
  ASSUME NEW s, EntriesShaped(s), NEW t, NEW V, TakenOut(s, t, V)
  PROVE  Remain(s, t, V) /\ RemainingBytes(s, t, V)
  <1>1. DOMAIN t.mem = DOMAIN s.mem \ V /\ \A x \in DOMAIN t.mem : t.mem[x] = s.mem[x]
    <2>1. /\ DOMAIN Without(s.mem, V) = DOMAIN s.mem \ V
          /\ \A x \in DOMAIN s.mem \ V : Without(s.mem, V)[x] = s.mem[x]
      BY WithoutIs
    <2>2. t.mem = Without(s.mem, V)
      BY DEF TakenOut
    <2>3. DOMAIN t.mem = DOMAIN s.mem \ V
      BY <2>1, <2>2
    <2>4. QED
      BY <2>1, <2>2, <2>3, SMT
  <1>2. EntriesShaped(t)
    <2>1. DOMAIN t.mem \subseteq DOMAIN s.mem
      BY <1>1
    <2>2. IsFiniteSet(DOMAIN t.mem)
      BY <2>1, SizesNat
    <2>3. QED
      BY <1>1, <2>1, <2>2 DEF EntriesShaped
  <1>3. ASSUME NEW W \in SUBSET DOMAIN s.mem
        PROVE  /\ Bytes(t, W \ V) = Bytes(s, W) - Bytes(s, V \cap W)
               /\ Bytes(s, V \cap W) \in Nat /\ Bytes(s, W) \in Nat
    <2>1. /\ W \subseteq DOMAIN s.mem /\ W \ V \subseteq DOMAIN s.mem
          /\ W \ V \subseteq DOMAIN t.mem /\ V \cap W = W \cap V
          /\ W \cap V \subseteq DOMAIN s.mem
      BY <1>1
    <2>2. Bytes(t, W \ V) = Bytes(s, W \ V)
      <3>1. \A x \in W \ V : t.mem[x] = s.mem[x]
        BY <1>1, <2>1
      <3>2. QED
        BY <2>1, <3>1, BytesSame
    <2>3. Bytes(s, W) = Bytes(s, W \cap V) + Bytes(s, W \ V)
      BY <2>1, BytesSplit, SMT
    <2>4. Bytes(s, W) \in Nat /\ Bytes(s, W \cap V) \in Nat /\ Bytes(s, W \ V) \in Nat
      BY <2>1, BytesNat
    <2>5. Bytes(s, W \ V) = Bytes(s, W) - Bytes(s, W \cap V)
      BY <2>3, <2>4, SMT
    <2>6. QED
      BY <2>1, <2>2, <2>4, <2>5
  <1>4. QED
    BY <1>1, <1>2, <1>3 DEF Remain, RemainingBytes

\* Entries that leave take their bytes along: the books stay true, in whatever
\* lists M the others are.
LEMMA BooksTaken ==
  ASSUME NEW s, NEW L, Books(s, L), NEW t, NEW V, V \subseteq DOMAIN s.mem,
         TakenOut(s, t, V), NEW M,
         OneList => \A x \in DOMAIN s.mem \ V : x[1] \in M
  PROVE  Books(t, M)
  <1>1. EntriesShaped(s)
    BY DEF Books
  <1>2. /\ EntriesShaped(t) /\ DOMAIN t.mem = DOMAIN s.mem \ V
        /\ \A x \in DOMAIN t.mem : t.mem[x] = s.mem[x]
        /\ \A W \in SUBSET DOMAIN s.mem :
              /\ Bytes(t, W \ V) = Bytes(s, W) - Bytes(s, V \cap W)
              /\ Bytes(s, V \cap W) \in Nat /\ Bytes(s, W) \in Nat
    <2>1. Remain(s, t, V) /\ RemainingBytes(s, t, V)
      BY <1>1, BytesTaken
    <2>2. QED
      BY <2>1 DEF Remain, RemainingBytes
  <1>3. EntriesPlaced(t, M)
    BY <1>2 DEF EntriesPlaced, Books
  <1>4. ASSUME NEW X
        PROVE  CellsOf(t, X) = CellsOf(s, X) \ V /\ CellsOf(s, X) \in SUBSET DOMAIN s.mem
    BY <1>2 DEF CellsOf
  <1>5. ASSUME NEW d \in Doms
        PROVE  /\ Own(t, d) = Own(s, d) \ V /\ Own(s, d) \in SUBSET DOMAIN s.mem
               /\ {x \in V : s.mem[x].dom = d} = V \cap Own(s, d)
    <2>1. \A x \in DOMAIN s.mem \ V : t.mem[x] = s.mem[x]
      BY <1>2
    <2>2. Own(t, d) = {x \in DOMAIN s.mem \ V : t.mem[x].dom = d}
      BY <1>2 DEF Own
    <2>3. QED
      BY <2>1, <2>2 DEF Own
  <1>6. Counted(t)
    <2>1. t.shr = Bytes(t, CellsOf(t, {Shared}))
      <3>1. s.shr = Bytes(s, CellsOf(s, {Shared}))
        BY DEF Books, Counted
      <3>2. t.shr = s.shr - Bytes(s, V \cap CellsOf(s, {Shared}))
        BY DEF TakenOut
      <3>3. Bytes(t, CellsOf(s, {Shared}) \ V)
              = Bytes(s, CellsOf(s, {Shared})) - Bytes(s, V \cap CellsOf(s, {Shared}))
        BY <1>2, <1>4
      <3>4. QED
        BY <1>4, <3>1, <3>2, <3>3
    <2>2. t.pri = Bytes(t, CellsOf(t, Doms))
      <3>1. s.pri = Bytes(s, CellsOf(s, Doms))
        BY DEF Books, Counted
      <3>2. t.pri = s.pri - Bytes(s, V \cap CellsOf(s, Doms))
        BY DEF TakenOut
      <3>3. Bytes(t, CellsOf(s, Doms) \ V)
              = Bytes(s, CellsOf(s, Doms)) - Bytes(s, V \cap CellsOf(s, Doms))
        BY <1>2, <1>4
      <3>4. QED
        BY <1>4, <3>1, <3>2, <3>3
    <2>3. t.used \in [Doms -> Int]
      <3>1. ASSUME NEW d \in Doms
            PROVE  s.used[d] - Bytes(s, {x \in V : s.mem[x].dom = d}) \in Int
        <4>1. s.used[d] \in Int
          BY DEF Books, Counted
        <4>2. Bytes(s, {x \in V : s.mem[x].dom = d}) \in Nat
          BY <1>2, <1>5
        <4>3. QED
          BY <4>1, <4>2, SMT
      <3>2. QED
        BY <3>1 DEF TakenOut, Less
    <2>4. QED
      BY <2>1, <2>2, <2>3 DEF Counted
  <1>7. DomainsApart => Charged(t)
    <2>1. SUFFICES ASSUME DomainsApart, NEW d \in Doms
                   PROVE  t.used[d] = Bytes(t, Own(t, d))
      BY DEF Charged
    <2>2. s.used[d] = Bytes(s, Own(s, d))
      BY <2>1 DEF Books, Charged
    <2>3. t.used[d] = s.used[d] - Bytes(s, {x \in V : s.mem[x].dom = d})
      BY DEF TakenOut, Less
    <2>4. Bytes(t, Own(s, d) \ V) = Bytes(s, Own(s, d)) - Bytes(s, V \cap Own(s, d))
      BY <1>2, <1>5
    <2>5. QED
      BY <1>5, <2>2, <2>3, <2>4
  <1>8. QED
    BY <1>2, <1>3, <1>6, <1>7 DEF Books

\* The total falls by what was taken.
LEMMA UsedTaken ==
  ASSUME NEW s, NEW L, Books(s, L), NEW t, NEW M, Books(t, M), NEW V,
         V \subseteq DOMAIN s.mem, TakenOut(s, t, V), Shared \notin Doms
  PROVE  /\ Used(t) = Used(s) - Bytes(s, V) /\ Bytes(s, V) \in Nat
         /\ Used(s) \in Nat /\ Used(t) \in Nat
  <1>1. EntriesShaped(s) /\ DOMAIN s.mem \in SUBSET DOMAIN s.mem
    BY DEF Books
  <1>2. /\ DOMAIN t.mem = DOMAIN s.mem \ V
        /\ Bytes(t, DOMAIN s.mem \ V) = Bytes(s, DOMAIN s.mem) - Bytes(s, V \cap DOMAIN s.mem)
        /\ Bytes(s, V \cap DOMAIN s.mem) \in Nat
    <2>1. Remain(s, t, V) /\ RemainingBytes(s, t, V)
      BY <1>1, BytesTaken
    <2>2. QED
      BY <1>1, <2>1 DEF Remain, RemainingBytes
  <1>3. V \cap DOMAIN s.mem = V
    OBVIOUS
  <1>4. /\ Used(s) = Bytes(s, DOMAIN s.mem) /\ Used(s) \in Nat
        /\ Used(t) = Bytes(t, DOMAIN t.mem) /\ Used(t) \in Nat
    BY UsedIsBytes
  <1>5. QED
    BY <1>2, <1>3, <1>4

\* t is s with an entry of d for x.
New(d, v, bytes) == [dom |-> d, val |-> v, bytes |-> bytes]
PutIn(s, t, x, d, v, bytes) ==
    /\ t.mem = With(s.mem, x, New(d, v, bytes))
    /\ t.shr = IF x[1] = Shared THEN s.shr + bytes ELSE s.shr
    /\ t.pri = IF x[1] = Shared THEN s.pri ELSE s.pri + bytes
    /\ t.used = [s.used EXCEPT ![d] = @ + bytes]

\* What was there stays, with its bytes, and the new entry adds its own.
Grown(s, t, x, e) ==
    /\ EntriesShaped(t) /\ DOMAIN t.mem = DOMAIN s.mem \cup {x} /\ t.mem[x] = e
    /\ \A y \in DOMAIN s.mem : t.mem[y] = s.mem[y]
GrownBytes(s, t, x, bytes) ==
    \A W \in SUBSET DOMAIN s.mem :
        /\ Bytes(t, W) = Bytes(s, W) /\ Bytes(s, W) \in Nat
        /\ Bytes(t, W \cup {x}) = Bytes(s, W) + bytes

LEMMA NewIs ==
  ASSUME NEW d \in Doms, NEW v \in Vals \cup {NoVal}, NEW bytes \in Nat
  PROVE  /\ New(d, v, bytes) \in Entry /\ New(d, v, bytes).dom = d
         /\ New(d, v, bytes).val = v /\ New(d, v, bytes).bytes = bytes
  BY SMT DEF New, Entry

LEMMA BytesAdded ==
  ASSUME NEW s, EntriesShaped(s), NEW t, NEW x \in Cells, x \notin DOMAIN s.mem,
         NEW d \in Doms, NEW v \in Vals \cup {NoVal}, NEW bytes \in Nat,
         PutIn(s, t, x, d, v, bytes)
  PROVE  Grown(s, t, x, New(d, v, bytes)) /\ GrownBytes(s, t, x, bytes)
  <1> DEFINE e == New(d, v, bytes)
  <1>1. e \in Entry /\ e.bytes = bytes
    BY NewIs, SMT
  <1> HIDE DEF e
  <1>2. /\ DOMAIN t.mem = DOMAIN s.mem \cup {x} /\ t.mem[x] = e
        /\ \A y \in DOMAIN s.mem : t.mem[y] = s.mem[y]
    <2>1. t.mem = [y \in DOMAIN s.mem \cup {x} |-> IF y = x THEN e ELSE s.mem[y]]
      BY DEF PutIn, With, e
    <2>2. DOMAIN t.mem = DOMAIN s.mem \cup {x}
      BY <2>1
    <2>3. t.mem[x] = e
      BY <2>1, SMT
    <2>4. \A y \in DOMAIN s.mem : t.mem[y] = s.mem[y]
      BY <2>1, SMT
    <2>5. QED
      BY <2>2, <2>3, <2>4
  <1>3. EntriesShaped(t)
    <2>1. IsFiniteSet(DOMAIN s.mem \cup {x})
      BY FS_AddElement DEF EntriesShaped
    <2>2. IsFiniteSet(DOMAIN t.mem) /\ DOMAIN t.mem \subseteq Cells
      BY <1>2, <2>1 DEF EntriesShaped
    <2>3. \A y \in DOMAIN t.mem : t.mem[y] \in Entry
      BY <1>1, <1>2 DEF EntriesShaped
    <2>4. QED
      BY <2>2, <2>3 DEF EntriesShaped
  <1>4. ASSUME NEW W \in SUBSET DOMAIN s.mem
        PROVE  /\ Bytes(t, W) = Bytes(s, W) /\ Bytes(s, W) \in Nat
               /\ Bytes(t, W \cup {x}) = Bytes(s, W) + bytes
    <2>1. /\ W \subseteq DOMAIN s.mem /\ W \subseteq DOMAIN t.mem
          /\ W \cup {x} \subseteq DOMAIN t.mem /\ x \notin W
          /\ \A y \in W : t.mem[y] = s.mem[y]
      BY <1>2
    <2>2. Bytes(t, W) = Bytes(s, W)
      BY <2>1, BytesSame
    <2>3. Bytes(s, W) \in Nat
      BY <2>1, BytesNat
    <2>4. IsFiniteSet(W) /\ \A y \in W \cup {x} : SizeIn(t)[y] \in Int
      BY <1>3, <2>1, SizesNat
    <2>5. SumOf(SizeIn(t), W \cup {x}) = SizeIn(t)[x] + SumOf(SizeIn(t), W)
      BY <2>1, <2>4, SumAdd
    <2>6. SizeIn(t)[x] = bytes
      BY <1>1, <1>2, <2>1 DEF SizeIn
    <2>7. Bytes(t, W \cup {x}) = bytes + Bytes(t, W)
      BY <2>5, <2>6 DEF Bytes, BytesOf
    <2>8. QED
      BY <2>2, <2>3, <2>7, SMT
  <1>5. QED
    BY <1>2, <1>3, <1>4 DEF Grown, GrownBytes, e

\* A new entry is entered in the books.
LEMMA BooksAdded ==
  ASSUME NEW s, NEW L, Books(s, L), NEW t, NEW x \in Cells, x \notin DOMAIN s.mem,
         NEW d \in Doms, NEW v \in Vals \cup {NoVal}, NEW bytes \in Nat,
         PutIn(s, t, x, d, v, bytes), Shared \notin Doms,
         x[1] \in Doms => d = x[1], OneList => x[1] \in L
  PROVE  Books(t, L)
  <1> DEFINE e == New(d, v, bytes)
  <1>1. EntriesShaped(s)
    BY DEF Books
  <1>2. Grown(s, t, x, e) /\ GrownBytes(s, t, x, bytes)
    BY <1>1, BytesAdded
  <1>3. e.dom = d
    BY NewIs, SMT
  <1> HIDE DEF e
  <1>4. EntriesShaped(t) /\ EntriesPlaced(t, L)
    <2>1. ASSUME NEW y \in DOMAIN t.mem
          PROVE  (y[1] \in Doms => t.mem[y].dom = y[1]) /\ (OneList => y[1] \in L)
      <3>1. CASE y = x
        BY <1>2, <1>3, <3>1 DEF Grown
      <3>2. CASE y \in DOMAIN s.mem
        BY <1>2, <3>2 DEF Grown, Books, EntriesPlaced
      <3>3. QED
        BY <1>2, <3>1, <3>2 DEF Grown
    <2>2. QED
      BY <1>2, <2>1 DEF Grown, EntriesPlaced
  <1>5. x[1] \in Doms \cup {Shared}
    BY SMT DEF Cells
  <1>6. ASSUME NEW X
        PROVE  /\ CellsOf(s, X) \in SUBSET DOMAIN s.mem
               /\ x[1] \in X => CellsOf(t, X) = CellsOf(s, X) \cup {x}
               /\ x[1] \notin X => CellsOf(t, X) = CellsOf(s, X)
    BY <1>2 DEF CellsOf, Grown
  <1>7. t.shr = Bytes(t, CellsOf(t, {Shared}))
    <2>1. s.shr = Bytes(s, CellsOf(s, {Shared}))
      BY DEF Books, Counted
    <2>2. CASE x[1] = Shared
      <3>1. t.shr = s.shr + bytes
        BY <2>2 DEF PutIn
      <3>2. CellsOf(t, {Shared}) = CellsOf(s, {Shared}) \cup {x}
        BY <1>6, <2>2
      <3>3. Bytes(t, CellsOf(s, {Shared}) \cup {x}) = Bytes(s, CellsOf(s, {Shared})) + bytes
        BY <1>2, <1>6 DEF GrownBytes
      <3>4. QED
        BY <2>1, <3>1, <3>2, <3>3
    <2>3. CASE x[1] # Shared
      <3>1. t.shr = s.shr
        BY <2>3 DEF PutIn
      <3>2. CellsOf(t, {Shared}) = CellsOf(s, {Shared})
        BY <1>6, <2>3
      <3>3. Bytes(t, CellsOf(s, {Shared})) = Bytes(s, CellsOf(s, {Shared}))
        BY <1>2, <1>6 DEF GrownBytes
      <3>4. QED
        BY <2>1, <3>1, <3>2, <3>3
    <2>4. QED
      BY <2>2, <2>3
  <1>8. t.pri = Bytes(t, CellsOf(t, Doms))
    <2>1. s.pri = Bytes(s, CellsOf(s, Doms))
      BY DEF Books, Counted
    <2>2. CASE x[1] = Shared
      <3>1. t.pri = s.pri
        BY <2>2 DEF PutIn
      <3>2. CellsOf(t, Doms) = CellsOf(s, Doms)
        BY <1>6, <2>2
      <3>3. Bytes(t, CellsOf(s, Doms)) = Bytes(s, CellsOf(s, Doms))
        BY <1>2, <1>6 DEF GrownBytes
      <3>4. QED
        BY <2>1, <3>1, <3>2, <3>3
    <2>3. CASE x[1] # Shared
      <3>1. t.pri = s.pri + bytes
        BY <2>3 DEF PutIn
      <3>2. CellsOf(t, Doms) = CellsOf(s, Doms) \cup {x}
        BY <1>5, <1>6, <2>3
      <3>3. Bytes(t, CellsOf(s, Doms) \cup {x}) = Bytes(s, CellsOf(s, Doms)) + bytes
        BY <1>2, <1>6 DEF GrownBytes
      <3>4. QED
        BY <2>1, <3>1, <3>2, <3>3
    <2>4. QED
      BY <2>2, <2>3
  <1>9. t.used \in [Doms -> Int]
    <2>1. s.used \in [Doms -> Int]
      BY DEF Books, Counted
    <2>2. t.used = [s.used EXCEPT ![d] = @ + bytes]
      BY DEF PutIn
    <2>3. QED
      BY <2>1, <2>2, SMT
  <1>10. DomainsApart => Charged(t)
    <2>1. SUFFICES ASSUME DomainsApart, NEW c \in Doms
                   PROVE  t.used[c] = Bytes(t, Own(t, c))
      BY DEF Charged
    <2>2. s.used[c] = Bytes(s, Own(s, c)) /\ Own(s, c) \in SUBSET DOMAIN s.mem
      BY <2>1 DEF Books, Charged, Own
    <2>3. s.used \in [Doms -> Int] /\ t.used = [s.used EXCEPT ![d] = @ + bytes]
      BY DEF Books, Counted, PutIn
    <2>4. Own(t, c) = {y \in DOMAIN s.mem \cup {x} : t.mem[y].dom = c}
      BY <1>2 DEF Grown, Own
    <2>5. CASE c = d
      <3>1. t.used[c] = s.used[c] + bytes
        BY <2>3, <2>5, SMT
      <3>2. Own(t, c) = Own(s, c) \cup {x}
        BY <1>2, <1>3, <2>4, <2>5 DEF Grown, Own
      <3>3. Bytes(t, Own(s, c) \cup {x}) = Bytes(s, Own(s, c)) + bytes
        BY <1>2, <2>2 DEF GrownBytes
      <3>4. QED
        BY <2>2, <3>1, <3>2, <3>3
    <2>6. CASE c # d
      <3>1. t.used[c] = s.used[c]
        BY <2>3, <2>6, SMT
      <3>2. Own(t, c) = Own(s, c)
        BY <1>2, <1>3, <2>4, <2>6 DEF Grown, Own
      <3>3. Bytes(t, Own(s, c)) = Bytes(s, Own(s, c))
        BY <1>2, <2>2 DEF GrownBytes
      <3>4. QED
        BY <2>2, <3>1, <3>2, <3>3
    <2>7. QED
      BY <2>5, <2>6
  <1>11. QED
    BY <1>4, <1>7, <1>8, <1>9, <1>10 DEF Books, Counted

\* The total grows by what was added.
LEMMA UsedAdded ==
  ASSUME NEW s, NEW L, Books(s, L), NEW t, NEW x, NEW d, NEW v, NEW bytes \in Nat,
         PutIn(s, t, x, d, v, bytes), Shared \notin Doms
  PROVE  Used(t) = Used(s) + bytes /\ Used(s) \in Nat
  <1>1. s.shr \in Nat /\ s.pri \in Nat /\ Used(s) \in Nat
    BY UsedIsBytes
  <1>2. /\ t.shr = IF x[1] = Shared THEN s.shr + bytes ELSE s.shr
        /\ t.pri = IF x[1] = Shared THEN s.pri ELSE s.pri + bytes
    BY DEF PutIn
  <1>3. QED
    BY <1>1, <1>2, SMT DEF Used

---------------------------------------------------------------------------
(* Entries that leave memory.                                               *)

SameBooks(s, t) == t.mem = s.mem /\ t.shr = s.shr /\ t.pri = s.pri /\ t.used = s.used
SameFiles(s, t) == t.files = s.files /\ t.dir0 = s.dir0

LEMMA BooksSame ==
  ASSUME NEW s, NEW L, Books(s, L), NEW t, SameBooks(s, t)
  PROVE  Books(t, L) /\ Used(t) = Used(s)
  <1>1. /\ t.mem = s.mem /\ t.shr = s.shr /\ t.pri = s.pri /\ t.used = s.used
    BY DEF SameBooks
  <1>2. \A V : Bytes(t, V) = Bytes(s, V)
    BY <1>1 DEF Bytes, SizeIn
  <1>3. \A X : CellsOf(t, X) = CellsOf(s, X) /\ Own(t, X) = Own(s, X)
    BY <1>1 DEF CellsOf, Own
  <1>4. EntriesShaped(t) /\ EntriesPlaced(t, L)
    BY <1>1 DEF Books, EntriesShaped, EntriesPlaced
  <1>5. Counted(t)
    <2>1. /\ s.used \in [Doms -> Int] /\ s.shr = Bytes(s, CellsOf(s, {Shared}))
          /\ s.pri = Bytes(s, CellsOf(s, Doms))
      BY DEF Books, Counted
    <2>2. /\ CellsOf(t, {Shared}) = CellsOf(s, {Shared})
          /\ CellsOf(t, Doms) = CellsOf(s, Doms)
      BY <1>3
    <2>3. QED
      BY <1>1, <1>2, <2>1, <2>2, SMT DEF Counted
  <1>6. DomainsApart => Charged(t)
    BY <1>1, <1>2, <1>3 DEF Books, Charged
  <1>7. QED
    BY <1>1, <1>4, <1>5, <1>6 DEF Books, Used

LEMMA UnlistedIs ==
  ASSUME NEW s, Record(s), NEW V
  PROVE  /\ Record(Unlisted(s, V)) /\ TakenOut(s, Unlisted(s, V), V)
         /\ Unlisted(s, V).mini = s.mini /\ SameFiles(s, Unlisted(s, V))
  <1> DEFINE t == Unlisted(s, V)
             S == s.shr - Bytes(s, V \cap CellsOf(s, {Shared}))
             P == s.pri - Bytes(s, V \cap CellsOf(s, Doms))
  <1>1. t = [s EXCEPT !.mem = Without(s.mem, V), !.shr = S, !.pri = P, !.used = Less(s, V)]
    BY DEF Unlisted, Less
  <1> HIDE DEF t, S, P
  <1>2. /\ Record(t) /\ t.mem = Without(s.mem, V) /\ t.mini = s.mini
        /\ t.files = s.files /\ t.dir0 = s.dir0
        /\ t.shr = S /\ t.pri = P /\ t.used = Less(s, V)
    BY <1>1 DEF Record
  <1>3. QED
    BY <1>2 DEF t, S, P, TakenOut, SameFiles

LEMMA EntriesTrueTaken ==
  ASSUME NEW s, EntriesShaped(s), NEW tr, EntriesTrue(s, tr), NEW t, NEW V,
         TakenOut(s, t, V)
  PROVE  EntriesTrue(t, tr) /\ DOMAIN t.mem \subseteq DOMAIN s.mem
  <1>1. Remain(s, t, V)
    BY BytesTaken
  <1>2. QED
    BY <1>1 DEF Remain, EntriesTrue

\* An entry that is removed leaves everything else in place.
LEMMA SoundUnlisted ==
  ASSUME NEW s, NEW L, NEW tr, NEW on, NEW en, Sound(s, L, tr, on, en),
         NEW V, V \subseteq DOMAIN s.mem
  PROVE  Sound(Unlisted(s, V), L, tr, on, en)
  <1> DEFINE t == Unlisted(s, V)
  <1>1. Record(s) /\ Books(s, L) /\ EntriesShaped(s)
    BY DEF Sound, Books
  <1>2. Record(t) /\ TakenOut(s, t, V) /\ t.mini = s.mini /\ SameFiles(s, t)
    BY <1>1, UnlistedIs
  <1> HIDE DEF t
  <1>3. Books(t, L)
    <2>1. OneList => \A x \in DOMAIN s.mem \ V : x[1] \in L
      BY <1>1 DEF Books, EntriesPlaced
    <2>2. QED
      BY <1>1, <1>2, <2>1, BooksTaken
  <1>4. EntriesTrue(t, tr) /\ DOMAIN t.mem \subseteq DOMAIN s.mem
    <2>1. EntriesTrue(s, tr)
      BY DEF Sound
    <2>2. QED
      BY <1>1, <1>2, <2>1, EntriesTrueTaken
  <1>5. HeadersPlaced(t, L) /\ FilesShaped(t)
    BY <1>2 DEF Sound, HeadersPlaced, FilesShaped, SameFiles
  <1>6. HeadersTrue(t, tr, on)
    BY <1>2, <1>4 DEF Sound, HeadersTrue, NoHeaders
  <1>7. FilesTrue(t, on) /\ HeadersPaged(t, en)
    BY <1>2 DEF Sound, FilesTrue, HeadersPaged, SameFiles
  <1>8. QED
    BY <1>2, <1>3, <1>4, <1>5, <1>6, <1>7 DEF Sound, t

\* The mini-headers and the files after the entries P have been paged out.
Gone(e) == [dom |-> e.dom, put |-> e.val, live |-> TRUE]
MiniOut(s, P) ==
    [x \in Cells |-> IF x \in P THEN Append(s.mini[x], Gone(s.mem[x])) ELSE s.mini[x]]
WrittenOf(s, P) == {x \in P : s.mem[x].dom # Dom0 \/ s.dir0}
Writers(s, P, f) == {x \in WrittenOf(s, P) : File(s, x) = f}
FilesOut(s, P) ==
    [f \in DOMAIN s.files \cup {File(s, x) : x \in WrittenOf(s, P)} |->
        IF Writers(s, P, f) = {} THEN s.files[f]
        ELSE s.mem[CHOOSE x \in Writers(s, P, f) : TRUE].val]

LEMMA PagedOutIs ==
  ASSUME NEW s, Record(s), NEW P
  PROVE  /\ Record(PagedOut(s, P)) /\ SameBooks(s, PagedOut(s, P))
         /\ PagedOut(s, P).dir0 = s.dir0
         /\ PagedOut(s, P).mini = MiniOut(s, P) /\ PagedOut(s, P).files = FilesOut(s, P)
  <1> DEFINE t == PagedOut(s, P)
  <1>1. t = [s EXCEPT !.mini = MiniOut(s, P), !.files = FilesOut(s, P)]
    BY DEF PagedOut, MiniOut, FilesOut, Gone, WrittenOf, Writers
  <1> HIDE DEF t
  <1>2. /\ Record(t) /\ t.mem = s.mem /\ t.shr = s.shr /\ t.pri = s.pri
        /\ t.used = s.used /\ t.dir0 = s.dir0
        /\ t.mini = MiniOut(s, P) /\ t.files = FilesOut(s, P)
    BY <1>1 DEF Record
  <1>3. QED
    BY <1>2 DEF t, SameBooks

\* How t comes from s by an eviction of V, of which P are moved to files.
OutOf(s, t, V, P) ==
    /\ Record(t) /\ TakenOut(s, t, V) /\ t.dir0 = s.dir0
    /\ t.mini = MiniOut(s, P) /\ t.files = FilesOut(s, P)

LEMMA MovedIs ==
  ASSUME NEW s, Record(s), NEW V, NEW t \in Moved(s, V)
  PROVE  \E P \in SUBSET {x \in V : s.mem[x].val # NoVal} :
            (~On => P = {}) /\ OutOf(s, t, V, P)
  <1> DEFINE Q == {x \in V : s.mem[x].val # NoVal}
  <1>1. PICK P \in Sent(On, Q) : t = Unlisted(PagedOut(s, P), V)
    BY DEF Moved
  <1>2. P \in SUBSET Q /\ (~On => P = {})
    <2> HIDE DEF Q
    <2>1. QED
      BY <1>1 DEF Sent
  <1> DEFINE u == PagedOut(s, P)
  <1>3. /\ Record(u) /\ SameBooks(s, u) /\ u.dir0 = s.dir0
        /\ u.mini = MiniOut(s, P) /\ u.files = FilesOut(s, P)
    BY PagedOutIs
  <1> HIDE DEF u
  <1>4. Record(Unlisted(u, V)) /\ TakenOut(u, Unlisted(u, V), V)
        /\ Unlisted(u, V).mini = u.mini /\ SameFiles(u, Unlisted(u, V))
    BY <1>3, UnlistedIs
  <1>5. t = Unlisted(u, V)
    BY <1>1 DEF u
  <1>6. TakenOut(s, t, V)
    <2>1. u.mem = s.mem /\ u.shr = s.shr /\ u.pri = s.pri /\ u.used = s.used
      BY <1>3 DEF SameBooks
    <2>2. \A W : Bytes(u, W) = Bytes(s, W)
      BY <2>1 DEF Bytes, SizeIn
    <2>3. \A X : CellsOf(u, X) = CellsOf(s, X)
      BY <2>1 DEF CellsOf
    <2>4. Less(u, V) = Less(s, V)
      BY <2>1, <2>2 DEF Less
    <2>5. TakenOut(u, t, V)
      BY <1>4, <1>5
    <2>6. t.mem = Without(s.mem, V) /\ t.used = Less(s, V)
      BY <2>1, <2>4, <2>5 DEF TakenOut
    <2>7. /\ t.shr = s.shr - Bytes(s, V \cap CellsOf(s, {Shared}))
          /\ t.pri = s.pri - Bytes(s, V \cap CellsOf(s, Doms))
      BY <2>1, <2>2, <2>3, <2>5 DEF TakenOut
    <2>8. QED
      BY <2>6, <2>7 DEF TakenOut
  <1>7. OutOf(s, t, V, P)
    BY <1>3, <1>4, <1>5, <1>6 DEF OutOf, SameFiles
  <1>8. QED
    BY <1>2, <1>7

LEMMA CellParts ==
  ASSUME NEW x \in Cells
  PROVE  /\ x[1] \in Doms \cup {Shared} /\ x[2] \in Keys
         /\ \A y \in Cells : y[1] = x[1] /\ y[2] = x[2] => y = x
  BY SMT DEF Cells

LEMMA PairParts ==
  ASSUME NEW a, NEW b, NEW c, NEW d, <<a, b>> = <<c, d>>
  PROVE  a = c /\ b = d
  BY SMT

\* The entries that are sent have a value, and their mini-headers show it.
LEMMA GoneIs ==
  ASSUME NEW s, EntriesShaped(s), NEW x \in DOMAIN s.mem, s.mem[x].val # NoVal
  PROVE  /\ Gone(s.mem[x]) \in Header /\ Gone(s.mem[x]).dom = s.mem[x].dom
         /\ Gone(s.mem[x]).put = s.mem[x].val /\ Gone(s.mem[x]).live
  <1>1. s.mem[x].dom \in Doms /\ s.mem[x].val \in Vals
    BY EntryFields
  <1>2. QED
    BY <1>1, SMT DEF Gone, Header

\* The lists m of mini-headers after the entries P have been paged out.
MoreHeads(s, P, m) ==
    /\ m \in [Cells -> Seq(Header)] /\ \A x \in Cells \ P : m[x] = s.mini[x]
    /\ \A x \in P : /\ x \in Cells
                    /\ Heads(m[x]) = Heads(s.mini[x]) \cup {Gone(s.mem[x])}
                    /\ s.mini[x] = <<>> => Tail(m[x]) = <<>>

LEMMA MiniOutIs ==
  ASSUME NEW s, NEW L, EntriesShaped(s), HeadersPlaced(s, L),
         NEW P, P \subseteq {x \in DOMAIN s.mem : s.mem[x].val # NoVal}
  PROVE  MoreHeads(s, P, MiniOut(s, P))
  <1>1. \A x \in Cells : s.mini[x] \in Seq(Header)
    BY DEF HeadersPlaced
  <1>2. \A x \in P : x \in DOMAIN s.mem /\ s.mem[x].val # NoVal /\ x \in Cells
    BY DEF EntriesShaped
  <1>3. \A x \in P : Gone(s.mem[x]) \in Header
    BY <1>2, GoneIs
  <1>4. \A x \in P :
          /\ Append(s.mini[x], Gone(s.mem[x])) \in Seq(Header)
          /\ Heads(Append(s.mini[x], Gone(s.mem[x]))) = Heads(s.mini[x]) \cup {Gone(s.mem[x])}
          /\ s.mini[x] = <<>> => Tail(Append(s.mini[x], Gone(s.mem[x]))) = <<>>
    BY <1>1, <1>2, <1>3, HeadsAppend
  <1>5. \A x \in Cells \ P : MiniOut(s, P)[x] = s.mini[x]
    BY DEF MiniOut
  <1>6. \A x \in P : MiniOut(s, P)[x] = Append(s.mini[x], Gone(s.mem[x]))
    BY <1>2 DEF MiniOut
  <1>7. MiniOut(s, P) \in [Cells -> Seq(Header)]
    <2>1. \A x \in Cells : (IF x \in P THEN Append(s.mini[x], Gone(s.mem[x]))
                                       ELSE s.mini[x]) \in Seq(Header)
      BY <1>1, <1>4
    <2>2. QED
      BY <2>1 DEF MiniOut
  <1>8. ASSUME NEW x \in P
        PROVE  /\ x \in Cells
               /\ Heads(MiniOut(s, P)[x]) = Heads(s.mini[x]) \cup {Gone(s.mem[x])}
               /\ s.mini[x] = <<>> => Tail(MiniOut(s, P)[x]) = <<>>
    BY <1>2, <1>4, <1>6
  <1>9. QED
    BY <1>5, <1>7, <1>8 DEF MoreHeads

\* In shared mode the file of a key that is not paged out stays, and that of
\* a key that is paged out has its value.
Written(s, P, g) ==
    /\ \A x \in P : File(s, x) \in DOMAIN g /\ g[File(s, x)] = s.mem[x].val
    /\ \A f \in DOMAIN s.files : (\A x \in P : f[2] # x[2]) =>
         f \in DOMAIN g /\ g[f] = s.files[f]

LEMMA FilesOutIs ==
  ASSUME NEW s, EntriesShaped(s), EntriesPlaced(s, {Shared}), FilesShaped(s),
         OneList, GuestsOnly,
         NEW P, P \subseteq {x \in DOMAIN s.mem : s.mem[x].val # NoVal}
  PROVE  Written(s, P, FilesOut(s, P))
  <1>1. \A x \in P : /\ x \in DOMAIN s.mem /\ x \in Cells /\ x[1] = Shared
                     /\ s.mem[x].dom \in Doms
    <2>1. \A x \in P : x \in DOMAIN s.mem /\ x[1] \in {Shared}
      BY DEF EntriesPlaced
    <2>2. QED
      BY <2>1, EntryFields
  <1>2. WrittenOf(s, P) = P
    BY <1>1 DEF WrittenOf, GuestsOnly
  <1>3. DOMAIN FilesOut(s, P) = DOMAIN s.files \cup {File(s, x) : x \in P}
    BY <1>2 DEF FilesOut
  <1>4. ASSUME NEW x \in P
        PROVE  /\ File(s, x) \in DOMAIN FilesOut(s, P)
               /\ FilesOut(s, P)[File(s, x)] = s.mem[x].val
    <2>1. File(s, x) \in DOMAIN FilesOut(s, P)
      BY <1>3
    <2>2. \A y \in P : File(s, y) = File(s, x) => y = x
      <3>1. SUFFICES ASSUME NEW y \in P, File(s, y) = File(s, x) PROVE y = x
        OBVIOUS
      <3>2. y[2] = x[2]
        BY <3>1, PairParts DEF File
      <3>3. QED
        BY <1>1, <3>2, CellParts
    <2>3. Writers(s, P, File(s, x)) = {x}
      BY <1>2, <2>2 DEF Writers
    <2>4. (CHOOSE y \in {x} : TRUE) = x
      OBVIOUS
    <2>5. QED
      BY <2>1, <2>3, <2>4 DEF FilesOut
  <1>5. ASSUME NEW f \in DOMAIN s.files, \A x \in P : f[2] # x[2]
        PROVE  f \in DOMAIN FilesOut(s, P) /\ FilesOut(s, P)[f] = s.files[f]
    <2>1. \A x \in P : File(s, x) # f
      <3>1. \A x \in P : File(s, x)[2] = x[2]
        BY SMT DEF File
      <3>2. QED
        BY <1>5, <3>1
    <2>2. Writers(s, P, f) = {}
      BY <1>2, <2>1 DEF Writers
    <2>3. QED
      BY <1>3, <2>2 DEF FilesOut
  <1>6. QED
    BY <1>4, <1>5 DEF Written

LEMMA FilesOutShaped ==
  ASSUME NEW s, EntriesShaped(s), FilesShaped(s),
         NEW P, P \subseteq {x \in DOMAIN s.mem : s.mem[x].val # NoVal}
  PROVE  /\ DOMAIN FilesOut(s, P) \subseteq Doms \X Keys
         /\ \A f \in DOMAIN FilesOut(s, P) : FilesOut(s, P)[f] \in Vals
  <1>1. \A x \in WrittenOf(s, P) : /\ s.mem[x].dom \in Doms /\ x[2] \in Keys
                                   /\ s.mem[x].val \in Vals
    <2>1. \A x \in WrittenOf(s, P) : x \in DOMAIN s.mem /\ s.mem[x].val # NoVal
      BY DEF WrittenOf
    <2>2. QED
      BY <2>1, EntryFields
  <1>2. \A x \in WrittenOf(s, P) : File(s, x) \in Doms \X Keys
    BY <1>1, SMT DEF File
  <1>3. DOMAIN FilesOut(s, P) = DOMAIN s.files \cup {File(s, x) : x \in WrittenOf(s, P)}
    BY DEF FilesOut
  <1>4. ASSUME NEW f \in DOMAIN FilesOut(s, P)
        PROVE  f \in Doms \X Keys /\ FilesOut(s, P)[f] \in Vals
    <2>1. f \in Doms \X Keys
      BY <1>2, <1>3 DEF FilesShaped
    <2>2. CASE Writers(s, P, f) = {}
      <3>1. FilesOut(s, P)[f] = s.files[f]
        BY <1>3, <2>2 DEF FilesOut
      <3>2. f \in DOMAIN s.files
        BY <1>3, <2>2 DEF Writers
      <3>3. QED
        BY <2>1, <3>1, <3>2 DEF FilesShaped
    <2>3. CASE Writers(s, P, f) # {}
      <3>1. FilesOut(s, P)[f] = s.mem[CHOOSE x \in Writers(s, P, f) : TRUE].val
        BY <1>3, <2>3 DEF FilesOut
      <3>2. (CHOOSE x \in Writers(s, P, f) : TRUE) \in WrittenOf(s, P)
        <4>1. (CHOOSE x \in Writers(s, P, f) : TRUE) \in Writers(s, P, f)
          BY <2>3
        <4>2. QED
          BY <4>1 DEF Writers
      <3>3. QED
        BY <1>1, <2>1, <3>1, <3>2
    <2>4. QED
      BY <2>2, <2>3
  <1>5. QED
    BY <1>4

\* What a put or a page-in may rely on when others make room for it: no entry
\* is new, and keys that are not in memory keep their mini-headers.
Shrunk(s, t) ==
    /\ DOMAIN t.mem \subseteq DOMAIN s.mem
    /\ Used(s) \in Nat /\ Used(t) \in Nat /\ Used(t) <= Used(s)
    /\ \A x \in Cells \ DOMAIN s.mem : t.mini[x] = s.mini[x]

\* An eviction keeps the cache sound.
LEMMA SoundOut ==
  ASSUME NEW s, NEW L, NEW tr, NEW on, NEW en, Sound(s, L, tr, on, en),
         StaysShared => L = {Shared}, NoFiles => ~on, Shared \notin Doms,
         NEW V, V \subseteq DOMAIN s.mem,
         NEW P, P \subseteq {x \in V : s.mem[x].val # NoVal}, ~on => P = {},
         NEW t, OutOf(s, t, V, P)
  PROVE  /\ Sound(t, L, tr, on, en) /\ Shrunk(s, t)
         /\ Used(t) = Used(s) - Bytes(s, V) /\ Bytes(s, V) \in Nat /\ Used(s) \in Nat
  <1>1. /\ Record(s) /\ Books(s, L) /\ EntriesShaped(s) /\ EntriesPlaced(s, L)
        /\ HeadersPlaced(s, L) /\ FilesShaped(s) /\ EntriesTrue(s, tr)
        /\ HeadersTrue(s, tr, on)
    BY DEF Sound, Books
  <1>2. Record(t) /\ TakenOut(s, t, V) /\ t.mini = MiniOut(s, P) /\ t.files = FilesOut(s, P)
    BY DEF OutOf
  <1>3. /\ P \subseteq {x \in DOMAIN s.mem : s.mem[x].val # NoVal} /\ P \subseteq V
        /\ P \subseteq DOMAIN s.mem
    OBVIOUS
  <1>4. Books(t, L)
    <2>1. OneList => \A x \in DOMAIN s.mem \ V : x[1] \in L
      BY <1>1 DEF EntriesPlaced
    <2>2. QED
      BY <1>1, <1>2, <2>1, BooksTaken
  <1>5. EntriesTrue(t, tr) /\ DOMAIN t.mem = DOMAIN s.mem \ V
    <2>1. Remain(s, t, V)
      BY <1>1, <1>2, BytesTaken
    <2>2. QED
      BY <1>1, <1>2, <2>1, EntriesTrueTaken DEF Remain
  <1>6. /\ t.mini \in [Cells -> Seq(Header)]
        /\ \A x \in Cells \ P : t.mini[x] = s.mini[x]
        /\ \A x \in P : /\ x \in Cells
                        /\ Heads(t.mini[x]) = Heads(s.mini[x]) \cup {Gone(s.mem[x])}
                        /\ s.mini[x] = <<>> => Tail(t.mini[x]) = <<>>
    <2>1. MoreHeads(s, P, MiniOut(s, P))
      BY <1>1, <1>3, MiniOutIs
    <2>2. MoreHeads(s, P, t.mini)
      BY <1>2, <2>1
    <2>3. QED
      BY <2>2 DEF MoreHeads
  <1>7. \A x \in P : /\ Gone(s.mem[x]).dom = s.mem[x].dom
                     /\ Gone(s.mem[x]).put = s.mem[x].val /\ Gone(s.mem[x]).live
    BY <1>1, <1>3, GoneIs
  <1>8. ASSUME NEW x \in Cells, NEW h \in Heads(t.mini[x])
        PROVE  h \in Heads(s.mini[x]) \/ (x \in P /\ h = Gone(s.mem[x]))
    BY <1>6
  <1>9. HeadersPlaced(t, L)
    <2>1. ASSUME NEW x \in Cells, NEW h \in Heads(t.mini[x])
          PROVE  (x[1] \in Doms => h.dom = x[1]) /\ (OneList => x[1] \in L)
      <3>1. CASE h \in Heads(s.mini[x])
        BY <1>1, <3>1 DEF HeadersPlaced
      <3>2. CASE x \in P /\ h = Gone(s.mem[x])
        BY <1>1, <1>3, <1>7, <3>2 DEF EntriesPlaced
      <3>3. QED
        BY <1>8, <3>1, <3>2
    <2>2. QED
      BY <1>6, <2>1 DEF HeadersPlaced
  <1>10. FilesShaped(t)
    <2>1. /\ DOMAIN t.files \subseteq Doms \X Keys
          /\ \A f \in DOMAIN t.files : t.files[f] \in Vals
      BY <1>1, <1>2, <1>3, FilesOutShaped
    <2>2. t.dir0 \in BOOLEAN
      BY <1>1 DEF OutOf, FilesShaped
    <2>3. QED
      BY <2>1, <2>2 DEF FilesShaped
  <1>11. ASSUME StaysShared, on, NEW x \in P PROVE s.mini[x] = <<>>
    BY <1>1, <1>3, <1>6, <1>11 DEF HeadersTrue
  <1>12. HeadersTrue(t, tr, on)
    <2>1. NoFiles => NoHeaders(t)
      BY <1>1, <1>6 DEF HeadersTrue, NoHeaders
    <2>2. ASSUME StaysShared, on, NEW x \in Cells, t.mini[x] # <<>>
          PROVE  /\ x \notin DOMAIN t.mem /\ Tail(t.mini[x]) = <<>>
                 /\ \A h \in Heads(t.mini[x]) : h.put = tr[x]
      <3>1. CASE x \in P
        <4>1. s.mini[x] = <<>>
          BY <1>11, <2>2, <3>1
        <4>2. Heads(s.mini[x]) = {}
          BY <4>1, NoHeads
        <4>3. x \notin DOMAIN t.mem /\ Tail(t.mini[x]) = <<>>
          BY <1>3, <1>5, <1>6, <3>1, <4>1
        <4>4. s.mem[x].val = tr[x]
          BY <1>1, <1>3, <2>2, <3>1 DEF EntriesTrue, Truthful
        <4>5. QED
          BY <1>7, <1>8, <3>1, <4>2, <4>3, <4>4
      <3>2. CASE x \notin P
        <4>1. t.mini[x] = s.mini[x]
          BY <1>6, <3>2
        <4>2. QED
          BY <1>1, <1>5, <2>2, <4>1 DEF HeadersTrue
      <3>3. QED
        BY <3>1, <3>2
    <2>3. QED
      BY <2>1, <2>2 DEF HeadersTrue
  <1>13. FilesTrue(t, on)
    <2>1. SUFFICES ASSUME FilesKept, on, NEW x \in Cells, NEW h \in Heads(t.mini[x])
                   PROVE  /\ <<h.dom, x[2]>> \in DOMAIN t.files
                          /\ t.files[<<h.dom, x[2]>>] = h.put
      BY DEF FilesTrue
    <2>2. StaysShared /\ OneList /\ GuestsOnly /\ L = {Shared}
      BY <2>1 DEF FilesKept, OneList
    <2>3. Written(s, P, t.files)
      <3>1. EntriesPlaced(s, {Shared})
        BY <1>1, <2>2
      <3>2. Written(s, P, FilesOut(s, P))
        BY <1>1, <1>3, <2>2, <3>1, FilesOutIs, SMT
      <3>3. QED
        BY <1>2, <3>2
    <2>4. CASE x \in P
      <3>1. Heads(s.mini[x]) = {}
        BY <1>11, <2>1, <2>2, <2>4, NoHeads
      <3>2. h = Gone(s.mem[x])
        BY <1>8, <3>1
      <3>3. <<h.dom, x[2]>> = File(s, x) /\ h.put = s.mem[x].val
        BY <1>7, <2>4, <3>2 DEF File
      <3>4. QED
        BY <2>3, <2>4, <3>3 DEF Written
    <2>5. CASE x \notin P
      <3>1. h \in Heads(s.mini[x])
        BY <1>8, <2>5
      <3>2. /\ <<h.dom, x[2]>> \in DOMAIN s.files
            /\ s.files[<<h.dom, x[2]>>] = h.put
        BY <2>1, <3>1 DEF Sound, FilesTrue
      <3>3. x[1] = Shared
        BY <1>1, <2>2, <3>1 DEF HeadersPlaced
      <3>4. \A y \in P : y \in Cells /\ y[1] = Shared
        BY <1>1, <1>3, <1>6, <2>2 DEF EntriesPlaced
      <3>5. \A y \in P : x[2] # y[2]
        BY <2>5, <3>3, <3>4, CellParts
      <3>6. <<h.dom, x[2]>>[2] = x[2]
        BY SMT
      <3>7. QED
        BY <2>3, <3>2, <3>5, <3>6 DEF Written
    <2>6. QED
      BY <2>4, <2>5
  <1>14. HeadersPaged(t, en)
    BY <1>7, <1>8 DEF Sound, HeadersPaged
  <1>15. /\ Used(t) = Used(s) - Bytes(s, V) /\ Bytes(s, V) \in Nat
         /\ Used(s) \in Nat /\ Used(t) \in Nat
    BY <1>1, <1>2, <1>4, UsedTaken
  <1>16. Shrunk(s, t)
    <2>1. Used(t) <= Used(s)
      BY <1>15, SMT
    <2>2. \A x \in Cells \ DOMAIN s.mem : t.mini[x] = s.mini[x]
      BY <1>3, <1>6
    <2>3. DOMAIN t.mem \subseteq DOMAIN s.mem
      BY <1>5
    <2>4. QED
      BY <1>15, <2>1, <2>2, <2>3 DEF Shrunk
  <1>17. QED
    BY <1>2, <1>4, <1>5, <1>9, <1>10, <1>12, <1>13, <1>14, <1>15, <1>16 DEF Sound

---------------------------------------------------------------------------
(* Entries that come, mini-headers that go.                                 *)

LEMMA ListedIs ==
  ASSUME NEW s, Record(s), NEW x, NEW d, NEW v, NEW bytes
  PROVE  /\ Record(Listed(s, x, d, v, bytes))
         /\ PutIn(s, Listed(s, x, d, v, bytes), x, d, v, bytes)
         /\ Listed(s, x, d, v, bytes).mini = s.mini
         /\ SameFiles(s, Listed(s, x, d, v, bytes))
  <1> DEFINE t == Listed(s, x, d, v, bytes)
             m == With(s.mem, x, New(d, v, bytes))
             S == IF x[1] = Shared THEN s.shr + bytes ELSE s.shr
             P == IF x[1] = Shared THEN s.pri ELSE s.pri + bytes
             U == [s.used EXCEPT ![d] = @ + bytes]
  <1>1. t = [s EXCEPT !.mem = m, !.shr = S, !.pri = P, !.used = U]
    BY SMT DEF Listed, New, Record
  <1> HIDE DEF t, m, S, P, U
  <1>2. /\ Record(t) /\ t.mem = m /\ t.mini = s.mini /\ t.files = s.files
        /\ t.dir0 = s.dir0 /\ t.shr = S /\ t.pri = P /\ t.used = U
    BY <1>1 DEF Record
  <1>3. QED
    BY <1>2 DEF t, m, S, P, U, PutIn, SameFiles

\* A new entry keeps the cache sound, if it is the one that counts and no
\* mini-header of the key is left.
LEMMA SoundListed ==
  ASSUME NEW s, NEW L, NEW tr, NEW on, NEW en, Sound(s, L, tr, on, en),
         NEW x \in Cells, x \notin DOMAIN s.mem, NEW d \in Doms,
         NEW v \in Vals \cup {NoVal}, NEW bytes \in Nat, Shared \notin Doms,
         x[1] \in Doms => d = x[1], OneList => x[1] \in L,
         Truthful => v \in {tr[x], NoVal}, StaysShared /\ on => s.mini[x] = <<>>
  PROVE  /\ Sound(Listed(s, x, d, v, bytes), L, tr, on, en)
         /\ Used(Listed(s, x, d, v, bytes)) = Used(s) + bytes
         /\ x \in DOMAIN Listed(s, x, d, v, bytes).mem
         /\ Listed(s, x, d, v, bytes).mem[x].val = v
  <1> DEFINE t == Listed(s, x, d, v, bytes)
  <1>1. Record(s) /\ Books(s, L) /\ EntriesShaped(s)
    BY DEF Sound, Books
  <1>2. Record(t) /\ PutIn(s, t, x, d, v, bytes) /\ t.mini = s.mini /\ SameFiles(s, t)
    BY <1>1, ListedIs, SMT
  <1> HIDE DEF t
  <1>3. Books(t, L)
    BY <1>1, <1>2, BooksAdded
  <1>4. Used(t) = Used(s) + bytes
    BY <1>1, <1>2, UsedAdded
  <1>5. Grown(s, t, x, New(d, v, bytes))
    BY <1>1, <1>2, BytesAdded
  <1>6. /\ DOMAIN t.mem = DOMAIN s.mem \cup {x} /\ t.mem[x].val = v
        /\ \A y \in DOMAIN s.mem : t.mem[y] = s.mem[y]
    <2>1. New(d, v, bytes).val = v
      BY NewIs, SMT
    <2>2. QED
      BY <1>5, <2>1 DEF Grown
  <1>7. EntriesTrue(t, tr)
    BY <1>6 DEF Sound, EntriesTrue
  <1>8. HeadersPlaced(t, L) /\ FilesShaped(t)
    BY <1>2 DEF Sound, HeadersPlaced, FilesShaped, SameFiles
  <1>9. HeadersTrue(t, tr, on)
    <2>1. NoFiles => NoHeaders(t)
      BY <1>2 DEF Sound, HeadersTrue, NoHeaders
    <2>2. ASSUME StaysShared, on, NEW y \in Cells, t.mini[y] # <<>>
          PROVE  /\ y \notin DOMAIN t.mem /\ Tail(t.mini[y]) = <<>>
                 /\ \A h \in Heads(t.mini[y]) : h.put = tr[y]
      <3>1. y # x /\ s.mini[y] # <<>>
        BY <1>2, <2>2
      <3>2. QED
        BY <1>2, <1>6, <2>2, <3>1 DEF Sound, HeadersTrue
    <2>3. QED
      BY <2>1, <2>2 DEF HeadersTrue
  <1>10. FilesTrue(t, on) /\ HeadersPaged(t, en)
    <2>1. t.files = s.files /\ t.mini = s.mini
      BY <1>2 DEF SameFiles
    <2>2. FilesTrue(t, on)
      BY <2>1 DEF Sound, FilesTrue
    <2>3. QED
      BY <2>1, <2>2 DEF Sound, HeadersPaged
  <1>11. Sound(t, L, tr, on, en)
    BY <1>2, <1>3, <1>7, <1>8, <1>9, <1>10 DEF Sound
  <1>12. QED
    BY <1>4, <1>6, <1>11 DEF t

\* The first mini-header of x goes (if `go'), with the files F.
Dropped(s, x, F, go) ==
    [s EXCEPT !.files = Without(@, F), !.mini[x] = IF go THEN Tail(@) ELSE @]

LEMMA DroppedIs ==
  ASSUME NEW s, Record(s), NEW x \in Cells, NEW F, NEW go,
         s.mini \in [Cells -> Seq(Header)]
  PROVE  /\ Record(Dropped(s, x, F, go)) /\ SameBooks(s, Dropped(s, x, F, go))
         /\ Dropped(s, x, F, go).dir0 = s.dir0
         /\ Dropped(s, x, F, go).files = Without(s.files, F)
         /\ go => Dropped(s, x, F, go).mini = [s.mini EXCEPT ![x] = Tail(@)]
         /\ ~go => Dropped(s, x, F, go).mini = s.mini
  <1> DEFINE t == Dropped(s, x, F, go)
             m == [s.mini EXCEPT ![x] = IF go THEN Tail(@) ELSE @]
             f == Without(s.files, F)
  <1>1. t = [s EXCEPT !.files = f, !.mini = m]
    BY SMT DEF Dropped, Record
  <1>2. go => m = [s.mini EXCEPT ![x] = Tail(@)]
    OBVIOUS
  <1>3. ~go => m = s.mini
    BY SMT
  <1> HIDE DEF t, m, f
  <1>4. /\ Record(t) /\ t.mem = s.mem /\ t.mini = m /\ t.files = f
        /\ t.dir0 = s.dir0 /\ t.shr = s.shr /\ t.pri = s.pri /\ t.used = s.used
    BY <1>1 DEF Record
  <1>5. QED
    BY <1>2, <1>3, <1>4 DEF t, f, SameBooks

\* Files that disappear leave the others as they are.
LessFiles(s, t, F) == t.files = Without(s.files, F) /\ t.dir0 \in BOOLEAN
OthersStay(s, t, F) ==
    \A f \in DOMAIN s.files : f \notin F => f \in DOMAIN t.files /\ t.files[f] = s.files[f]

LEMMA FilesLess ==
  ASSUME NEW s, FilesShaped(s), NEW t, NEW F, LessFiles(s, t, F)
  PROVE  FilesShaped(t) /\ OthersStay(s, t, F)
  <1>1. /\ DOMAIN Without(s.files, F) = DOMAIN s.files \ F
        /\ \A x \in DOMAIN s.files \ F : Without(s.files, F)[x] = s.files[x]
    BY WithoutIs
  <1>2. t.files = Without(s.files, F)
    BY DEF LessFiles
  <1>3. DOMAIN t.files = DOMAIN s.files \ F
    BY <1>1, <1>2
  <1>4. \A x \in DOMAIN s.files \ F : t.files[x] = s.files[x]
    BY <1>1, <1>2
  <1>5. QED
    BY <1>3, <1>4 DEF FilesShaped, LessFiles, OthersStay

OwnFile(s, x, F) == F \subseteq {<<Head(s.mini[x]).dom, x[2]>>}
Implies(p, q) == p => q
SharedOnly(L) == StaysShared => L = {Shared}

\* Dropping the first mini-header of x keeps the cache sound, as only its own
\* file may go with it, and x has no other mini-header in shared mode.
LEMMA SoundDropped ==
  ASSUME NEW s, NEW L, NEW tr, NEW on, NEW en, Sound(s, L, tr, on, en),
         NEW x \in Cells, s.mini[x] # <<>>, NEW go, Implies(on, go),
         NEW F, OwnFile(s, x, F), SharedOnly(L)
  PROVE  /\ Sound(Dropped(s, x, F, go), L, tr, on, en)
         /\ SameBooks(s, Dropped(s, x, F, go))
         /\ StaysShared /\ on => Dropped(s, x, F, go).mini[x] = <<>>
  <1> DEFINE t == Dropped(s, x, F, go)
  <1>1. /\ Record(s) /\ Books(s, L) /\ HeadersPlaced(s, L) /\ FilesShaped(s)
        /\ EntriesTrue(s, tr) /\ HeadersTrue(s, tr, on) /\ s.mini \in [Cells -> Seq(Header)]
    BY DEF Sound, HeadersPlaced
  <1>2. /\ Record(t) /\ SameBooks(s, t) /\ t.dir0 = s.dir0
        /\ t.files = Without(s.files, F)
        /\ go => t.mini = [s.mini EXCEPT ![x] = Tail(@)]
        /\ ~go => t.mini = s.mini
    BY <1>1, DroppedIs, SMT
  <1> HIDE DEF t
  <1>3. /\ t.mini \in [Cells -> Seq(Header)]
        /\ \A y \in Cells : y # x => t.mini[y] = s.mini[y]
        /\ t.mini[x] = s.mini[x] \/ t.mini[x] = Tail(s.mini[x])
        /\ go => t.mini[x] = Tail(s.mini[x])
    <2>1. /\ Tail(s.mini[x]) \in Seq(Header)
      BY <1>1, HeadsTail
    <2>2. CASE go
      BY <1>1, <1>2, <2>1, <2>2
    <2>3. CASE ~go
      BY <1>1, <1>2, <2>3
    <2>4. QED
      BY <2>2, <2>3
  <1>4. \A y \in Cells : Heads(t.mini[y]) \subseteq Heads(s.mini[y])
    <2>1. Heads(Tail(s.mini[x])) \subseteq Heads(s.mini[x])
      BY <1>1, HeadsTail
    <2>2. QED
      BY <1>3, <2>1
  <1>5. Books(t, L) /\ t.mem = s.mem
    BY <1>1, <1>2, BooksSame DEF SameBooks
  <1>6. HeadersPlaced(t, L)
    BY <1>1, <1>3, <1>4 DEF HeadersPlaced
  <1>7. EntriesTrue(t, tr)
    BY <1>1, <1>5 DEF EntriesTrue
  <1>8. StaysShared /\ on => t.mini[x] = <<>>
    BY <1>1, <1>3 DEF HeadersTrue, Implies
  <1>9. HeadersTrue(t, tr, on)
    <2>1. NoFiles => NoHeaders(t)
      BY <1>1 DEF HeadersTrue, NoHeaders
    <2>2. ASSUME StaysShared, on, NEW y \in Cells, t.mini[y] # <<>>
          PROVE  /\ y \notin DOMAIN t.mem /\ Tail(t.mini[y]) = <<>>
                 /\ \A h \in Heads(t.mini[y]) : h.put = tr[y]
      <3>1. t.mini[y] = s.mini[y]
        BY <1>3, <1>8, <2>2
      <3>2. QED
        BY <1>1, <1>5, <2>2, <3>1 DEF HeadersTrue
    <2>3. QED
      BY <2>1, <2>2 DEF HeadersTrue
  <1>10. FilesShaped(t) /\ OthersStay(s, t, F)
    <2>1. LessFiles(s, t, F)
      BY <1>1, <1>2 DEF FilesShaped, LessFiles
    <2>2. QED
      BY <1>1, <2>1, FilesLess
  <1>11. FilesTrue(t, on)
    <2>1. SUFFICES ASSUME FilesKept, on, NEW y \in Cells, NEW h \in Heads(t.mini[y])
                   PROVE  /\ <<h.dom, y[2]>> \in DOMAIN t.files
                          /\ t.files[<<h.dom, y[2]>>] = h.put
      BY DEF FilesTrue
    <2>2. StaysShared /\ OneList /\ L = {Shared}
      BY <2>1 DEF FilesKept, OneList, StaysShared, SharedOnly
    <2>3. y # x
      BY <1>8, <2>1, <2>2, NoHeads
    <2>4. h \in Heads(s.mini[y])
      BY <1>4
    <2>5. y[1] = Shared /\ x[1] = Shared
      <3>1. Head(s.mini[x]) \in Heads(s.mini[x])
        BY <1>1, HeadsTail
      <3>2. QED
        BY <1>1, <2>2, <2>4, <3>1 DEF HeadersPlaced
    <2>6. y[2] # x[2]
      BY <2>3, <2>5, CellParts
    <2>7. <<h.dom, y[2]>> \notin F
      BY <2>6, SMT DEF OwnFile
    <2>8. QED
      BY <1>10, <2>1, <2>4, <2>7 DEF Sound, FilesTrue, OthersStay
  <1>12. HeadersPaged(t, en)
    BY <1>4 DEF Sound, HeadersPaged
  <1>13. Sound(t, L, tr, on, en)
    BY <1>2, <1>5, <1>6, <1>7, <1>9, <1>10, <1>11, <1>12 DEF Sound
  <1>14. QED
    BY <1>2, <1>8, <1>13 DEF t

\* Another put counts for a key that has no copy in the cache.
LEMMA SoundRetold ==
  ASSUME NEW s, NEW L, NEW tr, NEW on, NEW en, Sound(s, L, tr, on, en),
         NEW x \in Cells, x \notin DOMAIN s.mem, StaysShared /\ on => s.mini[x] = <<>>,
         NEW u, \A y \in Cells : y # x => u[y] = tr[y]
  PROVE  Sound(s, L, u, on, en)
  <1>1. DOMAIN s.mem \subseteq Cells
    BY DEF Sound, Books, EntriesShaped
  <1>2. EntriesTrue(s, u)
    BY <1>1 DEF Sound, EntriesTrue
  <1>3. HeadersTrue(s, u, on)
    BY DEF Sound, HeadersTrue
  <1>4. QED
    BY <1>2, <1>3 DEF Sound

---------------------------------------------------------------------------
(* Flushing.                                                                *)

MiniEmptied(s, X) == [x \in Cells |-> IF x[1] \in X THEN <<>> ELSE s.mini[x]]

\* How t comes from s by emptying the lists X and deleting the files F.
Flushed(s, t, X, F) ==
    /\ Record(t) /\ TakenOut(s, t, CellsOf(s, X)) /\ t.mini = MiniEmptied(s, X)
    /\ LessFiles(s, t, F)

LEMMA EmptiedIs ==
  ASSUME NEW s, Record(s), FilesShaped(s), NEW X, NEW D
  PROVE  /\ Flushed(s, Emptied(s, X, D), X, D \X Keys)
         /\ \A b \in BOOLEAN :
              Flushed(s, [Emptied(s, X, D) EXCEPT !.dir0 = b], X, D \X Keys)
  <1> DEFINE u == Unlisted(s, CellsOf(s, X))
             t == Emptied(s, X, D)
             f == Without(s.files, D \X Keys)
  <1>1. /\ Record(u) /\ TakenOut(s, u, CellsOf(s, X)) /\ u.mini = s.mini
        /\ SameFiles(s, u)
    BY UnlistedIs
  <1>2. t = [u EXCEPT !.mini = [x \in Cells |-> IF x[1] \in X THEN <<>> ELSE u.mini[x]],
                      !.files = Without(u.files, D \X Keys)]
    BY DEF Emptied
  <1> HIDE DEF u, t
  <1>3. t = [u EXCEPT !.mini = MiniEmptied(s, X), !.files = f]
    BY <1>1, <1>2 DEF MiniEmptied, SameFiles
  <1> HIDE DEF f
  <1>4. /\ Record(t) /\ t.mem = u.mem /\ t.mini = MiniEmptied(s, X) /\ t.files = f
        /\ t.dir0 = u.dir0 /\ t.shr = u.shr /\ t.pri = u.pri /\ t.used = u.used
    BY <1>1, <1>3 DEF Record
  <1>5. Flushed(s, t, X, D \X Keys)
    <2>1. TakenOut(s, t, CellsOf(s, X))
      BY <1>1, <1>4 DEF TakenOut
    <2>2. LessFiles(s, t, D \X Keys)
      BY <1>1, <1>4 DEF LessFiles, SameFiles, FilesShaped, f
    <2>3. QED
      BY <1>4, <2>1, <2>2 DEF Flushed
  <1>6. ASSUME NEW b \in BOOLEAN
        PROVE  Flushed(s, [t EXCEPT !.dir0 = b], X, D \X Keys)
    <2> DEFINE w == [t EXCEPT !.dir0 = b]
    <2>1. /\ Record(w) /\ w.mem = t.mem /\ w.mini = t.mini /\ w.files = t.files
          /\ w.dir0 = b /\ w.shr = t.shr /\ w.pri = t.pri /\ w.used = t.used
      BY <1>4, SMT DEF Record
    <2> HIDE DEF w
    <2>2. TakenOut(s, w, CellsOf(s, X))
      BY <1>1, <1>4, <2>1 DEF TakenOut
    <2>3. LessFiles(s, w, D \X Keys)
      BY <1>4, <2>1 DEF LessFiles, f
    <2>4. QED
      BY <1>4, <2>1, <2>2, <2>3 DEF Flushed, w
  <1>7. QED
    BY <1>5, <1>6 DEF t

\* A flush of the lists X keeps the cache sound, whichever puts u to those
\* lists count from now on.
LEMMA SoundFlushed ==
  ASSUME NEW s, NEW L, NEW tr, NEW on, NEW en, Sound(s, L, tr, on, en), Shared \notin Doms,
         NEW t, NEW X, NEW F, Flushed(s, t, X, F),
         NEW M, OneList => L \ X \subseteq M, FilesKept => L \subseteq X,
         NEW u, \A x \in Cells : x[1] \notin X => u[x] = tr[x]
  PROVE  /\ Sound(t, M, u, on, en) /\ Used(t) \in Nat /\ Used(t) <= Used(s)
         /\ (OneList /\ L \subseteq X) \/ NoHeaders(s) => NoHeaders(t)
         /\ OneList /\ L \subseteq X => DOMAIN t.mem = {}
  <1>1. /\ Record(s) /\ Books(s, L) /\ EntriesShaped(s) /\ EntriesPlaced(s, L)
        /\ HeadersPlaced(s, L) /\ FilesShaped(s) /\ EntriesTrue(s, tr)
        /\ HeadersTrue(s, tr, on)
    BY DEF Sound, Books
  <1>2. /\ Record(t) /\ TakenOut(s, t, CellsOf(s, X)) /\ t.mini = MiniEmptied(s, X)
        /\ LessFiles(s, t, F)
    BY DEF Flushed
  <1>3. CellsOf(s, X) \subseteq DOMAIN s.mem
    BY DEF CellsOf
  <1>4. Remain(s, t, CellsOf(s, X))
    BY <1>1, <1>2, BytesTaken
  <1>5. /\ DOMAIN t.mem \subseteq DOMAIN s.mem
        /\ \A x \in DOMAIN t.mem : x \in Cells /\ x[1] \notin X /\ t.mem[x] = s.mem[x]
    BY <1>1, <1>4 DEF Remain, CellsOf, EntriesShaped
  <1>6. Books(t, M)
    <2>1. OneList => \A x \in DOMAIN s.mem \ CellsOf(s, X) : x[1] \in M
      BY <1>1 DEF EntriesPlaced, CellsOf
    <2>2. QED
      BY <1>1, <1>2, <1>3, <2>1, BooksTaken
  <1>7. Used(t) \in Nat /\ Used(t) <= Used(s)
    <2>1. /\ Used(t) = Used(s) - Bytes(s, CellsOf(s, X)) /\ Bytes(s, CellsOf(s, X)) \in Nat
          /\ Used(s) \in Nat /\ Used(t) \in Nat
      BY <1>1, <1>2, <1>3, <1>6, UsedTaken
    <2>2. QED
      BY <2>1, SMT
  <1>8. \A x \in Cells : t.mini[x] = IF x[1] \in X THEN <<>> ELSE s.mini[x]
    BY <1>2 DEF MiniEmptied
  <1>9. \A x \in Cells : \A h \in Heads(t.mini[x]) : x[1] \notin X /\ h \in Heads(s.mini[x])
    BY <1>8, NoHeads
  <1>10. HeadersPlaced(t, M)
    <2>1. t.mini \in [Cells -> Seq(Header)]
      <3>1. \A x \in Cells : (IF x[1] \in X THEN <<>> ELSE s.mini[x]) \in Seq(Header)
        BY <1>1, NoHeads DEF HeadersPlaced
      <3>2. QED
        BY <1>2, <3>1 DEF MiniEmptied
    <2>2. QED
      BY <1>1, <1>9, <2>1 DEF HeadersPlaced
  <1>11. /\ (OneList /\ L \subseteq X) \/ NoHeaders(s) => NoHeaders(t)
         /\ OneList /\ L \subseteq X => DOMAIN t.mem = {}
    <2>1. NoHeaders(s) => NoHeaders(t)
      BY <1>8 DEF NoHeaders
    <2>2. OneList /\ L \subseteq X => DOMAIN t.mem = {}
      BY <1>1, <1>5 DEF EntriesPlaced
    <2>3. ASSUME OneList, L \subseteq X, NEW x \in Cells PROVE t.mini[x] = <<>>
      <3>1. CASE x[1] \in X
        BY <1>8, <3>1
      <3>2. CASE x[1] \notin X
        <4>1. Heads(s.mini[x]) = {}
          BY <1>1, <2>3, <3>2 DEF HeadersPlaced
        <4>2. s.mini[x] = <<>>
          <5>1. s.mini[x] \in Seq(Header)
            BY <1>1 DEF HeadersPlaced
          <5>2. QED
            BY <4>1, <5>1, HeadsTail
        <4>3. QED
          BY <1>8, <3>2, <4>2
      <3>3. QED
        BY <3>1, <3>2
    <2>4. QED
      BY <2>1, <2>2, <2>3 DEF NoHeaders
  <1>12. EntriesTrue(t, u)
    BY <1>1, <1>5 DEF EntriesTrue
  <1>13. HeadersTrue(t, u, on)
    <2>1. NoFiles => NoHeaders(t)
      BY <1>1, <1>11 DEF HeadersTrue
    <2>2. ASSUME StaysShared, on, NEW x \in Cells, t.mini[x] # <<>>
          PROVE  /\ x \notin DOMAIN t.mem /\ Tail(t.mini[x]) = <<>>
                 /\ \A h \in Heads(t.mini[x]) : h.put = u[x]
      <3>1. x[1] \notin X /\ t.mini[x] = s.mini[x]
        BY <1>8, <2>2
      <3>2. QED
        BY <1>1, <1>5, <2>2, <3>1 DEF HeadersTrue
    <2>3. QED
      BY <2>1, <2>2 DEF HeadersTrue
  <1>14. FilesShaped(t)
    BY <1>1, <1>2, FilesLess
  <1>15. FilesTrue(t, on)
    BY <1>11, NoHeads DEF FilesTrue, FilesKept, OneList, NoHeaders
  <1>16. HeadersPaged(t, en)
    BY <1>9 DEF Sound, HeadersPaged
  <1>17. QED
    BY <1>2, <1>6, <1>7, <1>10, <1>11, <1>12, <1>13, <1>14, <1>15, <1>16 DEF Sound

LEMMA HeadersFreedIs ==
  ASSUME NEW s, Record(s)
  PROVE  /\ Record(HeadersFreed(s)) /\ SameBooks(s, HeadersFreed(s))
         /\ SameFiles(s, HeadersFreed(s))
         /\ HeadersFreed(s).mini = [x \in Cells |-> Freed(s.mini[x])]
  <1> DEFINE t == HeadersFreed(s)
             m == [x \in Cells |-> Freed(s.mini[x])]
  <1>1. t = [s EXCEPT !.mini = m]
    BY DEF HeadersFreed, Freed
  <1> HIDE DEF t, m
  <1>2. /\ Record(t) /\ t.mem = s.mem /\ t.mini = m /\ t.files = s.files
        /\ t.dir0 = s.dir0 /\ t.shr = s.shr /\ t.pri = s.pri /\ t.used = s.used
    BY <1>1, SMT DEF Record
  <1>3. QED
    BY <1>2 DEF t, m, SameBooks, SameFiles

\* Freeing the pages of the mini-headers keeps the cache sound if none is in
\* use where that matters.
LEMMA SoundFreed ==
  ASSUME NEW s, NEW L, NEW tr, NEW on, NEW en, Sound(s, L, tr, on, en),
         StaysShared /\ on => NoHeaders(s), HeadersKept /\ en => NoHeaders(s)
  PROVE  Sound(HeadersFreed(s), L, tr, on, en) /\ SameBooks(s, HeadersFreed(s))
  <1> DEFINE t == HeadersFreed(s)
  <1>1. /\ Record(s) /\ Books(s, L) /\ HeadersPlaced(s, L) /\ FilesShaped(s)
        /\ EntriesTrue(s, tr) /\ HeadersTrue(s, tr, on) /\ s.mini \in [Cells -> Seq(Header)]
    BY DEF Sound, HeadersPlaced
  <1>2. /\ Record(t) /\ SameBooks(s, t) /\ SameFiles(s, t)
        /\ t.mini = [x \in Cells |-> Freed(s.mini[x])]
    BY <1>1, HeadersFreedIs, SMT
  <1> HIDE DEF t
  <1>3. \A x \in Cells :
          /\ t.mini[x] \in Seq(Header) /\ (s.mini[x] = <<>> => t.mini[x] = <<>>)
          /\ \A g \in Heads(t.mini[x]) : \E h \in Heads(s.mini[x]) : g.dom = h.dom
    <2>1. \A x \in Cells : t.mini[x] = Freed(s.mini[x]) /\ s.mini[x] \in Seq(Header)
      BY <1>1, <1>2
    <2>2. QED
      BY <2>1, HeadsFreed, SMT
  <1>4. Books(t, L) /\ t.mem = s.mem
    BY <1>1, <1>2, BooksSame DEF SameBooks
  <1>5. HeadersPlaced(t, L)
    <2>1. t.mini \in [Cells -> Seq(Header)]
      <3>1. \A x \in Cells : Freed(s.mini[x]) \in Seq(Header)
        BY <1>1, HeadsFreed
      <3>2. QED
        BY <1>2, <3>1
    <2>2. ASSUME NEW x \in Cells, NEW g \in Heads(t.mini[x])
          PROVE  (x[1] \in Doms => g.dom = x[1]) /\ (OneList => x[1] \in L)
      BY <1>1, <1>3 DEF HeadersPlaced
    <2>3. QED
      BY <2>1, <2>2 DEF HeadersPlaced
  <1>6. NoHeaders(s) => NoHeaders(t)
    BY <1>3 DEF NoHeaders
  <1>7. FilesShaped(t) /\ EntriesTrue(t, tr)
    BY <1>1, <1>2, <1>4 DEF FilesShaped, SameFiles, EntriesTrue
  <1>8. HeadersTrue(t, tr, on)
    BY <1>1, <1>6 DEF HeadersTrue, NoHeaders
  <1>9. FilesTrue(t, on)
    BY <1>6, NoHeads DEF FilesTrue, FilesKept, NoHeaders
  <1>10. HeadersPaged(t, en)
    BY <1>6, NoHeads DEF HeadersPaged, NoHeaders
  <1>11. QED
    BY <1>2, <1>4, <1>5, <1>7, <1>8, <1>9, <1>10 DEF Sound, t

---------------------------------------------------------------------------
(* Making room.                                                             *)

LEMMA SteadyFacts ==
  ASSUME Steady
  PROVE  /\ StaysShared => Lists = {Shared}
         /\ NoFiles => ~On
         /\ Shared \notin Doms /\ NoVal \notin Vals /\ Lists \subseteq Doms \cup {Shared}
         /\ Limit \in Nat /\ setup.heap \in Nat /\ maxBytes \in Nat
         /\ Safety \in Nat \ {0}
  <1>1. /\ Shared \notin Doms /\ NoVal \notin Vals /\ Limits \subseteq Nat
        /\ setup.heap \in Nat /\ Safety \in Nat \ {0}
    BY CacheConstants DEF Steady
  <1>2. 0 \in Nat
    BY SMT
  <1>3. maxBytes \in Nat
    BY <1>1, <1>2 DEF Steady
  <1>4. Limit \in Nat
    BY <1>1, <1>3 DEF Limit
  <1>5. Lists \subseteq Doms \cup {Shared}
    BY DEF Steady, Lists
  <1>6. StaysShared => Lists = {Shared}
    BY DEF Steady, StaysShared, Lists
  <1>7. NoFiles => ~On
    BY DEF Steady, On
  <1>8. QED
    BY <1>1, <1>3, <1>4, <1>5, <1>6, <1>7

LEMMA ShrunkSelf ==
  ASSUME NEW s, NEW L, Books(s, L), Shared \notin Doms
  PROVE  Shrunk(s, s)
  <1>1. Used(s) \in Nat
    BY UsedIsBytes
  <1>2. Used(s) <= Used(s)
    BY <1>1, SMT
  <1>3. QED
    BY <1>1, <1>2 DEF Shrunk

LEMMA ShrunkTwice ==
  ASSUME NEW s, NEW t, NEW u, Shrunk(s, t), Shrunk(t, u)
  PROVE  Shrunk(s, u)
  <1>1. Used(u) \in Nat /\ Used(s) \in Nat /\ Used(u) <= Used(s)
    <2>1. /\ Used(u) \in Nat /\ Used(t) \in Nat /\ Used(s) \in Nat
          /\ Used(u) <= Used(t) /\ Used(t) <= Used(s)
      BY DEF Shrunk
    <2>2. QED
      BY <2>1, SMT
  <1>2. DOMAIN u.mem \subseteq DOMAIN s.mem
    BY DEF Shrunk
  <1>3. \A x \in Cells \ DOMAIN s.mem : u.mini[x] = s.mini[x]
    BY DEF Shrunk
  <1>4. QED
    BY <1>1, <1>2, <1>3 DEF Shrunk

\* Evictions choose among the entries there are; in shared mode they take
\* what is asked for or all.
LEMMA VictimsAre ==
  ASSUME Steady, NEW s, NEW amount, NEW d, NEW V \in Victims(s, amount, d)
  PROVE  /\ V \subseteq DOMAIN s.mem
         /\ mode = Shared => V = CellsOf(s, {Shared}) \/ Bytes(s, V) >= amount
  <1>1. \A X : CellsOf(s, X) \subseteq DOMAIN s.mem
    BY DEF CellsOf
  <1>2. CASE mode = Shared
    <2>1. V \in SharedVictims(s, amount)
      BY <1>2, SMT DEF Victims, Shared, Partition
    <2>2. V \in SUBSET CellsOf(s, {Shared})
      BY <2>1 DEF SharedVictims
    <2>3. V = CellsOf(s, {Shared}) \/ Bytes(s, V) >= amount
      BY <2>1 DEF SharedVictims, SharedMayTake, Enough, Bytes
    <2>4. QED
      BY <1>1, <2>2, <2>3
  <1>3. CASE mode # Shared
    <2>1. mode = Partition /\ pmode \in {"BE", "WB", "AD"}
      BY <1>3 DEF Steady
    <2>2. CASE pmode = "BE"
      <3>1. V \in {{}}
        BY <2>1, <2>2, SMT DEF Victims, Shared, Partition
      <3>2. QED
        BY <1>3, <3>1
    <2>3. CASE pmode = "WB"
      <3>1. V \in WeightVictims(s, amount, d)
        BY <2>1, <2>3, SMT DEF Victims, Shared, Partition
      <3>2. V \in SUBSET CellsOf(s, Doms)
        BY <3>1 DEF WeightVictims
      <3>3. QED
        BY <1>1, <1>3, <3>2
    <2>4. CASE pmode = "AD"
      <3>1. V \in AdaptiveVictims(s, amount, d)
        BY <2>1, <2>4, SMT DEF Victims, Shared, Partition
      <3>2. PICK h \in alive \cup {Dom0} : V \in SUBSET CellsOf(s, {h, d})
        BY <3>1 DEF AdaptiveVictims
      <3>3. QED
        BY <1>1, <1>3, <3>2
    <2>5. QED
      BY <2>1, <2>2, <2>3, <2>4
  <1>4. QED
    BY <1>2, <1>3

\* An eviction of the entries V.
LEMMA MovedSound ==
  ASSUME Steady, NEW s, NEW tr, Sound(s, Lists, tr, On, enabled),
         NEW V, V \subseteq DOMAIN s.mem, NEW t \in Moved(s, V)
  PROVE  /\ Sound(t, Lists, tr, On, enabled) /\ Shrunk(s, t)
         /\ TakenOut(s, t, V)
         /\ Used(t) = Used(s) - Bytes(s, V) /\ Bytes(s, V) \in Nat /\ Used(s) \in Nat
  <1>1. Record(s)
    BY DEF Sound
  <1>2. PICK P \in SUBSET {x \in V : s.mem[x].val # NoVal} :
            (~On => P = {}) /\ OutOf(s, t, V, P)
    BY <1>1, MovedIs, SMT
  <1>3. P \subseteq {x \in V : s.mem[x].val # NoVal}
    BY <1>2
  <1>4. StaysShared => Lists = {Shared}
    BY SteadyFacts
  <1>5. (NoFiles => ~On) /\ Shared \notin Doms
    BY SteadyFacts
  <1>6. /\ Sound(t, Lists, tr, On, enabled) /\ Shrunk(s, t)
        /\ Used(t) = Used(s) - Bytes(s, V) /\ Bytes(s, V) \in Nat /\ Used(s) \in Nat
    BY <1>2, <1>3, <1>4, <1>5, SoundOut, SMT
  <1>7. QED
    BY <1>2, <1>6 DEF OutOf

\* What an eviction of `amount' bytes leaves.
Room(s, r, amount, tr) ==
    /\ Sound(r.cache, Lists, tr, On, enabled) /\ Shrunk(s, r.cache) /\ r.ok \in BOOLEAN
    /\ mode = Shared /\ r.ok => Used(r.cache) + amount <= Used(s)
    /\ mode = Shared /\ OneList =>
         Used(r.cache) = 0 \/ Used(r.cache) + amount <= Used(s)

LEMMA FreeMakesRoom ==
  ASSUME Steady, NEW s, NEW tr, Sound(s, Lists, tr, On, enabled),
         NEW amount \in Nat, NEW d, NEW r \in Free(s, amount, d)
  PROVE  Room(s, r, amount, tr)
  <1> DEFINE ok(V) == Bytes(s, V) >= amount \/ (mode = Partition /\ pmode = "BE")
  <1>1. PICK V \in Victims(s, amount, d) : \E t \in Moved(s, V) : r = [cache |-> t, ok |-> ok(V)]
    BY DEF Free
  <1>2. PICK t \in Moved(s, V) : r = [cache |-> t, ok |-> ok(V)]
    BY <1>1
  <1>3. /\ V \subseteq DOMAIN s.mem
        /\ mode = Shared => V = CellsOf(s, {Shared}) \/ Bytes(s, V) >= amount
    BY VictimsAre
  <1>4. /\ Sound(t, Lists, tr, On, enabled) /\ Shrunk(s, t)
        /\ Used(t) = Used(s) - Bytes(s, V) /\ Bytes(s, V) \in Nat /\ Used(s) \in Nat
    BY <1>3, MovedSound, SMT
  <1>5. /\ r.cache = t /\ r.ok \in BOOLEAN
        /\ mode = Shared => (r.ok => Bytes(s, V) >= amount)
    BY <1>2 DEF Shared, Partition
  <1>6. Bytes(s, V) >= amount => Used(t) + amount <= Used(s)
    BY <1>4, SMT
  <1>7. mode = Shared /\ OneList => Used(t) = 0 \/ Used(t) + amount <= Used(s)
    <2>1. ASSUME mode = Shared, OneList, V = CellsOf(s, {Shared}) PROVE Used(t) = 0
      <3>1. Books(s, {Shared})
        BY <2>1 DEF Sound, Lists
      <3>2. V = DOMAIN s.mem
        BY <2>1, <3>1 DEF Books, EntriesPlaced, CellsOf
      <3>3. Used(s) = Bytes(s, DOMAIN s.mem)
        BY <3>1, SteadyFacts, UsedIsBytes
      <3>4. QED
        BY <1>4, <3>2, <3>3, SMT
    <2>2. QED
      BY <1>3, <1>6, <2>1
  <1>8. QED
    BY <1>4, <1>5, <1>6, <1>7 DEF Room

\* mcd_malloc keeps the cache sound, and what it grants fits.
Granted(s, r, size, tr) ==
    /\ Sound(r.cache, Lists, tr, On, enabled) /\ Shrunk(s, r.cache)
    /\ mode = Shared /\ r.ok /\ Used(s) <= Limit => Used(r.cache) + size <= Limit

LEMMA MallocGrants ==
  ASSUME Steady, NEW s, NEW tr, Sound(s, Lists, tr, On, enabled),
         NEW size \in Nat, NEW d, NEW r \in Malloc(s, size, d)
  PROVE  Granted(s, r, size, tr)
  <1> DEFINE amount == size + Safety
             first == IF Used(s) + amount >= Limit
                      THEN Free(s, amount, d) ELSE {[cache |-> s, ok |-> TRUE]}
  <1>1. amount \in Nat /\ amount > size /\ Limit \in Nat
    BY SteadyFacts, SMT
  <1>2. r \in first \/ \E q \in first : ~q.ok /\ r \in Free(q.cache, amount, d)
    BY DEF Malloc
  <1>3. Books(s, Lists) /\ Shared \notin Doms
    BY SteadyFacts DEF Sound
  <1> HIDE DEF amount
  <1>4. ASSUME NEW q \in Free(s, amount, d) PROVE Granted(s, q, size, tr)
    <2>1. Room(s, q, amount, tr)
      BY <1>1, FreeMakesRoom
    <2>2. /\ Used(q.cache) \in Nat /\ Used(s) \in Nat
          /\ mode = Shared /\ q.ok => Used(q.cache) + amount <= Used(s)
      BY <2>1 DEF Room, Shrunk
    <2>3. mode = Shared /\ q.ok /\ Used(s) <= Limit => Used(q.cache) + size <= Limit
      BY <1>1, <2>2, SMT
    <2>4. QED
      BY <2>1, <2>3 DEF Room, Granted
  <1>5. ASSUME ~(Used(s) + amount >= Limit), NEW q, q = [cache |-> s, ok |-> TRUE]
        PROVE  Granted(s, q, size, tr)
    <2>1. q.cache = s
      BY <1>5, SMT
    <2>2. Shrunk(s, s)
      BY <1>3, ShrunkSelf
    <2>3. Used(s) + size <= Limit
      BY <1>1, <1>5, <2>2, SMT DEF Shrunk
    <2>4. QED
      BY <2>1, <2>2, <2>3 DEF Granted
  <1>6. ASSUME NEW q \in first PROVE Granted(s, q, size, tr)
    <2>1. CASE Used(s) + amount >= Limit
      BY <1>4, <2>1
    <2>2. CASE ~(Used(s) + amount >= Limit)
      BY <1>5, <2>2
    <2>3. QED
      BY <2>1, <2>2
  <1>7. ASSUME NEW q \in first, r \in Free(q.cache, amount, d)
        PROVE  Granted(s, r, size, tr)
    <2>1. Sound(q.cache, Lists, tr, On, enabled) /\ Shrunk(s, q.cache)
      BY <1>6 DEF Granted
    <2>2. Room(q.cache, r, amount, tr)
      BY <1>1, <1>7, <2>1, FreeMakesRoom
    <2>3. Sound(r.cache, Lists, tr, On, enabled) /\ Shrunk(q.cache, r.cache)
      BY <2>2 DEF Room
    <2>4. Shrunk(s, r.cache)
      BY <2>1, <2>3, ShrunkTwice
    <2>5. /\ Used(q.cache) \in Nat /\ Used(s) \in Nat /\ Used(r.cache) \in Nat
          /\ Used(q.cache) <= Used(s)
          /\ mode = Shared /\ r.ok => Used(r.cache) + amount <= Used(q.cache)
      BY <2>1, <2>2, <2>3 DEF Room, Shrunk
    <2>6. mode = Shared /\ r.ok /\ Used(s) <= Limit => Used(r.cache) + size <= Limit
      BY <1>1, <2>5, SMT
    <2>7. QED
      BY <2>3, <2>4, <2>6 DEF Granted
  <1> HIDE DEF first
  <1>8. QED
    BY <1>2, <1>6, <1>7

---------------------------------------------------------------------------
(* The invariant after a step.  A setup never changes, so the premises hold *)
(* after a step if they held before it.                                     *)

LEMMA PremisesStay ==
  ASSUME setup' = setup
  PROVE  /\ (OneList' <=> OneList) /\ (Truthful' <=> Truthful)
         /\ (FilesKept' <=> FilesKept) /\ (DomainsApart' <=> DomainsApart)
         /\ (StaysShared' <=> StaysShared) /\ (NoFiles' <=> NoFiles)
         /\ (HeadersKept' <=> HeadersKept) /\ (ModesStay' <=> ModesStay)
  BY SMT DEF OneList, Truthful, FilesKept, DomainsApart, StaysShared, NoFiles, HeadersKept,
         ModesStay, GuestsOnly, StaysPartition

LEMMA SoundPrimed ==
  ASSUME setup' = setup, Sound(cache', Lists', truth', On', enabled')
  PROVE  Sound(cache, Lists, truth, On, enabled)'
  <1> DEFINE s == cache'
             L == Lists'
  <1>1. /\ Record(s) /\ Books(s, L) /\ HeadersPlaced(s, L) /\ FilesShaped(s)
        /\ EntriesTrue(s, truth') /\ HeadersTrue(s, truth', On') /\ FilesTrue(s, On')
        /\ HeadersPaged(s, enabled')
    BY DEF Sound
  <1>2. Record(cache)' /\ FilesShaped(cache)'
    BY <1>1 DEF Record, FilesShaped
  <1>3. Books(cache, Lists)'
    <2>1. EntriesShaped(cache)' /\ Counted(cache)'
      BY <1>1 DEF Books, EntriesShaped, Counted
    <2>2. EntriesPlaced(cache, Lists)'
      BY <1>1, PremisesStay DEF Books, EntriesPlaced
    <2>3. (DomainsApart => Charged(cache))'
      BY <1>1, PremisesStay DEF Books, Charged
    <2>4. QED
      BY <2>1, <2>2, <2>3 DEF Books
  <1>4. HeadersPlaced(cache, Lists)'
    BY <1>1, PremisesStay DEF HeadersPlaced
  <1>5. EntriesTrue(cache, truth)' /\ HeadersTrue(cache, truth, On)'
    BY <1>1, PremisesStay DEF EntriesTrue, HeadersTrue, NoHeaders
  <1>6. FilesTrue(cache, On)' /\ HeadersPaged(cache, enabled)'
    BY <1>1, PremisesStay DEF FilesTrue, HeadersPaged
  <1>7. QED
    BY <1>2, <1>3, <1>4, <1>5, <1>6 DEF Sound

FreshAnswer(a, tr) == a # <<>> => a[2] \in {tr[a[1]], NoVal}

\* What has to be shown of a step.
LEMMA InvPrimed ==
  ASSUME setup' = setup, Steady', Sound(cache', Lists', truth', On', enabled'),
         mode' = Shared /\ OneList => Used(cache') <= Limit',
         Truthful => FreshAnswer(answer', truth')
  PROVE  CacheInv'
  <1>1. Sound(cache, Lists, truth, On, enabled)'
    BY SoundPrimed
  <1>2. WithinLimit'
    <2>1. OneList' => OneList
      BY PremisesStay
    <2>2. Used(cache)' = Used(cache')
      BY DEF Used
    <2>3. QED
      BY <2>1, <2>2 DEF WithinLimit, OneList
  <1>3. SharedGetsAreFresh'
    <2>1. Truthful' => Truthful
      BY PremisesStay
    <2>2. QED
      BY <2>1 DEF SharedGetsAreFresh, GetsAreFresh, FreshAnswer, Truthful
  <1>4. QED
    BY <1>1, <1>2, <1>3 DEF CacheInv

\* The same for an operation of a guest, which leaves the switches alone.
LEMMA InvKept ==
  ASSUME Steady, setup' = setup, UNCHANGED switches,
         truth' \in [Cells -> Vals \cup {NoVal}],
         Sound(cache', Lists, truth', On, enabled),
         mode = Shared /\ OneList => Used(cache') <= Limit,
         Truthful => FreshAnswer(answer', truth')
  PROVE  CacheInv'
  <1>1. /\ mode' = mode /\ pmode' = pmode /\ maxBytes' = maxBytes /\ alive' = alive
        /\ enabled' = enabled /\ user' = user
    BY SMT DEF switches
  <1>2. Lists' = Lists /\ On' = On /\ Limit' = Limit
    BY <1>1 DEF Lists, On, Limit
  <1>3. Steady'
    <2>1. (ModesStay' => ModesStay) /\ (NoFiles' => NoFiles)
      BY PremisesStay
    <2>2. QED
      BY <1>1, <2>1, SMT DEF Steady
  <1>4. QED
    BY <1>1, <1>2, <1>3, InvPrimed

---------------------------------------------------------------------------
(* The operations of a guest.                                               *)

LEMMA CellIs ==
  ASSUME Steady, NEW d \in Doms, NEW k \in Keys, d \in alive
  PROVE  /\ Cell(d, k) \in Cells /\ Cell(d, k)[2] = k
         /\ Cell(d, k)[1] \in Doms => d = Cell(d, k)[1]
         /\ Cell(d, k)[1] \in Lists
  <1>1. Shared \notin Doms
    BY SteadyFacts
  <1>2. QED
    BY <1>1, SMT DEF Cell, Cells, Lists

\* The cell x has been cleared for another put: no copy of it is left that
\* could be found.
Cleared(s, x) ==
    /\ Sound(s, Lists, truth, On, enabled) /\ Used(s) \in Nat /\ Used(s) <= Used(cache)
    /\ x \notin DOMAIN s.mem /\ (StaysShared /\ On => s.mini[x] = <<>>)

LEMMA UnlistedClears ==
  ASSUME CacheInv, NEW x \in DOMAIN cache.mem
  PROVE  Cleared(Unlisted(cache, {x}), x)
  <1> DEFINE t == Unlisted(cache, {x})
  <1>1. Sound(cache, Lists, truth, On, enabled) /\ {x} \subseteq DOMAIN cache.mem
    BY DEF CacheInv
  <1>2. Sound(t, Lists, truth, On, enabled)
    BY <1>1, SoundUnlisted
  <1>3. /\ Books(cache, Lists) /\ Books(t, Lists) /\ Record(cache)
        /\ EntriesShaped(cache) /\ Shared \notin Doms
    BY <1>1, <1>2, SteadyFacts DEF Sound, Books, CacheInv
  <1>4. TakenOut(cache, t, {x}) /\ t.mini = cache.mini
    BY <1>3, UnlistedIs
  <1> HIDE DEF t
  <1>5. Used(t) \in Nat /\ Used(t) <= Used(cache)
    <2>1. /\ Used(t) = Used(cache) - Bytes(cache, {x}) /\ Bytes(cache, {x}) \in Nat
          /\ Used(cache) \in Nat /\ Used(t) \in Nat
      BY <1>1, <1>3, <1>4, UsedTaken
    <2>2. QED
      BY <2>1, SMT
  <1>6. x \notin DOMAIN t.mem
    <2>1. Remain(cache, t, {x})
      BY <1>3, <1>4, BytesTaken
    <2>2. QED
      BY <2>1 DEF Remain
  <1>7. StaysShared /\ On => t.mini[x] = <<>>
    BY <1>1, <1>3, <1>4 DEF Sound, HeadersTrue, EntriesShaped
  <1>8. QED
    BY <1>2, <1>5, <1>6, <1>7 DEF Cleared, t

LEMMA DeletedClears ==
  ASSUME CacheInv, NEW x \in Cells, x \notin DOMAIN cache.mem, cache.mini[x] # <<>>,
         NEW t \in Deleted(cache, x)
  PROVE  Cleared(t, x)
  <1> DEFINE f == <<Head(cache.mini[x]).dom, x[2]>>
  <1>1. PICK F \in Sent(enabled, {f}) : t = Dropped(cache, x, F, On)
    BY DEF Deleted, Dropped
  <1>2. OwnFile(cache, x, F)
    <2>1. F \subseteq {f}
      <3> HIDE DEF f
      <3>1. QED
        BY <1>1 DEF Sent
    <2>2. QED
      BY <2>1 DEF OwnFile
  <1>3. Sound(cache, Lists, truth, On, enabled) /\ SharedOnly(Lists)
    BY SteadyFacts DEF CacheInv, SharedOnly
  <1>4. /\ Sound(t, Lists, truth, On, enabled) /\ SameBooks(cache, t)
        /\ StaysShared /\ On => t.mini[x] = <<>>
    <2> DEFINE u == Dropped(cache, x, F, On)
    <2>1. /\ Sound(u, Lists, truth, On, enabled) /\ SameBooks(cache, u)
          /\ StaysShared /\ On => u.mini[x] = <<>>
      <3>1. Implies(On, On)
        BY DEF Implies
      <3>2. QED
        BY <1>2, <1>3, <3>1, SoundDropped
    <2> HIDE DEF u
    <2>2. t = u
      BY <1>1 DEF u
    <2>3. QED
      BY <2>1, <2>2
  <1>5. Used(t) = Used(cache) /\ t.mem = cache.mem
    BY <1>4 DEF Used, SameBooks
  <1>6. Used(cache) \in Nat
    BY <1>3, SteadyFacts, UsedIsBytes DEF Sound, CacheInv
  <1>7. QED
    BY <1>4, <1>5, <1>6, SMT DEF Cleared

LEMMA NothingToClear ==
  ASSUME CacheInv, NEW x \in Cells, x \notin DOMAIN cache.mem, cache.mini[x] = <<>>
  PROVE  Cleared(cache, x)
  <1>1. Used(cache) \in Nat
    BY SteadyFacts, UsedIsBytes DEF Sound, CacheInv
  <1>2. Used(cache) <= Used(cache)
    BY <1>1, SMT
  <1>3. QED
    BY <1>1, <1>2 DEF Cleared, CacheInv

LEMMA ReplacedClears ==
  ASSUME CacheInv, NEW x \in Cells, NEW s \in Replaced(x)
  PROVE  Cleared(s, x)
  <1>1. CASE x \in DOMAIN cache.mem /\ mode = Shared
    BY <1>1, UnlistedClears DEF Replaced
  <1>2. CASE x \in DOMAIN cache.mem /\ mode # Shared
    <2>1. s \in Moved(cache, {x}) /\ {x} \subseteq DOMAIN cache.mem
      BY <1>2 DEF Replaced
    <2>2. Steady /\ Sound(cache, Lists, truth, On, enabled)
      BY DEF CacheInv
    <2>3. /\ Sound(s, Lists, truth, On, enabled) /\ Shrunk(cache, s)
          /\ TakenOut(cache, s, {x})
      BY <2>1, <2>2, MovedSound, SMT
    <2>4. x \notin DOMAIN s.mem
      <3>1. EntriesShaped(cache)
        BY <2>2 DEF Sound, Books
      <3>2. Remain(cache, s, {x})
        BY <2>3, <3>1, BytesTaken
      <3>3. QED
        BY <3>2 DEF Remain
    <2>5. ~StaysShared
      BY <1>2, <2>2 DEF Steady, StaysShared
    <2>6. QED
      BY <2>3, <2>4, <2>5 DEF Cleared, Shrunk
  <1>3. CASE x \notin DOMAIN cache.mem /\ cache.mini[x] # <<>>
    BY <1>3, DeletedClears DEF Replaced
  <1>4. CASE x \notin DOMAIN cache.mem /\ cache.mini[x] = <<>>
    BY <1>4, NothingToClear DEF Replaced
  <1>5. QED
    BY <1>1, <1>2, <1>3, <1>4

\* The cell x may receive the entry v of d.
ReadyFor(s, tr, x, d, v) ==
    /\ x \in Cells /\ x \notin DOMAIN s.mem /\ d \in Doms /\ v \in Vals \cup {NoVal}
    /\ x[1] \in Doms => d = x[1]
    /\ x[1] \in Lists
    /\ Truthful => v \in {tr[x], NoVal}
    /\ StaysShared /\ On => s.mini[x] = <<>>

\* t is sound, and within the limit if s was.
Stays(s, t, tr) ==
    /\ Sound(t, Lists, tr, On, enabled)
    /\ mode = Shared /\ Used(s) <= Limit => Used(t) <= Limit

LEMMA ShrunkStays ==
  ASSUME Steady, NEW s, NEW tr, NEW t, Sound(t, Lists, tr, On, enabled), Shrunk(s, t)
  PROVE  Stays(s, t, tr)
  <1>1. Used(t) \in Nat /\ Used(s) \in Nat /\ Used(t) <= Used(s) /\ Limit \in Nat
    BY SteadyFacts DEF Shrunk
  <1>2. Used(s) <= Limit => Used(t) <= Limit
    BY <1>1, SMT
  <1>3. QED
    BY <1>2 DEF Stays

LEMMA GrantedStays ==
  ASSUME Steady, NEW s, NEW tr, NEW r, NEW size, Granted(s, r, size, tr)
  PROVE  Stays(s, r.cache, tr)
  BY ShrunkStays DEF Granted

\* t is s with the new entry.
Enters(s, t, tr, x, v, size) ==
    /\ Sound(t, Lists, tr, On, enabled)
    /\ Used(t) = Used(s) + size /\ t.mem[x].val = v

LEMMA ListedReady ==
  ASSUME Steady, NEW s, NEW tr, NEW x, NEW d, NEW v, ReadyFor(s, tr, x, d, v),
         Sound(s, Lists, tr, On, enabled), NEW size \in Nat
  PROVE  Enters(s, Listed(s, x, d, v, size), tr, x, v, size)
  <1>1. Shared \notin Doms
    BY SteadyFacts
  <1>2. /\ x \in Cells /\ x \notin DOMAIN s.mem /\ d \in Doms /\ v \in Vals \cup {NoVal}
        /\ x[1] \in Doms => d = x[1]
        /\ OneList => x[1] \in Lists
        /\ Truthful => v \in {tr[x], NoVal}
        /\ StaysShared /\ On => s.mini[x] = <<>>
    BY DEF ReadyFor
  <1>3. QED
    BY <1>1, <1>2, SoundListed, SMT DEF Enters

\* mcd_malloc, and the entry if it succeeds.
LEMMA EnteredStays ==
  ASSUME Steady, NEW s, NEW tr, NEW x, NEW d, NEW v, ReadyFor(s, tr, x, d, v),
         NEW size \in Nat, NEW r, Granted(s, r, size, tr)
  PROVE  Stays(s, IF r.ok THEN Listed(r.cache, x, d, v, size) ELSE r.cache, tr)
  <1>1. CASE ~r.ok
    BY <1>1, GrantedStays
  <1>2. CASE r.ok
    <2> DEFINE c == r.cache
    <2>1. Sound(c, Lists, tr, On, enabled) /\ Shrunk(s, c)
      BY DEF Granted
    <2>2. mode = Shared /\ Used(s) <= Limit => Used(c) + size <= Limit
      BY <1>2 DEF Granted
    <2> HIDE DEF c
    <2>3. ReadyFor(c, tr, x, d, v)
      BY <2>1 DEF ReadyFor, Shrunk
    <2>6. Enters(c, Listed(c, x, d, v, size), tr, x, v, size)
      BY <2>1, <2>3, ListedReady
    <2>7. Stays(s, Listed(c, x, d, v, size), tr)
      BY <2>2, <2>6 DEF Stays, Enters
    <2>8. QED
      BY <1>2, <2>7 DEF c
  <1>3. QED
    BY <1>1, <1>2

LEMMA SizesAre ==
  ASSUME NEW k \in Keys
  PROVE  Size[k] \in Nat /\ HeaderSize \in Nat /\ DomainSize \in Nat
  BY CacheConstants, SMT

LEMMA KeysAre ==
  ASSUME Steady
  PROVE  setup.keys \subseteq Keys
  BY CacheConstants DEF Steady

\* mcd_put.
LEMMA PutKeeps ==
  ASSUME CacheInv, setup' = setup, NEW d \in Doms, NEW k \in setup.keys, NEW v \in Vals,
         Put(d, k, v)
  PROVE  CacheInv'
  <1> DEFINE x == Cell(d, k)
  <1>1. Steady /\ k \in Keys /\ d \in alive
    BY KeysAre DEF CacheInv, Put
  <1>2. /\ x \in Cells /\ (x[1] \in Doms => d = x[1]) /\ x[1] \in Lists
    BY <1>1, CellIs
  <1>3. PICK s \in Replaced(x) : \E r \in Malloc(s, Size[k], d) :
          cache' = IF r.ok THEN Listed(r.cache, x, d, v, Size[k]) ELSE r.cache
    BY DEF Put
  <1>4. PICK r \in Malloc(s, Size[k], d) :
          cache' = IF r.ok THEN Listed(r.cache, x, d, v, Size[k]) ELSE r.cache
    BY <1>3
  <1>5. truth' = [truth EXCEPT ![x] = v] /\ answer' = <<>> /\ UNCHANGED switches
    BY DEF Put
  <1> HIDE DEF x
  <1>6. Cleared(s, x)
    BY <1>2, ReplacedClears
  <1>7. /\ truth' \in [Cells -> Vals \cup {NoVal}] /\ truth'[x] = v
        /\ \A y \in Cells : y # x => truth'[y] = truth[y]
    <2>1. truth \in [Cells -> Vals \cup {NoVal}]
      BY <1>1 DEF Steady
    <2>2. QED
      BY <1>2, <1>5, <2>1, SMT
  <1>8. Sound(s, Lists, truth', On, enabled)
    BY <1>2, <1>6, <1>7, SoundRetold DEF Cleared
  <1>9. Granted(s, r, Size[k], truth')
    BY <1>1, <1>8, SizesAre, MallocGrants
  <1>10. ReadyFor(s, truth', x, d, v)
    BY <1>2, <1>6, <1>7 DEF ReadyFor, Cleared
  <1>11. Stays(s, cache', truth')
    <2> DEFINE t == IF r.ok THEN Listed(r.cache, x, d, v, Size[k]) ELSE r.cache
    <2>1. Stays(s, t, truth')
      BY <1>1, <1>9, <1>10, SizesAre, EnteredStays
    <2> HIDE DEF t
    <2>2. cache' = t
      BY <1>4 DEF t
    <2>3. QED
      BY <2>1, <2>2
  <1>12. mode = Shared /\ OneList => Used(cache') <= Limit
    <2>1. ASSUME mode = Shared, OneList PROVE Used(s) <= Limit
      <3>1. Used(cache) <= Limit /\ Used(s) \in Nat /\ Used(s) <= Used(cache)
        BY <1>6, <2>1 DEF CacheInv, WithinLimit, OneList, Cleared
      <3>2. Used(cache) \in Nat /\ Limit \in Nat
        BY <1>1, SteadyFacts, UsedIsBytes DEF CacheInv, Sound
      <3>3. QED
        BY <3>1, <3>2, SMT
    <2>2. QED
      BY <1>11, <2>1 DEF Stays
  <1>13. FreshAnswer(answer', truth')
    BY <1>5 DEF FreshAnswer
  <1>14. QED
    BY <1>1, <1>5, <1>7, <1>11, <1>12, <1>13, InvKept DEF Stays

\* mcd_page_in: the entry comes back, and is the one that counts.
LEMMA PagedInStays ==
  ASSUME CacheInv, On, NEW x \in Cells, x[1] \in Lists, x \notin DOMAIN cache.mem,
         cache.mini[x] # <<>>, NEW r \in PagedIn(cache, x)
  PROVE  /\ Stays(cache, r.cache, truth)
         /\ Truthful /\ r.ok => r.cache.mem[x].val = truth[x]
  <1> DEFINE h == Head(cache.mini[x])
             f == <<h.dom, x[2]>>
             z == Size[x[2]]
             Filled(t, F) == Listed([t EXCEPT !.files = Without(@, F), !.mini[x] = Tail(@)],
                                    x, h.dom, h.put, z)
  <1>1. Steady /\ Sound(cache, Lists, truth, On, enabled)
    BY DEF CacheInv
  <1>2. PICK q \in Malloc(cache, z, h.dom) :
          r \in IF q.ok THEN {[cache |-> Filled(q.cache, F), ok |-> TRUE] : F \in Sent(TRUE, {f})}
                        ELSE {q}
    BY DEF PagedIn
  <1>3. x[2] \in Keys /\ z \in Nat
    BY CellParts, SizesAre
  <1>4. Granted(cache, q, z, truth)
    BY <1>1, <1>3, MallocGrants
  <1>5. CASE ~q.ok
    <2>1. r = q
      BY <1>2, <1>5
    <2>2. QED
      BY <1>1, <1>4, <1>5, <2>1, GrantedStays
  <1>6. CASE q.ok
    <2>1. PICK F \in Sent(TRUE, {f}) : r = [cache |-> Filled(q.cache, F), ok |-> TRUE]
      BY <1>2, <1>6
    <2>2. r.cache = Filled(q.cache, F)
      BY <2>1, SMT
    <2> DEFINE c == q.cache
               u == Dropped(c, x, F, TRUE)
               t == Listed(u, x, h.dom, h.put, z)
    <2>3. /\ Sound(c, Lists, truth, On, enabled) /\ Shrunk(cache, c)
          /\ mode = Shared /\ Used(cache) <= Limit => Used(c) + z <= Limit
      BY <1>4, <1>6 DEF Granted
    <2>4. c.mini[x] = cache.mini[x] /\ x \notin DOMAIN c.mem
      BY <2>3 DEF Shrunk
    <2>6. Filled(c, F) = t
      <3> HIDE DEF h, z, c
      <3>1. [c EXCEPT !.files = Without(@, F), !.mini[x] = Tail(@)] = u
        BY DEF Dropped
      <3>2. QED
        BY <3>1
    <2>7. OwnFile(c, x, F) /\ SharedOnly(Lists) /\ Implies(On, TRUE)
      <3>1. F \subseteq {f}
        <4> HIDE DEF f
        <4>1. QED
          BY <2>1 DEF Sent
      <3>2. SharedOnly(Lists)
        BY <1>1, SteadyFacts DEF SharedOnly
      <3>3. QED
        BY <2>4, <3>1, <3>2 DEF OwnFile, Implies
    <2> HIDE DEF c
    <2>8. /\ Sound(u, Lists, truth, On, enabled) /\ SameBooks(c, u)
          /\ StaysShared /\ On => u.mini[x] = <<>>
      BY <2>3, <2>4, <2>7, SoundDropped
    <2>9. /\ h \in Heads(cache.mini[x]) /\ h \in Header
      <3>1. cache.mini[x] \in Seq(Header)
        BY <1>1 DEF Sound, HeadersPlaced
      <3>2. QED
        BY <3>1, HeadsTail, SomeHeads
    <2>10. h.dom \in Doms /\ h.put \in Vals \cup {NoVal}
      BY <2>9, SMT DEF Header
    <2>11. x[1] \in Doms => h.dom = x[1]
      BY <1>1, <2>9 DEF Sound, HeadersPlaced
    <2>12. Truthful => h.put = truth[x]
      <3>1. Truthful => StaysShared
        BY <1>1, SteadyFacts DEF Truthful
      <3>2. QED
        BY <1>1, <2>9, <3>1 DEF Sound, HeadersTrue
    <2>13. x \notin DOMAIN u.mem /\ Used(u) = Used(c)
      BY <2>4, <2>8 DEF SameBooks, Used
    <2> HIDE DEF h, u, z
    <2>14. ReadyFor(u, truth, x, h.dom, h.put)
      BY <2>8, <2>10, <2>11, <2>12, <2>13 DEF ReadyFor
    <2>15. /\ Sound(t, Lists, truth, On, enabled) /\ Used(t) = Used(u) + z
           /\ t.mem[x].val = h.put
      <3>1. Enters(u, t, truth, x, h.put, z)
        BY <1>1, <1>3, <2>8, <2>14, ListedReady
      <3>2. QED
        BY <3>1 DEF Enters
    <2>16. Stays(cache, t, truth)
      BY <2>3, <2>13, <2>15 DEF Stays
    <2>17. r.cache = t
      BY <2>2, <2>6 DEF c
    <2> HIDE DEF t
    <2>18. QED
      BY <2>12, <2>15, <2>16, <2>17
  <1>7. QED
    BY <1>5, <1>6

\* A cache that stays within the limit keeps the invariant.
LEMMA StaysKeeps ==
  ASSUME CacheInv, setup' = setup, UNCHANGED switches,
         truth' \in [Cells -> Vals \cup {NoVal}], Stays(cache, cache', truth'),
         Truthful => FreshAnswer(answer', truth')
  PROVE  CacheInv'
  <1>1. Steady
    BY DEF CacheInv
  <1>2. mode = Shared /\ OneList => Used(cache') <= Limit
    BY DEF CacheInv, WithinLimit, OneList, Stays
  <1>3. Sound(cache', Lists, truth', On, enabled)
    BY DEF Stays
  <1>4. QED
    BY <1>1, <1>2, <1>3, InvKept

LEMMA SelfStays ==
  ASSUME CacheInv
  PROVE  Stays(cache, cache, truth)
  BY DEF CacheInv, Stays

\* mcd_get.
LEMMA GetKeeps ==
  ASSUME CacheInv, setup' = setup, NEW d \in Doms, NEW k \in setup.keys, Get(d, k)
  PROVE  CacheInv'
  <1> DEFINE x == Cell(d, k)
             found == x \in DOMAIN cache.mem
  <1>1. Steady /\ k \in Keys /\ d \in alive /\ UNCHANGED switches /\ truth' = truth
    <2>1. UNCHANGED <<switches, truth>>
      BY DEF Get
    <2>2. QED
      BY <2>1, KeysAre, SMT DEF CacheInv, Get
  <1>2. x \in Cells /\ x[1] \in Lists
    BY <1>1, CellIs
  <1>3. PICK r \in IF ~found /\ cache.mini[x] # <<>> /\ On
                   THEN PagedIn(cache, x) ELSE {[cache |-> cache, ok |-> found]} :
          /\ cache' = r.cache
          /\ answer' \in {<<x, NoVal>>}
                         \cup IF r.ok THEN {<<x, r.cache.mem[x].val>>} ELSE {}
    BY DEF Get
  <1> HIDE DEF x
  <1>4. /\ Stays(cache, r.cache, truth)
        /\ Truthful /\ r.ok => r.cache.mem[x].val \in {truth[x], NoVal}
    <2>1. CASE ~found /\ cache.mini[x] # <<>> /\ On
      <3>1. r \in PagedIn(cache, x)
        BY <1>3, <2>1
      <3>2. QED
        BY <1>2, <2>1, <3>1, PagedInStays
    <2>2. CASE ~(~found /\ cache.mini[x] # <<>> /\ On)
      <3>1. r = [cache |-> cache, ok |-> found]
        BY <1>3, <2>2
      <3>2. r.cache = cache /\ (r.ok => found)
        BY <3>1
      <3>3. Truthful /\ found => cache.mem[x].val \in {truth[x], NoVal}
        BY DEF CacheInv, Sound, EntriesTrue
      <3>4. QED
        BY <3>2, <3>3, SelfStays
    <2>3. QED
      BY <2>1, <2>2
  <1>5. Truthful => FreshAnswer(answer', truth')
    <2>1. SUFFICES ASSUME Truthful PROVE answer'[2] \in {truth[answer'[1]], NoVal}
      BY <1>1 DEF FreshAnswer
    <2>2. \/ answer' = <<x, NoVal>>
          \/ r.ok /\ answer' = <<x, r.cache.mem[x].val>>
      BY <1>3
    <2>3. QED
      BY <1>4, <2>1, <2>2, SMT
  <1>6. truth' \in [Cells -> Vals \cup {NoVal}]
    BY <1>1 DEF Steady
  <1>7. Stays(cache, cache', truth')
    BY <1>1, <1>3, <1>4
  <1>8. QED
    BY <1>1, <1>5, <1>6, <1>7, StaysKeeps

\* mcd_remove.
LEMMA RemoveKeeps ==
  ASSUME CacheInv, setup' = setup, NEW d \in Doms, NEW k \in setup.keys, Remove(d, k)
  PROVE  CacheInv'
  <1> DEFINE x == Cell(d, k)
  <1>1. Steady /\ k \in Keys /\ d \in alive
    BY KeysAre DEF CacheInv, Remove
  <1>2. x \in Cells
    BY <1>1, CellIs
  <1>3. /\ cache' \in IF x \in DOMAIN cache.mem THEN {Unlisted(cache, {x})}
                      ELSE IF cache.mini[x] # <<>> THEN Deleted(cache, x) ELSE {cache}
        /\ truth' = [truth EXCEPT ![x] = NoVal] /\ answer' = <<>> /\ UNCHANGED switches
    BY DEF Remove
  <1> HIDE DEF x
  <1>4. Cleared(cache', x)
    <2>1. CASE x \in DOMAIN cache.mem
      <3>1. cache' = Unlisted(cache, {x})
        BY <1>3, <2>1
      <3>2. Cleared(Unlisted(cache, {x}), x)
        BY <2>1, UnlistedClears
      <3>3. QED
        BY <3>1, <3>2
    <2>2. CASE x \notin DOMAIN cache.mem /\ cache.mini[x] # <<>>
      <3>1. cache' \in Deleted(cache, x)
        BY <1>3, <2>2
      <3>2. QED
        BY <1>2, <2>2, <3>1, DeletedClears
    <2>3. CASE x \notin DOMAIN cache.mem /\ cache.mini[x] = <<>>
      <3>1. cache' = cache
        BY <1>3, <2>3
      <3>2. Cleared(cache, x)
        BY <1>2, <2>3, NothingToClear
      <3>3. QED
        BY <3>1, <3>2
    <2>4. QED
      BY <2>1, <2>2, <2>3
  <1>5. /\ truth' \in [Cells -> Vals \cup {NoVal}]
        /\ \A y \in Cells : y # x => truth'[y] = truth[y]
    <2>1. truth \in [Cells -> Vals \cup {NoVal}]
      BY <1>1 DEF Steady
    <2>2. QED
      BY <1>2, <1>3, <2>1, SMT
  <1>6. Sound(cache', Lists, truth', On, enabled)
    BY <1>2, <1>4, <1>5, SoundRetold DEF Cleared
  <1>7. Stays(cache, cache', truth')
    <2>1. Used(cache') \in Nat /\ Used(cache') <= Used(cache)
      BY <1>4 DEF Cleared
    <2>2. Used(cache) \in Nat /\ Limit \in Nat
      BY <1>1, SteadyFacts, UsedIsBytes DEF CacheInv, Sound
    <2>3. Used(cache) <= Limit => Used(cache') <= Limit
      BY <2>1, <2>2, SMT
    <2>4. QED
      BY <1>6, <2>3 DEF Stays
  <1>8. FreshAnswer(answer', truth')
    BY <1>3 DEF FreshAnswer
  <1>9. QED
    BY <1>3, <1>5, <1>7, <1>8, StaysKeeps

\* mcd_check.
LEMMA CheckKeeps ==
  ASSUME CacheInv, setup' = setup, NEW d \in Doms, NEW k \in setup.keys, Check(d, k)
  PROVE  CacheInv'
  <1> DEFINE x == Cell(d, k)
  <1>1. Steady /\ k \in Keys /\ d \in alive /\ UNCHANGED switches /\ truth' = truth
        /\ answer' = <<>> /\ "check" \in setup.ops
    <2>1. UNCHANGED <<switches, truth>>
      BY DEF Check
    <2>2. QED
      BY <2>1, KeysAre, SMT DEF CacheInv, Check
  <1>2. /\ x \in Cells /\ (x[1] \in Doms => d = x[1]) /\ x[1] \in Lists
    BY <1>1, CellIs
  <1>3. IF x \in DOMAIN cache.mem THEN UNCHANGED cache
        ELSE \E r \in Malloc(cache, HeaderSize, d) :
               cache' = IF r.ok THEN Listed(r.cache, x, d, NoVal, HeaderSize) ELSE r.cache
    BY DEF Check
  <1> HIDE DEF x
  <1>4. Stays(cache, cache', truth)
    <2>1. CASE x \in DOMAIN cache.mem
      <3>1. cache' = cache
        BY <1>3, <2>1
      <3>2. QED
        BY <3>1, SelfStays
    <2>2. CASE x \notin DOMAIN cache.mem
      <3>1. PICK r \in Malloc(cache, HeaderSize, d) :
              cache' = IF r.ok THEN Listed(r.cache, x, d, NoVal, HeaderSize) ELSE r.cache
        BY <1>3, <2>2
      <3>2. Sound(cache, Lists, truth, On, enabled) /\ HeaderSize \in Nat
        BY <1>1, SizesAre DEF CacheInv
      <3>3. Granted(cache, r, HeaderSize, truth)
        BY <1>1, <3>2, MallocGrants
      <3>4. ~StaysShared
        BY <1>1 DEF StaysShared
      <3>5. ReadyFor(cache, truth, x, d, NoVal)
        BY <1>2, <2>2, <3>4 DEF ReadyFor
      <3> DEFINE t == IF r.ok THEN Listed(r.cache, x, d, NoVal, HeaderSize) ELSE r.cache
      <3>6. Stays(cache, t, truth)
        BY <1>1, <3>2, <3>3, <3>5, EnteredStays
      <3> HIDE DEF t
      <3>7. cache' = t
        BY <3>1 DEF t
      <3>8. QED
        BY <3>6, <3>7
    <2>3. QED
      BY <2>1, <2>2
  <1>5. truth' \in [Cells -> Vals \cup {NoVal}]
    BY <1>1 DEF Steady
  <1>6. FreshAnswer(answer', truth')
    BY <1>1 DEF FreshAnswer
  <1>7. Stays(cache, cache', truth')
    BY <1>1, <1>4
  <1>8. QED
    BY <1>1, <1>5, <1>6, <1>7, StaysKeeps

---------------------------------------------------------------------------
(* Flushing.                                                                *)

LEMMA ForgottenIs ==
  ASSUME Steady, NEW X
  PROVE  /\ Forgotten(X) \in [Cells -> Vals \cup {NoVal}]
         /\ \A x \in Cells : x[1] \notin X => Forgotten(X)[x] = truth[x]
  <1>1. truth \in [Cells -> Vals \cup {NoVal}]
    BY DEF Steady
  <1>2. QED
    BY <1>1, SMT DEF Forgotten

\* A cache without entries takes no memory.
LEMMA NothingUsed ==
  ASSUME NEW s, NEW L, Books(s, L), Shared \notin Doms, DOMAIN s.mem = {}
  PROVE  Used(s) = 0
  <1>1. Used(s) = Bytes(s, {})
    BY UsedIsBytes
  <1>2. Bytes(s, {}) = 0
    BY SumEmpty DEF Bytes, BytesOf
  <1>3. QED
    BY <1>1, <1>2

LEMMA DomsFlushedAre ==
  ASSUME NEW s, Record(s), FilesShaped(s), NEW X, NEW t \in DomsFlushed(s, X)
  PROVE  \E F : Flushed(s, t, X, F)
  <1>1. PICK D \in Sent(enabled, X) :
          t = [Emptied(s, X, D) EXCEPT !.dir0 = Emptied(s, X, D).dir0 \/ Dom0 \in D]
    BY DEF DomsFlushed
  <1> DEFINE b == Emptied(s, X, D).dir0 \/ Dom0 \in D
  <1>2. b \in BOOLEAN
    OBVIOUS
  <1>3. t = [Emptied(s, X, D) EXCEPT !.dir0 = b]
    BY <1>1
  <1> HIDE DEF b
  <1>4. Flushed(s, [Emptied(s, X, D) EXCEPT !.dir0 = b], X, D \X Keys)
    BY <1>2, EmptiedIs
  <1>5. QED
    BY <1>3, <1>4

LEMMA SharedFlushedAre ==
  ASSUME NEW s, Record(s), FilesShaped(s), NEW t \in SharedFlushed(s)
  PROVE  \E w, F : Flushed(s, w, {Shared}, F) /\ t = HeadersFreed(w)
  <1>1. PICK R \in Sent(enabled, {"FLUSH_ALL"}) :
          t = HeadersFreed(IF R = {} THEN Emptied(s, {Shared}, {})
                           ELSE [Emptied(s, {Shared}, Doms) EXCEPT !.dir0 = FALSE])
    BY DEF SharedFlushed
  <1>2. CASE R = {}
    <2>1. Flushed(s, Emptied(s, {Shared}, {}), {Shared}, {} \X Keys)
      BY EmptiedIs
    <2>2. t = HeadersFreed(Emptied(s, {Shared}, {}))
      BY <1>1, <1>2
    <2>3. QED
      BY <2>1, <2>2
  <1>3. CASE R # {}
    <2> DEFINE w == [Emptied(s, {Shared}, Doms) EXCEPT !.dir0 = FALSE]
    <2>1. Flushed(s, w, {Shared}, Doms \X Keys)
      BY EmptiedIs
    <2>2. t = HeadersFreed(w)
      BY <1>1, <1>3
    <2> HIDE DEF w
    <2>3. QED
      BY <2>1, <2>2
  <1>4. QED
    BY <1>2, <1>3

\* u is what counts after the lists X were flushed.
Told(u, X) == \A x \in Cells : x[1] \notin X => u[x] = truth[x]

\* t is sound with the lists M in use, and no larger than the cache.
After(t, M, u) ==
    Sound(t, M, u, On, enabled) /\ Used(t) \in Nat /\ Used(t) <= Used(cache)

LEMMA SharedFlushedSound ==
  ASSUME CacheInv, mode = Shared, NEW t \in SharedFlushed(cache), NEW M, NEW u,
         Told(u, {Shared})
  PROVE  After(t, M, u)
  <1>1. Steady /\ Sound(cache, {Shared}, truth, On, enabled)
    BY DEF CacheInv, Lists
  <1>2. Record(cache) /\ FilesShaped(cache) /\ Shared \notin Doms
    BY <1>1, SteadyFacts DEF Sound
  <1>3. PICK w, F : Flushed(cache, w, {Shared}, F) /\ t = HeadersFreed(w)
    BY <1>2, SharedFlushedAre, SMT
  <1>4. /\ Sound(w, M, u, On, enabled) /\ Used(w) \in Nat /\ Used(w) <= Used(cache)
        /\ OneList \/ NoHeaders(cache) => NoHeaders(w)
    <2>1. /\ OneList => {Shared} \ {Shared} \subseteq M
          /\ FilesKept => {Shared} \subseteq {Shared}
          /\ \A x \in Cells : x[1] \notin {Shared} => u[x] = truth[x]
      BY DEF Told
    <2>2. /\ Sound(w, M, u, On, enabled) /\ Used(w) \in Nat /\ Used(w) <= Used(cache)
          /\ (OneList /\ {Shared} \subseteq {Shared}) \/ NoHeaders(cache) => NoHeaders(w)
      BY <1>1, <1>2, <1>3, <2>1, SoundFlushed, SMT
    <2>3. QED
      BY <2>2
  <1>5. StaysShared /\ On => NoHeaders(w)
    BY <1>4 DEF StaysShared, OneList
  <1>6. HeadersKept /\ enabled => NoHeaders(w)
    <2>1. HeadersKept => OneList \/ NoFiles
      BY DEF HeadersKept, StaysPartition, OneList
    <2>2. NoFiles => NoHeaders(cache)
      BY <1>1 DEF Sound, HeadersTrue
    <2>3. QED
      BY <1>4, <2>1, <2>2
  <1>7. Sound(HeadersFreed(w), M, u, On, enabled) /\ SameBooks(w, HeadersFreed(w))
    BY <1>4, <1>5, <1>6, SoundFreed, SMT
  <1>8. Sound(t, M, u, On, enabled) /\ Used(t) = Used(w)
    BY <1>3, <1>7 DEF SameBooks, Used
  <1>9. QED
    BY <1>4, <1>8 DEF After

LEMMA DomsFlushedSound ==
  ASSUME CacheInv, ~FilesKept, NEW s, Sound(s, Lists, truth, On, enabled),
         Used(s) = Used(cache), NEW X, NEW t \in DomsFlushed(s, X),
         NEW M, OneList => Lists \ X \subseteq M, NEW u, Told(u, X)
  PROVE  /\ After(t, M, u)
         /\ (OneList /\ Lists \subseteq X) \/ NoHeaders(s) => NoHeaders(t)
         /\ OneList /\ Lists \subseteq X => Used(t) = 0
  <1>1. Record(s) /\ FilesShaped(s) /\ Shared \notin Doms
    BY SteadyFacts DEF Sound, CacheInv
  <1>2. PICK F : Flushed(s, t, X, F)
    BY <1>1, DomsFlushedAre
  <1>3. /\ FilesKept => Lists \subseteq X
        /\ \A x \in Cells : x[1] \notin X => u[x] = truth[x]
    BY DEF Told
  <1>4. /\ Sound(t, M, u, On, enabled) /\ Used(t) \in Nat /\ Used(t) <= Used(s)
        /\ (OneList /\ Lists \subseteq X) \/ NoHeaders(s) => NoHeaders(t)
        /\ OneList /\ Lists \subseteq X => DOMAIN t.mem = {}
    BY <1>1, <1>2, <1>3, SoundFlushed, SMT
  <1>5. OneList /\ Lists \subseteq X => Used(t) = 0
    BY <1>1, <1>4, NothingUsed DEF Sound
  <1>6. After(t, M, u)
    BY <1>4 DEF After
  <1>7. QED
    BY <1>4, <1>5, <1>6

LEMMA AllDomsFlushedSound ==
  ASSUME CacheInv, mode # Shared, NEW t \in AllDomsFlushed(cache),
         HeadersKept => NoFiles \/ GuestsOnly,
         NEW M, OneList => alive \cap {Dom0} \subseteq M, NEW u, Told(u, alive \ {Dom0})
  PROVE  After(t, M, u) /\ (GuestsOnly => Used(t) = 0)
  <1> DEFINE X == alive \ {Dom0}
  <1>1. PICK w \in DomsFlushed(cache, X) : t = HeadersFreed(w)
    BY DEF AllDomsFlushed
  <1>2. /\ Steady /\ Sound(cache, Lists, truth, On, enabled) /\ Lists = alive
        /\ Used(cache) = Used(cache)
    BY DEF CacheInv, Lists
  <1>3. ~StaysShared
    BY <1>2 DEF Steady, StaysShared
  <1>4. ~FilesKept /\ (OneList => Lists \ X \subseteq M)
    BY <1>2, <1>3 DEF FilesKept
  <1>5. GuestsOnly => OneList /\ Lists \subseteq X
    BY <1>2 DEF Steady, GuestsOnly, OneList
  <1> HIDE DEF X
  <1>6. /\ After(w, M, u)
        /\ (OneList /\ Lists \subseteq X) \/ NoHeaders(cache) => NoHeaders(w)
        /\ OneList /\ Lists \subseteq X => Used(w) = 0
    <2>1. Told(u, X)
      BY DEF X
    <2>2. QED
      BY <1>1, <1>2, <1>4, <2>1, DomsFlushedSound, SMT
  <1>7. HeadersKept /\ enabled => NoHeaders(w)
    <2>1. NoFiles => NoHeaders(cache)
      BY <1>2 DEF Sound, HeadersTrue
    <2>2. QED
      BY <1>5, <1>6, <2>1
  <1>8. StaysShared /\ On => NoHeaders(w)
    BY <1>3
  <1>9. Sound(w, M, u, On, enabled)
    BY <1>6 DEF After
  <1>10. Sound(HeadersFreed(w), M, u, On, enabled) /\ SameBooks(w, HeadersFreed(w))
    BY <1>7, <1>8, <1>9, SoundFreed, SMT
  <1>11. Sound(t, M, u, On, enabled) /\ Used(t) = Used(w)
    BY <1>1, <1>10 DEF SameBooks, Used
  <1>12. QED
    BY <1>5, <1>6, <1>11 DEF After

\* A flush that leaves the switches alone.
LEMMA AfterKeeps ==
  ASSUME CacheInv, setup' = setup, UNCHANGED switches, NEW X, truth' = Forgotten(X),
         answer' = <<>>, After(cache', Lists, truth')
  PROVE  CacheInv'
  <1>1. Steady
    BY DEF CacheInv
  <1>2. truth' \in [Cells -> Vals \cup {NoVal}]
    BY <1>1, ForgottenIs
  <1>3. Stays(cache, cache', truth')
    <2>1. Used(cache) \in Nat /\ Limit \in Nat
      BY <1>1, SteadyFacts, UsedIsBytes DEF CacheInv, Sound
    <2>2. Used(cache) <= Limit => Used(cache') <= Limit
      BY <2>1, SMT DEF After
    <2>3. QED
      BY <2>2 DEF Stays, After
  <1>4. FreshAnswer(answer', truth')
    BY DEF FreshAnswer
  <1>5. QED
    BY <1>2, <1>3, <1>4, StaysKeeps

\* mcd_flush.
LEMMA FlushKeeps ==
  ASSUME CacheInv, setup' = setup, NEW d \in Doms, Flush(d)
  PROVE  CacheInv'
  <1>1. /\ Steady /\ d \in alive /\ answer' = <<>> /\ UNCHANGED switches
        /\ Sound(cache, Lists, truth, On, enabled)
    BY DEF CacheInv, Flush
  <1>2. CASE mode = Shared
    <2>1. cache' \in SharedFlushed(cache) /\ truth' = Forgotten({Shared})
      BY <1>2 DEF Flush
    <2>2. Told(truth', {Shared})
      BY <1>1, <2>1, ForgottenIs, SMT DEF Told
    <2>3. After(cache', Lists, truth')
      BY <1>2, <2>1, <2>2, SharedFlushedSound
    <2>4. QED
      BY <1>1, <2>1, <2>3, AfterKeeps
  <1>3. CASE mode # Shared
    <2>1. cache' \in DomsFlushed(cache, {d}) /\ truth' = Forgotten({d})
      BY <1>3 DEF Flush
    <2>2. Told(truth', {d})
      BY <1>1, <2>1, ForgottenIs, SMT DEF Told
    <2>3. ~FilesKept
      BY <1>1, <1>3 DEF FilesKept, StaysShared, Steady
    <2>4. OneList => Lists \ {d} \subseteq Lists
      OBVIOUS
    <2>5. After(cache', Lists, truth')
      BY <1>1, <2>1, <2>2, <2>3, <2>4, DomsFlushedSound, SMT
    <2>6. QED
      BY <1>1, <2>1, <2>5, AfterKeeps
  <1>4. QED
    BY <1>2, <1>3

---------------------------------------------------------------------------
(* The operations of the toolstack.                                         *)

\* No get answers.
LEMMA NoAnswer == ASSUME answer' = <<>> PROVE FreshAnswer(answer', truth')
  BY DEF FreshAnswer

\* A change of mode flushes the lists of the old one, but for those of domain
\* 0, so that the new mode begins within the limit.
LEMMA SwitchKeeps ==
  ASSUME CacheInv, setup' = setup, ~ModesStay, NEW m \in {Shared, Partition},
         SwitchTo(m), pmode' \in {"BE", "WB", "AD"}
  PROVE  CacheInv'
  <1>1. /\ Steady /\ Sound(cache, Lists, truth, On, enabled) /\ WithinLimit
        /\ mode' = m /\ answer' = <<>>
    BY DEF CacheInv, SwitchTo
  <1>2. maxBytes' = maxBytes /\ alive' = alive /\ enabled' = enabled /\ user' = user
    BY SMT DEF SwitchTo
  <1>3. On' = On /\ Limit' = Limit /\ Lists' = (IF m = Shared THEN {Shared} ELSE alive)
    BY <1>1, <1>2 DEF On, Limit, Lists
  <1>4. /\ Shared \notin Doms /\ Limit \in Nat /\ (HeadersKept => NoFiles)
        /\ (OneList => GuestsOnly)
    BY <1>1, SteadyFacts DEF HeadersKept, StaysPartition, OneList
  <1>5. truth' \in [Cells -> Vals \cup {NoVal}]
    <2>1. truth' = truth \/ \E X : truth' = Forgotten(X)
      BY DEF SwitchTo
    <2>2. QED
      BY <1>1, <2>1, ForgottenIs DEF Steady
  <1>6. Steady'
    <2>1. ~ModesStay' /\ (NoFiles' => NoFiles)
      BY PremisesStay
    <2>2. QED
      BY <1>1, <1>2, <1>5, <2>1, SMT DEF Steady
  <1>7. Truthful => FreshAnswer(answer', truth')
    BY <1>1, NoAnswer
  <1>8. CASE m = mode
    <2>1. cache' = cache /\ truth' = truth /\ Lists' = Lists
      BY <1>3, <1>8 DEF SwitchTo, Lists
    <2>2. Sound(cache', Lists', truth', On', enabled')
      BY <1>1, <1>2, <1>3, <2>1
    <2>3. mode' = Shared /\ OneList => Used(cache') <= Limit'
      BY <1>1, <1>3, <1>8, <2>1 DEF WithinLimit, OneList
    <2>4. QED
      BY <1>6, <1>7, <2>2, <2>3, InvPrimed, SMT
  <1>9. CASE m # mode /\ m = Shared
    <2>1. cache' \in AllDomsFlushed(cache) /\ truth' = Forgotten(alive \ {Dom0})
      BY <1>9 DEF SwitchTo
    <2>2. Told(truth', alive \ {Dom0})
      BY <1>1, <2>1, ForgottenIs, SMT DEF Told
    <2>3. OneList => alive \cap {Dom0} \subseteq {Shared}
      BY <1>1, <1>4 DEF GuestsOnly, Steady
    <2>4. After(cache', {Shared}, truth') /\ (GuestsOnly => Used(cache') = 0)
      BY <1>4, <1>9, <2>1, <2>2, <2>3, AllDomsFlushedSound
    <2>5. Sound(cache', Lists', truth', On', enabled')
      BY <1>2, <1>3, <1>9, <2>4 DEF After
    <2>6. mode' = Shared /\ OneList => Used(cache') <= Limit'
      <3>1. 0 <= Limit
        BY <1>4, SMT
      <3>2. QED
        BY <1>3, <1>4, <2>4, <3>1
    <2>7. QED
      BY <1>6, <1>7, <2>5, <2>6, InvPrimed, SMT
  <1>10. CASE m # mode /\ m # Shared
    <2>1. /\ mode = Shared /\ mode' # Shared
          /\ cache' \in SharedFlushed(cache) /\ truth' = Forgotten({Shared})
      BY <1>1, <1>10, SMT DEF SwitchTo, Steady
    <2>2. Told(truth', {Shared})
      BY <1>1, <2>1, ForgottenIs, SMT DEF Told
    <2>3. After(cache', Lists', truth')
      BY <2>1, <2>2, SharedFlushedSound
    <2>4. Sound(cache', Lists', truth', On', enabled')
      BY <1>2, <1>3, <2>3 DEF After
    <2>5. QED
      BY <1>6, <1>7, <2>1, <2>4, InvPrimed, SMT
  <1>11. QED
    BY <1>8, <1>9, <1>10

\* set_cache_mode(0, m).
LEMMA SetCacheModeKeeps ==
  ASSUME CacheInv, setup' = setup, NEW m \in {Shared, Partition}, SetCacheMode(m)
  PROVE  CacheInv'
  <1>1. ~ModesStay
    BY DEF ModesStay, SetCacheMode
  <1>2. SwitchTo(m) /\ pmode' \in {"BE", "WB", "AD"}
    BY DEF SetCacheMode, CacheInv, Steady
  <1>3. QED
    BY <1>1, <1>2, SwitchKeeps

\* set_cache_mode(2, p).
LEMMA SetPartitionModeKeeps ==
  ASSUME CacheInv, setup' = setup, NEW p \in {"BE", "WB", "AD"}, SetPartitionMode(p)
  PROVE  CacheInv'
  <1>1. ~ModesStay
    BY DEF ModesStay, SetPartitionMode
  <1>2. PICK m \in {Shared, Partition} : SwitchTo(m)
    BY DEF SetPartitionMode
  <1>3. pmode' \in {"BE", "WB", "AD"}
    BY DEF SetPartitionMode
  <1>4. QED
    BY <1>1, <1>2, <1>3, SwitchKeeps

\* set_param(25, _, 1).
LEMMA ResetKeeps ==
  ASSUME CacheInv, setup' = setup, Reset
  PROVE  CacheInv'
  <1>1. Steady /\ answer' = <<>> /\ UNCHANGED switches /\ "reset" \in setup.ops
    BY DEF CacheInv, Reset
  <1>2. CASE mode = Shared
    <2>1. cache' \in SharedFlushed(cache) /\ truth' = Forgotten({Shared})
      BY <1>2 DEF Reset
    <2>2. Told(truth', {Shared})
      BY <1>1, <2>1, ForgottenIs, SMT DEF Told
    <2>3. After(cache', Lists, truth')
      BY <1>2, <2>1, <2>2, SharedFlushedSound
    <2>4. QED
      BY <1>1, <2>1, <2>3, AfterKeeps, SMT
  <1>3. CASE mode # Shared
    <2>1. cache' \in AllDomsFlushed(cache) /\ truth' = Forgotten(alive \ {Dom0})
      BY <1>3 DEF Reset
    <2>2. Told(truth', alive \ {Dom0})
      BY <1>1, <2>1, ForgottenIs, SMT DEF Told
    <2>3. HeadersKept => NoFiles \/ GuestsOnly
      BY <1>1, <1>3 DEF HeadersKept, StaysPartition, Steady
    <2>4. OneList => alive \cap {Dom0} \subseteq Lists
      BY <1>3 DEF Lists
    <2>5. After(cache', Lists, truth')
      BY <1>3, <2>1, <2>2, <2>3, <2>4, AllDomsFlushedSound
    <2>6. QED
      BY <1>1, <2>1, <2>5, AfterKeeps
  <1>4. QED
    BY <1>2, <1>3

\* set_memsize: the evictions make room down to the new maximum.
LEMMA SetMemsizeKeeps ==
  ASSUME CacheInv, setup' = setup, NEW m \in Limits, SetMemsize(m)
  PROVE  CacheInv'
  <1>1. /\ Steady /\ Sound(cache, Lists, truth, On, enabled) /\ WithinLimit
        /\ maxBytes' = m /\ answer' = <<>>
    BY DEF CacheInv, SetMemsize
  <1>2. /\ mode' = mode /\ pmode' = pmode /\ alive' = alive /\ enabled' = enabled
        /\ user' = user /\ truth' = truth
    BY SMT DEF SetMemsize
  <1>3. On' = On /\ Lists' = Lists
    BY <1>2 DEF On, Lists
  <1>4. /\ Books(cache, Lists) /\ Shared \notin Doms /\ setup.heap \in Nat
        /\ Limits \subseteq Nat /\ Limit \in Nat
    BY <1>1, SteadyFacts, CacheConstants DEF Sound
  <1>5. m \in Nat /\ Used(cache) \in Nat /\ Shrunk(cache, cache)
    BY <1>4, UsedIsBytes, ShrunkSelf
  <1>6. Steady'
    <2>1. (ModesStay' => ModesStay) /\ (NoFiles' => NoFiles)
      BY PremisesStay
    <2>2. QED
      BY <1>1, <1>2, <2>1, SMT DEF Steady
  <1>7. /\ Sound(cache', Lists, truth, On, enabled) /\ Shrunk(cache, cache')
        /\ mode = Shared /\ OneList /\ m # 0 => Used(cache') <= m
    <2>1. CASE m # 0 /\ Used(cache) > m
      <3>1. PICK r \in Free(cache, Used(cache) - m, Dom0) : cache' = r.cache
        BY <2>1 DEF SetMemsize
      <3>2. Used(cache) - m \in Nat
        BY <1>5, <2>1, SMT
      <3>3. Room(cache, r, Used(cache) - m, truth)
        BY <1>1, <3>2, FreeMakesRoom, SMT
      <3>4. /\ Sound(cache', Lists, truth, On, enabled) /\ Shrunk(cache, cache')
            /\ mode = Shared /\ OneList =>
                 Used(cache') = 0 \/ Used(cache') + (Used(cache) - m) <= Used(cache)
        BY <3>1, <3>3 DEF Room
      <3>5. Used(cache') \in Nat
        BY <3>4 DEF Shrunk
      <3>6. QED
        BY <1>5, <3>4, <3>5, SMT
    <2>2. CASE ~(m # 0 /\ Used(cache) > m)
      <3>1. cache' = cache
        BY <2>2 DEF SetMemsize
      <3>2. m # 0 => Used(cache) <= m
        BY <1>5, <2>2, SMT
      <3>3. QED
        BY <1>1, <1>5, <3>1, <3>2
    <2>3. QED
      BY <2>1, <2>2
  <1>8. mode' = Shared /\ OneList => Used(cache') <= Limit'
    <2>1. mode = Shared /\ OneList => Used(cache) <= Limit
      BY <1>1 DEF WithinLimit, OneList
    <2>2. Limit <= setup.heap
      BY <1>1, <1>4, SteadyFacts, SMT DEF Limit
    <2>3. Used(cache') \in Nat /\ Used(cache') <= Used(cache)
      BY <1>7 DEF Shrunk
    <2>4. mode = Shared /\ OneList => Used(cache') <= setup.heap
      BY <1>4, <1>5, <2>1, <2>2, <2>3, SMT
    <2>5. Limit' = setup.heap \/ (m # 0 /\ Limit' = m)
      BY <1>1 DEF Limit
    <2>6. QED
      BY <1>2, <1>7, <2>4, <2>5
  <1>9. Sound(cache', Lists', truth', On', enabled')
    BY <1>2, <1>3, <1>7
  <1>10. QED
    BY <1>1, <1>6, <1>8, <1>9, InvPrimed, NoAnswer, SMT

\* set_param(25, _, 2).
LEMMA ToggleUserKeeps ==
  ASSUME CacheInv, setup' = setup, ToggleUser
  PROVE  CacheInv'
  <1>1. /\ Steady /\ Sound(cache, Lists, truth, On, enabled) /\ WithinLimit
        /\ "toggle" \in setup.ops /\ user' = ~user /\ answer' = <<>>
    BY DEF CacheInv, ToggleUser
  <1>2. /\ mode' = mode /\ pmode' = pmode /\ alive' = alive /\ enabled' = enabled
        /\ maxBytes' = maxBytes /\ truth' = truth /\ cache' = cache
    BY SMT DEF ToggleUser
  <1>3. Limit' = Limit /\ Lists' = Lists
    BY <1>2 DEF Limit, Lists
  <1>4. ~StaysShared /\ ~FilesKept
    BY <1>1 DEF StaysShared, FilesKept
  <1>5. Sound(cache, Lists, truth, On', enabled)
    BY <1>1, <1>4 DEF Sound, HeadersTrue, FilesTrue
  <1>6. Steady'
    <2>1. (ModesStay' => ModesStay) /\ (NoFiles' => NoFiles) /\ user' \in BOOLEAN
      BY <1>1, PremisesStay
    <2>2. QED
      BY <1>1, <1>2, <2>1, SMT DEF Steady
  <1>7. mode' = Shared /\ OneList => Used(cache') <= Limit'
    BY <1>1, <1>2, <1>3 DEF WithinLimit, OneList
  <1>8. Sound(cache', Lists', truth', On', enabled')
    BY <1>2, <1>3, <1>5
  <1>9. QED
    BY <1>1, <1>6, <1>7, <1>8, InvPrimed, NoAnswer, SMT

\* The same entries and mini-headers, with fewer files.
SameLists(s, t) == t.mem = s.mem /\ t.mini = s.mini /\ t.shr = s.shr /\ t.pri = s.pri

LEMMA SoundLessFiles ==
  ASSUME NEW s, NEW L, NEW tr, NEW on, NEW en, Sound(s, L, tr, on, en), ~FilesKept,
         NEW t, NEW M, NEW F, Record(t), SameLists(s, t), Books(t, M),
         OneList => L \subseteq M, LessFiles(s, t, F)
  PROVE  Sound(t, M, tr, on, en)
  <1>1. t.mem = s.mem /\ t.mini = s.mini
    BY DEF SameLists
  <1>2. FilesShaped(t)
    BY FilesLess DEF Sound
  <1>3. HeadersPlaced(t, M) /\ EntriesTrue(t, tr) /\ HeadersTrue(t, tr, on)
    BY <1>1 DEF Sound, HeadersPlaced, EntriesTrue, HeadersTrue, NoHeaders
  <1>4. FilesTrue(t, on) /\ HeadersPaged(t, en)
    BY <1>1 DEF Sound, FilesTrue, HeadersPaged
  <1>5. QED
    BY <1>2, <1>3, <1>4 DEF Sound

\* t is the cache w with a domain d that is new: it is charged for nothing.
NewDomain(w, t, d) ==
    /\ SameLists(w, t) /\ t.used = [w.used EXCEPT ![d] = 0]
    /\ "domains" \in setup.ops /\ d \in Doms \ alive

LEMMA BooksNewDomain ==
  ASSUME Steady, NEW w, NEW d, NEW t, Books(w, Lists), NewDomain(w, t, d),
         NEW M, OneList => Lists \subseteq M
  PROVE  Books(t, M)
  <1>1. /\ t.mem = w.mem /\ t.shr = w.shr /\ t.pri = w.pri
        /\ t.used = [w.used EXCEPT ![d] = 0] /\ d \in Doms /\ d \notin alive
    BY DEF SameLists, NewDomain
  <1>2. \A V : Bytes(t, V) = Bytes(w, V)
    BY <1>1 DEF Bytes, SizeIn
  <1>3. \A X : CellsOf(t, X) = CellsOf(w, X) /\ Own(t, X) = Own(w, X)
    BY <1>1 DEF CellsOf, Own
  <1>4. EntriesShaped(t) /\ EntriesPlaced(t, M)
    BY <1>1 DEF Books, EntriesShaped, EntriesPlaced
  <1>5. Counted(t)
    <2>1. /\ w.used \in [Doms -> Int] /\ w.shr = Bytes(w, CellsOf(w, {Shared}))
          /\ w.pri = Bytes(w, CellsOf(w, Doms))
      BY DEF Books, Counted
    <2>2. t.used \in [Doms -> Int]
      BY <1>1, <2>1, SMT
    <2>3. t.shr = w.shr /\ t.pri = w.pri
      BY <1>1
    <2>4. /\ t.shr = Bytes(t, CellsOf(t, {Shared}))
          /\ t.pri = Bytes(t, CellsOf(t, Doms))
      <3>1. /\ CellsOf(t, {Shared}) = CellsOf(w, {Shared})
            /\ CellsOf(t, Doms) = CellsOf(w, Doms)
        BY <1>3
      <3>2. QED
        BY <1>2, <2>1, <2>3, <3>1, SMT
    <2>5. QED
      BY <2>2, <2>4 DEF Counted
  <1>6. ASSUME DomainsApart PROVE Charged(t)
    <2>1. OneList /\ mode = Partition
      BY <1>6 DEF DomainsApart, StaysPartition, OneList, NewDomain, Steady
    <2>2. Lists = alive /\ alive \subseteq Doms
      BY <2>1, SMT DEF Lists, Steady, Shared, Partition
    <2>3. \A x \in DOMAIN w.mem : w.mem[x].dom \in alive
      BY <2>1, <2>2 DEF Books, EntriesPlaced
    <2>4. Own(w, d) = {}
      BY <1>1, <2>3 DEF Own
    <2>5. Bytes(w, {}) = 0
      BY SumEmpty DEF Bytes, BytesOf
    <2>6. Charged(w) /\ w.used \in [Doms -> Int]
      BY <1>6 DEF Books, Counted
    <2>7. \A e \in Doms : t.used[e] = Bytes(w, Own(w, e))
      <3>1. \A e \in Doms : t.used[e] = IF e = d THEN 0 ELSE w.used[e]
        BY <1>1, <2>6, SMT
      <3>2. QED
        BY <2>4, <2>5, <2>6, <3>1 DEF Charged
    <2>8. QED
      BY <1>2, <1>3, <2>7 DEF Charged
  <1>7. QED
    BY <1>4, <1>5, <1>6 DEF Books

\* mcd_domain_create.
LEMMA CreateKeeps ==
  ASSUME CacheInv, setup' = setup, NEW d \in Doms, Create(d)
  PROVE  CacheInv'
  <1>1. /\ Steady /\ Sound(cache, Lists, truth, On, enabled) /\ WithinLimit
        /\ "domains" \in setup.ops /\ d \notin alive /\ answer' = <<>>
    BY DEF CacheInv, Create
  <1>2. /\ mode' = mode /\ pmode' = pmode /\ enabled' = enabled
        /\ maxBytes' = maxBytes /\ truth' = truth /\ user' = user
    BY DEF Create
  <1>3. On' = On /\ Limit' = Limit
    BY <1>2 DEF On, Limit
  <1>4. PICK r \in Malloc(cache, DomainSize, d) :
          IF r.ok
          THEN /\ alive' = alive \cup {d}
               /\ \E D \in Sent(enabled, {d}) :
                    cache' = [r.cache EXCEPT !.used[d] = 0,
                                             !.files = Without(r.cache.files, D \X Keys)]
          ELSE cache' = r.cache /\ UNCHANGED alive
    BY DEF Create
  <1>5. Stays(cache, r.cache, truth)
    <2>1. DomainSize \in Nat
      BY CacheConstants, SMT
    <2>2. Granted(cache, r, DomainSize, truth)
      BY <1>1, <2>1, MallocGrants, SMT
    <2>3. QED
      BY <1>1, <2>2, GrantedStays
  <1>6. Sound(r.cache, Lists, truth, On, enabled)
    BY <1>5 DEF Stays
  <1>7. CASE r.ok
    <2> DEFINE w == r.cache
    <2>1. PICK D \in Sent(enabled, {d}) :
            cache' = [w EXCEPT !.used[d] = 0, !.files = Without(w.files, D \X Keys)]
      BY <1>4, <1>7
    <2> DEFINE F == D \X Keys
               g == Without(w.files, F)
    <2>2. cache' = [w EXCEPT !.used = [w.used EXCEPT ![d] = 0], !.files = g]
      BY <2>1
    <2> HIDE DEF w, g, F
    <2>3. /\ Record(cache') /\ cache'.mem = w.mem /\ cache'.mini = w.mini
          /\ cache'.shr = w.shr /\ cache'.pri = w.pri /\ cache'.files = g
          /\ cache'.dir0 = w.dir0 /\ cache'.used = [w.used EXCEPT ![d] = 0]
      <3>1. Record(w)
        BY <1>6 DEF Sound, w
      <3>2. QED
        BY <2>2, <3>1 DEF Record
    <2>4. NewDomain(w, cache', d) /\ SameLists(w, cache') /\ Used(cache') = Used(w)
      BY <1>1, <2>3 DEF NewDomain, SameLists, Used
    <2>5. alive' = alive \cup {d}
      BY <1>4, <1>7
    <2>6. Lists \subseteq Lists'
      BY <1>2, <2>5 DEF Lists
    <2>7. Books(cache', Lists')
      <3>1. Books(w, Lists)
        BY <1>6 DEF Sound, w
      <3>2. QED
        BY <1>1, <2>4, <2>6, <3>1, BooksNewDomain
    <2>8. LessFiles(w, cache', F)
      BY <1>6, <2>3 DEF LessFiles, w, g, Sound, FilesShaped
    <2>9. ~FilesKept
      BY <1>1 DEF FilesKept
    <2>10. Sound(cache', Lists', truth, On, enabled)
      <3>1. Sound(w, Lists, truth, On, enabled)
        BY <1>6 DEF w
      <3>2. QED
        BY <2>3, <2>4, <2>6, <2>7, <2>8, <2>9, <3>1, SoundLessFiles, SMT
    <2>11. Steady'
      <3>1. (ModesStay' => ModesStay) /\ (NoFiles' => NoFiles)
        BY PremisesStay
      <3>2. QED
        BY <1>1, <1>2, <2>5, <3>1, SMT DEF Steady
    <2>12. mode' = Shared /\ OneList => Used(cache') <= Limit'
      BY <1>1, <1>2, <1>3, <1>5, <2>4 DEF Stays, WithinLimit, OneList, w
    <2>13. Sound(cache', Lists', truth', On', enabled')
      BY <1>2, <1>3, <2>10
    <2>14. QED
      BY <1>1, <2>11, <2>12, <2>13, InvPrimed, NoAnswer, SMT
  <1>8. CASE ~r.ok
    <2>1. cache' = r.cache /\ UNCHANGED switches
      BY <1>2, <1>4, <1>8, SMT DEF switches
    <2>2. Stays(cache, cache', truth') /\ truth' \in [Cells -> Vals \cup {NoVal}]
      BY <1>1, <1>2, <1>5, <2>1 DEF Steady
    <2>3. QED
      BY <1>1, <2>1, <2>2, StaysKeeps, NoAnswer, SMT
  <1>9. QED
    BY <1>7, <1>8

\* mcd_destroy.
LEMMA DestroyKeeps ==
  ASSUME CacheInv, setup' = setup, NEW d \in Doms, Destroy(d)
  PROVE  CacheInv'
  <1>1. /\ Steady /\ Sound(cache, Lists, truth, On, enabled) /\ WithinLimit
        /\ "domains" \in setup.ops /\ answer' = <<>>
        /\ alive' = alive \ {d} /\ truth' = Forgotten({d})
    BY DEF CacheInv, Destroy
  <1>2. /\ mode' = mode /\ pmode' = pmode /\ enabled' = enabled
        /\ maxBytes' = maxBytes /\ user' = user
    BY SMT DEF Destroy
  <1>3. On' = On /\ Limit' = Limit /\ Lists \ {d} \subseteq Lists'
    BY <1>1, <1>2 DEF On, Limit, Lists
  <1>4. PICK D \in Sent(enabled, {d}) :
          cache' \in DomsFlushed([cache EXCEPT !.files = Without(cache.files, D \X Keys)], {d})
    BY DEF Destroy
  <1> DEFINE F == D \X Keys
             g == Without(cache.files, F)
             w == [cache EXCEPT !.files = g]
  <1>5. cache' \in DomsFlushed(w, {d})
    BY <1>4
  <1>6. ~FilesKept
    BY <1>1 DEF FilesKept
  <1>7. Sound(w, Lists, truth, On, enabled) /\ Used(w) = Used(cache)
    <2>1. w = [cache EXCEPT !.files = g]
      BY SMT
    <2> HIDE DEF w, g, F
    <2>2. /\ Record(w) /\ w.mem = cache.mem /\ w.mini = cache.mini /\ w.shr = cache.shr
          /\ w.pri = cache.pri /\ w.files = g /\ w.dir0 = cache.dir0
          /\ w.used = cache.used
      <3>1. Record(cache)
        BY <1>1 DEF Sound
      <3>2. QED
        BY <2>1, <3>1, SMT DEF Record
    <2>3. SameLists(cache, w) /\ SameBooks(cache, w)
      BY <2>2 DEF SameLists, SameBooks
    <2>4. Books(w, Lists) /\ Used(w) = Used(cache)
      BY <1>1, <2>3, BooksSame DEF Sound
    <2>5. LessFiles(cache, w, F)
      BY <1>1, <2>2 DEF LessFiles, g, Sound, FilesShaped
    <2>6. QED
      BY <1>1, <1>6, <2>2, <2>3, <2>4, <2>5, SoundLessFiles, SMT
  <1> HIDE DEF w, g, F
  <1>8. Told(truth', {d})
    BY <1>1, ForgottenIs, SMT DEF Told
  <1>9. After(cache', Lists', truth')
    BY <1>3, <1>5, <1>6, <1>7, <1>8, DomsFlushedSound, SMT
  <1>10. Sound(cache', Lists', truth', On', enabled')
    BY <1>2, <1>3, <1>9 DEF After
  <1>11. mode' = Shared /\ OneList => Used(cache') <= Limit'
    <2>1. Used(cache) \in Nat /\ Limit \in Nat
      BY <1>1, SteadyFacts, UsedIsBytes DEF Sound
    <2>2. Used(cache') \in Nat /\ Used(cache') <= Used(cache)
      BY <1>9 DEF After
    <2>3. Used(cache) <= Limit => Used(cache') <= Limit
      BY <2>1, <2>2, SMT
    <2>4. QED
      BY <1>1, <1>2, <1>3, <2>3 DEF WithinLimit, OneList
  <1>12. Steady'
    <2>1. (ModesStay' => ModesStay) /\ (NoFiles' => NoFiles)
      BY PremisesStay
    <2>2. truth' \in [Cells -> Vals \cup {NoVal}]
      BY <1>1, ForgottenIs
    <2>3. QED
      BY <1>1, <1>2, <2>1, <2>2 DEF Steady
  <1>13. QED
    BY <1>1, <1>10, <1>11, <1>12, InvPrimed, NoAnswer, SMT

\* MCD_EVENT_OP_DISABLE: the pages of the mini-headers are freed, and no get
\* looks at them until the daemon is back.
LEMMA DaemonStopsKeeps ==
  ASSUME CacheInv, setup' = setup, DaemonStops
  PROVE  CacheInv'
  <1>1. /\ Steady /\ Sound(cache, Lists, truth, On, enabled) /\ WithinLimit
        /\ enabled' = FALSE /\ answer' = <<>> /\ cache' = HeadersFreed(cache)
    BY DEF CacheInv, DaemonStops
  <1>2. /\ mode' = mode /\ pmode' = pmode /\ alive' = alive
        /\ maxBytes' = maxBytes /\ truth' = truth /\ user' = user
    BY SMT DEF DaemonStops
  <1>3. Limit' = Limit /\ Lists' = Lists /\ On' = FALSE
    BY <1>1, <1>2 DEF On, Limit, Lists
  <1>4. Sound(cache, Lists, truth, FALSE, FALSE)
    BY <1>1 DEF Sound, HeadersTrue, FilesTrue, HeadersPaged
  <1>5. Sound(cache', Lists, truth, FALSE, FALSE) /\ SameBooks(cache, cache')
    BY <1>1, <1>4, SoundFreed
  <1>6. Sound(cache', Lists', truth', On', enabled')
    BY <1>1, <1>2, <1>3, <1>5
  <1>7. mode' = Shared /\ OneList => Used(cache') <= Limit'
    BY <1>1, <1>2, <1>3, <1>5 DEF WithinLimit, OneList, SameBooks, Used
  <1>8. Steady'
    <2>1. (ModesStay' => ModesStay) /\ (NoFiles' => NoFiles)
      BY PremisesStay
    <2>2. QED
      BY <1>1, <1>2, <2>1 DEF Steady
  <1>9. QED
    BY <1>1, <1>6, <1>7, <1>8, InvPrimed, NoAnswer, SMT

\* MCD_EVENT_OP_ENABLE: the shared lists of mini-headers, whose pages may be
\* gone, are emptied before they are used again.
LEMMA DaemonStartsKeeps ==
  ASSUME CacheInv, setup' = setup, DaemonStarts
  PROVE  CacheInv'
  <1> DEFINE m == [x \in Cells |-> IF x[1] = Shared THEN <<>> ELSE cache.mini[x]]
  <1>1. /\ Steady /\ Sound(cache, Lists, truth, On, enabled) /\ WithinLimit
        /\ enabled' = TRUE /\ answer' = <<>> /\ "restart" \in setup.ops
        /\ cache' = [cache EXCEPT !.mini = m, !.files = <<>>, !.dir0 = FALSE]
    BY DEF CacheInv, DaemonStarts
  <1>2. /\ mode' = mode /\ pmode' = pmode /\ alive' = alive
        /\ maxBytes' = maxBytes /\ truth' = truth /\ user' = user
    BY SMT DEF DaemonStarts
  <1>3. Limit' = Limit /\ Lists' = Lists
    BY <1>2 DEF Limit, Lists
  <1>4. ~NoFiles
    BY <1>1 DEF NoFiles
  <1> HIDE DEF m
  <1>5. /\ Record(cache') /\ SameBooks(cache, cache') /\ cache'.mini = m
        /\ cache'.files = <<>> /\ cache'.dir0 = FALSE
    <2>1. Record(cache)
      BY <1>1 DEF Sound
    <2>2. QED
      BY <1>1, <2>1 DEF Record, SameBooks
  <1>6. Books(cache', Lists) /\ Used(cache') = Used(cache) /\ cache'.mem = cache.mem
    BY <1>1, <1>5, BooksSame DEF Sound, SameBooks
  <1>7. cache.mini \in [Cells -> Seq(Header)]
    BY <1>1 DEF Sound, HeadersPlaced
  <1>8. \A x \in Cells : cache'.mini[x] = <<>> \/ (x[1] # Shared /\ cache'.mini[x] = cache.mini[x])
    BY <1>5 DEF m
  <1>9. HeadersPlaced(cache', Lists)
    <2>1. cache'.mini \in [Cells -> Seq(Header)]
      <3>1. \A x \in Cells : (IF x[1] = Shared THEN <<>> ELSE cache.mini[x]) \in Seq(Header)
        BY <1>7, NoHeads
      <3>2. QED
        BY <1>5, <3>1 DEF m
    <2>2. ASSUME NEW x \in Cells, NEW h \in Heads(cache'.mini[x])
          PROVE  (x[1] \in Doms => h.dom = x[1]) /\ (OneList => x[1] \in Lists)
      BY <1>1, <1>8, NoHeads DEF Sound, HeadersPlaced
    <2>3. QED
      BY <2>1, <2>2 DEF HeadersPlaced
  <1>10. StaysShared \/ HeadersKept => NoHeaders(cache')
    <2>1. StaysShared \/ HeadersKept => OneList /\ mode = Shared
      BY <1>1, <1>4 DEF StaysShared, HeadersKept, OneList, Steady
    <2>2. ASSUME OneList, mode = Shared, NEW x \in Cells PROVE cache'.mini[x] = <<>>
      <3>1. Lists = {Shared}
        BY <2>2 DEF Lists
      <3>2. Heads(cache.mini[x]) # {} => x[1] = Shared
        BY <1>1, <2>2, <3>1 DEF Sound, HeadersPlaced
      <3>3. cache.mini[x] # <<>> => Heads(cache.mini[x]) # {}
        <4>1. \A q \in Seq(Header) : q # <<>> => 1 \in DOMAIN q
          BY SMT
        <4>2. QED
          BY <1>7, <4>1 DEF Heads
      <3>4. QED
        BY <1>8, <3>2, <3>3
    <2>3. QED
      BY <2>1, <2>2 DEF NoHeaders
  <1>11. FilesShaped(cache') /\ EntriesTrue(cache', truth)
    <2>1. DOMAIN <<>> = {}
      BY SMT
    <2>2. DOMAIN cache'.files = {}
      BY <1>5, <2>1
    <2>3. QED
      BY <1>1, <1>5, <1>6, <2>2 DEF FilesShaped, Sound, EntriesTrue
  <1>12. HeadersTrue(cache', truth, On') /\ FilesTrue(cache', On') /\ HeadersPaged(cache', TRUE)
    <2>1. HeadersTrue(cache', truth, On')
      BY <1>4, <1>10 DEF HeadersTrue, NoHeaders
    <2>2. FilesTrue(cache', On') /\ HeadersPaged(cache', TRUE)
      BY <1>10, NoHeads DEF FilesTrue, FilesKept, HeadersPaged, NoHeaders
    <2>3. QED
      BY <2>1, <2>2
  <1>13. Sound(cache', Lists', truth', On', enabled')
    BY <1>1, <1>2, <1>3, <1>5, <1>6, <1>9, <1>11, <1>12 DEF Sound
  <1>14. mode' = Shared /\ OneList => Used(cache') <= Limit'
    BY <1>1, <1>2, <1>3, <1>6 DEF WithinLimit, OneList
  <1>15. Steady'
    <2>1. (ModesStay' => ModesStay) /\ ~NoFiles'
      BY <1>4, PremisesStay
    <2>2. QED
      BY <1>1, <1>2, <2>1, SMT DEF Steady
  <1>16. QED
    BY <1>1, <1>13, <1>14, <1>15, InvPrimed, NoAnswer, SMT

---------------------------------------------------------------------------
(* The theorems.                                                            *)

\* The cache begins empty, in the modes of its setup.
LEMMA InitSound == Init => CacheInv
  <1> SUFFICES ASSUME Init PROVE CacheInv
    BY SMT
  <1>1. /\ setup \in Setups /\ mode = setup.mode /\ pmode = setup.pmode
        /\ enabled = setup.daemon /\ maxBytes = 0 /\ alive = Doms /\ user = TRUE
        /\ truth = [x \in Cells |-> NoVal] /\ answer = <<>>
    BY SMT DEF Init
  <1>2. /\ cache.mem = <<>> /\ cache.mini = [x \in Cells |-> <<>>] /\ cache.files = <<>>
        /\ cache.dir0 = FALSE /\ cache.shr = 0 /\ cache.pri = 0
        /\ cache.used = [d \in Doms |-> 0] /\ Record(cache)
    BY SMT DEF Init, Record
  <1>3. Steady
    <2>1. truth \in [Cells -> Vals \cup {NoVal}]
      BY <1>1, SMT
    <2>2. /\ setup.mode \in {Shared, Partition} /\ setup.pmode \in {"BE", "WB", "AD"}
          /\ setup.daemon \in BOOLEAN
      BY <1>1, CacheConstants, SMT
    <2>3. QED
      BY <1>1, <2>1, <2>2, SMT DEF Steady, NoFiles
  <1>4. DOMAIN cache.mem = {} /\ DOMAIN cache.files = {} /\ NoHeaders(cache)
    <2>1. DOMAIN <<>> = {}
      BY SMT
    <2>2. QED
      BY <1>2, <2>1 DEF NoHeaders
  <1>5. Bytes(cache, {}) = 0
    BY SumEmpty DEF Bytes, BytesOf
  <1>6. Books(cache, Lists)
    <2>1. EntriesShaped(cache) /\ EntriesPlaced(cache, Lists)
      BY <1>4, FS_EmptySet, SMT DEF EntriesShaped, EntriesPlaced
    <2>2. \A X : CellsOf(cache, X) = {} /\ Own(cache, X) = {}
      BY <1>4 DEF CellsOf, Own
    <2>3. Counted(cache)
      <3>1. cache.used \in [Doms -> Int]
        BY <1>2, SMT
      <3>2. QED
        BY <1>2, <1>5, <2>2, <3>1 DEF Counted
    <2>4. Charged(cache)
      BY <1>2, <1>5, <2>2 DEF Charged
    <2>5. QED
      BY <2>1, <2>3, <2>4 DEF Books
  <1>7. HeadersPlaced(cache, Lists)
    <2>1. cache.mini \in [Cells -> Seq(Header)]
      BY <1>2, NoHeads
    <2>2. QED
      BY <1>4, <2>1, NoHeads DEF HeadersPlaced, NoHeaders
  <1>8. FilesShaped(cache) /\ EntriesTrue(cache, truth)
    BY <1>2, <1>4 DEF FilesShaped, EntriesTrue
  <1>9. HeadersTrue(cache, truth, On) /\ FilesTrue(cache, On) /\ HeadersPaged(cache, enabled)
    BY <1>4, NoHeads DEF HeadersTrue, FilesTrue, HeadersPaged, NoHeaders
  <1>10. Sound(cache, Lists, truth, On, enabled)
    BY <1>2, <1>6, <1>7, <1>8, <1>9 DEF Sound
  <1>11. WithinLimit
    <2>1. Used(cache) = 0 /\ Limit \in Nat
      BY <1>2, <1>3, SteadyFacts, SMT DEF Used
    <2>2. Used(cache) <= Limit
      BY <2>1, SMT
    <2>3. QED
      BY <2>2 DEF WithinLimit
  <1>12. SharedGetsAreFresh
    BY <1>1 DEF SharedGetsAreFresh, GetsAreFresh
  <1>13. QED
    BY <1>3, <1>10, <1>11, <1>12 DEF CacheInv

\* A step that changes nothing.
LEMMA NothingKeeps ==
  ASSUME CacheInv, UNCHANGED vars
  PROVE  CacheInv'
  <1>1. setup' = setup /\ UNCHANGED switches /\ cache' = cache /\ truth' = truth /\ answer' = answer
    BY SMT DEF vars
  <1>2. Stays(cache, cache', truth') /\ truth' \in [Cells -> Vals \cup {NoVal}]
    BY <1>1, SelfStays DEF CacheInv, Steady
  <1>3. Truthful => FreshAnswer(answer', truth')
    BY <1>1 DEF CacheInv, SharedGetsAreFresh, GetsAreFresh, Truthful, FreshAnswer
  <1>4. QED
    BY <1>1, <1>2, <1>3, StaysKeeps, SMT

LEMMA StepSound == CacheInv /\ [Next]_vars => CacheInv'
  <1> SUFFICES ASSUME CacheInv, [Next]_vars PROVE CacheInv'
    BY SMT
  <1>1. CASE UNCHANGED vars
    BY <1>1, NothingKeeps
  <1>2. CASE Next
    <2>1. setup' = setup
      BY <1>2 DEF Next
    <2>2. ASSUME NEW d \in Doms, NEW k \in setup.keys,
                 (\E v \in Vals : Put(d, k, v)) \/ Get(d, k) \/ Remove(d, k) \/ Check(d, k)
          PROVE  CacheInv'
      BY <2>1, <2>2, PutKeeps, GetKeeps, RemoveKeeps, CheckKeeps
    <2>3. ASSUME NEW d \in Doms, Flush(d) \/ Create(d) \/ Destroy(d)
          PROVE  CacheInv'
      BY <2>1, <2>3, FlushKeeps, CreateKeeps, DestroyKeeps
    <2>4. CASE \E m \in {Shared, Partition} : SetCacheMode(m)
      BY <2>1, <2>4, SetCacheModeKeeps
    <2>5. CASE \E p \in {"BE", "WB", "AD"} : SetPartitionMode(p)
      BY <2>1, <2>5, SetPartitionModeKeeps
    <2>6. CASE \E m \in Limits : SetMemsize(m)
      BY <2>1, <2>6, SetMemsizeKeeps
    <2>7. CASE Reset \/ ToggleUser
      BY <2>1, <2>7, ResetKeeps, ToggleUserKeeps
    <2>8. CASE DaemonStops \/ DaemonStarts
      BY <2>1, <2>8, DaemonStopsKeeps, DaemonStartsKeeps
    <2>9. CASE Guest
      BY <2>2, <2>3, <2>9 DEF Guest
    <2>10. CASE Toolstack
      BY <2>3, <2>4, <2>5, <2>6, <2>7, <2>8, <2>10 DEF Toolstack
    <2>11. QED
      BY <1>2, <2>9, <2>10 DEF Next
  <1>3. QED
    BY <1>1, <1>2

\* CacheInv is inductive: every operation of a guest and of the toolstack, with
\* the evictions, page-outs and page-ins inside it, keeps the books, the lists
\* and the files of the cache in agreement.
THEOREM CacheInvariant == Spec => []CacheInv
  BY InitSound, StepSound, PTL DEF Spec

LEMMA HeadsAre ==
  ASSUME NEW q, NEW i \in DOMAIN q
  PROVE  q[i] \in Heads(q)
  BY DEF Heads

LEMMA InvTyped == CacheInv => TypeOK
  <1> SUFFICES ASSUME CacheInv PROVE TypeOK
    BY SMT
  <1>1. /\ Steady /\ Sound(cache, Lists, truth, On, enabled) /\ Shared \notin Doms
    BY SteadyFacts DEF CacheInv
  <1>2. /\ Books(cache, Lists) /\ FilesShaped(cache) /\ cache.mini \in [Cells -> Seq(Header)]
    BY <1>1 DEF Sound, HeadersPlaced
  <1>3. /\ EntriesShaped(cache) /\ Counted(cache) /\ (DomainsApart => Charged(cache))
    BY <1>2 DEF Books
  <1>4. \A V : V \subseteq DOMAIN cache.mem => Bytes(cache, V) \in Nat
    BY <1>3, BytesNat
  <1>5. cache.shr \in Nat /\ cache.pri \in Nat
    <2>1. \A X : CellsOf(cache, X) \subseteq DOMAIN cache.mem
      BY DEF CellsOf
    <2>2. QED
      BY <1>3, <1>4, <2>1 DEF Counted
  <1>6. DomainsApart => \A d \in Doms : cache.used[d] >= 0
    <2>1. \A d : Own(cache, d) \subseteq DOMAIN cache.mem
      BY DEF Own
    <2>2. DomainsApart => \A d \in Doms : cache.used[d] \in Nat
      BY <1>3, <1>4, <2>1 DEF Charged
    <2>3. QED
      BY <2>2, SMT
  <1>7. /\ \A x \in DOMAIN cache.mem :
             cache.mem[x] \in [dom : Doms, val : Vals \cup {NoVal}, bytes : Nat]
        /\ \A x \in Cells : cache.mini[x] \in Seq([dom : Doms, put : Vals, live : BOOLEAN])
    BY <1>2, <1>3 DEF EntriesShaped, Entry, Header
  <1>8. QED
    BY <1>1, <1>2, <1>3, <1>5, <1>6, <1>7
       DEF TypeOK, EntriesShaped, FilesShaped, Counted, Steady

\* Type correctness: the entries, the mini-headers, the files and the switches
\* keep their shape, and shr_nr_bytes and pri_nr_bytes, and nr_used_bytes where
\* domains do not share the list, never fall below zero.
THEOREM CacheTyped == Spec => []TypeOK
  BY CacheInvariant, InvTyped, PTL

LEMMA InvAccounts == CacheInv => Accounting
  <1> SUFFICES ASSUME CacheInv PROVE Accounting
    BY SMT
  <1>1. Counted(cache) /\ (DomainsApart => Charged(cache)) /\ alive \subseteq Doms
    BY DEF CacheInv, Sound, Books, Steady
  <1>2. QED
    BY <1>1 DEF Accounting, Counted, Charged, Own

\* The byte counters are the sums of the entries they count, for any number of
\* entries of any sizes.
THEOREM BytesAccounted == Spec => []Accounting
  BY CacheInvariant, InvAccounts, PTL

\* In shared mode no operation leaves the cache above the maximum of
\* set_memsize or the memory of the hypervisor, for every choice of victims.
THEOREM NeverOverLimit == Spec => []WithinLimit
  <1>1. CacheInv => WithinLimit
    BY DEF CacheInv
  <1>2. QED
    BY <1>1, CacheInvariant, PTL

\* In shared mode every mini-header is backed by the file it was made with.
THEOREM FilesThere == Spec => []FilesBehindHeaders
  <1>1. CacheInv => FilesBehindHeaders
    BY HeadsAre DEF CacheInv, Sound, FilesTrue, FilesKept, FilesBehindHeaders
  <1>2. QED
    BY <1>1, CacheInvariant, PTL

\* mcd_get answers with the last put that counts or with none, through
\* evictions to files, page-ins, flushes and restarts of the daemon.
THEOREM SharedFresh == Spec => []SharedGetsAreFresh
  <1>1. CacheInv => SharedGetsAreFresh
    BY DEF CacheInv
  <1>2. QED
    BY <1>1, CacheInvariant, PTL

LEMMA InvOwners == CacheInv => OwnersAlive
  <1> SUFFICES ASSUME CacheInv, DomainsApart PROVE OwnersAlive
    BY DEF OwnersAlive
  <1>1. /\ Steady /\ EntriesShaped(cache) /\ EntriesPlaced(cache, Lists)
        /\ HeadersPlaced(cache, Lists)
    BY DEF CacheInv, Sound, Books
  <1>2. CASE "domains" \notin setup.ops
    <2>1. alive = Doms
      BY <1>1, <1>2 DEF Steady
    <2>2. \A x \in DOMAIN cache.mem : cache.mem[x].dom \in Doms
      BY <1>1, SMT DEF EntriesShaped, Entry
    <2>3. ASSUME NEW x \in Cells, NEW i \in DOMAIN cache.mini[x]
          PROVE  cache.mini[x][i].dom \in Doms
      <3>1. cache.mini[x] \in Seq(Header)
        BY <1>1 DEF HeadersPlaced
      <3>2. cache.mini[x][i] \in Header
        BY <3>1, SMT
      <3>3. QED
        BY <3>2, SMT DEF Header
    <2>4. QED
      BY <2>1, <2>2, <2>3 DEF OwnersAlive
  <1>3. CASE "domains" \in setup.ops
    <2>1. OneList /\ mode = Partition
      BY <1>1, <1>3 DEF DomainsApart, StaysPartition, OneList, Steady
    <2>2. Lists = alive /\ alive \subseteq Doms
      BY <1>1, <2>1, SMT DEF Lists, Steady, Shared, Partition
    <2>3. \A x \in DOMAIN cache.mem : cache.mem[x].dom \in alive
      BY <1>1, <2>1, <2>2 DEF EntriesPlaced
    <2>4. ASSUME NEW x \in Cells, NEW i \in DOMAIN cache.mini[x]
          PROVE  cache.mini[x][i].dom \in alive
      BY <1>1, <2>1, <2>2, HeadsAre DEF HeadersPlaced
    <2>5. QED
      BY <2>3, <2>4 DEF OwnersAlive
  <1>4. QED
    BY <1>2, <1>3

\* No entry and no mini-header outlives the domain it is charged to.
THEOREM OwnersStay == Spec => []OwnersAlive
  BY CacheInvariant, InvOwners, PTL

\* exit_mcdctl frees no page of a mini-header that the daemon will be asked
\* for.
THEOREM PagesStay == Spec => []HeadersLive
  <1>1. CacheInv => HeadersLive
    BY HeadsAre DEF CacheInv, Sound, HeadersPaged, HeadersLive
  <1>2. QED
    BY <1>1, CacheInvariant, PTL
====
