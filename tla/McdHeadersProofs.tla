-------------------------- MODULE McdHeadersProofs --------------------------
(***************************************************************************)
(* While nobody meets a CPU that fetches or frees pages, the mini-headers   *)
(* of all pages are free, listed or in the hands of one CPU, and nothing    *)
(* else is on the freelist, for any number of CPUs, pages and headers.      *)
(*                                                                          *)
(* The proof follows the freelist as a set that is closed under next, and   *)
(* needs no induction over its length: IsList says that no header follows   *)
(* two others and that none leads back to the first, so that taking the     *)
(* first header loses just that one.                                        *)
(***************************************************************************)
EXTENDS McdHeaders, TLAPS

\* The end of the list and uninitialised memory are no headers.
LEMMA NoHeader == Null \notin Headers /\ Junk \notin Headers /\ Null # Junk
  BY DEF Null, Junk, Headers

\* A header is its page and its place in it.
LEMMA HeaderPair ==
  ASSUME NEW h \in Headers
  PROVE  h = <<h[1], h[2]>> /\ h[1] \in Pages /\ h[2] \in 1..PerPage
  BY DEF Headers

LEMMA PairHeader ==
  ASSUME NEW p \in Pages, NEW i \in 1..PerPage
  PROVE  <<p, i>> \in Headers /\ <<p, i>>[1] = p /\ <<p, i>>[2] = i
  BY DEF Headers

---------------------------------------------------------------------------
(* What a pointer leads to.                                                 *)

\* Nothing outside a closed set is reached.
LEMMA ReachedInside ==
  ASSUME NEW first, NEW succ, NEW S \in SUBSET Pointers, first \in S,
         \A h \in S \cap Headers : succ[h] \in S
  PROVE  ReachedFrom(first, succ) \subseteq S
  BY Zenon DEF ReachedFrom

\* What is reached is closed itself.
LEMMA ReachedClosed ==
  ASSUME NEW first \in Pointers, NEW succ, \A h \in Headers : succ[h] \in Pointers
  PROVE  /\ first \in ReachedFrom(first, succ)
         /\ \A h \in ReachedFrom(first, succ) \cap Headers : succ[h] \in ReachedFrom(first, succ)
         /\ ReachedFrom(first, succ) \subseteq Pointers
  BY Zenon DEF ReachedFrom

\* A pointer that is no header leads nowhere.
LEMMA ReachedNowhere ==
  ASSUME NEW first \in Pointers \ Headers, NEW succ
  PROVE  ReachedFrom(first, succ) = {first}
  BY Zenon DEF ReachedFrom

\* Taking the first header away, to which none leads back.
LEMMA ReachedPop ==
  ASSUME NEW first \in Headers, NEW succ, \A h \in Headers : succ[h] \in Pointers,
         \A h \in ReachedFrom(first, succ) \cap Headers : succ[h] # first
  PROVE  ReachedFrom(succ[first], succ) = ReachedFrom(first, succ) \ {first}
  <1> DEFINE R == ReachedFrom(first, succ)
             Q == ReachedFrom(succ[first], succ)
  <1>1. /\ first \in R /\ R \subseteq Pointers
        /\ \A h \in R \cap Headers : succ[h] \in R
    BY ReachedClosed, Zenon DEF Pointers
  <1>2. /\ succ[first] \in Q /\ Q \subseteq Pointers
        /\ \A h \in Q \cap Headers : succ[h] \in Q
    BY ReachedClosed, Zenon
  <1>3. Q \subseteq R \ {first}
    <2>1. /\ R \ {first} \in SUBSET Pointers /\ succ[first] \in R \ {first}
          /\ \A h \in (R \ {first}) \cap Headers : succ[h] \in R \ {first}
      BY <1>1, Zenon
    <2> HIDE DEF R
    <2>2. QED
      BY <2>1, ReachedInside, Zenon
  <1>4. R \subseteq Q \cup {first}
    <2>1. /\ Q \cup {first} \in SUBSET Pointers /\ first \in Q \cup {first}
          /\ \A h \in (Q \cup {first}) \cap Headers : succ[h] \in Q \cup {first}
      BY <1>2, Zenon DEF Pointers
    <2> HIDE DEF Q
    <2>2. QED
      BY <2>1, ReachedInside, Zenon
  <1>5. QED
    BY <1>3, <1>4, Zenon

\* Putting a header in front.
LEMMA ReachedPush ==
  ASSUME NEW first \in Pointers, NEW succ, \A h \in Headers : succ[h] \in Pointers,
         NEW x \in Headers, x \notin ReachedFrom(first, succ),
         NEW new, new[x] = first, \A h \in Headers : h # x => new[h] = succ[h]
  PROVE  ReachedFrom(x, new) = ReachedFrom(first, succ) \cup {x}
  <1> DEFINE R == ReachedFrom(first, succ)
             Q == ReachedFrom(x, new)
  <1>1. /\ first \in R /\ R \subseteq Pointers
        /\ \A h \in R \cap Headers : succ[h] \in R
    BY ReachedClosed, Zenon
  <1>2. /\ x \in Q /\ Q \subseteq Pointers
        /\ \A h \in Q \cap Headers : new[h] \in Q
    BY ReachedClosed, Zenon DEF Pointers
  <1>3. x \notin R
    OBVIOUS
  <1>4. Q \subseteq R \cup {x}
    <2>1. /\ R \cup {x} \in SUBSET Pointers /\ x \in R \cup {x}
          /\ \A h \in (R \cup {x}) \cap Headers : new[h] \in R \cup {x}
      BY <1>1, Zenon DEF Pointers
    <2> DEFINE S == R \cup {x}
    <2>2. S \in SUBSET Pointers /\ x \in S /\ \A h \in S \cap Headers : new[h] \in S
      BY <2>1, Zenon
    <2> HIDE DEF S
    <2>3. Q \subseteq S
      BY <2>2, ReachedInside, Zenon
    <2>4. QED
      BY <2>3, Zenon DEF S
  <1>5. R \subseteq Q \cap R
    <2>1. /\ Q \cap R \in SUBSET Pointers /\ first \in Q \cap R
          /\ \A h \in (Q \cap R) \cap Headers : succ[h] \in Q \cap R
      BY <1>1, <1>2, <1>3, Zenon
    <2> DEFINE S == Q \cap R
    <2>2. S \in SUBSET Pointers /\ first \in S /\ \A h \in S \cap Headers : succ[h] \in S
      BY <2>1, Zenon
    <2> HIDE DEF S
    <2>3. R \subseteq S
      BY <2>2, ReachedInside, Zenon
    <2>4. QED
      BY <2>3, Zenon DEF S
  <1>6. QED
    BY <1>2, <1>4, <1>5, Zenon

HeadersFrom(first, succ) == ReachedFrom(first, succ) \cap Headers

\* Putting a header behind the last one.
LEMMA ReachedExtend ==
  ASSUME NEW first \in Headers, NEW succ, NEW t \in Headers, NEW x \in Headers,
         \A h \in Headers : succ[h] \in Pointers,
         t \in HeadersFrom(first, succ), x \notin HeadersFrom(first, succ),
         succ[t] \notin Headers,
         \A h \in HeadersFrom(first, succ) : h # t => succ[h] \in HeadersFrom(first, succ),
         NEW new, new[t] = x, new[x] = Null,
         \A h \in Headers : h # t /\ h # x => new[h] = succ[h]
  PROVE  HeadersFrom(first, new) = HeadersFrom(first, succ) \cup {x}
  <1> DEFINE R == ReachedFrom(first, succ)
             Q == ReachedFrom(first, new)
             F == HeadersFrom(first, succ)
  <1>0. F = R \cap Headers
    BY Zenon DEF HeadersFrom
  <1>1. /\ first \in R /\ R \subseteq Pointers
        /\ \A h \in R \cap Headers : succ[h] \in R
    BY ReachedClosed, Zenon DEF Pointers
  <1>2. /\ first \in Q /\ Q \subseteq Pointers
        /\ \A h \in Q \cap Headers : new[h] \in Q
    <2>1. \A h \in Headers : new[h] \in Pointers
      BY Zenon DEF Pointers
    <2>2. QED
      BY <2>1, ReachedClosed, Zenon DEF Pointers
  <1>3. Q \subseteq F \cup {x, Null}
    <2>1. /\ F \cup {x, Null} \in SUBSET Pointers /\ first \in F \cup {x, Null}
          /\ \A h \in (F \cup {x, Null}) \cap Headers : new[h] \in F \cup {x, Null}
      BY <1>0, <1>1, NoHeader, Zenon DEF Pointers
    <2> DEFINE S == F \cup {x, Null}
    <2>2. S \in SUBSET Pointers /\ first \in S /\ \A h \in S \cap Headers : new[h] \in S
      BY <2>1, Zenon
    <2> HIDE DEF S
    <2>3. Q \subseteq S
      BY <2>2, ReachedInside, Zenon
    <2>4. QED
      BY <2>3, Zenon DEF S
  <1>4. F \subseteq Q
    <2> DEFINE S == (F \cap Q) \cup (Pointers \ Headers)
    <2>1. S \in SUBSET Pointers /\ first \in S
      BY <1>0, <1>1, <1>2, Zenon DEF Pointers
    <2>2. \A h \in S \cap Headers : succ[h] \in S
      <3>1. ASSUME NEW h \in F \cap Q PROVE succ[h] \in S
        <4>1. CASE h = t
          BY <4>1, Zenon
        <4>2. CASE h # t
          <5>1. succ[h] \in F /\ new[h] = succ[h] /\ new[h] \in Q
            BY <1>0, <1>2, <4>2, Zenon
          <5>2. QED
            BY <5>1, Zenon
        <4>3. QED
          BY <4>1, <4>2, Zenon
      <3>2. QED
        BY <3>1, Zenon
    <2> HIDE DEF S
    <2>3. R \subseteq S
      BY <2>1, <2>2, ReachedInside, Zenon
    <2>4. QED
      BY <1>0, <2>3, NoHeader, Zenon DEF S
  <1>5. x \in Q
    BY <1>2, <1>4, Zenon
  <1>6. QED
    BY <1>0, <1>3, <1>4, <1>5, NoHeader, Zenon DEF HeadersFrom

---------------------------------------------------------------------------
(* Types.                                                                   *)

Fields ==
    /\ next \in [Headers -> Pointers] /\ freelist \in Pointers
    /\ table \in [0..(MaxPages - 1) -> Pages \cup {Null}] /\ cnt \in Nat
    /\ heap \subseteq Pages /\ listed \subseteq Headers /\ enabled \in BOOLEAN

\* c moves to another place and keeps its locals.
LEMMA Moved ==
  ASSUME Shape, NEW c \in Cpus, NEW place \in Places, Goto(c, place)
  PROVE  /\ cpu' \in [Cpus -> Cpu] /\ \A e \in Cpus \ {c} : cpu'[e] = cpu[e]
         /\ cpu'[c].pc = place /\ cpu'[c].page = cpu[c].page
         /\ cpu'[c].ix = cpu[c].ix /\ cpu'[c].mch = cpu[c].mch
         /\ cpu'[c].stop = cpu[c].stop
  BY DEF Shape, Goto, Cpu

\* c is done.
LEMMA Returned ==
  ASSUME Shape, NEW c \in Cpus, cpu' = [cpu EXCEPT ![c] = Idle]
  PROVE  /\ cpu' \in [Cpus -> Cpu] /\ \A e \in Cpus \ {c} : cpu'[e] = cpu[e]
         /\ cpu'[c].pc = "idle"
  BY DEF Shape, Idle, Cpu, Places, Pointers

\* What the locals of the other CPUs are is not the business of c.
LEMMA ShapeKept ==
  ASSUME Shape, NEW c \in Cpus, cpu' \in [Cpus -> Cpu], \A e \in Cpus \ {c} : cpu'[e] = cpu[e],
         cpu'[c].pc \in {"count", "enter", "publish"} => cpu'[c].page \in Pages,
         cpu'[c].pc \in {"link", "list"} => cpu'[c].mch \in Headers
  PROVE  Shape'
  BY DEF Shape, Cpu

LEMMA MallocTest ==
  ASSUME Shape, NEW c \in Cpus, Malloc(c) \/ Test(c)
  PROVE  /\ UNCHANGED <<next, freelist, table, cnt, heap, listed, enabled>>
         /\ cpu' \in [Cpus -> Cpu] /\ \A e \in Cpus \ {c} : cpu'[e] = cpu[e]
         /\ cpu[c].pc \in {"idle", "test"} /\ cpu'[c].pc \in {"test", "new", "pop"}
         /\ enabled \/ cpu[c].pc = "test"
         /\ cpu'[c].pc = "new" => freelist = Null
  <1>1. PICK place \in {"test", "new", "pop"} :
          Goto(c, place) /\ (place = "new" => freelist = Null)
    BY Zenon DEF Malloc, Test
  <1>2. place \in Places
    BY Zenon DEF Places, Exclusive
  <1>3. QED
    BY <1>1, <1>2, Moved, Zenon DEF Malloc, Test, memory

LEMMA NewPageDoes ==
  ASSUME Fields, Shape, NEW c \in Cpus, NewPage(c)
  PROVE  /\ UNCHANGED <<freelist, table, cnt, listed, enabled>>
         /\ cpu' \in [Cpus -> Cpu] /\ \A e \in Cpus \ {c} : cpu'[e] = cpu[e]
         /\ cpu[c].pc = "new"
         /\ \/ cpu'[c].pc = "pop" /\ UNCHANGED <<heap, next>>
            \/ \E p \in Pages \ heap :
                 /\ heap' = heap \cup {p} /\ cnt < MaxPages
                 /\ next' = [h \in Headers |-> IF h[1] = p THEN Junk ELSE next[h]]
                 /\ cpu'[c].pc = "count" /\ cpu'[c].page = p
  <1>1. CASE Goto(c, "pop") /\ UNCHANGED <<heap, next>>
    BY <1>1, Moved, Zenon DEF Places, NewPage
  <1>2. ASSUME NEW p \in Pages \ heap, heap' = heap \cup {p}, cnt < MaxPages,
               next' = [h \in Headers |-> IF h[1] = p THEN Junk ELSE next[h]],
               cpu' = [cpu EXCEPT ![c].pc = "count", ![c].page = p]
        PROVE  /\ cpu' \in [Cpus -> Cpu] /\ \A e \in Cpus \ {c} : cpu'[e] = cpu[e]
               /\ cpu'[c].pc = "count" /\ cpu'[c].page = p
    BY <1>2 DEF Shape, Cpu, Places, Exclusive
  <1>3. QED
    BY <1>1, <1>2, Zenon DEF NewPage

LEMMA CountDoes ==
  ASSUME Fields, Shape, NEW c \in Cpus, Count(c)
  PROVE  /\ UNCHANGED <<next, freelist, table, cnt, heap, listed, enabled>>
         /\ cpu' \in [Cpus -> Cpu] /\ \A e \in Cpus \ {c} : cpu'[e] = cpu[e]
         /\ cpu[c].pc = "count" /\ cpu'[c].pc = "enter"
         /\ cpu'[c].page = cpu[c].page /\ cpu'[c].ix = cnt
  BY DEF Count, Fields, Shape, Cpu, Places, Exclusive, memory

LEMMA EnterDoes ==
  ASSUME Fields, Shape, NEW c \in Cpus, Enter(c)
  PROVE  /\ UNCHANGED <<next, freelist, heap, listed, enabled>>
         /\ cnt' = cpu[c].ix + 1 /\ cnt' \in Nat
         /\ table' \in [0..(MaxPages - 1) -> Pages \cup {Null}]
         /\ \A i \in 0..(MaxPages - 1) :
              table'[i] = IF i = cpu[c].ix THEN cpu[c].page ELSE table[i]
         /\ cpu' \in [Cpus -> Cpu] /\ \A e \in Cpus \ {c} : cpu'[e] = cpu[e]
         /\ cpu[c].pc = "enter" /\ cpu'[c].pc = "publish" /\ cpu'[c].page = cpu[c].page
  <1>1. /\ cpu' \in [Cpus -> Cpu] /\ \A e \in Cpus \ {c} : cpu'[e] = cpu[e]
        /\ cpu'[c].pc = "publish" /\ cpu'[c].page = cpu[c].page
    BY Moved, Zenon DEF Enter, Places, Exclusive
  <1>2. cpu[c].ix \in Nat /\ cpu[c].page \in Pages \cup {Null}
    BY DEF Shape, Cpu
  <1>3. QED
    BY <1>1, <1>2 DEF Enter, Fields

LEMMA PublishDoes ==
  ASSUME Fields, Shape, NEW c \in Cpus, Publish(c)
  PROVE  /\ UNCHANGED <<next, table, cnt, heap, listed, enabled>>
         /\ freelist' = <<cpu[c].page, 1>>
         /\ cpu[c].page \in Pages /\ freelist' \in Headers
         /\ cpu' \in [Cpus -> Cpu] /\ \A e \in Cpus \ {c} : cpu'[e] = cpu[e]
         /\ cpu[c].pc = "publish" /\ cpu'[c].pc = "linking" /\ cpu'[c].page = cpu[c].page
  <1>1. /\ cpu' \in [Cpus -> Cpu] /\ \A e \in Cpus \ {c} : cpu'[e] = cpu[e]
        /\ cpu'[c].pc = "linking" /\ cpu'[c].page = cpu[c].page
    BY Moved, Zenon DEF Publish, Places, Exclusive
  <1>2. cpu[c].page \in Pages
    BY Zenon DEF Shape, Publish
  <1>3. 1 \in 1..PerPage
    BY HeadersConstants
  <1>4. QED
    BY <1>1, <1>2, <1>3, PairHeader, Zenon DEF Publish

LEMMA LinkingDoes ==
  ASSUME Fields, Shape, NEW c \in Cpus, Linking(c)
  PROVE  /\ UNCHANGED <<next, freelist, table, cnt, heap, listed, enabled>>
         /\ cpu' \in [Cpus -> Cpu] /\ \A e \in Cpus \ {c} : cpu'[e] = cpu[e]
         /\ cpu[c].pc = "linking" /\ cpu'[c].mch = freelist
         /\ cpu'[c].pc = IF freelist \in Headers THEN "link" ELSE "fault"
  BY DEF Linking, Fields, Shape, Cpu, Places, Exclusive, memory

\* The last header of the page is reached, or one more is linked.
LEMMA LinkDoes ==
  ASSUME Fields, Shape, NEW c \in Cpus, Link(c)
  PROVE  /\ UNCHANGED <<freelist, table, cnt, heap, listed, enabled>>
         /\ cpu' \in [Cpus -> Cpu] /\ \A e \in Cpus \ {c} : cpu'[e] = cpu[e]
         /\ cpu[c].pc = "link" /\ cpu[c].mch \in Headers
         /\ \/ cpu[c].mch[2] = PerPage /\ next' = next /\ cpu'[c].pc = "pop"
            \/ \E n \in Headers :
                 /\ cpu[c].mch[2] + 1 \in 1..PerPage /\ n = <<cpu[c].mch[1], cpu[c].mch[2] + 1>>
                 /\ next' = [next EXCEPT ![cpu[c].mch] = n, ![n] = Null]
                 /\ cpu'[c].pc = "link" /\ cpu'[c].mch = n
  <1>1. cpu[c].pc = "link" /\ cpu[c].mch \in Headers
    BY Zenon DEF Shape, Link
  <1>2. PICK p \in Pages, k \in 1..PerPage : cpu[c].mch = <<p, k>>
    BY <1>1 DEF Headers
  <1>3. CASE k >= PerPage
    <2>1. Goto(c, "pop") /\ next' = next
      BY <1>2, <1>3 DEF Link
    <2>2. k = PerPage
      BY <1>3, HeadersConstants
    <2>3. "pop" \in Places
      BY Zenon DEF Places
    <2>4. QED
      BY <1>1, <1>2, <2>1, <2>2, <2>3, Moved DEF Link
  <1>4. CASE ~(k >= PerPage)
    <2> DEFINE n == <<p, k + 1>>
    <2>1. k + 1 \in 1..PerPage
      BY <1>4, HeadersConstants
    <2>2. n \in Headers
      BY <2>1, PairHeader, Zenon
    <2>3. /\ next' = [next EXCEPT ![cpu[c].mch] = n, ![n] = Null]
          /\ cpu' = [cpu EXCEPT ![c].mch = n]
      BY <1>2, <1>4 DEF Link
    <2>4. n \in Pointers
      BY <2>2, Zenon DEF Pointers
    <2>5. n = <<cpu[c].mch[1], cpu[c].mch[2] + 1>> /\ cpu[c].mch[2] = k
      BY <1>2
    <2> HIDE DEF n
    <2>6. /\ cpu' \in [Cpus -> Cpu] /\ \A e \in Cpus \ {c} : cpu'[e] = cpu[e]
          /\ cpu'[c].pc = "link" /\ cpu'[c].mch = n
      BY <1>1, <2>3, <2>4 DEF Shape, Cpu
    <2>7. QED
      BY <1>1, <2>1, <2>2, <2>3, <2>5, <2>6, Zenon DEF Link
  <1>5. QED
    BY <1>3, <1>4, Zenon

\* The first header is taken, if there is one.
LEMMA PopDoes ==
  ASSUME Fields, Shape, NEW c \in Cpus, Pop(c)
  PROVE  /\ UNCHANGED <<next, table, cnt, heap, listed, enabled>>
         /\ cpu' \in [Cpus -> Cpu] /\ \A e \in Cpus \ {c} : cpu'[e] = cpu[e]
         /\ cpu[c].pc = "pop"
         /\ \/ /\ freelist \in Headers /\ cpu'[c].pc = "list" /\ cpu'[c].mch = freelist
               /\ freelist' = next[freelist] /\ freelist' \in Pointers
            \/ freelist \notin Headers /\ cpu'[c].pc = "fault" /\ freelist' = freelist
  <1>1. CASE freelist \in Headers
    <2>1. /\ cpu' = [cpu EXCEPT ![c].pc = "list", ![c].mch = freelist]
          /\ freelist' = next[freelist] /\ cpu[c].pc = "pop"
          /\ UNCHANGED <<next, table, cnt, heap, listed, enabled>>
      BY <1>1, Zenon DEF Pop
    <2>2. /\ cpu' \in [Cpus -> Cpu] /\ \A e \in Cpus \ {c} : cpu'[e] = cpu[e]
          /\ cpu'[c].pc = "list" /\ cpu'[c].mch = freelist
      BY <2>1 DEF Fields, Shape, Cpu, Places
    <2>3. next[freelist] \in Pointers
      BY <1>1, Zenon DEF Fields
    <2>4. QED
      BY <1>1, <2>1, <2>2, <2>3, Zenon
  <1>2. CASE freelist \notin Headers
    BY <1>2, Moved, Zenon DEF Pop, Places
  <1>3. QED
    BY <1>1, <1>2, Zenon

LEMMA ListDoes ==
  ASSUME Fields, Shape, NEW c \in Cpus, List(c)
  PROVE  /\ UNCHANGED <<next, freelist, table, cnt, heap, enabled>>
         /\ cpu' \in [Cpus -> Cpu] /\ \A e \in Cpus \ {c} : cpu'[e] = cpu[e]
         /\ cpu[c].pc = "list" /\ cpu'[c].pc = "idle"
         /\ cpu[c].mch \in Headers /\ listed' = listed \cup {cpu[c].mch}
  BY Returned, Zenon DEF List, Shape, memory

LEMMA FreeOneDoes ==
  ASSUME Fields, Shape, NEW c \in Cpus, FreeOne(c)
  PROVE  /\ UNCHANGED <<table, cnt, heap, enabled, cpu>> /\ enabled
         /\ cpu' \in [Cpus -> Cpu] /\ cpu[c].pc = "idle"
         /\ \E h \in listed :
              /\ listed' = listed \ {h} /\ freelist' = h
              /\ next' \in [Headers -> Pointers] /\ next'[h] = freelist
              /\ \A g \in Headers : g # h => next'[g] = next[g]
  <1>1. PICK h \in listed : /\ listed' = listed \ {h} /\ freelist' = h
                            /\ next' = [next EXCEPT ![h] = freelist]
    BY Zenon DEF FreeOne
  <1>2. /\ next' \in [Headers -> Pointers] /\ next'[h] = freelist
        /\ \A g \in Headers : g # h => next'[g] = next[g]
    BY <1>1 DEF Fields
  <1>3. QED
    BY <1>1, <1>2, Zenon DEF FreeOne, Shape, Cpu

\* The listed headers are linked to each other and to the freelist of before.
LEMMA FlushDoes ==
  ASSUME Fields, Shape, NEW c \in Cpus, Flush(c)
  PROVE  /\ UNCHANGED <<table, cnt, heap, enabled>> /\ listed' = {}
         /\ cpu' \in [Cpus -> Cpu] /\ \A e \in Cpus \ {c} : cpu'[e] = cpu[e]
         /\ cpu[c].pc = "idle" /\ cpu'[c].pc = "exit"
         /\ next' \in [Headers -> Pointers]
         /\ freelist' \in listed \cup {freelist}
         /\ enabled => \A h \in Headers :
              IF h \in listed THEN next'[h] \in listed \cup {freelist} ELSE next'[h] = next[h]
  <1>1. /\ cpu' \in [Cpus -> Cpu] /\ \A e \in Cpus \ {c} : cpu'[e] = cpu[e]
        /\ cpu[c].pc = "idle" /\ cpu'[c].pc = "exit"
    BY Moved, Zenon DEF Flush, Places, Exclusive
  <1>2. CASE ~enabled
    <2>1. next' = next /\ freelist' = freelist
      BY <1>2, Zenon DEF Flush
    <2>2. QED
      BY <1>1, <1>2, <2>1, Zenon DEF Flush, Fields
  <1>3. CASE enabled
    <2>1. PICK order : next' = Pushed(listed, order) /\ freelist' \in LastOf(listed, order)
      BY <1>3, Zenon DEF Flush
    <2>2. freelist' \in listed \cup {freelist}
      BY <2>1, Zenon DEF LastOf
    <2>3. ASSUME NEW h \in Headers
          PROVE  IF h \in listed THEN next'[h] \in listed \cup {freelist} ELSE next'[h] = next[h]
      <3> DEFINE n == {g \in listed : order[g] = order[h] - 1}
      <3>1. next'[h] = IF h \notin listed THEN next[h]
                       ELSE IF n = {} THEN freelist ELSE CHOOSE g \in n : TRUE
        BY <2>1, Zenon DEF Pushed
      <3>2. n # {} => (CHOOSE g \in n : TRUE) \in n
        BY Zenon
      <3>3. n \subseteq listed
        BY Zenon
      <3> HIDE DEF n
      <3>4. QED
        BY <3>1, <3>2, <3>3, Zenon
    <2>4. \A h \in Headers : next'[h] \in Pointers
      BY <2>3, Zenon DEF Fields, Pointers
    <2>5. next' \in [Headers -> Pointers]
      BY <2>1, <2>4 DEF Pushed
    <2>6. QED
      BY <1>1, <2>2, <2>3, <2>5, Zenon DEF Flush
  <1>4. QED
    BY <1>2, <1>3, Zenon DEF Fields

LEMMA DisableDoes ==
  ASSUME Shape, NEW c \in Cpus, Disable(c)
  PROVE  /\ UNCHANGED <<next, freelist, table, cnt, heap, listed, enabled>> /\ enabled
         /\ cpu' \in [Cpus -> Cpu] /\ \A e \in Cpus \ {c} : cpu'[e] = cpu[e]
         /\ cpu[c].pc = "idle" /\ cpu'[c].pc = "exit" /\ cpu'[c].stop
  BY DEF Disable, Shape, Cpu, Places, Exclusive, memory

LEMMA ExitDoes ==
  ASSUME Fields, Shape, NEW c \in Cpus, Exit(c)
  PROVE  /\ UNCHANGED <<cnt, listed, enabled>> /\ freelist' = Null
         /\ heap' = heap \ Entered
         /\ table' \in [0..(MaxPages - 1) -> Pages \cup {Null}]
         /\ next' \in [Headers -> Pointers]
         /\ cpu' \in [Cpus -> Cpu] /\ \A e \in Cpus \ {c} : cpu'[e] = cpu[e]
         /\ cpu[c].pc = "exit" /\ cpu'[c].pc = "zero" /\ cpu'[c].stop = cpu[c].stop
  <1>1. /\ cpu' \in [Cpus -> Cpu] /\ \A e \in Cpus \ {c} : cpu'[e] = cpu[e]
        /\ cpu[c].pc = "exit" /\ cpu'[c].pc = "zero" /\ cpu'[c].stop = cpu[c].stop
    BY Moved, Zenon DEF Exit, Places, Exclusive
  <1>2. table' \in [0..(MaxPages - 1) -> Pages \cup {Null}]
    BY DEF Exit, Fields
  <1>3. next' \in [Headers -> Pointers]
    BY DEF Exit, Fields, Pointers
  <1>4. QED
    BY <1>1, <1>2, <1>3, Zenon DEF Exit, Entered

LEMMA ZeroDoes ==
  ASSUME Shape, NEW c \in Cpus, Zero(c)
  PROVE  /\ UNCHANGED <<next, freelist, table, heap, listed, enabled>> /\ cnt' = 0
         /\ cpu' \in [Cpus -> Cpu] /\ \A e \in Cpus \ {c} : cpu'[e] = cpu[e]
         /\ cpu[c].pc = "zero"
         /\ \/ ~cpu[c].stop /\ cpu'[c].pc = "idle"
            \/ cpu[c].stop /\ cpu'[c].pc = "off" /\ cpu'[c].stop
  <1>1. CASE cpu[c].stop
    BY <1>1, Moved, Zenon DEF Zero, Places, Exclusive
  <1>2. CASE ~cpu[c].stop
    BY <1>2, Returned, Zenon DEF Zero
  <1>3. QED
    BY <1>1, <1>2, Zenon

LEMMA OffDoes ==
  ASSUME Shape, NEW c \in Cpus, Off(c)
  PROVE  /\ UNCHANGED <<next, freelist, table, cnt, heap, listed>>
         /\ ~enabled' /\ enabled' \in BOOLEAN
         /\ cpu' \in [Cpus -> Cpu] /\ \A e \in Cpus \ {c} : cpu'[e] = cpu[e]
         /\ cpu[c].pc = "off" /\ cpu'[c].pc = "idle"
  BY Returned, Zenon DEF Off, memory

LEMMA EnableDoes ==
  ASSUME Shape, NEW c \in Cpus, Enable(c)
  PROVE  /\ UNCHANGED <<next, table, heap, cpu>> /\ ~enabled /\ enabled' /\ enabled' \in BOOLEAN
         /\ listed' = {} /\ freelist' = Null /\ cnt' = 0
         /\ cpu' \in [Cpus -> Cpu] /\ cpu[c].pc = "idle"
  BY Zenon DEF Enable, Shape, Cpu

\* Whatever a CPU meets, its step keeps the types and the locals of others.
LEMMA StepTypes ==
  ASSUME Fields, Shape, NEW c \in Cpus, Step(c)
  PROVE  /\ Fields' /\ Shape'
         /\ cpu' \in [Cpus -> Cpu] /\ \A e \in Cpus \ {c} : cpu'[e] = cpu[e]
  <1>1. CASE Malloc(c) \/ Test(c)
    BY <1>1, MallocTest, ShapeKept, Zenon DEF Fields
  <1>2. CASE NewPage(c)
    <2>1. CASE cpu'[c].pc = "pop" /\ UNCHANGED <<heap, next>>
      BY <1>2, <2>1, NewPageDoes, ShapeKept, Zenon DEF Fields
    <2>2. ASSUME NEW p \in Pages \ heap, heap' = heap \cup {p},
                 next' = [h \in Headers |-> IF h[1] = p THEN Junk ELSE next[h]],
                 cpu'[c].pc = "count", cpu'[c].page = p
          PROVE  Fields' /\ Shape'
      <3>1. next' \in [Headers -> Pointers]
        BY <2>2 DEF Fields, Pointers
      <3>2. QED
        BY <1>2, <2>2, <3>1, NewPageDoes, ShapeKept, Zenon DEF Fields
    <2>3. QED
      BY <1>2, <2>1, <2>2, NewPageDoes, Zenon
  <1>3. CASE Count(c)
    BY <1>3, CountDoes, ShapeKept, Zenon DEF Fields, Shape
  <1>4. CASE Enter(c)
    BY <1>4, EnterDoes, ShapeKept, Zenon DEF Fields, Shape
  <1>5. CASE Publish(c)
    BY <1>5, PublishDoes, ShapeKept, Zenon DEF Fields, Pointers
  <1>6. CASE Linking(c)
    BY <1>6, LinkingDoes, ShapeKept, Zenon DEF Fields
  <1>7. CASE Link(c)
    <2>1. CASE cpu[c].mch[2] = PerPage /\ next' = next /\ cpu'[c].pc = "pop"
      BY <1>7, <2>1, LinkDoes, ShapeKept, Zenon DEF Fields
    <2>2. ASSUME NEW n \in Headers, next' = [next EXCEPT ![cpu[c].mch] = n, ![n] = Null],
                 cpu'[c].pc = "link", cpu'[c].mch = n
          PROVE  Fields' /\ Shape'
      <3>1. next' \in [Headers -> Pointers]
        BY <2>2 DEF Fields, Pointers
      <3>2. QED
        BY <1>7, <2>2, <3>1, LinkDoes, ShapeKept, Zenon DEF Fields
    <2>3. QED
      BY <1>7, <2>1, <2>2, LinkDoes, Zenon
  <1>8. CASE Pop(c)
    BY <1>8, PopDoes, ShapeKept, Zenon DEF Fields
  <1>9. CASE List(c)
    BY <1>9, ListDoes, ShapeKept, Zenon DEF Fields
  <1>10. CASE FreeOne(c)
    <2>1. Fields'
      BY <1>10, FreeOneDoes, Zenon DEF Fields, Pointers
    <2>2. QED
      BY <1>10, <2>1, FreeOneDoes, ShapeKept, Zenon
  <1>11. CASE Flush(c)
    <2>1. freelist' \in Pointers
      BY <1>11, FlushDoes, Zenon DEF Fields, Pointers
    <2>2. QED
      BY <1>11, <2>1, FlushDoes, ShapeKept, Zenon DEF Fields
  <1>12. CASE Disable(c)
    BY <1>12, DisableDoes, ShapeKept, Zenon DEF Fields
  <1>13. CASE Exit(c)
    BY <1>13, ExitDoes, ShapeKept, Zenon DEF Fields, Pointers
  <1>14. CASE Zero(c)
    <2>1. 0 \in Nat
      OBVIOUS
    <2>2. QED
      BY <1>14, <2>1, ZeroDoes, ShapeKept, Zenon DEF Fields
  <1>15. CASE Enable(c)
    <2>1. 0 \in Nat
      OBVIOUS
    <2>2. QED
      BY <1>15, <2>1, EnableDoes, ShapeKept, Zenon DEF Fields, Pointers
  <1>16. CASE Off(c)
    BY <1>16, OffDoes, ShapeKept, Zenon DEF Fields
  <1>17. QED
    BY <1>1, <1>2, <1>3, <1>4, <1>5, <1>6, <1>7, <1>8, <1>9, <1>10, <1>11, <1>12, <1>13,
       <1>14, <1>15, <1>16, Zenon DEF Step

---------------------------------------------------------------------------
(* A step of one CPU that meets nobody.                                     *)

\* Only c moves, nobody else fetches or frees pages, and if c does then the
\* others are idle.
OnlyMoves(c) ==
    /\ cpu' \in [Cpus -> Cpu]
    /\ \A e \in Cpus \ {c} :
         /\ cpu'[e] = cpu[e] /\ cpu[e].pc \notin Exclusive
         /\ cpu'[c].pc \in Exclusive => cpu[e].pc = "idle"

LEMMA MeetsNobody ==
  ASSUME NEW c \in Cpus, ~Meets(c), cpu' \in [Cpus -> Cpu],
         \A e \in Cpus \ {c} : cpu'[e] = cpu[e]
  PROVE  OnlyMoves(c)
  BY Zenon DEF OnlyMoves, Meets

\* What is to be shown of the places after the step, and of the pages.
LEMMA ApartIntro ==
  ASSUME NEW c \in Cpus, OnlyMoves(c),
         ~enabled' => /\ cpu'[c].pc \in {"idle", "exit", "zero", "off"}
                      /\ \A e \in Cpus \ {c} : cpu[e].pc \in {"idle", "exit", "zero", "off"}
  PROVE  Apart'
  <1>1. ASSUME NEW e \in Cpus, NEW d \in Cpus, cpu'[e].pc \in Exclusive, d # e
        PROVE  cpu'[d].pc = "idle"
    <2>1. e = c
      BY <1>1, Zenon DEF OnlyMoves
    <2>2. QED
      BY <1>1, <2>1, Zenon DEF OnlyMoves
  <1>2. ~enabled' => \A e \in Cpus : cpu'[e].pc \in {"idle", "exit", "zero", "off"}
    BY Zenon DEF OnlyMoves
  <1>3. QED
    BY <1>1, <1>2, Zenon DEF Apart

LEMMA FetchedIntro ==
  ASSUME NEW c \in Cpus, OnlyMoves(c),
         cpu'[c].pc \in {"count", "enter"} =>
           cnt' < MaxPages /\ cpu'[c].page \in heap' /\ heap' = Entered' \cup {cpu'[c].page},
         cpu'[c].pc = "enter" => cpu'[c].ix = cnt',
         cpu'[c].pc \in {"zero", "off"} => heap' = {} /\ freelist' = Null,
         cpu'[c].pc = "off" => cnt' = 0,
         cpu'[c].pc \in {"new", "count", "enter", "publish"} => freelist' = Null,
         cpu'[c].pc \in {"count", "enter", "publish", "linking"} =>
           /\ cpu'[c].page \in heap'
           /\ \A i \in 1..PerPage : next'[<<cpu'[c].page, i>>] = Junk,
         cpu'[c].pc \notin {"count", "enter", "zero"} => heap' = Entered',
         ~enabled' /\ cpu'[c].pc # "exit" => heap' = {}
  PROVE  Fetched'
  <1>1. \A e \in Cpus \ {c} : cpu'[e].pc \notin Exclusive
    BY Zenon DEF OnlyMoves
  <1>2. \A e \in Cpus \ {c} :
          cpu'[e].pc \notin {"new", "count", "enter", "publish", "linking", "exit", "zero", "off"}
    BY <1>1, Zenon DEF Exclusive
  <1>3. /\ At({"count", "enter", "zero"})' = {} => cpu'[c].pc \notin {"count", "enter", "zero"}
        /\ At({"exit"})' = {} => cpu'[c].pc # "exit"
    BY Zenon DEF At
  <1>4. QED
    BY <1>2, <1>3, Zenon DEF Fetched

\* The page that c is fetching.
Own(c) == IF cpu[c].pc \in {"count", "enter", "publish"} THEN {cpu[c].page} ELSE {}

LEMMA UnpublishedOwn ==
  ASSUME NEW c \in Cpus, \A e \in Cpus \ {c} : cpu[e].pc \notin Exclusive
  PROVE  Unpublished = Own(c)
  BY Zenon DEF Unpublished, Own, At, Exclusive

\* What is known of the headers before the step, if c is not in the middle of
\* linking or freeing the pages.
LEMMA FreeElim ==
  ASSUME NEW c \in Cpus, OnlyMoves(c), FreeHeaders,
         cpu[c].pc \notin {"linking", "link", "exit", "zero", "off"}
  PROVE  IsList /\ SharedOut(heap \ Own(c), Free)
  <1>1. \A e \in Cpus \ {c} : cpu[e].pc \notin Exclusive
    BY Zenon DEF OnlyMoves
  <1>2. At({"linking", "link", "exit", "zero", "off"}) = {}
    BY <1>1, Zenon DEF At, Exclusive
  <1>3. Unpublished = Own(c)
    BY <1>1, UnpublishedOwn, Zenon
  <1>4. QED
    BY <1>2, <1>3, Zenon DEF FreeHeaders

\* What is to be shown of them after the step.
LEMMA FreeIntro ==
  ASSUME NEW c \in Cpus, OnlyMoves(c),
         (\A e, d \in At({"list"}) : cpu[e].mch = cpu[d].mch => e = d)',
         cpu'[c].pc \notin {"linking", "link", "exit", "zero", "off"} =>
           IsList' /\ SharedOut(heap \ Own(c), Free)',
         cpu'[c].pc = "linking" =>
           LinkedTo(cpu[c].page, 1)' /\ SharedOut(heap \ {cpu[c].page}, {})',
         cpu'[c].pc = "link" =>
           LinkedTo(cpu[c].mch[1], cpu[c].mch[2])' /\ SharedOut(heap \ {cpu[c].mch[1]}, {})',
         cpu'[c].pc \in {"exit", "zero", "off"} =>
           /\ Free' \cap listed' = {} /\ Reached' \subseteq (heap' \X (1..PerPage)) \cup {Null}
           /\ listed' = {} \/ cpu'[c].stop
  PROVE  FreeHeaders'
  <1>1. \A e \in Cpus \ {c} : cpu'[e].pc \notin Exclusive
    BY Zenon DEF OnlyMoves
  <1>2. Unpublished' = Own(c)'
    BY <1>1, Zenon DEF Unpublished, Own, At, Exclusive
  <1>3. \A e \in Cpus \ {c} : cpu'[e].pc \notin {"linking", "link", "exit", "zero", "off"}
    BY <1>1, Zenon DEF Exclusive
  <1>4. /\ At({"linking", "link", "exit", "zero", "off"})' = {} =>
             cpu'[c].pc \notin {"linking", "link", "exit", "zero", "off"}
        /\ \A e \in At({"linking"})' : e = c /\ cpu'[c].pc = "linking"
        /\ \A e \in At({"link"})' : e = c /\ cpu'[c].pc = "link"
        /\ \A e \in At({"exit", "zero", "off"})' :
             e = c /\ cpu'[c].pc \in {"exit", "zero", "off"}
    BY <1>3, Zenon DEF At
  <1>5. QED
    BY <1>2, <1>4, Zenon DEF FreeHeaders

\* The headers in hand change with the place of c alone.
LEMMA HandsKept ==
  ASSUME NEW c \in Cpus, OnlyMoves(c), cpu[c].pc # "list", cpu'[c].pc # "list"
  PROVE  InHand' = InHand /\ At({"list"})' = At({"list"})
  BY Zenon DEF InHand, At, OnlyMoves

\* The others are idle.
LEMMA HandsEmpty ==
  ASSUME NEW c \in Cpus, OnlyMoves(c), cpu'[c].pc \in Exclusive
  PROVE  InHand' = {} /\ At({"list"})' = {}
  BY Zenon DEF InHand, At, OnlyMoves, Exclusive

\* Distinct CPUs still have distinct headers.
LEMMA DistinctKept ==
  ASSUME NEW c \in Cpus, OnlyMoves(c), cpu[c].pc # "list", cpu'[c].pc # "list", FreeHeaders
  PROVE  (\A e, d \in At({"list"}) : cpu[e].mch = cpu[d].mch => e = d)'
  BY Zenon DEF FreeHeaders, At, OnlyMoves

LEMMA FetchedElim ==
  ASSUME NEW c \in Cpus, OnlyMoves(c), Fetched
  PROVE  /\ cpu[c].pc \notin {"count", "enter", "zero"} => heap = Entered
         /\ ~enabled /\ cpu[c].pc # "exit" => heap = {}
  <1>1. \A e \in Cpus \ {c} : cpu[e].pc \notin {"count", "enter", "zero", "exit"}
    BY Zenon DEF OnlyMoves, Exclusive
  <1>2. /\ cpu[c].pc \notin {"count", "enter", "zero"} => At({"count", "enter", "zero"}) = {}
        /\ cpu[c].pc # "exit" => At({"exit"}) = {}
    BY <1>1, Zenon DEF At
  <1>3. QED
    BY <1>2, Zenon DEF Fetched

---------------------------------------------------------------------------
(* The freelist.                                                            *)

LEMMA ListClosed ==
  ASSUME Fields
  PROVE  /\ freelist \in Reached /\ Reached \subseteq Pointers
         /\ \A h \in Free : next[h] \in Reached
  <1>1. freelist \in Pointers /\ \A h \in Headers : next[h] \in Pointers
    BY Zenon DEF Fields
  <1>2. QED
    BY <1>1, ReachedClosed, Zenon DEF Reached, Free

LEMMA ListSame ==
  ASSUME next' = next, freelist' = freelist
  PROVE  Reached' = Reached /\ Free' = Free /\ (IsList => IsList')
  BY Zenon DEF Reached, Free, IsList

LEMMA ListEmpty ==
  ASSUME freelist = Null
  PROVE  Reached = {Null} /\ Free = {} /\ IsList
  <1>1. Null \in Pointers \ Headers
    BY NoHeader, Zenon DEF Pointers
  <1>2. Reached = {Null}
    BY <1>1, ReachedNowhere, Zenon DEF Reached
  <1>3. QED
    BY <1>2, NoHeader, Zenon DEF Free, IsList

LEMMA ListEmptied ==
  ASSUME freelist' = Null
  PROVE  Reached' = {Null} /\ Free' = {} /\ IsList'
  <1>1. Null \in Pointers \ Headers
    BY NoHeader, Zenon DEF Pointers
  <1>2. Reached' = {Null}
    BY <1>1, ReachedNowhere, Zenon DEF Reached
  <1>3. QED
    BY <1>2, NoHeader, Zenon DEF Free, IsList

\* A step that leaves the headers where they are.
LEMMA HeadersStay ==
  ASSUME NEW c \in Cpus, OnlyMoves(c), enabled, FreeHeaders,
         UNCHANGED <<next, freelist, heap, listed>>,
         cpu[c].pc \notin {"linking", "link", "exit", "zero", "off", "list"},
         cpu'[c].pc \notin {"linking", "link", "exit", "zero", "off", "list"},
         Own(c)' = Own(c)
  PROVE  FreeHeaders'
  <1>1. IsList /\ SharedOut(heap \ Own(c), Free)
    BY FreeElim, Zenon
  <1>2. InHand' = InHand
    BY HandsKept, Zenon
  <1>3. Free' = Free /\ IsList'
    BY <1>1, ListSame, Zenon
  <1>4. SharedOut(heap \ Own(c), Free)'
    BY <1>1, <1>2, <1>3, Zenon DEF SharedOut
  <1>5. (\A e, d \in At({"list"}) : cpu[e].mch = cpu[d].mch => e = d)'
    BY DistinctKept, Zenon
  <1>6. QED
    BY <1>3, <1>4, <1>5, FreeIntro, Zenon

---------------------------------------------------------------------------
(* The actions, one by one.                                                 *)

Sound == Apart /\ Fetched /\ cnt <= MaxPages /\ (enabled => FreeHeaders)

\* Without the daemon nobody is in the middle of mcdctl_malloc.
LEMMA InsideEnabled ==
  ASSUME Apart, NEW c \in Cpus, cpu[c].pc \notin {"idle", "exit", "zero", "off"}
  PROVE  enabled
  BY Zenon DEF Apart

LEMMA MallocTestSound ==
  ASSUME Shape, Sound, NEW c \in Cpus, OnlyMoves(c), Malloc(c) \/ Test(c)
  PROVE  Sound'
  <1>1. /\ UNCHANGED <<next, freelist, table, cnt, heap, listed, enabled>>
        /\ cpu[c].pc \in {"idle", "test"} /\ cpu'[c].pc \in {"test", "new", "pop"}
        /\ cpu'[c].pc = "new" => freelist = Null
    BY MallocTest, Zenon
  <1>2. enabled
    BY MallocTest, InsideEnabled, Zenon DEF Sound
  <1>3. heap = Entered /\ Entered' = Entered
    BY <1>1, FetchedElim, Zenon DEF Sound, Entered
  <1>4. Apart'
    BY <1>1, <1>2, ApartIntro, Zenon
  <1>5. Fetched'
    BY <1>1, <1>2, <1>3, FetchedIntro, Zenon
  <1>6. Own(c)' = {} /\ Own(c) = {}
    BY <1>1, Zenon DEF Own
  <1>7. FreeHeaders'
    BY <1>1, <1>2, <1>6, HeadersStay, Zenon DEF Sound
  <1>8. QED
    BY <1>1, <1>4, <1>5, <1>7, Zenon DEF Sound

LEMMA NewPageSound ==
  ASSUME Fields, Shape, Sound, NEW c \in Cpus, OnlyMoves(c), NewPage(c)
  PROVE  Sound'
  <1>1. UNCHANGED <<freelist, table, cnt, listed, enabled>> /\ cpu[c].pc = "new"
    BY NewPageDoes, Zenon
  <1>2. enabled /\ freelist = Null
    BY <1>1, InsideEnabled, Zenon DEF Sound, Fetched
  <1>3. heap = Entered /\ Entered' = Entered
    BY <1>1, FetchedElim, Zenon DEF Sound, Entered
  <1>4. Apart'
    BY <1>1, <1>2, ApartIntro, Zenon
  <1>5. CASE cpu'[c].pc = "pop" /\ UNCHANGED <<heap, next>>
    <2>1. Fetched'
      BY <1>1, <1>2, <1>3, <1>5, FetchedIntro, Zenon
    <2>2. Own(c)' = {} /\ Own(c) = {}
      BY <1>1, <1>5, Zenon DEF Own
    <2>3. FreeHeaders'
      BY <1>1, <1>2, <1>5, <2>2, HeadersStay, Zenon DEF Sound
    <2>4. QED
      BY <1>1, <1>4, <2>1, <2>3, Zenon DEF Sound
  <1>6. ASSUME NEW p \in Pages \ heap, heap' = heap \cup {p}, cnt < MaxPages,
               next' = [h \in Headers |-> IF h[1] = p THEN Junk ELSE next[h]],
               cpu'[c].pc = "count", cpu'[c].page = p
        PROVE  Sound'
    <2>1. \A i \in 1..PerPage : next'[<<p, i>>] = Junk
      BY <1>6, PairHeader, Zenon
    <2>2. Fetched'
      BY <1>1, <1>2, <1>3, <1>6, <2>1, FetchedIntro, Zenon
    <2>3. Own(c)' = {p} /\ Own(c) = {}
      BY <1>1, <1>6, Zenon DEF Own
    <2>4. IsList /\ SharedOut(heap \ Own(c), Free)
      BY <1>1, <1>2, FreeElim, Zenon DEF Sound
    <2>5. IsList' /\ Free' = Free
      BY <1>1, <1>2, ListEmpty, ListEmptied, Zenon
    <2>6. InHand' = InHand
      BY <1>1, <1>6, HandsKept, Zenon
    <2>7. (heap \ Own(c))' = heap \ Own(c)
      BY <1>6, <2>3, Zenon
    <2>8. SharedOut(heap \ Own(c), Free)'
      BY <1>1, <2>4, <2>5, <2>6, <2>7, Zenon DEF SharedOut
    <2>9. (\A e, d \in At({"list"}) : cpu[e].mch = cpu[d].mch => e = d)'
      BY <1>1, <1>2, <1>6, DistinctKept, Zenon DEF Sound
    <2>10. FreeHeaders'
      BY <1>6, <2>5, <2>8, <2>9, FreeIntro, Zenon
    <2>11. QED
      BY <1>1, <1>4, <2>2, <2>10, Zenon DEF Sound
  <1>7. QED
    BY <1>5, <1>6, NewPageDoes, Zenon

LEMMA CountSound ==
  ASSUME Fields, Shape, Sound, NEW c \in Cpus, OnlyMoves(c), Count(c)
  PROVE  Sound'
  <1>1. /\ UNCHANGED <<next, freelist, table, cnt, heap, listed, enabled>>
        /\ cpu[c].pc = "count" /\ cpu'[c].pc = "enter"
        /\ cpu'[c].page = cpu[c].page /\ cpu'[c].ix = cnt
    BY CountDoes, Zenon
  <1>2. enabled
    BY <1>1, InsideEnabled, Zenon DEF Sound
  <1>3. Apart'
    BY <1>1, <1>2, ApartIntro, Zenon
  <1>4. /\ cnt < MaxPages /\ cpu[c].page \in heap /\ heap = Entered \cup {cpu[c].page}
        /\ freelist = Null /\ \A i \in 1..PerPage : next[<<cpu[c].page, i>>] = Junk
    BY <1>1, Zenon DEF Sound, Fetched
  <1>5. Entered' = Entered
    BY <1>1, Zenon DEF Entered
  <1>6. Fetched'
    BY <1>1, <1>2, <1>4, <1>5, FetchedIntro, Zenon
  <1>7. Own(c)' = Own(c)
    BY <1>1, Zenon DEF Own
  <1>8. FreeHeaders'
    BY <1>1, <1>2, <1>7, HeadersStay, Zenon DEF Sound
  <1>9. QED
    BY <1>1, <1>3, <1>6, <1>8, Zenon DEF Sound

LEMMA EnterSound ==
  ASSUME Fields, Shape, Sound, NEW c \in Cpus, OnlyMoves(c), Enter(c)
  PROVE  Sound'
  <1>1. /\ UNCHANGED <<next, freelist, heap, listed, enabled>> /\ cnt' = cpu[c].ix + 1
        /\ table' \in [0..(MaxPages - 1) -> Pages \cup {Null}]
        /\ \A i \in 0..(MaxPages - 1) :
             table'[i] = IF i = cpu[c].ix THEN cpu[c].page ELSE table[i]
        /\ cpu[c].pc = "enter" /\ cpu'[c].pc = "publish" /\ cpu'[c].page = cpu[c].page
    BY EnterDoes, Zenon
  <1>2. enabled
    BY <1>1, InsideEnabled, Zenon DEF Sound
  <1>3. Apart'
    BY <1>1, <1>2, ApartIntro, Zenon
  <1>4. /\ cnt < MaxPages /\ cpu[c].page \in heap /\ heap = Entered \cup {cpu[c].page}
        /\ cpu[c].ix = cnt
        /\ freelist = Null /\ \A i \in 1..PerPage : next[<<cpu[c].page, i>>] = Junk
    BY <1>1, Zenon DEF Sound, Fetched
  \* The page takes the place behind those that are entered.
  <1>5. Entered' = Entered \cup {cpu[c].page}
    <2> DEFINE p == cpu[c].page
    <2>1. /\ table \in [0..(MaxPages - 1) -> Pages \cup {Null}] /\ cnt \in Nat
          /\ MaxPages \in Nat
      BY HeadersConstants, Zenon DEF Fields
    <2>2. \A i \in 0..(MaxPages - 1) : (i < cnt' <=> i < cnt \/ i = cnt)
      BY <1>1, <1>4, <2>1
    <2>3. \A i \in 0..(MaxPages - 1) : i < cnt => i # cnt
      BY <2>1
    <2>4. cnt \in 0..(MaxPages - 1)
      BY <1>4, <2>1
    <2>5. DOMAIN table' = 0..(MaxPages - 1) /\ DOMAIN table = 0..(MaxPages - 1)
      BY <1>1, <2>1, Zenon
    <2>6. \A i \in 0..(MaxPages - 1) : table'[i] = IF i = cnt THEN p ELSE table[i]
      BY <1>1, <1>4, Zenon
    <2> HIDE DEF p
    <2>7. QED
      BY <2>2, <2>3, <2>4, <2>5, <2>6, Zenon DEF Entered, p
  <1>6. Fetched'
    BY <1>1, <1>2, <1>4, <1>5, FetchedIntro, Zenon
  <1>7. Own(c)' = Own(c)
    BY <1>1, Zenon DEF Own
  <1>8. FreeHeaders'
    BY <1>1, <1>2, <1>7, HeadersStay, Zenon DEF Sound
  <1>9. cnt' <= MaxPages
    BY <1>1, <1>4, HeadersConstants DEF Fields
  <1>10. QED
    BY <1>3, <1>6, <1>8, <1>9, Zenon DEF Sound

LEMMA PublishSound ==
  ASSUME Fields, Shape, Sound, NEW c \in Cpus, OnlyMoves(c), Publish(c)
  PROVE  Sound'
  <1> DEFINE p == cpu[c].page
  <1>1. /\ UNCHANGED <<next, table, cnt, heap, listed, enabled>>
        /\ freelist' = <<p, 1>> /\ p \in Pages /\ freelist' \in Headers
        /\ cpu[c].pc = "publish" /\ cpu'[c].pc = "linking" /\ cpu'[c].page = p
    BY PublishDoes, Zenon
  <1>2. enabled
    BY <1>1, InsideEnabled, Zenon DEF Sound
  <1>3. Apart'
    BY <1>1, <1>2, ApartIntro, Zenon
  <1>4. /\ p \in heap /\ freelist = Null
        /\ \A i \in 1..PerPage : next[<<p, i>>] = Junk
    BY <1>1, Zenon DEF Sound, Fetched
  <1>5. heap = Entered /\ Entered' = Entered
    BY <1>1, FetchedElim, Zenon DEF Sound, Entered
  <1>6. Fetched'
    BY <1>1, <1>2, <1>4, <1>5, FetchedIntro, Zenon
  <1>7. 1 \in 1..PerPage
    BY HeadersConstants
  <1>8. next'[<<p, 1>>] = Junk
    BY <1>1, <1>4, <1>7, Zenon
  <1>9. Free' = {<<p, 1>>}
    <2> DEFINE S == {freelist', Junk}
    <2>1. /\ S \in SUBSET Pointers /\ freelist' \in S
          /\ \A h \in S \cap Headers : next'[h] \in S
      BY <1>1, <1>8, NoHeader, Zenon DEF Pointers
    <2> HIDE DEF S
    <2>2. Reached' \subseteq S
      BY <2>1, ReachedInside, Zenon DEF Reached
    <2>3. freelist' \in Reached'
      <3>1. freelist' \in Pointers /\ \A h \in Headers : next'[h] \in Pointers
        BY <1>1, Zenon DEF Fields, Pointers
      <3>2. QED
        BY <3>1, ReachedClosed, Zenon DEF Reached
    <2>4. QED
      BY <1>1, <2>2, <2>3, NoHeader, Zenon DEF S, Free
  <1>10. {<<p, 1>>} = {p} \X (1..1) /\ \A i \in 1..1 : i = 1
    OBVIOUS
  <1>11. LinkedTo(cpu[c].page, 1)'
    BY <1>1, <1>4, <1>7, <1>8, <1>9, <1>10 DEF LinkedTo
  <1>12. IsList /\ SharedOut(heap \ Own(c), Free) /\ Free = {} /\ Own(c) = {p}
    BY <1>1, <1>2, <1>4, FreeElim, ListEmpty, Zenon DEF Sound, Own
  <1>13. InHand' = InHand
    BY <1>1, HandsKept, Zenon
  <1>14. SharedOut(heap \ {cpu[c].page}, {})'
    BY <1>1, <1>12, <1>13, Zenon DEF SharedOut
  <1>15. (\A e, d \in At({"list"}) : cpu[e].mch = cpu[d].mch => e = d)'
    BY <1>1, <1>2, DistinctKept, Zenon DEF Sound
  <1>16. FreeHeaders'
    BY <1>1, <1>11, <1>14, <1>15, FreeIntro, Zenon
  <1>17. QED
    BY <1>1, <1>3, <1>6, <1>16, Zenon DEF Sound

LEMMA LinkingSound ==
  ASSUME Fields, Shape, Sound, NEW c \in Cpus, OnlyMoves(c), Linking(c)
  PROVE  Sound'
  <1> DEFINE p == cpu[c].page
  <1>1. /\ UNCHANGED <<next, freelist, table, cnt, heap, listed, enabled>>
        /\ cpu[c].pc = "linking" /\ cpu'[c].mch = freelist
        /\ cpu'[c].pc = IF freelist \in Headers THEN "link" ELSE "fault"
    BY LinkingDoes, Zenon
  <1>2. enabled
    BY <1>1, InsideEnabled, Zenon DEF Sound
  <1>3. LinkedTo(p, 1) /\ SharedOut(heap \ {p}, {})
    BY <1>1, <1>2, Zenon DEF Sound, FreeHeaders, At
  <1>4. freelist = <<p, 1>> /\ p \in Pages /\ 1 \in 1..PerPage
    BY <1>3, HeadersConstants DEF LinkedTo, Fields
  <1>5. freelist \in Headers /\ freelist[1] = p /\ freelist[2] = 1
    BY <1>4, PairHeader, Zenon
  <1>6. cpu'[c].pc = "link"
    BY <1>1, <1>5, Zenon
  <1>7. Apart'
    BY <1>1, <1>2, <1>6, ApartIntro, Zenon
  <1>8. heap = Entered /\ Entered' = Entered
    BY <1>1, FetchedElim, Zenon DEF Sound, Entered
  <1>9. Fetched'
    BY <1>1, <1>2, <1>6, <1>8, FetchedIntro, Zenon
  <1>10. InHand' = InHand /\ Free' = Free
    BY <1>1, <1>6, HandsKept, ListSame, Zenon
  <1>11. LinkedTo(cpu[c].mch[1], cpu[c].mch[2])' /\ SharedOut(heap \ {cpu[c].mch[1]}, {})'
    <2>1. cpu'[c].mch[1] = p /\ cpu'[c].mch[2] = 1
      BY <1>1, <1>5, Zenon
    <2>2. QED
      BY <1>1, <1>3, <1>10, <2>1, Zenon DEF LinkedTo, SharedOut
  <1>12. (\A e, d \in At({"list"}) : cpu[e].mch = cpu[d].mch => e = d)'
    BY <1>1, <1>2, <1>6, DistinctKept, Zenon DEF Sound
  <1>13. FreeHeaders'
    BY <1>6, <1>11, <1>12, FreeIntro, Zenon
  <1>14. QED
    BY <1>1, <1>7, <1>9, <1>13, Zenon DEF Sound

\* The page is linked to its end: its headers are a list.
LEMMA PageLinked ==
  ASSUME Fields, NEW p, LinkedTo(p, PerPage)
  PROVE  IsList /\ Free = {p} \X (1..PerPage)
  <1>1. /\ p \in Pages /\ freelist = <<p, 1>> /\ Free = {p} \X (1..PerPage)
        /\ \A i \in 1..PerPage : next[<<p, i>>] = IF i < PerPage THEN <<p, i + 1>>
                                                  ELSE IF PerPage = 1 THEN Junk ELSE Null
    BY Zenon DEF LinkedTo, Fields
  <1>2. PerPage \in Nat /\ PerPage # 1 /\ PerPage # 0
    BY HeadersConstants
  <1>3. \A i \in 1..PerPage : next[<<p, i>>] = IF i < PerPage THEN <<p, i + 1>> ELSE Null
    BY <1>1, <1>2, Zenon
  <1>4. \A i \in 1..PerPage : i < PerPage => i + 1 \in 1..PerPage /\ i + 1 # 1
    BY <1>2
  <1>5. 1 \in 1..PerPage
    BY <1>2
  <1>6. \A i \in 1..PerPage : <<p, i>> \in Headers
    BY <1>1, PairHeader, Zenon
  <1>7. Junk \notin Reached
    <2> DEFINE S == ({p} \X (1..PerPage)) \cup {Null}
    <2>1. \A i \in 1..PerPage : <<p, i>> \in S
      OBVIOUS
    <2>2. \A h \in S : h = Null \/ \E i \in 1..PerPage : h = <<p, i>>
      OBVIOUS
    <2>3. S \in SUBSET Pointers
      BY <1>6, <2>2, Zenon DEF Pointers
    <2>4. Null \in S
      BY Zenon
    <2> HIDE DEF S
    <2>5. freelist \in S
      BY <1>1, <1>5, <2>1, Zenon
    <2>6. \A h \in S \cap Headers : next[h] \in S
      BY <1>3, <1>4, <2>1, <2>2, <2>4, NoHeader, Zenon
    <2>7. Reached \subseteq S
      BY <2>3, <2>5, <2>6, ReachedInside, Zenon DEF Reached
    <2>8. QED
      BY <1>6, <2>2, <2>7, NoHeader, Zenon
  <1>8. \A h \in Free : \E i \in 1..PerPage : h = <<p, i>>
    BY <1>1
  <1>9. ASSUME NEW i \in 1..PerPage PROVE next[<<p, i>>] # freelist
    <2>1. CASE i < PerPage
      <3>1. next[<<p, i>>] = <<p, i + 1>> /\ i + 1 # 1
        BY <1>3, <1>4, <2>1, Zenon
      <3>2. QED
        BY <1>1, <3>1
    <2>2. CASE ~(i < PerPage)
      BY <1>1, <1>3, <1>5, <1>6, <2>2, NoHeader, Zenon
    <2>3. QED
      BY <2>1, <2>2, Zenon
  <1>10. ASSUME NEW i \in 1..PerPage, NEW j \in 1..PerPage, next[<<p, i>>] = next[<<p, j>>]
         PROVE  i = j
    <2>1. CASE i < PerPage /\ j < PerPage
      <3>1. <<p, i + 1>> = <<p, j + 1>>
        BY <1>3, <1>10, <2>1, Zenon
      <3>2. QED
        BY <3>1
    <2>2. CASE i < PerPage /\ ~(j < PerPage)
      BY <1>3, <1>4, <1>6, <1>10, <2>2, NoHeader, Zenon
    <2>3. CASE ~(i < PerPage) /\ j < PerPage
      BY <1>3, <1>4, <1>6, <1>10, <2>3, NoHeader, Zenon
    <2>4. CASE ~(i < PerPage) /\ ~(j < PerPage)
      BY <1>2, <2>4
    <2>5. QED
      BY <2>1, <2>2, <2>3, <2>4, Zenon
  <1>11. \A h \in Free : next[h] # freelist
    BY <1>8, <1>9, Zenon
  <1>12. ASSUME NEW g \in Free, NEW h \in Free, next[g] = next[h] PROVE g = h
    <2>1. PICK i \in 1..PerPage : g = <<p, i>>
      BY <1>8, Zenon
    <2>2. PICK j \in 1..PerPage : h = <<p, j>>
      BY <1>8, Zenon
    <2>3. i = j
      BY <1>10, <1>12, <2>1, <2>2, Zenon
    <2>4. QED
      BY <2>1, <2>2, <2>3, Zenon
  <1>13. QED
    BY <1>1, <1>7, <1>11, <1>12, Zenon DEF IsList

\* One more header of the page is linked.
LEMMA LinkedFurther ==
  ASSUME Fields, NEW p, NEW k \in 1..PerPage, k + 1 \in 1..PerPage, LinkedTo(p, k),
         UNCHANGED <<freelist, heap>>, <<p, k>> \in Headers, <<p, k + 1>> \in Headers,
         next' = [next EXCEPT ![<<p, k>>] = <<p, k + 1>>, ![<<p, k + 1>>] = Null]
  PROVE  LinkedTo(p, k + 1)'
  <1> DEFINE t == <<p, k>>
             x == <<p, k + 1>>
  <1>1. /\ p \in heap /\ p \in Pages /\ freelist = <<p, 1>> /\ Free = {p} \X (1..k)
        /\ \A i \in 1..k : next[<<p, i>>] = IF i < k THEN <<p, i + 1>>
                                            ELSE IF k = 1 THEN Junk ELSE Null
    BY Zenon DEF LinkedTo, Fields
  <1>2. t # x /\ k \in Nat /\ PerPage \in Nat
    BY HeadersConstants
  <1>3. /\ next'[t] = x /\ next'[x] = Null
        /\ \A h \in Headers : h \notin {t, x} => next'[h] = next[h]
    BY <1>2 DEF Fields
  <1>4. \A i \in 1..k : i \in 1..PerPage
    BY <1>2
  <1>5. k \in 1..k /\ 1 \in 1..k /\ 1 \in 1..PerPage /\ ~(k < k)
    BY <1>2
  <1>6. t \in Free /\ x \notin Free
    BY <1>1, <1>5
  <1>7. next[t] \notin Headers
    BY <1>1, <1>5, NoHeader, Zenon
  <1>8. \A h \in Free \ {t} : next[h] \in Free
    <2>1. ASSUME NEW i \in 1..k, i # k PROVE next[<<p, i>>] \in Free
      <3>1. i < k /\ i + 1 \in 1..k
        BY <1>2, <2>1
      <3>2. next[<<p, i>>] = <<p, i + 1>>
        BY <1>1, <3>1, Zenon
      <3>3. QED
        BY <1>1, <3>1, <3>2
    <2>2. \A h \in Free \ {t} : \E i \in 1..k : h = <<p, i>> /\ i # k
      BY <1>1
    <2>3. QED
      BY <2>1, <2>2, Zenon
  <1>9. Free' = Free \cup {x}
    <2>1. /\ freelist \in Headers
          /\ \A h \in Headers : next[h] \in Pointers
      BY <1>1, <1>5, PairHeader, Zenon DEF Fields
    <2>2. t \in Headers /\ x \in Headers
      BY Zenon
    <2> DEFINE new == next'
    <2> HIDE DEF t, x
    <2>3. /\ new[t] = x /\ new[x] = Null
          /\ \A h \in Headers : h # t /\ h # x => new[h] = next[h]
      BY <1>3, Zenon
    <2> HIDE DEF new
    <2>4. Free = HeadersFrom(freelist, next)
      BY Zenon DEF Free, Reached, HeadersFrom
    <2>5. /\ t \in HeadersFrom(freelist, next) /\ x \notin HeadersFrom(freelist, next)
          /\ \A h \in HeadersFrom(freelist, next) :
               h # t => next[h] \in HeadersFrom(freelist, next)
      BY <1>6, <1>8, <2>4, Zenon
    <2>6. HeadersFrom(freelist, new) = HeadersFrom(freelist, next) \cup {x}
      BY <1>7, <2>1, <2>2, <2>3, <2>5, ReachedExtend, SMT
    <2>7. QED
      BY <2>4, <2>6, Zenon DEF Free, Reached, new, HeadersFrom
  <1>10. Free' = {p} \X (1..(k + 1))
    BY <1>1, <1>2, <1>9
  <1>11. ASSUME NEW i \in 1..(k + 1)
         PROVE  next'[<<p, i>>] = IF i < k + 1 THEN <<p, i + 1>>
                                  ELSE IF k + 1 = 1 THEN Junk ELSE Null
    <2>1. CASE i = k + 1
      BY <1>2, <1>3, <2>1
    <2>2. CASE i = k
      <3>1. k < k + 1
        BY <1>2
      <3>2. QED
        BY <1>3, <2>2, <3>1, Zenon
    <2>3. CASE i < k
      <3>1. i \in 1..k /\ i < k + 1 /\ i # k /\ i # k + 1
        BY <1>2, <2>3
      <3>2. next[<<p, i>>] = <<p, i + 1>> /\ <<p, i>> \in Headers
        BY <1>1, <1>4, <2>3, <3>1, PairHeader, Zenon
      <3>3. <<p, i>> \notin {t, x}
        BY <3>1
      <3>4. QED
        BY <1>3, <3>1, <3>2, <3>3, Zenon
    <2>4. QED
      BY <1>2, <2>1, <2>2, <2>3
  <1>12. QED
    BY <1>1, <1>10, <1>11, Zenon DEF LinkedTo

LEMMA LinkSound ==
  ASSUME Fields, Shape, Sound, NEW c \in Cpus, OnlyMoves(c), Link(c)
  PROVE  Sound'
  <1>1. /\ UNCHANGED <<freelist, table, cnt, heap, listed, enabled>>
        /\ cpu[c].pc = "link" /\ cpu[c].mch \in Headers
    BY LinkDoes, Zenon
  <1>2. enabled
    BY <1>1, InsideEnabled, Zenon DEF Sound
  <1>3. Apart'
    BY <1>1, <1>2, ApartIntro, Zenon
  <1>4. heap = Entered /\ Entered' = Entered
    BY <1>1, FetchedElim, Zenon DEF Sound, Entered
  <1>5. PICK p \in Pages, k \in 1..PerPage :
          cpu[c].mch = <<p, k>> /\ cpu[c].mch[1] = p /\ cpu[c].mch[2] = k
    BY <1>1, HeaderPair, Zenon
  <1>6. LinkedTo(p, k) /\ SharedOut(heap \ {p}, {})
    BY <1>1, <1>2, <1>5, Zenon DEF Sound, FreeHeaders, At
  <1>7. CASE k = PerPage /\ next' = next /\ cpu'[c].pc = "pop"
    <2>1. Fetched'
      BY <1>1, <1>2, <1>4, <1>7, FetchedIntro, Zenon
    <2>2. IsList /\ Free = {p} \X (1..PerPage)
      BY <1>6, <1>7, PageLinked, Zenon
    <2>3. IsList' /\ Free' = Free /\ InHand' = InHand /\ Own(c)' = {}
      BY <1>1, <1>7, <2>2, ListSame, HandsKept, Zenon DEF Own
    <2>4. SharedOut(heap, Free)
      <3>1. p \in heap
        BY <1>6, Zenon DEF LinkedTo
      <3>2. /\ heap \X (1..PerPage) = Free \cup ((heap \ {p}) \X (1..PerPage))
            /\ Free \cap ((heap \ {p}) \X (1..PerPage)) = {}
        BY <2>2, <3>1
      <3>3. QED
        BY <1>6, <3>2, Zenon DEF SharedOut
    <2>5. SharedOut(heap \ Own(c), Free)'
      <3>1. heap' \ Own(c)' = heap
        BY <1>1, <2>3, Zenon
      <3>2. QED
        BY <1>1, <2>3, <2>4, <3>1, Zenon DEF SharedOut
    <2>6. (\A e, d \in At({"list"}) : cpu[e].mch = cpu[d].mch => e = d)'
      BY <1>1, <1>2, <1>7, DistinctKept, Zenon DEF Sound
    <2>7. FreeHeaders'
      BY <1>7, <2>3, <2>5, <2>6, FreeIntro, Zenon
    <2>8. QED
      BY <1>1, <1>3, <2>1, <2>7, Zenon DEF Sound
  <1>8. ASSUME NEW n \in Headers, k + 1 \in 1..PerPage, n = <<p, k + 1>>,
               next' = [next EXCEPT ![cpu[c].mch] = n, ![n] = Null],
               cpu'[c].pc = "link", cpu'[c].mch = n
        PROVE  Sound'
    <2>1. Fetched'
      BY <1>1, <1>2, <1>4, <1>8, FetchedIntro, Zenon
    <2>2. LinkedTo(p, k + 1)'
      <3>1. /\ next' = [next EXCEPT ![<<p, k>>] = <<p, k + 1>>, ![<<p, k + 1>>] = Null]
            /\ <<p, k>> \in Headers /\ <<p, k + 1>> \in Headers
        BY <1>1, <1>5, <1>8
      <3>2. QED
        BY <1>1, <1>6, <1>8, <3>1, LinkedFurther, Zenon
    <2>3. cpu'[c].mch[1] = p /\ cpu'[c].mch[2] = k + 1
      BY <1>8
    <2>4. InHand' = InHand
      BY <1>1, <1>8, HandsKept, Zenon
    <2>5. LinkedTo(cpu[c].mch[1], cpu[c].mch[2])' /\ SharedOut(heap \ {cpu[c].mch[1]}, {})'
      BY <1>1, <1>6, <2>2, <2>3, <2>4, Zenon DEF LinkedTo, SharedOut
    <2>6. (\A e, d \in At({"list"}) : cpu[e].mch = cpu[d].mch => e = d)'
      BY <1>1, <1>2, <1>8, DistinctKept, Zenon DEF Sound
    <2>7. FreeHeaders'
      BY <1>8, <2>5, <2>6, FreeIntro, Zenon
    <2>8. QED
      BY <1>1, <1>3, <2>1, <2>7, Zenon DEF Sound
  <1>9. QED
    BY <1>5, <1>7, <1>8, LinkDoes, Zenon

\* The first header goes from the freelist into the hands of c.
LEMMA PopSound ==
  ASSUME Fields, Shape, Sound, NEW c \in Cpus, OnlyMoves(c), Pop(c)
  PROVE  Sound'
  <1>1. UNCHANGED <<next, table, cnt, heap, listed, enabled>> /\ cpu[c].pc = "pop"
    BY PopDoes, Zenon
  <1>2. enabled
    BY <1>1, InsideEnabled, Zenon DEF Sound
  <1>3. Apart'
    BY <1>1, <1>2, ApartIntro, Zenon
  <1>4. heap = Entered /\ Entered' = Entered
    BY <1>1, FetchedElim, Zenon DEF Sound, Entered
  <1>5. CASE freelist \notin Headers /\ cpu'[c].pc = "fault" /\ freelist' = freelist
    <2>1. Fetched'
      BY <1>1, <1>2, <1>4, <1>5, FetchedIntro, Zenon
    <2>2. Own(c)' = Own(c)
      BY <1>1, <1>5, Zenon DEF Own
    <2>3. FreeHeaders'
      BY <1>1, <1>2, <1>5, <2>2, HeadersStay, Zenon DEF Sound
    <2>4. QED
      BY <1>1, <1>3, <2>1, <2>3, Zenon DEF Sound
  <1>6. CASE /\ freelist \in Headers /\ cpu'[c].pc = "list" /\ cpu'[c].mch = freelist
             /\ freelist' = next[freelist] /\ freelist' \in Pointers
    <2>1. Fetched'
      BY <1>1, <1>2, <1>4, <1>6, FetchedIntro, Zenon
    <2>2. IsList /\ SharedOut(heap \ Own(c), Free) /\ Own(c) = {} /\ Own(c)' = {}
      BY <1>1, <1>2, <1>6, FreeElim, Zenon DEF Sound, Own
    <2>3. Reached' = Reached \ {freelist}
      <3>1. /\ \A h \in Headers : next[h] \in Pointers
            /\ \A h \in ReachedFrom(freelist, next) \cap Headers : next[h] # freelist
        BY <2>2, Zenon DEF Fields, IsList, Free, Reached
      <3>2. ReachedFrom(next[freelist], next) = ReachedFrom(freelist, next) \ {freelist}
        BY <1>6, <3>1, ReachedPop, Zenon
      <3>3. QED
        BY <1>1, <1>6, <3>2, Zenon DEF Reached
    <2>4. Free' = Free \ {freelist} /\ freelist \in Free
      BY <1>6, <2>3, ListClosed, Zenon DEF Free
    <2>5. IsList'
      BY <1>1, <1>6, <2>2, <2>3, <2>4, Zenon DEF IsList
    <2>6. At({"list"})' = At({"list"}) \cup {c} /\ c \notin At({"list"})
      BY <1>1, <1>6, Zenon DEF At, OnlyMoves
    <2>7. \A e \in At({"list"}) : e # c /\ cpu'[e] = cpu[e] /\ cpu[e].mch \in InHand
      BY <2>6, Zenon DEF At, OnlyMoves, InHand
    <2>8. InHand' = InHand \cup {freelist}
      BY <1>6, <2>6, <2>7, Zenon DEF InHand
    <2>9. SharedOut(heap \ Own(c), Free)'
      BY <1>1, <2>2, <2>4, <2>8, Zenon DEF SharedOut
    <2>10. \A e \in At({"list"}) : cpu[e].mch # freelist
      BY <2>2, <2>4, <2>7, Zenon DEF SharedOut
    <2>11. (\A e, d \in At({"list"}) : cpu[e].mch = cpu[d].mch => e = d)'
      BY <1>2, <1>6, <2>6, <2>7, <2>10, Zenon DEF Sound, FreeHeaders
    <2>12. FreeHeaders'
      BY <1>6, <2>5, <2>9, <2>11, FreeIntro, Zenon
    <2>13. QED
      BY <1>1, <1>3, <2>1, <2>12, Zenon DEF Sound
  <1>7. QED
    BY <1>5, <1>6, PopDoes, Zenon

\* The header goes from the hands of c into a list.
LEMMA ListSound ==
  ASSUME Fields, Shape, Sound, NEW c \in Cpus, OnlyMoves(c), List(c)
  PROVE  Sound'
  <1>1. /\ UNCHANGED <<next, freelist, table, cnt, heap, enabled>>
        /\ cpu[c].pc = "list" /\ cpu'[c].pc = "idle"
        /\ cpu[c].mch \in Headers /\ listed' = listed \cup {cpu[c].mch}
    BY ListDoes, Zenon
  <1>2. enabled
    BY <1>1, InsideEnabled, Zenon DEF Sound
  <1>3. Apart'
    BY <1>1, <1>2, ApartIntro, Zenon
  <1>4. heap = Entered /\ Entered' = Entered
    BY <1>1, FetchedElim, Zenon DEF Sound, Entered
  <1>5. Fetched'
    BY <1>1, <1>2, <1>4, FetchedIntro, Zenon
  <1>6. IsList /\ SharedOut(heap \ Own(c), Free) /\ Own(c) = {} /\ Own(c)' = {}
    BY <1>1, <1>2, FreeElim, Zenon DEF Sound, Own
  <1>7. Free' = Free /\ IsList'
    BY <1>1, <1>6, ListSame, Zenon
  <1>8. At({"list"})' = At({"list"}) \ {c} /\ c \in At({"list"})
    BY <1>1, Zenon DEF At, OnlyMoves
  <1>9. \A e \in At({"list"}) \ {c} : cpu'[e] = cpu[e] /\ cpu[e].mch # cpu[c].mch
    BY <1>2, <1>8, Zenon DEF At, OnlyMoves, Sound, FreeHeaders
  <1>10. InHand' = InHand \ {cpu[c].mch} /\ cpu[c].mch \in InHand
    BY <1>8, <1>9, Zenon DEF InHand
  <1>11. SharedOut(heap \ Own(c), Free)'
    BY <1>1, <1>6, <1>7, <1>10, Zenon DEF SharedOut
  <1>12. (\A e, d \in At({"list"}) : cpu[e].mch = cpu[d].mch => e = d)'
    BY <1>2, <1>8, <1>9, Zenon DEF Sound, FreeHeaders
  <1>13. FreeHeaders'
    BY <1>1, <1>7, <1>11, <1>12, FreeIntro, Zenon
  <1>14. QED
    BY <1>1, <1>3, <1>5, <1>13, Zenon DEF Sound

\* A listed header goes in front of the freelist.
LEMMA FreeOneSound ==
  ASSUME Fields, Shape, Sound, NEW c \in Cpus, OnlyMoves(c), FreeOne(c)
  PROVE  Sound'
  <1>1. /\ UNCHANGED <<table, cnt, heap, enabled, cpu>> /\ enabled /\ cpu[c].pc = "idle"
        /\ cpu'[c].pc = "idle"
    BY FreeOneDoes, Zenon
  <1>2. PICK x \in listed : /\ listed' = listed \ {x} /\ freelist' = x
                            /\ next'[x] = freelist
                            /\ \A g \in Headers : g # x => next'[g] = next[g]
    BY FreeOneDoes, Zenon
  <1>3. Apart'
    BY <1>1, ApartIntro, Zenon
  <1>4. heap = Entered /\ Entered' = Entered
    BY <1>1, FetchedElim, Zenon DEF Sound, Entered
  <1>5. Fetched'
    BY <1>1, <1>4, FetchedIntro, Zenon
  <1>6. IsList /\ SharedOut(heap \ Own(c), Free) /\ Own(c) = {} /\ Own(c)' = {}
    BY <1>1, FreeElim, Zenon DEF Sound, Own
  <1>7. x \in Headers /\ x \notin Free /\ x \notin Reached
    BY <1>6, Zenon DEF Fields, SharedOut, Free
  <1>8. Reached' = Reached \cup {x}
    <2> DEFINE new == next'
    <2>1. /\ freelist \in Pointers /\ \A h \in Headers : next[h] \in Pointers
          /\ x \notin ReachedFrom(freelist, next)
      BY <1>7, Zenon DEF Fields, Reached
    <2>2. new[x] = freelist /\ \A h \in Headers : h # x => new[h] = next[h]
      BY <1>2, Zenon
    <2> HIDE DEF new
    <2>3. ReachedFrom(x, new) = ReachedFrom(freelist, next) \cup {x}
      BY <1>7, <2>1, <2>2, ReachedPush, SMT
    <2>4. QED
      BY <1>2, <2>3, Zenon DEF Reached, new
  <1>9. Free' = Free \cup {x}
    BY <1>7, <1>8, Zenon DEF Free
  <1>10. \A g \in Free : g # x /\ next'[g] = next[g] /\ next[g] \in Reached /\ next[g] # freelist
    BY <1>2, <1>6, <1>7, ListClosed, Zenon DEF IsList, Free
  <1>11. IsList'
    <2>1. Junk \notin Reached'
      BY <1>6, <1>7, <1>8, NoHeader, Zenon DEF IsList
    <2>2. \A g \in Free' : next'[g] # freelist'
      BY <1>2, <1>7, <1>9, <1>10, ListClosed, Zenon
    <2>3. \A g, h \in Free' : next'[g] = next'[h] => g = h
      BY <1>2, <1>6, <1>9, <1>10, Zenon DEF IsList
    <2>4. QED
      BY <2>1, <2>2, <2>3, Zenon DEF IsList
  <1>12. InHand' = InHand
    BY <1>1, Zenon DEF InHand, At
  <1>13. SharedOut(heap \ Own(c), Free)'
    BY <1>1, <1>2, <1>6, <1>9, <1>12, Zenon DEF SharedOut
  <1>14. (\A e, d \in At({"list"}) : cpu[e].mch = cpu[d].mch => e = d)'
    BY <1>1, Zenon DEF Sound, FreeHeaders, At
  <1>15. FreeHeaders'
    BY <1>1, <1>11, <1>13, <1>14, FreeIntro, Zenon
  <1>16. QED
    BY <1>1, <1>3, <1>5, <1>15, Zenon DEF Sound

\* All listed headers go to the freelist; the pages are freed next.
LEMMA FlushSound ==
  ASSUME Fields, Shape, Sound, NEW c \in Cpus, OnlyMoves(c), Flush(c)
  PROVE  Sound'
  <1>1. /\ UNCHANGED <<table, cnt, heap, enabled>> /\ listed' = {}
        /\ cpu[c].pc = "idle" /\ cpu'[c].pc = "exit"
        /\ freelist' \in listed \cup {freelist}
        /\ enabled => \A h \in Headers :
             IF h \in listed THEN next'[h] \in listed \cup {freelist} ELSE next'[h] = next[h]
    BY FlushDoes, Zenon
  <1>2. cpu'[c].pc \in Exclusive
    BY <1>1, Zenon DEF Exclusive
  <1>3. \A e \in Cpus \ {c} : cpu[e].pc = "idle"
    BY <1>2, Zenon DEF OnlyMoves
  <1>4. Apart'
    BY <1>1, <1>3, ApartIntro, Zenon
  <1>5. heap = Entered /\ Entered' = Entered
    BY <1>1, FetchedElim, Zenon DEF Sound, Entered
  <1>6. Fetched'
    BY <1>1, <1>5, FetchedIntro, Zenon
  <1>7. ASSUME enabled PROVE FreeHeaders'
    <2>1. IsList /\ SharedOut(heap \ Own(c), Free) /\ Own(c) = {}
      BY <1>1, <1>7, FreeElim, Zenon DEF Sound, Own
    <2> DEFINE S == Free \cup listed \cup {Null}
    <2>2. Reached \subseteq Free \cup {Null} /\ freelist \in Reached
          /\ \A h \in Free : next[h] \in Reached
      BY <2>1, ListClosed, Zenon DEF IsList, Free, Pointers
    <2>3. S \in SUBSET Pointers
      BY Zenon DEF Fields, Free, Pointers
    <2>4. freelist' \in S
      BY <1>1, <2>2, Zenon
    <2>5. \A h \in S \cap Headers : next'[h] \in S
      <3>1. ASSUME NEW h \in listed, h \in Headers PROVE next'[h] \in S
        BY <1>1, <1>7, <2>2, <3>1, Zenon
      <3>2. ASSUME NEW h \in Free, h \notin listed, h \in Headers PROVE next'[h] \in S
        BY <1>1, <1>7, <2>2, <3>2, Zenon
      <3>3. QED
        BY <3>1, <3>2, NoHeader, Zenon
    <2>6. S \subseteq (heap \X (1..PerPage)) \cup {Null}
      <3>1. heap \ Own(c) = heap
        BY <2>1, Zenon
      <3>2. QED
        BY <2>1, <3>1, Zenon DEF SharedOut
    <2> HIDE DEF S
    <2>7. Reached' \subseteq S
      BY <2>3, <2>4, <2>5, ReachedInside, Zenon DEF Reached
    <2>8. Reached' \subseteq (heap' \X (1..PerPage)) \cup {Null}
      BY <1>1, <2>6, <2>7, Zenon
    <2>9. (\A e, d \in At({"list"}) : cpu[e].mch = cpu[d].mch => e = d)'
      BY <1>2, HandsEmpty, Zenon
    <2>10. Free' \cap listed' = {}
      BY <1>1, Zenon
    <2>11. QED
      BY <1>1, <2>8, <2>9, <2>10, FreeIntro, Zenon
  <1>8. QED
    BY <1>1, <1>4, <1>6, <1>7, Zenon DEF Sound

\* Only the place of c changes: the pages are still there, and the lists.
LEMMA DisableSound ==
  ASSUME Fields, Shape, Sound, NEW c \in Cpus, OnlyMoves(c), Disable(c)
  PROVE  Sound'
  <1>1. /\ UNCHANGED <<next, freelist, table, cnt, heap, listed, enabled>> /\ enabled
        /\ cpu[c].pc = "idle" /\ cpu'[c].pc = "exit" /\ cpu'[c].stop
    BY DisableDoes, Zenon
  <1>2. cpu'[c].pc \in Exclusive
    BY <1>1, Zenon DEF Exclusive
  <1>3. Apart'
    BY <1>1, ApartIntro, Zenon
  <1>4. heap = Entered /\ Entered' = Entered
    BY <1>1, FetchedElim, Zenon DEF Sound, Entered
  <1>5. Fetched'
    BY <1>1, <1>4, FetchedIntro, Zenon
  <1>6. IsList /\ SharedOut(heap \ Own(c), Free) /\ Own(c) = {}
    BY <1>1, FreeElim, Zenon DEF Sound, Own
  <1>7. Reached' = Reached /\ Free' = Free
    BY <1>1, ListSame, Zenon
  <1>8. Free' \cap listed' = {}
    BY <1>1, <1>6, <1>7, Zenon DEF SharedOut
  <1>9. Reached' \subseteq (heap' \X (1..PerPage)) \cup {Null}
    <2>1. heap \ Own(c) = heap
      BY <1>6, Zenon
    <2>2. Reached \subseteq Free \cup {Null}
      BY <1>6, ListClosed, Zenon DEF IsList, Free, Pointers
    <2>3. QED
      BY <1>1, <1>6, <1>7, <2>1, <2>2, Zenon DEF SharedOut
  <1>10. (\A e, d \in At({"list"}) : cpu[e].mch = cpu[d].mch => e = d)'
    BY <1>2, HandsEmpty, Zenon
  <1>11. FreeHeaders'
    BY <1>1, <1>8, <1>9, <1>10, FreeIntro, Zenon
  <1>12. QED
    BY <1>1, <1>3, <1>5, <1>11, Zenon DEF Sound

\* Every page is in the table, and is freed.
LEMMA ExitSound ==
  ASSUME Fields, Shape, Sound, NEW c \in Cpus, OnlyMoves(c), Exit(c)
  PROVE  Sound'
  <1>1. /\ UNCHANGED <<cnt, listed, enabled>> /\ freelist' = Null /\ heap' = heap \ Entered
        /\ cpu[c].pc = "exit" /\ cpu'[c].pc = "zero" /\ cpu'[c].stop = cpu[c].stop
    BY ExitDoes, Zenon
  <1>2. cpu[c].pc \in Exclusive /\ cpu'[c].pc \in Exclusive
    BY <1>1, Zenon DEF Exclusive
  <1>3. \A e \in Cpus \ {c} : cpu[e].pc = "idle"
    BY <1>2, Zenon DEF OnlyMoves
  <1>4. Apart'
    BY <1>1, <1>3, ApartIntro, Zenon
  <1>5. heap' = {}
    BY <1>1, FetchedElim, Zenon DEF Sound
  <1>6. Fetched'
    BY <1>1, <1>5, FetchedIntro, Zenon
  <1>7. ASSUME enabled PROVE FreeHeaders'
    <2>1. listed' = {} \/ cpu'[c].stop
      BY <1>1, <1>7, Zenon DEF Sound, FreeHeaders, At
    <2>2. Reached' = {Null} /\ Free' = {}
      BY <1>1, ListEmptied, Zenon
    <2>3. (\A e, d \in At({"list"}) : cpu[e].mch = cpu[d].mch => e = d)'
      BY <1>2, HandsEmpty, Zenon
    <2>4. QED
      BY <1>1, <2>1, <2>2, <2>3, FreeIntro, Zenon
  <1>8. QED
    BY <1>1, <1>4, <1>6, <1>7, Zenon DEF Sound

\* With the counter at zero nothing of the table counts.
LEMMA NothingEntered ==
  ASSUME Fields', cnt' = 0
  PROVE  Entered' = {}
  BY DEF Fields, Entered

LEMMA ZeroSound ==
  ASSUME Fields, Fields', Shape, Sound, NEW c \in Cpus, OnlyMoves(c), Zero(c)
  PROVE  Sound'
  <1>1. /\ UNCHANGED <<next, freelist, table, heap, listed, enabled>> /\ cnt' = 0
        /\ cpu[c].pc = "zero"
        /\ \/ ~cpu[c].stop /\ cpu'[c].pc = "idle"
           \/ cpu[c].stop /\ cpu'[c].pc = "off" /\ cpu'[c].stop
    BY ZeroDoes, Zenon
  <1>2. \A e \in Cpus \ {c} : cpu[e].pc = "idle"
    BY <1>1, Zenon DEF Sound, Apart, Exclusive
  <1>3. Apart'
    BY <1>1, <1>2, ApartIntro, Zenon
  <1>4. heap = {} /\ freelist = Null /\ Entered' = {}
    BY <1>1, NothingEntered, Zenon DEF Sound, Fetched
  <1>5. Fetched'
    BY <1>1, <1>4, FetchedIntro, Zenon
  <1>6. cnt' <= MaxPages
    BY <1>1, HeadersConstants
  <1>7. ASSUME enabled PROVE FreeHeaders'
    <2>1. listed' = {} \/ cpu[c].stop
      BY <1>1, <1>7, Zenon DEF Sound, FreeHeaders, At
    <2>2. At({"list"})' = {} /\ InHand' = {}
      BY <1>1, <1>2, Zenon DEF At, InHand, OnlyMoves
    <2>3. IsList' /\ Free' = {} /\ Reached' = {Null}
      BY <1>1, <1>4, ListEmptied, Zenon
    <2>4. (heap' \ Own(c)') \X (1..PerPage) = {}
      BY <1>1, <1>4
    <2>5. cpu'[c].pc # "off" => SharedOut(heap \ Own(c), Free)'
      BY <1>1, <2>1, <2>2, <2>3, <2>4, Zenon DEF SharedOut
    <2>6. (\A e, d \in At({"list"}) : cpu[e].mch = cpu[d].mch => e = d)'
      BY <2>2, Zenon
    <2>7. QED
      BY <1>1, <2>1, <2>3, <2>5, <2>6, FreeIntro, Zenon
  <1>8. QED
    BY <1>1, <1>3, <1>5, <1>6, <1>7, Zenon DEF Sound

\* The daemon is gone, and so are the pages.
LEMMA OffSound ==
  ASSUME Fields', Shape, Sound, NEW c \in Cpus, OnlyMoves(c), Off(c)
  PROVE  Sound'
  <1>1. /\ UNCHANGED <<next, freelist, table, cnt, heap, listed>> /\ ~enabled'
        /\ cpu[c].pc = "off" /\ cpu'[c].pc = "idle"
    BY OffDoes, Zenon
  <1>2. \A e \in Cpus \ {c} : cpu[e].pc = "idle"
    BY <1>1, Zenon DEF Sound, Apart, Exclusive
  <1>3. Apart'
    BY <1>1, <1>2, ApartIntro, Zenon
  <1>4. heap = {} /\ cnt' = 0
    BY <1>1, Zenon DEF Sound, Fetched
  <1>5. Entered' = {}
    BY <1>4, NothingEntered, Zenon
  <1>6. Fetched'
    BY <1>1, <1>4, <1>5, FetchedIntro, Zenon
  <1>7. QED
    BY <1>1, <1>3, <1>6, Zenon DEF Sound

\* The daemon starts where all pages were freed.
LEMMA EnableSound ==
  ASSUME Fields, Fields', Shape, Sound, NEW c \in Cpus, OnlyMoves(c), Enable(c)
  PROVE  Sound'
  <1>1. /\ UNCHANGED <<next, table, heap, cpu>> /\ ~enabled /\ enabled'
        /\ listed' = {} /\ freelist' = Null /\ cnt' = 0
        /\ cpu[c].pc = "idle" /\ cpu'[c].pc = "idle"
    BY EnableDoes, Zenon
  <1>2. Apart'
    BY <1>1, ApartIntro, Zenon
  <1>3. heap' = {} /\ Entered' = {}
    BY <1>1, FetchedElim, NothingEntered, Zenon DEF Sound
  <1>4. Fetched'
    BY <1>1, <1>3, FetchedIntro, Zenon
  <1>5. cnt' <= MaxPages
    BY <1>1, HeadersConstants
  <1>6. At({"list"})' = {} /\ InHand' = {}
    BY <1>1, Zenon DEF At, InHand, Sound, Apart
  <1>7. IsList' /\ Free' = {}
    BY <1>1, ListEmptied, Zenon
  <1>8. (heap' \ Own(c)') \X (1..PerPage) = {}
    BY <1>3
  <1>9. SharedOut(heap \ Own(c), Free)'
    BY <1>1, <1>6, <1>7, <1>8, Zenon DEF SharedOut
  <1>10. (\A e, d \in At({"list"}) : cpu[e].mch = cpu[d].mch => e = d)'
    BY <1>6, Zenon
  <1>11. FreeHeaders'
    BY <1>1, <1>7, <1>9, <1>10, FreeIntro, Zenon
  <1>12. QED
    BY <1>2, <1>4, <1>5, <1>11, Zenon DEF Sound

---------------------------------------------------------------------------
(* The invariant.                                                           *)

LEMMA StepSound ==
  ASSUME Fields, Fields', Shape, Sound, NEW c \in Cpus, OnlyMoves(c), Step(c)
  PROVE  Sound'
  BY MallocTestSound, NewPageSound, CountSound, EnterSound, PublishSound, LinkingSound,
     LinkSound, PopSound, ListSound, FreeOneSound, FlushSound, DisableSound, ExitSound,
     ZeroSound, OffSound, EnableSound, Zenon DEF Step

\* HeadersInv in the parts that the proof works with.
Parts == Fields /\ Shape /\ raced \in BOOLEAN /\ (~raced => Sound)

LEMMA InvIsParts == HeadersInv <=> Parts
  <1>1. TypeOK <=> Fields /\ raced \in BOOLEAN /\ (~raced => cnt <= MaxPages)
    BY Zenon DEF TypeOK, Fields, Pointers
  <1>2. QED
    BY <1>1, Zenon DEF HeadersInv, Parts, Sound

LEMMA PartsInit == Init => Parts
  <1> SUFFICES ASSUME Init PROVE Parts
    OBVIOUS
  <1>1. Fields /\ raced \in BOOLEAN
    <2>1. next \in [Headers -> Pointers]
      BY DEF Init, Pointers
    <2>2. table \in [0..(MaxPages - 1) -> Pages \cup {Null}] /\ cnt \in Nat
      BY DEF Init
    <2>3. QED
      BY <2>1, <2>2, Zenon DEF Init, Fields, Pointers
  <1>2. Shape /\ \A c \in Cpus : cpu[c].pc = "idle"
    <2>1. Idle \in Cpu
      BY DEF Idle, Cpu, Places, Pointers
    <2>2. Idle.pc = "idle"
      BY DEF Idle
    <2>3. \A c \in Cpus : cpu[c] = Idle
      BY Zenon DEF Init
    <2>4. cpu \in [Cpus -> Cpu]
      BY <2>1, Zenon DEF Init
    <2>5. QED
      BY <2>2, <2>3, <2>4, Zenon DEF Shape
  <1>3. Apart
    BY <1>2, Zenon DEF Apart, Init, Exclusive
  <1>4. Entered = {}
    BY DEF Entered, Init
  <1>5. Fetched
    BY <1>2, <1>4, Zenon DEF Fetched, Init
  <1>6. At({"list"}) = {} /\ At({"count", "enter", "publish"}) = {} /\ At({"linking"}) = {}
        /\ At({"link"}) = {} /\ At({"exit", "zero", "off"}) = {}
    BY <1>2, Zenon DEF At
  <1>7. IsList /\ Free = {}
    BY ListEmpty, Zenon DEF Init
  <1>8. (heap \ Unpublished) \X (1..PerPage) = {}
    BY DEF Init
  <1>9. SharedOut(heap \ Unpublished, Free)
    BY <1>6, <1>7, <1>8, Zenon DEF SharedOut, InHand, Init
  <1>10. FreeHeaders
    BY <1>6, <1>7, <1>9, Zenon DEF FreeHeaders
  <1>11. cnt <= MaxPages
    BY HeadersConstants DEF Init
  <1>12. QED
    BY <1>1, <1>2, <1>3, <1>5, <1>10, <1>11, Zenon DEF Parts, Sound

LEMMA PartsNext == Parts /\ [Next]_vars => Parts'
  <1> SUFFICES ASSUME Parts, [Next]_vars PROVE Parts'
    OBVIOUS
  <1>1. CASE UNCHANGED vars
    <2>1. UNCHANGED <<next, freelist, table, cnt, heap, listed, enabled, cpu, raced>>
      BY <1>1, Zenon DEF vars, memory
    <2>2. Fields' /\ Shape'
      BY <2>1, Zenon DEF Parts, Fields, Shape
    <2>3. Reached' = Reached /\ Free' = Free /\ (IsList => IsList') /\ Entered' = Entered
          /\ InHand' = InHand /\ Unpublished' = Unpublished
      BY <2>1, ListSame, Zenon DEF Entered, InHand, Unpublished, At
    <2>4. (Apart => Apart') /\ (Fetched => Fetched')
      BY <2>1, <2>3, Zenon DEF Apart, Fetched, At
    <2>5. FreeHeaders => FreeHeaders'
      BY <2>1, <2>3, Zenon DEF FreeHeaders, SharedOut, LinkedTo, At
    <2>6. QED
      BY <2>1, <2>2, <2>4, <2>5, Zenon DEF Parts, Sound
  <1>2. ASSUME NEW c \in Cpus, Step(c), raced' = (raced \/ Meets(c)) PROVE Parts'
    <2>1. /\ Fields' /\ Shape'
          /\ cpu' \in [Cpus -> Cpu] /\ \A e \in Cpus \ {c} : cpu'[e] = cpu[e]
      BY <1>2, StepTypes, Zenon DEF Parts
    <2>2. raced' \in BOOLEAN
      BY <1>2, Zenon
    <2>3. ASSUME ~raced' PROVE Sound'
      <3>1. ~raced /\ ~Meets(c)
        BY <1>2, <2>3, Zenon
      <3>2. OnlyMoves(c)
        BY <2>1, <3>1, MeetsNobody, Zenon
      <3>3. QED
        BY <1>2, <2>1, <3>1, <3>2, StepSound, Zenon DEF Parts
    <2>4. QED
      BY <2>1, <2>2, <2>3, Zenon DEF Parts
  <1>3. QED
    BY <1>1, <1>2, Zenon DEF Next

\* Whatever number of CPUs take, free and flush mini-headers in whatever order,
\* and the daemon comes and goes: as long as no CPU meets one that fetches or
\* frees pages, the headers of all pages are shared out between the freelist,
\* the lists and the CPUs, and the pages are in mcdctl_pages.
THEOREM HeadersInvariant == Spec => []HeadersInv
  <1>1. Init => HeadersInv
    BY PartsInit, InvIsParts, Zenon
  <1>2. HeadersInv /\ [Next]_vars => HeadersInv'
    <2>1. HeadersInv => Parts
      BY InvIsParts, Zenon
    <2>2. Parts' => HeadersInv'
      BY InvIsParts, PTL
    <2>3. QED
      BY <2>1, <2>2, PartsNext, Zenon
  <1>3. QED
    BY <1>1, <1>2, PTL DEF Spec

---------------------------------------------------------------------------
(* What follows.                                                            *)

\* While a CPU links a page, the headers on the freelist are of that page.
LEMMA FreeNotUsed ==
  ASSUME Fields, Shape, Apart, FreeHeaders
  PROVE  Free \cap (listed \cup InHand) = {}
  <1>1. CASE At({"linking", "link", "exit", "zero", "off"}) = {}
    BY <1>1, Zenon DEF FreeHeaders, SharedOut
  <1>2. ASSUME NEW c \in At({"linking", "link"}) PROVE Free \cap (listed \cup InHand) = {}
    <2>1. PICK p, k : LinkedTo(p, k) /\ SharedOut(heap \ {p}, {})
      BY <1>2, Zenon DEF FreeHeaders, At
    <2>2. /\ Free = {p} \X (1..k)
          /\ listed \cup InHand = (heap \ {p}) \X (1..PerPage)
      BY <2>1, Zenon DEF LinkedTo, SharedOut
    <2>3. QED
      BY <2>2
  <1>3. ASSUME NEW c \in At({"exit", "zero", "off"}) PROVE Free \cap (listed \cup InHand) = {}
    <2>1. Free \cap listed = {}
      BY <1>3, Zenon DEF FreeHeaders
    <2>2. \A e \in Cpus : cpu[e].pc # "list"
      BY <1>3, Zenon DEF At, Apart, Exclusive
    <2>3. InHand = {}
      BY <2>2, Zenon DEF InHand, At
    <2>4. QED
      BY <2>1, <2>3, Zenon
  <1>4. QED
    BY <1>1, <1>2, <1>3, Zenon DEF At

\* mcdctl_malloc hands out no header that an entry uses.
THEOREM FreeOrUsedHolds == Spec => []FreeOrUsed
  <1>1. HeadersInv => FreeOrUsed
    BY InvIsParts, FreeNotUsed, Zenon DEF Parts, Sound, FreeOrUsed
  <1>2. QED
    BY <1>1, HeadersInvariant, PTL

\* Outside the linking of a new page the freelist ends, and it leads to headers
\* of allocated pages only: mcdctl_malloc follows no link into freed or
\* uninitialised memory.
THEOREM FreelistIsSound == Spec => []FreelistSound
  <1>1. ASSUME Fields, FreeHeaders, \A c \in Cpus : cpu[c].pc \notin {"linking", "link"}
        PROVE  \A h \in Reached : h = Null \/ (h \in Headers /\ h[1] \in heap)
    <2>1. Reached \subseteq (heap \X (1..PerPage)) \cup {Null}
      <3>1. CASE At({"exit", "zero", "off"}) # {}
        BY <1>1, <3>1, Zenon DEF FreeHeaders
      <3>2. CASE At({"exit", "zero", "off"}) = {}
        <4>1. At({"linking", "link", "exit", "zero", "off"}) = {}
          BY <1>1, <3>2, Zenon DEF At
        <4>2. IsList /\ SharedOut(heap \ Unpublished, Free)
          BY <1>1, <4>1, Zenon DEF FreeHeaders
        <4>3. Free \subseteq (heap \ Unpublished) \X (1..PerPage)
          BY <4>2, Zenon DEF SharedOut
        <4>4. Free \subseteq heap \X (1..PerPage)
          BY <4>3
        <4>5. Reached \subseteq Free \cup {Null}
          BY <1>1, <4>2, ListClosed, Zenon DEF IsList, Free, Pointers
        <4>6. QED
          BY <4>4, <4>5, Zenon
      <3>3. QED
        BY <3>1, <3>2, Zenon
    <2>2. \A h \in heap \X (1..PerPage) : h \in Headers /\ h[1] \in heap
      BY <1>1 DEF Fields, Headers
    <2>3. QED
      BY <2>1, <2>2, Zenon
  <1>2. HeadersInv => FreelistSound
    BY <1>1, InvIsParts, Zenon DEF Parts, Sound, FreelistSound
  <1>3. QED
    BY <1>2, HeadersInvariant, PTL

\* No header is lost: between operations those of every page are on the freelist
\* or in a list.
THEOREM NoHeaderLost == Spec => []NoneLost
  <1>1. ASSUME Quiet, FreeHeaders
        PROVE  \A p \in heap : {p} \X (1..PerPage) \subseteq Free \cup listed
    <2>1. /\ At({"linking", "link", "exit", "zero", "off"}) = {} /\ At({"list"}) = {}
          /\ At({"count", "enter", "publish"}) = {}
      BY <1>1, Zenon DEF Quiet, At
    <2>2. InHand = {} /\ Unpublished = {}
      BY <2>1, Zenon DEF InHand, Unpublished
    <2>3. heap \ Unpublished = heap
      BY <2>2, Zenon
    <2>4. heap \X (1..PerPage) = Free \cup listed
      BY <1>1, <2>1, <2>2, <2>3, Zenon DEF FreeHeaders, SharedOut
    <2>5. \A p \in heap : {p} \X (1..PerPage) \subseteq heap \X (1..PerPage)
      OBVIOUS
    <2>6. QED
      BY <2>4, <2>5, Zenon
  <1>2. HeadersInv => NoneLost
    BY <1>1, InvIsParts, Zenon DEF Parts, Sound, NoneLost
  <1>3. QED
    BY <1>2, HeadersInvariant, PTL

\* Between operations the allocated pages are those of mcdctl_pages: exit_mcdctl
\* frees all of them.
THEOREM PagesAreEntered == Spec => []PagesEntered
  <1>1. ASSUME Quiet, Fetched PROVE heap = Entered
    BY <1>1, Zenon DEF Quiet, Fetched, At
  <1>2. HeadersInv => PagesEntered
    BY <1>1, InvIsParts, Zenon DEF Parts, Sound, PagesEntered, Entered
  <1>3. QED
    BY <1>2, HeadersInvariant, PTL
=============================================================================
