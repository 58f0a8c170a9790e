--------------------------- MODULE McdSumsProofs ----------------------------
(***************************************************************************)
(* Sums over finite sets, for the counters that the code keeps instead of   *)
(* adding up: the total weight of the domains and the bytes of entries.     *)
(*                                                                          *)
(* Induction over a finite set is a search for a smallest counterexample    *)
(* (SmallestSubset).                                                        *)
(***************************************************************************)
EXTENDS McdSums, FiniteSets, FiniteSetTheorems, WellFoundedInduction, TLAPS

\* A set of natural numbers that is not empty has a least member.
LEMMA LeastNat ==
  ASSUME NEW T, T \subseteq Nat, T # {}
  PROVE  \E m \in T : \A n \in T : m <= n
  <1> DEFINE R == {ss \in Nat \X Nat : ss[1] < ss[2]}
  <1>1. IsWellFoundedOn(R, Nat)
    BY NatLessThanWellFounded, Zenon DEF OpToRel
  <1>2. PICK m \in T : \A n \in T : ~(<<n, m>> \in R)
    BY <1>1, WFMin, Zenon
  <1>3. \A n \in T : ~(n < m)
    BY <1>2
  <1>4. QED
    BY <1>3

\* Among subsets of a finite set there is one that is none of them any more
\* when it loses a member, whichever.
LEMMA SmallestSubset ==
  ASSUME NEW S, IsFiniteSet(S), NEW C, C \subseteq SUBSET S, C # {}
  PROVE  \E t \in C : \A x \in t : t \ {x} \notin C
  <1> DEFINE T == {Cardinality(t) : t \in C}
  <1>1. \A t \in C : IsFiniteSet(t) /\ Cardinality(t) \in Nat
    BY FS_Subset, FS_CardinalityType, Zenon
  <1>2. T \subseteq Nat /\ T # {}
    BY <1>1, Zenon
  <1> HIDE DEF T
  <1>3. PICK m \in T : \A n \in T : m <= n
    BY <1>2, LeastNat, Zenon
  <1>4. PICK t \in C : m = Cardinality(t)
    BY <1>3, Zenon DEF T
  <1>5. ASSUME NEW x \in t, t \ {x} \in C PROVE FALSE
    <2>1. Cardinality(t \ {x}) = Cardinality(t) - 1
      BY <1>1, FS_RemoveElement, Zenon
    <2>2. m <= Cardinality(t) - 1
      BY <1>3, <1>5, <2>1, Zenon DEF T
    <2>3. QED
      BY <1>1, <1>4, <2>2
  <1>6. QED
    BY <1>5, Zenon

---------------------------------------------------------------------------
(* What SumOf computes.                                                     *)

AnyOf(s) == CHOOSE x \in s : TRUE

LEMMA AnyIn ==
  ASSUME NEW s, s # {} PROVE AnyOf(s) \in s
  BY Zenon DEF AnyOf

\* What the function g of sums has for s.
Round(g, f, s) == IF s = {} THEN 0 ELSE f[AnyOf(s)] + g[s \ {AnyOf(s)}]

Sums(g, f, S) == g = [s \in SUBSET S |-> Round(g, f, s)]

\* There is such a function: it is found in as many rounds as S has members.
LEMMA SumsExist ==
  ASSUME NEW S, IsFiniteSet(S), NEW f
  PROVE  \E g : Sums(g, f, S)
  <1> DEFINE Upto(g, n) == /\ DOMAIN g = SUBSET S /\ g = [s \in SUBSET S |-> g[s]]
                           /\ \A s \in SUBSET S : Cardinality(s) <= n => g[s] = Round(g, f, s)
             T == {n \in Nat : ~\E g : Upto(g, n)}
  <1>1. \A s \in SUBSET S : IsFiniteSet(s) /\ Cardinality(s) \in Nat
    BY FS_Subset, FS_CardinalityType, Zenon
  <1>2. T = {}
    <2> SUFFICES ASSUME T # {} PROVE FALSE
      OBVIOUS
    <2>1. T \subseteq Nat
      BY Zenon
    <2>2. PICK m \in T : \A n \in T : m <= n
      BY <2>1, LeastNat, Zenon
    <2>3. CASE m = 0
      <3> DEFINE g == [s \in SUBSET S |-> 0]
      <3>1. \A s \in SUBSET S : Cardinality(s) <= 0 => s = {}
        <4>1. \A s \in SUBSET S : Cardinality(s) <= 0 => Cardinality(s) = 0
          BY <1>1
        <4>2. QED
          BY <1>1, <4>1, FS_EmptySet, Zenon
      <3>2. Upto(g, 0)
        BY <3>1, Zenon DEF Round
      <3>3. QED
        BY <2>2, <2>3, <3>2, Zenon
    <2>4. CASE m # 0
      <3>1. m - 1 \in Nat /\ ~(m <= m - 1) /\ m \in Nat
        BY <2>1, <2>2, <2>4
      <3>2. PICK g : Upto(g, m - 1)
        BY <2>2, <3>1, Zenon
      <3> DEFINE h == [s \in SUBSET S |-> Round(g, f, s)]
      <3>3. ASSUME NEW s \in SUBSET S, Cardinality(s) <= m PROVE h[s] = Round(h, f, s)
        <4>1. CASE s = {}
          BY <4>1, Zenon DEF Round
        <4>2. CASE s # {}
          <5> DEFINE t == s \ {AnyOf(s)}
          <5>1. AnyOf(s) \in s /\ t \in SUBSET S
            BY <4>2, AnyIn, Zenon
          <5>2. Cardinality(t) = Cardinality(s) - 1
            BY <1>1, <5>1, FS_RemoveElement, Zenon
          <5>3. Cardinality(t) <= m - 1
            BY <1>1, <3>1, <3>3, <5>2
          <5>4. g[t] = Round(g, f, t) /\ h[t] = Round(g, f, t)
            BY <3>2, <5>1, <5>3, Zenon
          <5>5. Round(g, f, s) = Round(h, f, s)
            BY <5>4, Zenon DEF Round
          <5>6. QED
            BY <5>5, Zenon
        <4>3. QED
          BY <4>1, <4>2, Zenon
      <3>4. DOMAIN h = SUBSET S /\ h = [s \in SUBSET S |-> h[s]]
        BY Zenon
      <3> HIDE DEF h
      <3>5. Upto(h, m)
        BY <3>3, <3>4, Zenon
      <3>6. QED
        BY <2>2, <3>5, Zenon
    <2>5. QED
      BY <2>3, <2>4, Zenon
  <1>3. Cardinality(S) \in Nat /\ \A s \in SUBSET S : Cardinality(s) <= Cardinality(S)
    BY FS_Subset, FS_CardinalityType, Zenon
  <1>4. PICK g : Upto(g, Cardinality(S))
    BY <1>2, <1>3, Zenon
  <1>5. \A s \in SUBSET S : g[s] = Round(g, f, s)
    BY <1>3, <1>4, Zenon
  <1>6. g = [s \in SUBSET S |-> Round(g, f, s)]
    BY <1>4, <1>5, Zenon
  <1>7. QED
    BY <1>6, Zenon DEF Sums

LEMMA SumIs ==
  ASSUME NEW S, IsFiniteSet(S), NEW f
  PROVE  \E g : Sums(g, f, S) /\ SumOf(f, S) = g[S]
  <1> DEFINE g == CHOOSE r : r = [s \in SUBSET S |-> Round(r, f, s)]
  <1>1. SumOf(f, S) = g[S]
    BY DEF SumOf, MapThenFoldSet, Round, AnyOf
  <1>2. Sums(g, f, S)
    <2>1. \E r : r = [s \in SUBSET S |-> Round(r, f, s)]
      <3>1. PICK r : Sums(r, f, S)
        BY SumsExist, Zenon
      <3>2. r = [s \in SUBSET S |-> Round(r, f, s)]
        BY <3>1, Zenon DEF Sums
      <3>3. QED
        BY <3>2, Zenon
    <2>2. g = [s \in SUBSET S |-> Round(g, f, s)]
      BY <2>1, Zenon
    <2>3. QED
      BY <2>2, Zenon DEF Sums
  <1>3. QED
    BY <1>1, <1>2, Zenon

\* The sums over a set are the same for all functions that agree on it.
LEMMA SumsAgree ==
  ASSUME NEW S, NEW R, NEW s, s \subseteq S, s \subseteq R, IsFiniteSet(s),
         NEW f, NEW e, \A x \in s : f[x] = e[x],
         NEW g, NEW h, Sums(g, f, S), Sums(h, e, R)
  PROVE  g[s] = h[s]
  <1> DEFINE C == {t \in SUBSET s : g[t] # h[t]}
  <1> SUFFICES ASSUME C # {} PROVE FALSE
    BY Zenon
  <1>1. C \subseteq SUBSET s
    BY Zenon
  <1>2. PICK t \in C : \A x \in t : t \ {x} \notin C
    BY <1>1, SmallestSubset, Zenon
  <1>3. g[t] = Round(g, f, t) /\ h[t] = Round(h, e, t)
    BY <1>2, Zenon DEF Sums
  <1>4. t # {}
    BY <1>2, <1>3, Zenon DEF Round
  <1>5. AnyOf(t) \in t /\ f[AnyOf(t)] = e[AnyOf(t)]
    BY <1>4, AnyIn, Zenon
  <1>6. g[t \ {AnyOf(t)}] = h[t \ {AnyOf(t)}]
    BY <1>2, <1>5, Zenon
  <1>7. QED
    BY <1>2, <1>3, <1>4, <1>5, <1>6, Zenon DEF Round

---------------------------------------------------------------------------
(* The laws of sums.                                                        *)

LEMMA SumEmpty ==
  ASSUME NEW f PROVE SumOf(f, {}) = 0
  <1>1. PICK g : Sums(g, f, {}) /\ SumOf(f, {}) = g[{}]
    BY SumIs, FS_EmptySet, Zenon
  <1>2. QED
    BY <1>1, Zenon DEF Sums, Round

\* The sum looks at the members of the set alone.
LEMMA SumSame ==
  ASSUME NEW S, IsFiniteSet(S), NEW f, NEW e, \A x \in S : f[x] = e[x]
  PROVE  SumOf(f, S) = SumOf(e, S)
  <1>1. PICK g : Sums(g, f, S) /\ SumOf(f, S) = g[S]
    BY SumIs, Zenon
  <1>2. PICK h : Sums(h, e, S) /\ SumOf(e, S) = h[S]
    BY SumIs, Zenon
  <1>3. S \subseteq S
    BY Zenon
  <1>4. QED
    BY <1>1, <1>2, <1>3, SumsAgree, SMT

LEMMA SumFirst ==
  ASSUME NEW S, IsFiniteSet(S), S # {}, NEW f
  PROVE  SumOf(f, S) = f[AnyOf(S)] + SumOf(f, S \ {AnyOf(S)})
  <1> DEFINE t == S \ {AnyOf(S)}
  <1>1. IsFiniteSet(t) /\ t \subseteq S /\ t \subseteq t /\ \A x \in t : f[x] = f[x]
    BY FS_RemoveElement, Zenon
  <1>2. PICK g : Sums(g, f, S) /\ SumOf(f, S) = g[S]
    BY SumIs, Zenon
  <1> HIDE DEF t
  <1>3. PICK h : Sums(h, f, t) /\ SumOf(f, t) = h[t]
    BY <1>1, SumIs, Zenon
  <1>4. g[t] = h[t]
    BY <1>1, <1>2, <1>3, SumsAgree, SMT
  <1>5. g[S] = f[AnyOf(S)] + g[t]
    BY <1>2, Zenon DEF Sums, Round, t
  <1>6. QED
    BY <1>2, <1>3, <1>4, <1>5, Zenon DEF t

LEMMA SumInt ==
  ASSUME NEW S, IsFiniteSet(S), NEW f, \A x \in S : f[x] \in Int
  PROVE  SumOf(f, S) \in Int
  <1> DEFINE C == {t \in SUBSET S : SumOf(f, t) \notin Int}
  <1> SUFFICES ASSUME C # {} PROVE FALSE
    BY Zenon
  <1>1. C \subseteq SUBSET S
    BY Zenon
  <1>2. PICK t \in C : \A x \in t : t \ {x} \notin C
    BY <1>1, SmallestSubset, Zenon
  <1>3. CASE t = {}
    BY <1>2, <1>3, SumEmpty
  <1>4. CASE t # {}
    <2>1. SumOf(f, t) = f[AnyOf(t)] + SumOf(f, t \ {AnyOf(t)}) /\ AnyOf(t) \in t
      BY <1>1, <1>4, SumFirst, AnyIn, FS_Subset, Zenon
    <2>2. SumOf(f, t \ {AnyOf(t)}) \in Int
      BY <1>2, <2>1, Zenon
    <2>3. f[AnyOf(t)] \in Int
      BY <1>1, <2>1, Zenon
    <2>4. f[AnyOf(t)] + SumOf(f, t \ {AnyOf(t)}) \in Int
      BY <2>2, <2>3
    <2>5. QED
      BY <1>2, <2>1, <2>4, Zenon
  <1>5. QED
    BY <1>3, <1>4, Zenon

\* Any member may be the first.
LEMMA SumRemove ==
  ASSUME NEW S, IsFiniteSet(S), NEW f, \A x \in S : f[x] \in Int, NEW d \in S
  PROVE  SumOf(f, S) = f[d] + SumOf(f, S \ {d})
  <1> DEFINE C == {t \in SUBSET S : \E x \in t : SumOf(f, t) # f[x] + SumOf(f, t \ {x})}
  <1> SUFFICES ASSUME C # {} PROVE FALSE
    BY Zenon
  <1>1. C \subseteq SUBSET S
    BY Zenon
  <1>2. PICK t \in C : \A x \in t : t \ {x} \notin C
    BY <1>1, SmallestSubset, Zenon
  <1>3. IsFiniteSet(t) /\ t \subseteq S
    BY <1>1, FS_Subset, Zenon
  <1>4. PICK x \in t : SumOf(f, t) # f[x] + SumOf(f, t \ {x})
    BY <1>2, Zenon
  <1> DEFINE y == AnyOf(t)
  <1>5. y \in t /\ SumOf(f, t) = f[y] + SumOf(f, t \ {y}) /\ x # y
    BY <1>3, <1>4, AnyIn, SumFirst, Zenon
  <1> HIDE DEF y
  <1>6. SumOf(f, t \ {y}) = f[x] + SumOf(f, (t \ {y}) \ {x})
    BY <1>2, <1>3, <1>4, <1>5, Zenon
  <1>7. SumOf(f, t \ {x}) = f[y] + SumOf(f, (t \ {x}) \ {y})
    BY <1>2, <1>3, <1>4, <1>5, Zenon
  <1>8. (t \ {x}) \ {y} = (t \ {y}) \ {x}
    BY Zenon
  <1>9. SumOf(f, (t \ {y}) \ {x}) \in Int
    <2> DEFINE u == (t \ {y}) \ {x}
    <2>1. IsFiniteSet(u) /\ \A z \in u : f[z] \in Int
      BY <1>3, FS_Subset, Zenon
    <2> HIDE DEF u
    <2>2. SumOf(f, u) \in Int
      BY <2>1, SumInt, Zenon
    <2>3. QED
      BY <2>2, Zenon DEF u
  <1>10. f[x] \in Int /\ f[y] \in Int
    BY <1>3, <1>4, <1>5, Zenon
  <1>11. SumOf(f, t) = f[x] + SumOf(f, t \ {x})
    <2>1. \A p, q, r \in Int : p + (q + r) = q + (p + r)
      OBVIOUS
    <2>2. f[y] + (f[x] + SumOf(f, (t \ {y}) \ {x})) = f[x] + (f[y] + SumOf(f, (t \ {y}) \ {x}))
      BY <1>9, <1>10, <2>1, Zenon
    <2>3. QED
      BY <1>5, <1>6, <1>7, <1>8, <2>2, Zenon
  <1>12. QED
    BY <1>4, <1>11, Zenon

LEMMA SumAdd ==
  ASSUME NEW S, IsFiniteSet(S), NEW f, NEW d, d \notin S, \A x \in S \cup {d} : f[x] \in Int
  PROVE  SumOf(f, S \cup {d}) = f[d] + SumOf(f, S)
  <1> DEFINE U == S \cup {d}
  <1>1. IsFiniteSet(U) /\ d \in U /\ U \ {d} = S /\ \A x \in U : f[x] \in Int
    BY FS_AddElement, Zenon
  <1> HIDE DEF U
  <1>2. SumOf(f, U) = f[d] + SumOf(f, U \ {d})
    BY <1>1, SumRemove, Zenon
  <1>3. QED
    BY <1>1, <1>2, Zenon DEF U

\* One member counts another value.
LEMMA SumChange ==
  ASSUME NEW S, IsFiniteSet(S), NEW f, NEW e, NEW d \in S,
         \A x \in S : f[x] \in Int /\ e[x] \in Int, \A x \in S \ {d} : e[x] = f[x]
  PROVE  SumOf(e, S) = SumOf(f, S) - f[d] + e[d]
  <1>1. IsFiniteSet(S \ {d}) /\ \A x \in S \ {d} : f[x] \in Int
    BY FS_RemoveElement, Zenon
  <1>2. SumOf(e, S \ {d}) = SumOf(f, S \ {d}) /\ SumOf(f, S \ {d}) \in Int
    BY <1>1, SumSame, SumInt, Zenon
  <1>3. /\ SumOf(e, S) = e[d] + SumOf(e, S \ {d})
        /\ SumOf(f, S) = f[d] + SumOf(f, S \ {d})
    BY SumRemove, Zenon
  <1>4. f[d] \in Int /\ e[d] \in Int
    BY Zenon
  <1>5. QED
    BY <1>2, <1>3, <1>4

LEMMA SumNat ==
  ASSUME NEW S, IsFiniteSet(S), NEW f, \A x \in S : f[x] \in Nat
  PROVE  SumOf(f, S) \in Nat
  <1> DEFINE C == {t \in SUBSET S : SumOf(f, t) \notin Nat}
  <1> SUFFICES ASSUME C # {} PROVE FALSE
    BY Zenon
  <1>1. C \subseteq SUBSET S
    BY Zenon
  <1>2. PICK t \in C : \A x \in t : t \ {x} \notin C
    BY <1>1, SmallestSubset, Zenon
  <1>3. CASE t = {}
    BY <1>2, <1>3, SumEmpty
  <1>4. CASE t # {}
    <2>1. SumOf(f, t) = f[AnyOf(t)] + SumOf(f, t \ {AnyOf(t)}) /\ AnyOf(t) \in t
      BY <1>1, <1>4, SumFirst, AnyIn, FS_Subset, Zenon
    <2>2. SumOf(f, t \ {AnyOf(t)}) \in Nat
      BY <1>2, <2>1, Zenon
    <2>3. f[AnyOf(t)] \in Nat
      BY <1>1, <2>1, Zenon
    <2>4. f[AnyOf(t)] + SumOf(f, t \ {AnyOf(t)}) \in Nat
      BY <2>2, <2>3
    <2>5. QED
      BY <1>2, <2>1, <2>4, Zenon
  <1>5. QED
    BY <1>3, <1>4, Zenon

\* A bound on every member bounds the sum.
LEMMA SumBound ==
  ASSUME NEW S, IsFiniteSet(S), NEW f, NEW m \in Nat, \A x \in S : f[x] \in 0..m
  PROVE  SumOf(f, S) <= Cardinality(S) * m
  <1> DEFINE C == {t \in SUBSET S : ~(SumOf(f, t) <= Cardinality(t) * m)}
  <1> SUFFICES ASSUME C # {} PROVE FALSE
    BY Zenon
  <1>1. C \subseteq SUBSET S
    BY Zenon
  <1>2. PICK t \in C : \A x \in t : t \ {x} \notin C
    BY <1>1, SmallestSubset, Zenon
  <1>3. CASE t = {}
    <2>1. SumOf(f, t) = 0 /\ Cardinality(t) = 0
      BY <1>3, SumEmpty, FS_EmptySet, Zenon
    <2>2. QED
      BY <1>2, <2>1
  <1>4. CASE t # {}
    <2> DEFINE y == AnyOf(t)
               u == t \ {y}
    <2>1. SumOf(f, t) = f[y] + SumOf(f, u) /\ y \in t /\ IsFiniteSet(t) /\ t \subseteq S
      BY <1>1, <1>4, SumFirst, AnyIn, FS_Subset, Zenon
    <2>2. Cardinality(u) = Cardinality(t) - 1 /\ Cardinality(t) \in Nat
      BY <2>1, FS_RemoveElement, FS_CardinalityType, Zenon
    <2>3. SumOf(f, u) <= Cardinality(u) * m
      BY <1>2, <2>1, Zenon
    <2>4. f[y] \in 0..m
      BY <2>1, Zenon
    <2>5. SumOf(f, u) \in Nat
      <3>1. IsFiniteSet(u) /\ \A x \in u : f[x] \in Nat
        BY <2>1, FS_RemoveElement
      <3>2. QED
        BY <3>1, SumNat, Zenon
    <2> HIDE DEF y, u
    <2>6. \A a, b, c \in Int : a <= m /\ b <= (c - 1) * m => a + b <= c * m
      OBVIOUS
    <2>7. f[y] + SumOf(f, u) <= Cardinality(t) * m
      BY <2>2, <2>3, <2>4, <2>5, <2>6
    <2>8. QED
      BY <1>2, <2>1, <2>7, Zenon
  <1>5. QED
    BY <1>3, <1>4, Zenon

\* A proportion that holds for every member holds for the sums.
LEMMA SumScale ==
  ASSUME NEW S, IsFiniteSet(S), NEW a, NEW w, NEW p \in Int, NEW q \in Int,
         \A x \in S : a[x] \in Int /\ w[x] \in Int /\ a[x] * p <= w[x] * q
  PROVE  SumOf(a, S) * p <= SumOf(w, S) * q
  <1> DEFINE C == {t \in SUBSET S : ~(SumOf(a, t) * p <= SumOf(w, t) * q)}
  <1> SUFFICES ASSUME C # {} PROVE FALSE
    BY Zenon
  <1>1. C \subseteq SUBSET S
    BY Zenon
  <1>2. PICK t \in C : \A x \in t : t \ {x} \notin C
    BY <1>1, SmallestSubset, Zenon
  <1>3. CASE t = {}
    <2>1. SumOf(a, t) = 0 /\ SumOf(w, t) = 0
      BY <1>3, SumEmpty, Zenon
    <2>2. QED
      BY <1>2, <2>1
  <1>4. CASE t # {}
    <2> DEFINE y == AnyOf(t)
               u == t \ {y}
    <2>1. /\ SumOf(a, t) = a[y] + SumOf(a, u) /\ SumOf(w, t) = w[y] + SumOf(w, u)
          /\ y \in t /\ IsFiniteSet(t) /\ t \subseteq S
      BY <1>1, <1>4, SumFirst, AnyIn, FS_Subset, Zenon
    <2>2. SumOf(a, u) * p <= SumOf(w, u) * q
      BY <1>2, <2>1, Zenon
    <2>3. a[y] \in Int /\ w[y] \in Int /\ a[y] * p <= w[y] * q
      BY <2>1, Zenon
    <2>4. SumOf(a, u) \in Int /\ SumOf(w, u) \in Int
      <3>1. IsFiniteSet(u) /\ \A x \in u : a[x] \in Int /\ w[x] \in Int
        BY <2>1, FS_RemoveElement, Zenon
      <3> HIDE DEF u
      <3>2. QED
        BY <3>1, SumInt, Zenon
    <2> HIDE DEF y, u
    <2>5. \A i, j, k, l \in Int : i * p <= k * q /\ j * p <= l * q => (i + j) * p <= (k + l) * q
      OBVIOUS
    <2>6. (a[y] + SumOf(a, u)) * p <= (w[y] + SumOf(w, u)) * q
      BY <2>2, <2>3, <2>4, <2>5, Zenon
    <2>7. QED
      BY <1>2, <2>1, <2>6, Zenon
  <1>5. QED
    BY <1>3, <1>4, Zenon

\* The sum over two sets without a common member.
LEMMA SumUnion ==
  ASSUME NEW S, IsFiniteSet(S), NEW T, IsFiniteSet(T), S \cap T = {}, NEW f,
         \A x \in S \cup T : f[x] \in Int
  PROVE  SumOf(f, S \cup T) = SumOf(f, S) + SumOf(f, T)
  <1> DEFINE C == {t \in SUBSET T : SumOf(f, S \cup t) # SumOf(f, S) + SumOf(f, t)}
  <1> SUFFICES ASSUME C # {} PROVE FALSE
    BY Zenon
  <1>1. C \subseteq SUBSET T
    BY Zenon
  <1>2. PICK t \in C : \A x \in t : t \ {x} \notin C
    BY <1>1, SmallestSubset, Zenon
  <1>3. SumOf(f, S) \in Int
    BY SumInt, Zenon
  <1>4. CASE t = {}
    <2>1. S \cup t = S /\ SumOf(f, t) = 0
      BY <1>4, SumEmpty, Zenon
    <2>2. SumOf(f, S) = SumOf(f, S) + 0
      BY <1>3
    <2>3. QED
      BY <1>2, <2>1, <2>2, Zenon
  <1>5. CASE t # {}
    <2>1. PICK y \in t : TRUE
      BY <1>5, Zenon
    <2> DEFINE u == t \ {y}
               U == S \cup u
    <2>2. IsFiniteSet(u) /\ IsFiniteSet(S \cup u) /\ t \subseteq T
      BY <1>1, FS_Subset, FS_Union, Zenon
    <2>3. /\ t = u \cup {y} /\ y \notin u /\ S \cup t = U \cup {y} /\ y \notin U
          /\ \A x \in u \cup {y} : f[x] \in Int
          /\ \A x \in U \cup {y} : f[x] \in Int
      BY <2>1, <2>2, Zenon
    <2>4. SumOf(f, S \cup u) = SumOf(f, S) + SumOf(f, u)
      BY <1>2, <2>1, <2>2, Zenon
    <2> HIDE DEF u
    <2>5. SumOf(f, t) = f[y] + SumOf(f, u)
      BY <2>2, <2>3, SumAdd, Zenon
    <2>6. SumOf(f, u) \in Int /\ f[y] \in Int
      BY <2>2, <2>3, SumInt, Zenon
    <2>7. SumOf(f, S \cup t) = f[y] + SumOf(f, S \cup u)
      <3> HIDE DEF U
      <3>1. SumOf(f, U \cup {y}) = f[y] + SumOf(f, U)
        <4>1. IsFiniteSet(U)
          BY <2>2, Zenon DEF U
        <4>2. QED
          BY <2>3, <4>1, SumAdd, Zenon
      <3>2. QED
        BY <2>3, <3>1, Zenon DEF U
    <2>8. SumOf(f, S \cup t) = SumOf(f, S) + SumOf(f, t)
      BY <1>3, <2>4, <2>5, <2>6, <2>7
    <2>9. QED
      BY <1>2, <2>8, Zenon
  <1>6. QED
    BY <1>4, <1>5, Zenon

\* A larger set has no smaller sum.
LEMMA SumSubset ==
  ASSUME NEW S, IsFiniteSet(S), NEW T \in SUBSET S, NEW f, \A x \in S : f[x] \in Nat
  PROVE  SumOf(f, T) <= SumOf(f, S) /\ SumOf(f, T) \in Nat /\ SumOf(f, S) \in Nat
  <1> DEFINE R == S \ T
  <1>1. /\ IsFiniteSet(T) /\ IsFiniteSet(R) /\ T \cap R = {} /\ T \cup R = S
        /\ \A x \in T : f[x] \in Nat
        /\ \A x \in R : f[x] \in Nat
    BY FS_Subset, Zenon
  <1>2. \A x \in T \cup R : f[x] \in Int
    BY <1>1
  <1> HIDE DEF R
  <1>3. SumOf(f, T \cup R) = SumOf(f, T) + SumOf(f, R)
    BY <1>1, <1>2, SumUnion, Zenon
  <1>4. SumOf(f, T) \in Nat /\ SumOf(f, R) \in Nat /\ SumOf(f, S) \in Nat
    BY <1>1, SumNat, Zenon
  <1>5. SumOf(f, S) = SumOf(f, T) + SumOf(f, R)
    BY <1>1, <1>3, Zenon
  <1>6. QED
    BY <1>4, <1>5

=============================================================================
