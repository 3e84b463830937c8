-------------------------------- MODULE Sums --------------------------------
(***************************************************************************)
(* What is true of the sums that the ledgers of this project are made of:  *)
(* the sum of f[x] over a finite set, as MapThenSumSet computes it element *)
(* by element.  Induction is over the size of the set, by the least        *)
(* number that is a counterexample.                                        *)
(***************************************************************************)
EXTENDS FiniteSetsExt, FiniteSetTheorems, WellFoundedInduction, TLAPS

\* A set of natural numbers that has an element has a least one.
LEMMA LeastNumber ==
    ASSUME NEW T \in SUBSET Nat, T # {}
    PROVE  \E n \in T : \A m \in T : n <= m
<1> DEFINE R == OpToRel(<, Nat)
<1>1. IsWellFoundedOn(R, Nat)
  BY NatLessThanWellFounded
<1>2. \A m, n \in Nat : m < n => <<m, n>> \in R
  BY DEF OpToRel
<1> HIDE DEF R
<1>3. PICK n \in T : \A m \in T : <<m, n>> \notin R
  BY <1>1, WFMin
<1>4. \A m \in T : m \in Nat /\ n \in Nat /\ ~(m < n)
  BY <1>2, <1>3
<1> QED
  BY <1>3, <1>4

\* Among the subsets of a finite set that are in B one is smallest: every set
\* with fewer elements is not in B.
LEMMA SmallestSubset ==
    ASSUME NEW S, IsFiniteSet(S), NEW B \in SUBSET (SUBSET S), B # {}
    PROVE  \E T \in B : \A U \in SUBSET S : U \subseteq T /\ U # T => U \notin B
<1>1. \A T \in SUBSET S : IsFiniteSet(T) /\ Cardinality(T) \in Nat
  BY FS_Subset, FS_CardinalityType
<1> DEFINE sizes == {Cardinality(T) : T \in B}
<1>2. sizes \in SUBSET Nat /\ sizes # {}
  BY <1>1
<1>3. PICK n \in sizes : \A m \in sizes : n <= m
  BY <1>2, LeastNumber
<1>4. PICK T \in B : n = Cardinality(T)
  BY <1>3
<1>5. ASSUME NEW U \in SUBSET S, U \subseteq T, U # T, U \in B PROVE FALSE
  <2>1. Cardinality(U) < Cardinality(T)
    BY <1>1, <1>4, <1>5, FS_Subset
  <2> QED
    BY <1>1, <1>2, <1>3, <1>4, <1>5, <2>1
<1> QED
  BY <1>4, <1>5

-----------------------------------------------------------------------------
\* The element that MapThenSumSet takes first.
First(s) == CHOOSE x \in s : TRUE
Rest(s)  == s \ {First(s)}

Iterates(it, f, S) ==
    it = [s \in SUBSET S |-> IF s = {} THEN 0 ELSE f[First(s)] + it[Rest(s)]]

SumOf(f, S) == MapThenSumSet(LAMBDA x : f[x], S)

LEMMA RestIsLess ==
    ASSUME NEW s, s # {}
    PROVE  First(s) \in s /\ Rest(s) \subseteq s /\ Rest(s) # s
<1>1. First(s) \in s
  BY DEF First
<1> QED
  BY <1>1 DEF Rest

\* On sets of at most n elements, the iteration is a function.
UpTo(n, S) == {s \in SUBSET S : Cardinality(s) <= n}

Partial(g, n, f, S) ==
    /\ DOMAIN g = UpTo(n, S)
    /\ \A s \in UpTo(n, S) : g[s] = IF s = {} THEN 0 ELSE f[First(s)] + g[Rest(s)]

LEMMA PartialExists ==
    ASSUME NEW f, NEW S, IsFiniteSet(S)
    PROVE  \A n \in Nat : \E g : Partial(g, n, f, S)
<1>0. \A s \in SUBSET S : IsFiniteSet(s) /\ Cardinality(s) \in Nat /\ (Cardinality(s) = 0 <=> s = {})
  BY FS_Subset, FS_CardinalityType, FS_EmptySet
<1> SUFFICES ASSUME \E n \in Nat : ~ \E g : Partial(g, n, f, S) PROVE FALSE
  OBVIOUS
<1> DEFINE bad == {n \in Nat : ~ \E g : Partial(g, n, f, S)}
<1>1. PICK n \in bad : \A m \in bad : n <= m
  BY LeastNumber
<1>2. n # 0
  <2> SUFFICES ASSUME n = 0 PROVE FALSE
    OBVIOUS
  <2> DEFINE g == [s \in UpTo(0, S) |-> 0]
  <2>1. \A s \in UpTo(0, S) : s = {}
    BY <1>0 DEF UpTo
  <2>2. Partial(g, 0, f, S)
    BY <2>1 DEF Partial
  <2> QED
    BY <1>1, <2>2
<1>3. n \in Nat /\ n - 1 \in Nat /\ n - 1 \notin bad
  BY <1>1, <1>2
<1>4. PICK g : Partial(g, n - 1, f, S)
  BY <1>3
<1> DEFINE h == [s \in UpTo(n, S) |-> IF s = {} THEN 0 ELSE f[First(s)] + g[Rest(s)]]
<1>5. \A s \in UpTo(n - 1, S) : s \in UpTo(n, S) /\ h[s] = g[s]
  BY <1>0, <1>3, <1>4 DEF UpTo, Partial
<1>6. \A s \in UpTo(n, S) : s # {} => Rest(s) \in UpTo(n - 1, S)
  <2> SUFFICES ASSUME NEW s \in UpTo(n, S), s # {} PROVE Rest(s) \in UpTo(n - 1, S)
    OBVIOUS
  <2>1. s \in SUBSET S /\ IsFiniteSet(s) /\ Cardinality(s) \in Nat /\ Cardinality(s) <= n
    BY <1>0 DEF UpTo
  <2>2. Cardinality(Rest(s)) = Cardinality(s) - 1
    BY <2>1, RestIsLess, FS_RemoveElement DEF Rest
  <2> QED
    BY <1>3, <2>1, <2>2, RestIsLess DEF UpTo
<1>7. Partial(h, n, f, S)
  BY <1>5, <1>6 DEF Partial
<1> QED
  BY <1>1, <1>7

\* So it is on all subsets of a finite set.
LEMMA IterationExists ==
    ASSUME NEW f, NEW S, IsFiniteSet(S)
    PROVE  \E it : Iterates(it, f, S)
<1>1. Cardinality(S) \in Nat /\ UpTo(Cardinality(S), S) = SUBSET S
  BY FS_Subset, FS_CardinalityType DEF UpTo
<1>2. PICK g : Partial(g, Cardinality(S), f, S)
  BY <1>1, PartialExists
<1> DEFINE it == [s \in SUBSET S |-> g[s]]
<1>3. \A s \in SUBSET S : s # {} => Rest(s) \in SUBSET S
  BY DEF Rest
<1>4. it = [s \in SUBSET S |-> IF s = {} THEN 0 ELSE f[First(s)] + it[Rest(s)]]
  BY <1>1, <1>2, <1>3 DEF Partial
<1> HIDE DEF it
<1> QED
  BY <1>4 DEF Iterates

\* Two iterations agree where their summands do.
LEMMA IterationsAgree ==
    ASSUME NEW f, NEW g, NEW S, NEW T, IsFiniteSet(T), NEW a, NEW b,
           Iterates(a, f, S), Iterates(b, g, T), T \subseteq S, \A x \in T : f[x] = g[x]
    PROVE  a[T] = b[T]
<1> DEFINE bad == {s \in SUBSET T : a[s] # b[s]}
<1> SUFFICES ASSUME bad # {} PROVE FALSE
  OBVIOUS
<1>0. bad \in SUBSET (SUBSET T)
  OBVIOUS
<1>1. PICK s \in bad : \A u \in SUBSET T : u \subseteq s /\ u # s => u \notin bad
  <2> HIDE DEF bad
  <2> QED
    BY <1>0, SmallestSubset
<1>2. /\ a[s] = IF s = {} THEN 0 ELSE f[First(s)] + a[Rest(s)]
      /\ b[s] = IF s = {} THEN 0 ELSE g[First(s)] + b[Rest(s)]
  <2>1. s \in SUBSET T /\ s \in SUBSET S
    OBVIOUS
  <2> QED
    BY <2>1 DEF Iterates
<1>3. s # {}
  BY <1>2
<1>4. First(s) \in T /\ Rest(s) \in SUBSET T /\ Rest(s) \notin bad
  BY <1>1, <1>3, RestIsLess
<1> QED
  BY <1>1, <1>2, <1>3, <1>4

-----------------------------------------------------------------------------
\* The sum is what any iteration gives.
LEMMA SumIterates ==
    ASSUME NEW f, NEW S, IsFiniteSet(S)
    PROVE  \E it : Iterates(it, f, S) /\ SumOf(f, S) = it[S]
<1>1. SumOf(f, S) = (CHOOSE it : Iterates(it, f, S))[S]
  BY DEF SumOf, MapThenSumSet, MapThenFoldSet, Iterates, Rest, First
<1>2. Iterates(CHOOSE it : Iterates(it, f, S), f, S)
  BY IterationExists
<1> QED
  BY <1>1, <1>2

LEMMA SumCongruent ==
    ASSUME NEW f, NEW g, NEW S, IsFiniteSet(S), \A x \in S : f[x] = g[x]
    PROVE  SumOf(f, S) = SumOf(g, S)
<1>1. PICK a : Iterates(a, f, S) /\ SumOf(f, S) = a[S]
  BY SumIterates
<1>2. PICK b : Iterates(b, g, S) /\ SumOf(g, S) = b[S]
  BY SumIterates
<1> QED
  BY <1>1, <1>2, IterationsAgree

LEMMA SumEmpty ==
    ASSUME NEW f
    PROVE  SumOf(f, {}) = 0
<1>1. PICK it : Iterates(it, f, {}) /\ SumOf(f, {}) = it[{}]
  BY SumIterates, FS_EmptySet
<1> QED
  BY <1>1 DEF Iterates

\* The first element, and the sum of the others.
LEMMA SumFirst ==
    ASSUME NEW f, NEW S, IsFiniteSet(S), S # {}
    PROVE  SumOf(f, S) = f[First(S)] + SumOf(f, Rest(S))
<1>1. PICK a : Iterates(a, f, S) /\ SumOf(f, S) = a[S]
  BY SumIterates
<1>2. Rest(S) \subseteq S /\ IsFiniteSet(Rest(S))
  BY FS_Subset DEF Rest
<1>3. PICK b : Iterates(b, f, Rest(S)) /\ SumOf(f, Rest(S)) = b[Rest(S)]
  BY <1>2, SumIterates
<1>4. a[Rest(S)] = b[Rest(S)]
  BY <1>1, <1>2, <1>3, IterationsAgree
<1>5. a[S] = f[First(S)] + a[Rest(S)]
  BY <1>1 DEF Iterates
<1> QED
  BY <1>1, <1>3, <1>4, <1>5

\* A sum of natural numbers is one.
LEMMA SumType ==
    ASSUME NEW f, NEW S, IsFiniteSet(S), \A x \in S : f[x] \in Nat
    PROVE  SumOf(f, S) \in Nat
<1> DEFINE bad == {T \in SUBSET S : SumOf(f, T) \notin Nat}
<1> SUFFICES ASSUME bad # {} PROVE FALSE
  OBVIOUS
<1>0. bad \in SUBSET (SUBSET S)
  OBVIOUS
<1>1. PICK T \in bad : \A U \in SUBSET S : U \subseteq T /\ U # T => U \notin bad
  <2> HIDE DEF bad
  <2> QED
    BY <1>0, SmallestSubset
<1>2. T \subseteq S /\ IsFiniteSet(T) /\ T # {}
  <2>1. T \subseteq S /\ IsFiniteSet(T)
    BY <1>1, FS_Subset
  <2>2. SumOf(f, {}) \in Nat
    BY SumEmpty
  <2>3. SumOf(f, T) \notin Nat
    BY <1>1
  <2>4. T # {}
    BY <2>2, <2>3, Zenon
  <2> QED
    BY <2>1, <2>4
<1>3. First(T) \in S /\ Rest(T) \subseteq T /\ Rest(T) # T
  BY <1>2, RestIsLess
<1>4. SumOf(f, Rest(T)) \in Nat
  BY <1>1, <1>2, <1>3
<1>5. SumOf(f, T) = f[First(T)] + SumOf(f, Rest(T))
  BY <1>2, SumFirst
<1> QED
  BY <1>1, <1>3, <1>4, <1>5

\* Any element may be taken out first.
LEMMA SumAnyElement ==
    ASSUME NEW f, NEW S, IsFiniteSet(S), \A x \in S : f[x] \in Nat, NEW y \in S
    PROVE  SumOf(f, S) = f[y] + SumOf(f, S \ {y})
<1> DEFINE bad == {T \in SUBSET S : \E z \in T : SumOf(f, T) # f[z] + SumOf(f, T \ {z})}
<1> SUFFICES ASSUME bad # {} PROVE FALSE
  OBVIOUS
<1>0. bad \in SUBSET (SUBSET S)
  OBVIOUS
<1>1. PICK T \in bad : \A U \in SUBSET S : U \subseteq T /\ U # T => U \notin bad
  <2> HIDE DEF bad
  <2> QED
    BY <1>0, SmallestSubset
<1>2. PICK z \in T : SumOf(f, T) # f[z] + SumOf(f, T \ {z})
  BY <1>1
<1> DEFINE x == First(T)
<1>3. T \in SUBSET S /\ IsFiniteSet(T) /\ x \in T /\ Rest(T) = T \ {x}
  BY <1>1, <1>2, FS_Subset, RestIsLess DEF Rest
<1>4. SumOf(f, T) = f[x] + SumOf(f, T \ {x})
  BY <1>2, <1>3, SumFirst
<1>5. x # z
  BY <1>2, <1>4
<1> DEFINE R == (T \ {x}) \ {z}
<1>6. SumOf(f, T \ {x}) = f[z] + SumOf(f, R)
  <2>1. T \ {x} \in SUBSET S /\ T \ {x} \subseteq T /\ T \ {x} # T /\ z \in T \ {x}
    BY <1>2, <1>3, <1>5
  <2>2. T \ {x} \notin bad
    BY <1>1, <2>1
  <2> QED
    BY <2>1, <2>2
<1>7. SumOf(f, T \ {z}) = f[x] + SumOf(f, R)
  <2>1. T \ {z} \in SUBSET S /\ T \ {z} \subseteq T /\ T \ {z} # T /\ x \in T \ {z}
    BY <1>2, <1>3, <1>5
  <2>2. T \ {z} \notin bad
    BY <1>1, <2>1
  <2>3. SumOf(f, T \ {z}) = f[x] + SumOf(f, (T \ {z}) \ {x})
    BY <2>1, <2>2
  <2>4. (T \ {z}) \ {x} = R
    OBVIOUS
  <2> QED
    BY <2>3, <2>4
<1>8. SumOf(f, R) \in Nat /\ f[x] \in Nat /\ f[z] \in Nat
  <2>1. R \subseteq S /\ IsFiniteSet(R)
    BY <1>3, FS_Subset
  <2>2. SumOf(f, R) \in Nat
    BY <2>1, SumType
  <2> QED
    BY <1>2, <1>3, <2>2
<1> HIDE DEF x, R
<1> QED
  BY <1>2, <1>4, <1>6, <1>7, <1>8

\* No part of a sum of natural numbers is larger than the whole.
LEMMA SumElement ==
    ASSUME NEW f, NEW S, IsFiniteSet(S), \A x \in S : f[x] \in Nat, NEW y \in S
    PROVE  /\ SumOf(f, S \ {y}) \in Nat
           /\ SumOf(f, S) \in Nat
           /\ SumOf(f, S) = f[y] + SumOf(f, S \ {y})
           /\ SumOf(f, S) >= f[y]
<1>1. IsFiniteSet(S \ {y}) /\ f[y] \in Nat
  BY FS_Subset
<1>2. SumOf(f, S \ {y}) \in Nat /\ SumOf(f, S) \in Nat
  BY <1>1, SumType
<1> QED
  BY <1>1, <1>2, SumAnyElement

\* Where only one summand differs, the sums differ by as much.
LEMMA SumChange ==
    ASSUME NEW f, NEW g, NEW S, IsFiniteSet(S), NEW y \in S,
           \A x \in S : f[x] \in Nat /\ g[x] \in Nat,
           \A x \in S \ {y} : g[x] = f[x]
    PROVE  /\ SumOf(f, S) \in Nat /\ SumOf(g, S) \in Nat
           /\ SumOf(g, S) = SumOf(f, S) - f[y] + g[y]
           /\ SumOf(f, S) >= f[y]
<1>1. SumOf(g, S \ {y}) = SumOf(f, S \ {y})
  BY SumCongruent, FS_Subset
<1>2. /\ SumOf(f, S \ {y}) \in Nat
      /\ SumOf(f, S) \in Nat
      /\ SumOf(f, S) = f[y] + SumOf(f, S \ {y})
      /\ SumOf(f, S) >= f[y]
  BY SumElement
<1>3. SumOf(g, S) \in Nat /\ SumOf(g, S) = g[y] + SumOf(g, S \ {y})
  BY SumElement
<1>4. f[y] \in Nat /\ g[y] \in Nat
  OBVIOUS
<1> QED
  BY <1>1, <1>2, <1>3, <1>4

\* Zeros add up to zero.
LEMMA SumZero ==
    ASSUME NEW f, NEW S, IsFiniteSet(S), \A x \in S : f[x] = 0
    PROVE  SumOf(f, S) = 0
<1> DEFINE bad == {T \in SUBSET S : SumOf(f, T) # 0}
<1> SUFFICES ASSUME bad # {} PROVE FALSE
  OBVIOUS
<1>0. bad \in SUBSET (SUBSET S)
  OBVIOUS
<1>1. PICK T \in bad : \A U \in SUBSET S : U \subseteq T /\ U # T => U \notin bad
  <2> HIDE DEF bad
  <2> QED
    BY <1>0, SmallestSubset
<1>2. T \subseteq S /\ IsFiniteSet(T) /\ T # {}
  <2>1. T \subseteq S /\ IsFiniteSet(T)
    BY <1>1, FS_Subset
  <2>2. SumOf(f, {}) = 0
    BY SumEmpty
  <2>3. T # {}
    BY <1>1, <2>2
  <2> QED
    BY <2>1, <2>3
<1>3. First(T) \in S /\ Rest(T) \subseteq T /\ Rest(T) # T
  BY <1>2, RestIsLess
<1>4. SumOf(f, Rest(T)) = 0
  BY <1>1, <1>2, <1>3
<1>5. SumOf(f, T) = f[First(T)] + SumOf(f, Rest(T))
  BY <1>2, SumFirst
<1> QED
  BY <1>1, <1>3, <1>4, <1>5

\* Summands that are left out of a sum may as well be zero.
LEMMA SumFilter ==
    ASSUME NEW f, NEW S, IsFiniteSet(S), \A x \in S : f[x] \in Nat,
           NEW T \in SUBSET S, \A x \in S \ T : f[x] = 0
    PROVE  SumOf(f, S) = SumOf(f, T)
<1> DEFINE bad == {U \in SUBSET S : T \subseteq U /\ SumOf(f, U) # SumOf(f, T)}
<1> SUFFICES ASSUME bad # {} PROVE FALSE
  OBVIOUS
<1>0. bad \in SUBSET (SUBSET S)
  OBVIOUS
<1>1. PICK U \in bad : \A V \in SUBSET S : V \subseteq U /\ V # U => V \notin bad
  <2> HIDE DEF bad
  <2> QED
    BY <1>0, SmallestSubset
<1>2. PICK y \in U : y \notin T
  <2>1. T \subseteq U /\ U # T
    BY <1>1
  <2> QED
    BY <2>1
<1>3. IsFiniteSet(U) /\ \A x \in U : f[x] \in Nat
  BY <1>1, FS_Subset
<1>4. SumOf(f, U \ {y}) \in Nat /\ SumOf(f, U) = f[y] + SumOf(f, U \ {y})
  BY <1>3, SumElement
<1>5. U \ {y} \notin bad
  BY <1>1, <1>2
<1>6. SumOf(f, U \ {y}) = SumOf(f, T)
  BY <1>1, <1>2, <1>5
<1>7. f[y] = 0
  BY <1>1, <1>2
<1> QED
  BY <1>1, <1>4, <1>6, <1>7
=============================================================================
