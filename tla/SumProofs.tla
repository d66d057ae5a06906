------------------------------ MODULE SumProofs ------------------------------
(***************************************************************************)
(* What SumFunction adds up to.  It is a fold, a recursive function over    *)
(* the subsets of the domain; that there is such a function, and what it    *)
(* is, is proved by induction on their size, from the fact that a set of    *)
(* numbers has a least one.  And what rounding leaves of a fraction.       *)
(***************************************************************************)
EXTENDS Integers, FiniteSets, Functions, Rounding, FiniteSetTheorems, FunctionTheorems,
        WellFoundedInduction, TLAPS

\* A set of numbers that is not empty has a least one.
LEMMA LeastNumber ==
  ASSUME NEW T \in SUBSET Nat, T # {}
  PROVE  \E m \in T : \A k \in T : m <= k
<1>1. PICK m \in T : \A k \in T : ~(<<k, m>> \in OpToRel(<, Nat))
  BY WFMin, NatLessThanWellFounded
<1>2. \A k \in T : k \in Nat
  OBVIOUS
<1>3. \A k \in T : ~(k < m)
  BY <1>1, <1>2 DEF OpToRel
<1>4. \A k \in T : m <= k
  BY <1>2, <1>3
<1> QED
  BY <1>4

\* A family of subsets of a finite set that has the empty one and every
\* extension of a member by one element has them all.
LEMMA SubsetsBuilt ==
  ASSUME NEW D, IsFiniteSet(D), NEW F, {} \in F,
         \A s \in SUBSET D : \A x \in D \ s : s \in F => s \cup {x} \in F
  PROVE  \A s \in SUBSET D : s \in F
<1>1. \A s \in SUBSET D : IsFiniteSet(s) /\ Cardinality(s) \in Nat
  BY FS_Subset, FS_CardinalityType
<1>2. SUFFICES ASSUME \E s \in SUBSET D : s \notin F PROVE FALSE
  OBVIOUS
<1> DEFINE T == {Cardinality(s) : s \in {t \in SUBSET D : t \notin F}}
<1>3. T \in SUBSET Nat /\ T # {}
  BY <1>1, <1>2
<1>4. PICK s \in SUBSET D : s \notin F /\ \A t \in SUBSET D : t \notin F => Cardinality(s) <= Cardinality(t)
  <2> HIDE DEF T
  <2>1. PICK m \in T : \A k \in T : m <= k
    BY <1>3, LeastNumber
  <2> QED
    BY <2>1 DEF T
<1>5. PICK x \in s : TRUE
  BY <1>4
<1>6. Cardinality(s \ {x}) = Cardinality(s) - 1
  BY <1>1, <1>5, FS_RemoveElement
<1>7. s \ {x} \in SUBSET D /\ x \in D \ (s \ {x}) /\ (s \ {x}) \cup {x} = s
  BY <1>5
<1>8. s \ {x} \in F
  BY <1>1, <1>4, <1>6, <1>7
<1> QED
  BY <1>4, <1>7, <1>8

Any(s) == CHOOSE x \in s : TRUE
Summed(f, g, s) == IF s = {} THEN 0 ELSE f[Any(s)] + g[s \ {Any(s)}]

LEMMA SumIs ==
  ASSUME NEW f, NEW D, DOMAIN f = D
  PROVE  SumFunction(f) = (CHOOSE g : g = [s \in SUBSET D |-> Summed(f, g, s)])[D]
BY DEF SumFunction, SumFunctionOnSet, FoldFunctionOnSet, MapThenFoldSet, Summed, Any

LEMMA SumExists ==
  ASSUME NEW f, NEW D, IsFiniteSet(D)
  PROVE  \E g : g = [s \in SUBSET D |-> Summed(f, g, s)]
<1>1. \A s \in SUBSET D : IsFiniteSet(s) /\ Cardinality(s) \in Nat
  BY FS_Subset, FS_CardinalityType
<1> DEFINE Small(n) == {s \in SUBSET D : Cardinality(s) <= n}
           Done == {n \in Nat : \E g : g = [s \in Small(n) |-> Summed(f, g, s)]}
<1>2. \A s \in SUBSET D : s # {} =>
        s \ {Any(s)} \in SUBSET D /\ Cardinality(s \ {Any(s)}) = Cardinality(s) - 1
  <2> SUFFICES ASSUME NEW s \in SUBSET D, s # {}
               PROVE  s \ {Any(s)} \in SUBSET D /\ Cardinality(s \ {Any(s)}) = Cardinality(s) - 1
    OBVIOUS
  <2>1. Any(s) \in s
    BY DEF Any
  <2> QED
    BY <1>1, <2>1, FS_RemoveElement
<1>3. 0 \in Done
  <2>1. \A s \in Small(0) : s = {}
    BY <1>1, FS_EmptySet
  <2>2. [s \in Small(0) |-> 0] = [s \in Small(0) |-> Summed(f, [t \in Small(0) |-> 0], s)]
    BY <2>1 DEF Summed
  <2> QED
    BY <2>2
<1>4. ASSUME NEW n \in Nat, n \in Done PROVE n + 1 \in Done
  <2>1. PICK g : g = [s \in Small(n) |-> Summed(f, g, s)]
    BY <1>4
  <2> DEFINE h == [s \in Small(n + 1) |-> Summed(f, g, s)]
  <2>2. \A s \in Small(n + 1) : s # {} => s \ {Any(s)} \in Small(n)
    BY <1>1, <1>2
  <2>3. \A s \in Small(n) : s \in Small(n + 1) /\ h[s] = g[s]
    BY <1>1, <2>1
  <2>4. \A s \in Small(n + 1) : Summed(f, g, s) = Summed(f, h, s)
    BY <2>2, <2>3 DEF Summed
  <2>5. h = [s \in Small(n + 1) |-> Summed(f, h, s)]
    BY <2>4
  <2> HIDE DEF h
  <2>6. \E k : k = [s \in Small(n + 1) |-> Summed(f, k, s)]
    BY <2>5
  <2> QED
    BY <2>6
<1>5. \A n \in Nat : n \in Done
  <2> HIDE DEF Done
  <2> SUFFICES ASSUME \E n \in Nat : n \notin Done PROVE FALSE
    OBVIOUS
  <2>1. PICK m \in Nat \ Done : \A k \in Nat \ Done : m <= k
    BY LeastNumber
  <2>2. m # 0 /\ m - 1 \in Nat /\ m - 1 \in Done
    BY <1>3, <2>1
  <2> QED
    BY <1>4, <2>1, <2>2
<1>6. Small(Cardinality(D)) = SUBSET D
  BY <1>1, FS_Subset
<1>7. Cardinality(D) \in Done
  BY <1>1, <1>5
<1> QED
  BY <1>6, <1>7

\* The parts of a sum: what the entries in s add up to.
Adds(T, f, D) ==
  /\ T \in [SUBSET D -> Int]
  /\ T[{}] = 0 /\ T[D] = SumFunction(f)
  /\ \A s \in SUBSET D : \A x \in D \ s : T[s \cup {x}] = f[x] + T[s]

LEMMA SumAdds ==
  ASSUME NEW D, IsFiniteSet(D), NEW f \in [D -> Int]
  PROVE  \E T : Adds(T, f, D)
<1> DEFINE G == CHOOSE g : g = [s \in SUBSET D |-> Summed(f, g, s)]
<1>1. G = [s \in SUBSET D |-> Summed(f, G, s)]
  BY SumExists
<1>2. SumFunction(f) = G[D]
  BY SumIs
<1> HIDE DEF G
<1>3. \A s \in SUBSET D : G[s] = IF s = {} THEN 0 ELSE f[Any(s)] + G[s \ {Any(s)}]
  BY <1>1 DEF Summed
<1>4. \A s \in SUBSET D : s # {} => Any(s) \in s
  BY DEF Any
<1>5. \A s \in SUBSET D : IsFiniteSet(s) /\ Cardinality(s) \in Nat
  BY FS_Subset, FS_CardinalityType
<1>6. \A s \in SUBSET D, x \in D : x \in s => Cardinality(s \ {x}) = Cardinality(s) - 1
  BY <1>5, FS_RemoveElement
\* The sets up to a size on which G is a sum in any order.
<1> DEFINE Fine(s) == G[s] \in Int /\ \A x \in s : G[s] = f[x] + G[s \ {x}]
           Sizes == {n \in Nat : \A s \in SUBSET D : Cardinality(s) <= n => Fine(s)}
<1>7. 0 \in Sizes
  <2>1. \A s \in SUBSET D : Cardinality(s) <= 0 => Cardinality(s) = 0
    BY <1>5
  <2>2. \A s \in SUBSET D : Cardinality(s) = 0 => s = {}
    BY <1>5, FS_EmptySet
  <2>3. Fine({})
    <3>1. {} \in SUBSET D
      OBVIOUS
    <3>2. G[{}] = 0
      BY <1>3, <3>1
    <3>3. \A x : x \notin {}
      OBVIOUS
    <3> QED
      BY <3>2, <3>3
  <2> HIDE DEF Fine
  <2> QED
    BY <2>1, <2>2, <2>3
<1>8. ASSUME NEW n \in Nat, n \in Sizes PROVE n + 1 \in Sizes
  <2> HIDE DEF Fine
  <2>0. \A s \in SUBSET D : Cardinality(s) <= n + 1 => Cardinality(s) <= n \/ Cardinality(s) = n + 1
    BY <1>5
  <2> SUFFICES ASSUME NEW s \in SUBSET D, Cardinality(s) = n + 1 PROVE Fine(s)
    BY <1>8, <2>0
  <2> USE DEF Fine
  <2>1. PICK y : y = Any(s)
    OBVIOUS
  <2>2. s # {} /\ y \in s /\ y \in D /\ f[y] \in Int
    BY <1>4, <1>5, <2>1, FS_EmptySet
  <2>3. \A x \in s : s \ {x} \in SUBSET D /\ Cardinality(s \ {x}) = n
    BY <1>6
  <2>4. \A x \in s : Fine(s \ {x})
    BY <1>8, <2>3
  <2>5. G[s] = f[y] + G[s \ {y}]
    BY <1>3, <2>1, <2>2
  <2>6. ASSUME NEW x \in s PROVE G[s] = f[x] + G[s \ {x}]
    <3>1. CASE x = y
      BY <2>5, <3>1
    <3>2. CASE x # y
      <4>1. x \in s \ {y} /\ y \in s \ {x}
        BY <2>2, <3>2
      <4>2. G[s \ {y}] = f[x] + G[(s \ {y}) \ {x}] /\ G[s \ {x}] = f[y] + G[(s \ {x}) \ {y}]
        BY <2>2, <2>4, <4>1
      <4>3. (s \ {y}) \ {x} = (s \ {x}) \ {y}
        OBVIOUS
      <4>4. PICK a : a = G[(s \ {x}) \ {y}]
        OBVIOUS
      <4>5. G[s \ {y}] \in Int /\ G[s \ {x}] \in Int /\ f[x] \in Int
        BY <2>2, <2>4
      <4>6. a \in Int
        <5>1. (s \ {x}) \ {y} \in SUBSET D /\ Cardinality((s \ {x}) \ {y}) <= n
          <6>1. (s \ {x}) \ {y} \in SUBSET D /\ Cardinality((s \ {x}) \ {y}) = n - 1
            BY <1>6, <2>2, <2>3, <4>1
          <6> QED
            BY <6>1
        <5> QED
          BY <1>8, <4>4, <5>1
      <4>7. PICK b, c : b = G[s \ {y}] /\ c = G[s \ {x}]
        OBVIOUS
      <4>8. b = f[x] + a /\ c = f[y] + a /\ G[s] = f[y] + b
        BY <2>5, <4>2, <4>3, <4>4, <4>7
      <4>9. f[y] + (f[x] + a) = f[x] + (f[y] + a)
        BY <2>2, <4>5, <4>6
      <4> QED
        BY <4>7, <4>8, <4>9
    <3> QED
      BY <3>1, <3>2
  <2>7. G[s] \in Int
    BY <2>2, <2>4, <2>5
  <2> QED
    BY <2>6, <2>7
<1>9. \A n \in Nat : n \in Sizes
  <2> HIDE DEF Sizes
  <2> SUFFICES ASSUME \E n \in Nat : n \notin Sizes PROVE FALSE
    OBVIOUS
  <2>1. PICK m \in Nat \ Sizes : \A k \in Nat \ Sizes : m <= k
    BY LeastNumber
  <2>2. m # 0 /\ m - 1 \in Nat /\ m - 1 \in Sizes
    BY <1>7, <2>1
  <2> QED
    BY <1>8, <2>1, <2>2
<1>10. \A s \in SUBSET D : Fine(s)
  <2>1. \A n \in Nat : n <= n
    OBVIOUS
  <2> HIDE DEF Fine
  <2> QED
    BY <1>5, <1>9, <2>1
<1>11. G \in [SUBSET D -> Int]
  BY <1>1, <1>10
<1>12. G[{}] = 0
  BY <1>3
<1>13. ASSUME NEW s \in SUBSET D, NEW x \in D \ s PROVE G[s \cup {x}] = f[x] + G[s]
  <2>1. s \cup {x} \in SUBSET D /\ x \in s \cup {x} /\ (s \cup {x}) \ {x} = s
    OBVIOUS
  <2>2. Fine(s \cup {x})
    BY <1>10, <2>1
  <2> HIDE DEF G
  <2> QED
    BY <2>1, <2>2
<1> QED
  BY <1>2, <1>11, <1>12, <1>13 DEF Adds

\* One entry changes, and the sum with it.
LEMMA SumChanged ==
  ASSUME NEW D, IsFiniteSet(D), NEW f \in [D -> Int], NEW x \in D, NEW v \in Int,
         NEW h, h = [f EXCEPT ![x] = v]
  PROVE  /\ SumFunction(f) \in Int /\ SumFunction(h) \in Int
         /\ SumFunction(h) = SumFunction(f) + (v - f[x])
<1>1. h \in [D -> Int] /\ h[x] = v /\ \A y \in D : y # x => h[y] = f[y]
  OBVIOUS
<1>2. PICK T, U : Adds(T, f, D) /\ Adds(U, h, D)
  BY <1>1, SumAdds
<1> DEFINE d(s) == IF x \in s THEN v - f[x] ELSE 0
           F == {s \in SUBSET D : U[s] = T[s] + d(s)}
<1>3. {} \in F
  BY <1>2 DEF Adds
<1>4. ASSUME NEW s \in SUBSET D, NEW y \in D \ s, s \in F PROVE s \cup {y} \in F
  <2>1. T[s \cup {y}] = f[y] + T[s] /\ U[s \cup {y}] = h[y] + U[s]
        /\ T[s] \in Int /\ U[s] \in Int /\ f[y] \in Int /\ h[y] \in Int /\ f[x] \in Int
    BY <1>1, <1>2 DEF Adds
  <2>2. U[s] = T[s] + d(s)
    BY <1>4
  <2>3. CASE y = x
    <3>1. d(s) = 0 /\ d(s \cup {y}) = v - f[x] /\ h[y] = v /\ f[y] = f[x]
      BY <1>1, <2>3
    <3>2. U[s \cup {y}] = T[s \cup {y}] + (v - f[x])
      BY <2>1, <2>2, <3>1
    <3> QED
      BY <3>1, <3>2
  <2>4. CASE y # x
    <3>1. d(s \cup {y}) = d(s) /\ h[y] = f[y] /\ d(s) \in Int
      BY <1>1, <2>1, <2>4
    <3> HIDE DEF d
    <3>2. U[s \cup {y}] = T[s \cup {y}] + d(s \cup {y})
      BY <2>1, <2>2, <3>1
    <3> QED
      BY <3>2
  <2> QED
    BY <2>3, <2>4
<1>5. D \in F
  <2> HIDE DEF F
  <2> QED
    BY <1>3, <1>4, SubsetsBuilt
<1>6. /\ T[D] = SumFunction(f) /\ U[D] = SumFunction(h) /\ T[D] \in Int /\ U[D] \in Int
      /\ U[D] = T[D] + (v - f[x])
  BY <1>2, <1>5 DEF Adds
<1> QED
  BY <1>6

\* Entries that differ by at most k, in one direction.
LEMMA SumBetween ==
  ASSUME NEW D, IsFiniteSet(D), NEW f \in [D -> Int], NEW h \in [D -> Int], NEW k \in Nat,
         \A x \in D : f[x] <= h[x] /\ h[x] <= f[x] + k
  PROVE  /\ SumFunction(f) \in Int /\ SumFunction(h) \in Int
         /\ SumFunction(f) <= SumFunction(h)
         /\ SumFunction(h) <= SumFunction(f) + Cardinality(D) * k
<1>1. PICK T, U : Adds(T, f, D) /\ Adds(U, h, D)
  BY SumAdds
<1> DEFINE F == {s \in SUBSET D : T[s] <= U[s] /\ U[s] <= T[s] + Cardinality(s) * k}
<1>2. {} \in F
  <2>1. T[{}] = 0 /\ U[{}] = 0 /\ Cardinality({}) = 0 /\ 0 * k = 0
    BY <1>1, FS_EmptySet DEF Adds
  <2> QED
    BY <2>1
<1>3. ASSUME NEW s \in SUBSET D, NEW y \in D \ s, s \in F PROVE s \cup {y} \in F
  <2>1. T[s \cup {y}] = f[y] + T[s] /\ U[s \cup {y}] = h[y] + U[s]
        /\ T[s] \in Int /\ U[s] \in Int /\ f[y] \in Int /\ h[y] \in Int
        /\ f[y] <= h[y] /\ h[y] <= f[y] + k
    BY <1>1 DEF Adds
  <2>2. PICK n : n = Cardinality(s)
    OBVIOUS
  <2>3. n \in Nat /\ Cardinality(s \cup {y}) = n + 1
    BY <2>2, FS_Subset, FS_CardinalityType, FS_AddElement
  <2>4. PICK p : p = n * k
    OBVIOUS
  <2>5. (n + 1) * k = p + k /\ p \in Int
    BY <2>3, <2>4
  <2>6. T[s] <= U[s] /\ U[s] <= T[s] + p
    BY <1>3, <2>2, <2>4
  <2>7. T[s \cup {y}] <= U[s \cup {y}] /\ U[s \cup {y}] <= T[s \cup {y}] + (p + k)
    BY <2>1, <2>5, <2>6
  <2> QED
    BY <2>3, <2>5, <2>7
<1>4. D \in F
  <2> HIDE DEF F
  <2> QED
    BY <1>2, <1>3, SubsetsBuilt
<1> QED
  BY <1>1, <1>4 DEF Adds

\* Sets that have nothing in common add up to their union.
LEMMA SumOfSizes ==
  ASSUME NEW D, IsFiniteSet(D), NEW A, \A x \in D : IsFiniteSet(A[x]),
         \A x, y \in D : x # y => A[x] \cap A[y] = {}
  PROVE  LET all == UNION {A[x] : x \in D}
         IN  IsFiniteSet(all) /\ SumFunction([x \in D |-> Cardinality(A[x])]) = Cardinality(all)
<1> DEFINE all(s) == UNION {A[x] : x \in s}
           f == [x \in D |-> Cardinality(A[x])]
<1>1. f \in [D -> Int] /\ \A x \in D : f[x] = Cardinality(A[x])
  BY FS_CardinalityType
<1> HIDE DEF f
<1>2. PICK T : Adds(T, f, D)
  BY <1>1, SumAdds
<1> DEFINE G == {s \in SUBSET D : IsFiniteSet(all(s)) /\ Cardinality(all(s)) = T[s]}
<1>3. {} \in G
  <2>1. all({}) = {}
    OBVIOUS
  <2> QED
    BY <1>2, <2>1, FS_EmptySet DEF Adds
<1>4. ASSUME NEW s \in SUBSET D, NEW y \in D \ s, s \in G PROVE s \cup {y} \in G
  <2>1. all(s \cup {y}) = all(s) \cup A[y] /\ all(s) \cap A[y] = {}
    OBVIOUS
  <2>2. IsFiniteSet(all(s)) /\ Cardinality(all(s)) = T[s] /\ IsFiniteSet(A[y])
    BY <1>4
  <2>3. T[s \cup {y}] = f[y] + T[s] /\ T[s] \in Int /\ f[y] = Cardinality(A[y]) /\ f[y] \in Int
    BY <1>1, <1>2 DEF Adds
  <2> HIDE DEF all
  <2>4. IsFiniteSet(all(s) \cup A[y])
        /\ Cardinality(all(s) \cup A[y])
             = Cardinality(all(s)) + Cardinality(A[y]) - Cardinality(all(s) \cap A[y])
    BY <2>2, FS_Union
  <2>5. Cardinality(all(s) \cap A[y]) = 0
    BY <2>1, FS_EmptySet
  <2>6. Cardinality(all(s) \cup A[y]) = T[s] + f[y]
    BY <2>2, <2>3, <2>4, <2>5
  <2>7. IsFiniteSet(all(s \cup {y})) /\ Cardinality(all(s \cup {y})) = T[s \cup {y}]
    <3>1. PICK u : u = all(s \cup {y})
      OBVIOUS
    <3>2. u = all(s) \cup A[y]
      BY <2>1, <3>1
    <3>3. Cardinality(u) = T[s \cup {y}]
      BY <2>3, <2>6, <3>2
    <3> QED
      BY <2>4, <3>1, <3>2, <3>3
  <2>8. s \cup {y} \in SUBSET D
    OBVIOUS
  <2> QED
    BY <2>7, <2>8
<1>5. D \in G
  <2> HIDE DEF G
  <2> QED
    BY <1>3, <1>4, SubsetsBuilt
<1> QED
  BY <1>2, <1>5 DEF Adds, f

\* What the entries of a part of the domain add up to is their own sum.
LEMMA SumOfPart ==
  ASSUME NEW D, IsFiniteSet(D), NEW f \in [D -> Int], NEW T, Adds(T, f, D), NEW A \in SUBSET D
  PROVE  SumFunction([x \in A |-> f[x]]) = T[A]
<1> DEFINE p == [x \in A |-> f[x]]
<1>1. IsFiniteSet(A) /\ p \in [A -> Int] /\ \A x \in A : p[x] = f[x]
  BY FS_Subset
<1> HIDE DEF p
<1>2. PICK U : Adds(U, p, A)
  BY <1>1, SumAdds
<1> DEFINE F == {s \in SUBSET A : U[s] = T[s]}
<1>3. {} \in F
  BY <1>2 DEF Adds
<1>4. ASSUME NEW s \in SUBSET A, NEW y \in A \ s, s \in F PROVE s \cup {y} \in F
  <2>1. U[s \cup {y}] = p[y] + U[s] /\ T[s \cup {y}] = f[y] + T[s]
    BY <1>2 DEF Adds
  <2> QED
    BY <1>1, <1>4, <2>1
<1>5. A \in F
  <2> HIDE DEF F
  <2> QED
    BY <1>1, <1>3, <1>4, SubsetsBuilt
<1> QED
  BY <1>2, <1>5 DEF Adds, p

\* The entries of two sets that have nothing in common add up together.
LEMMA AddsTogether ==
  ASSUME NEW D, IsFiniteSet(D), NEW f \in [D -> Int], NEW T, Adds(T, f, D),
         NEW A \in SUBSET D, NEW B \in SUBSET D, \A x \in A : x \notin B
  PROVE  T[A] \in Int /\ T[B] \in Int /\ T[A \cup B] = T[A] + T[B]
<1> DEFINE F == {s \in SUBSET B : T[A \cup s] = T[A] + T[s]}
<1>1. T[A] \in Int /\ T[B] \in Int /\ IsFiniteSet(B)
  BY FS_Subset DEF Adds
<1>2. {} \in F
  <2>1. A \cup {} = A /\ T[{}] = 0
    BY DEF Adds
  <2> QED
    BY <1>1, <2>1
<1>3. ASSUME NEW s \in SUBSET B, NEW y \in B \ s, s \in F PROVE s \cup {y} \in F
  <2>1. /\ s \in SUBSET D /\ y \in D \ s /\ A \cup s \in SUBSET D /\ y \in D \ (A \cup s)
        /\ A \cup (s \cup {y}) = (A \cup s) \cup {y}
    OBVIOUS
  <2>2. PICK t, u : t = T[s] /\ u = T[A \cup s]
    OBVIOUS
  <2>3. /\ T[s \cup {y}] = f[y] + t /\ T[(A \cup s) \cup {y}] = f[y] + u
        /\ t \in Int /\ u \in Int /\ f[y] \in Int
    BY <2>1, <2>2 DEF Adds
  <2>4. u = T[A] + t
    BY <1>3, <2>2
  <2>5. T[(A \cup s) \cup {y}] = T[A] + T[s \cup {y}]
    BY <1>1, <2>3, <2>4
  <2> QED
    BY <2>1, <2>5
<1>4. B \in F
  <2> HIDE DEF F
  <2>1. \A s \in SUBSET B : \A y \in B \ s : s \in F => s \cup {y} \in F
    BY <1>3
  <2>2. \A s \in SUBSET B : s \in F
    BY <1>1, <1>2, <2>1, SubsetsBuilt
  <2>3. B \in SUBSET B
    OBVIOUS
  <2> QED
    BY <2>2, <2>3
<1> QED
  BY <1>1, <1>4

\* A sum is that of a part and that of the rest.
LEMMA SumParts ==
  ASSUME NEW D, IsFiniteSet(D), NEW f \in [D -> Int], NEW A \in SUBSET D
  PROVE  LET a == SumFunction([x \in A |-> f[x]])
             b == SumFunction([x \in D \ A |-> f[x]])
         IN  a \in Int /\ b \in Int /\ SumFunction(f) = a + b
<1>1. PICK T : Adds(T, f, D)
  BY SumAdds
<1>2. PICK B : B = D \ A
  OBVIOUS
<1>3. B \in SUBSET D /\ \A x \in A : x \notin B
  BY <1>2
<1>4. T[A] \in Int /\ T[B] \in Int /\ T[D] = T[A] + T[B]
  <2>1. /\ T[A] \in Int /\ T[B] \in Int
        /\ T[A \cup B] = T[A] + T[B]
    <3>1. T[A] \in Int /\ T[B] \in Int
      BY <1>1, <1>3 DEF Adds
    <3>2. T[A \cup B] = T[A] + T[B]
      BY <1>1, <1>3, AddsTogether
    <3> QED
      BY <3>1, <3>2
  <2>2. A \cup B = D
    BY <1>2
  <2> QED
    BY <2>1, <2>2
<1>5. SumFunction([x \in A |-> f[x]]) = T[A] /\ SumFunction([x \in B |-> f[x]]) = T[B]
  BY <1>1, <1>3, SumOfPart
<1> QED
  BY <1>1, <1>2, <1>4, <1>5 DEF Adds

\* Nothing adds up to nothing.
LEMMA SumOfZeros ==
  ASSUME NEW D, IsFiniteSet(D), NEW f \in [D -> Int], \A x \in D : f[x] = 0
  PROVE  SumFunction(f) = 0
<1>1. PICK T : Adds(T, f, D)
  BY SumAdds
<1> DEFINE F == {s \in SUBSET D : T[s] = 0}
<1>2. {} \in F
  BY <1>1 DEF Adds
<1>3. ASSUME NEW s \in SUBSET D, NEW y \in D \ s, s \in F PROVE s \cup {y} \in F
  <2>1. T[s \cup {y}] = f[y] + T[s]
    BY <1>1 DEF Adds
  <2> QED
    BY <1>3, <2>1
<1>4. D \in F
  <2> HIDE DEF F
  <2> QED
    BY <1>2, <1>3, SubsetsBuilt
<1> QED
  BY <1>1, <1>4 DEF Adds

\* No entry shrinks, nor does the sum.
LEMMA SumGrows ==
  ASSUME NEW D, IsFiniteSet(D), NEW f \in [D -> Int], NEW h \in [D -> Int],
         \A x \in D : f[x] <= h[x]
  PROVE  SumFunction(f) \in Int /\ SumFunction(h) \in Int /\ SumFunction(f) <= SumFunction(h)
<1>1. PICK T, U : Adds(T, f, D) /\ Adds(U, h, D)
  BY SumAdds
<1> DEFINE F == {s \in SUBSET D : T[s] <= U[s]}
<1>2. {} \in F
  <2>1. T[{}] = 0 /\ U[{}] = 0
    BY <1>1 DEF Adds
  <2> QED
    BY <2>1
<1>3. ASSUME NEW s \in SUBSET D, NEW y \in D \ s, s \in F PROVE s \cup {y} \in F
  <2>1. T[s \cup {y}] = f[y] + T[s] /\ U[s \cup {y}] = h[y] + U[s]
        /\ T[s] \in Int /\ U[s] \in Int /\ f[y] \in Int /\ h[y] \in Int /\ f[y] <= h[y]
    BY <1>1 DEF Adds
  <2>2. T[s] <= U[s]
    BY <1>3
  <2>3. T[s \cup {y}] <= U[s \cup {y}]
    BY <2>1, <2>2
  <2> QED
    BY <2>3
<1>4. D \in F
  <2> HIDE DEF F
  <2> QED
    BY <1>2, <1>3, SubsetsBuilt
<1> QED
  BY <1>1, <1>4 DEF Adds

\* Each of some things has a name of its own, so there are as many names.
LEMMA AsManyNames ==
  ASSUME NEW D, IsFiniteSet(D), NEW r, NEW J, r \in [D -> J],
         \A k, l \in D : r[k] = r[l] => k = l,
         NEW R \in SUBSET D, NEW I, I = {r[k] : k \in R}
  PROVE  IsFiniteSet(R) /\ IsFiniteSet(I) /\ Cardinality(I) = Cardinality(R)
<1>1. IsFiniteSet(R)
  BY FS_Subset
<1> DEFINE q == [k \in R |-> r[k]]
<1>2. q \in [R -> I] /\ \A k \in R : q[k] = r[k]
  OBVIOUS
<1> HIDE DEF q
<1>3. q \in Bijection(R, I)
  BY <1>2 DEF Bijection, Injection, Surjection, IsInjective
<1> QED
  BY <1>1, <1>3, FS_Bijection DEF ExistsBijection

\* A sum does not depend on what its entries are called.
LEMMA SumRenamed ==
  ASSUME NEW D, IsFiniteSet(D), NEW J, NEW r \in Injection(D, J), NEW f \in [J -> Int],
         NEW I, I = {r[k] : k \in D}
  PROVE  /\ IsFiniteSet(I) /\ Cardinality(I) = Cardinality(D)
         /\ SumFunction([k \in D |-> f[r[k]]]) = SumFunction([j \in I |-> f[j]])
<1> DEFINE p == [k \in D |-> f[r[k]]]
           q == [j \in I |-> f[j]]
<1>1. /\ r \in [D -> J] /\ \A k, l \in D : r[k] = r[l] => k = l
  BY DEF Injection, IsInjective
<1>2. IsFiniteSet(I) /\ Cardinality(I) = Cardinality(D)
  <2>1. D \in SUBSET D
    OBVIOUS
  <2> QED
    BY <1>1, <2>1, AsManyNames
<1>3. p \in [D -> Int] /\ q \in [I -> Int] /\ \A k \in D : r[k] \in I /\ q[r[k]] = p[k]
  BY <1>1
<1> HIDE DEF p, q
<1>4. PICK T, U : Adds(T, p, D) /\ Adds(U, q, I)
  BY <1>2, <1>3, SumAdds
<1> DEFINE im(s) == {r[k] : k \in s}
           F == {s \in SUBSET D : T[s] = U[im(s)]}
<1>5. {} \in F
  <2>1. im({}) = {}
    OBVIOUS
  <2> QED
    BY <1>4, <2>1 DEF Adds
<1>6. ASSUME NEW s \in SUBSET D, NEW y \in D \ s, s \in F PROVE s \cup {y} \in F
  <2>1. im(s) \in SUBSET I /\ r[y] \in I \ im(s) /\ im(s \cup {y}) = im(s) \cup {r[y]}
    BY <1>1, <1>3
  <2> HIDE DEF im
  <2>2. T[s \cup {y}] = p[y] + T[s] /\ U[im(s) \cup {r[y]}] = q[r[y]] + U[im(s)]
    BY <1>4, <2>1 DEF Adds
  <2> QED
    BY <1>3, <1>6, <2>1, <2>2
<1>7. D \in F
  <2> HIDE DEF F
  <2> QED
    BY <1>5, <1>6, SubsetsBuilt
<1>8. T[D] = U[I]
  BY <1>7
<1>9. T[D] = SumFunction(p) /\ U[I] = SumFunction(q)
  BY <1>4 DEF Adds
<1> QED
  BY <1>2, <1>8, <1>9 DEF p, q

\* The sum of f's values on s.
SumOver(f, s) == SumFunction([k \in s |-> f[k]])

\* The sums over sets that have nothing in common add up to that over their union.
LEMMA SumOfSums ==
  ASSUME NEW D, NEW U, NEW A, NEW f, NEW h, IsFiniteSet(D), A \in [D -> SUBSET U],
         f \in [U -> Int], h \in [D -> Int], \A x \in D : IsFiniteSet(A[x]),
         \A x, y \in D : x # y => A[x] \cap A[y] = {}, \A k \in U : \E x \in D : k \in A[x],
         \A x \in D : h[x] = SumOver(f, A[x])
  PROVE  IsFiniteSet(U) /\ SumFunction(h) = SumFunction(f)
<1>0. U = UNION {A[x] : x \in D}
  OBVIOUS
<1> DEFINE all(s) == UNION {A[x] : x \in s}
           p(s) == SumOver(f, s)
<1>1. IsFiniteSet(U)
  <2>1. IsFiniteSet(UNION {A[x] : x \in D})
    <3>1. PICK W : W = {A[x] : x \in D}
      OBVIOUS
    <3>2. [x \in D |-> A[x]] \in Surjection(D, W)
      BY <3>1 DEF Surjection
    <3>3. IsFiniteSet(W)
      BY <3>2, FS_Surjection
    <3>4. \A w \in W : IsFiniteSet(w)
      BY <3>1
    <3>5. IsFiniteSet(UNION W)
      BY <3>3, <3>4, FS_UNION
    <3> QED
      BY <3>1, <3>5
  <2> QED
    BY <1>0, <2>1
<1>2. PICK T : Adds(T, f, U)
  BY <1>1, SumAdds
<1>3. \A s \in SUBSET U : p(s) = T[s] /\ T[s] \in Int
  <2> TAKE s \in SUBSET U
  <2>1. SumFunction([k \in s |-> f[k]]) = T[s]
    BY <1>1, <1>2, SumOfPart
  <2> QED
    BY <1>2, <2>1 DEF Adds, SumOver
<1>4. \A x \in D : A[x] \in SUBSET U
  OBVIOUS
<1>5. h \in [D -> Int] /\ \A x \in D : h[x] = T[A[x]]
  <2>1. \A x \in D : h[x] = p(A[x])
    OBVIOUS
  <2> HIDE DEF p
  <2> QED
    BY <1>3, <1>4, <2>1
<1> HIDE DEF p
<1>6. PICK S : Adds(S, h, D)
  BY <1>5, SumAdds
<1> DEFINE F == {s \in SUBSET D : S[s] = T[all(s)]}
<1>8. {} \in F
  <2>1. all({}) = {}
    OBVIOUS
  <2> QED
    BY <1>2, <1>6, <2>1 DEF Adds
<1>9. ASSUME NEW s \in SUBSET D, NEW y \in D \ s, s \in F PROVE s \cup {y} \in F
  <2>1. /\ all(s \cup {y}) = all(s) \cup A[y] /\ \A k \in all(s) : k \notin A[y]
        /\ all(s) \in SUBSET U /\ A[y] \in SUBSET U
    OBVIOUS
  <2>2. S[s \cup {y}] = h[y] + S[s] /\ S[s] = T[all(s)] /\ h[y] = T[A[y]]
    BY <1>5, <1>6, <1>9 DEF Adds
  <2>3. T[all(s)] \in Int /\ T[A[y]] \in Int
    BY <1>3, <2>1
  <2> HIDE DEF all
  <2>4. T[all(s) \cup A[y]] = T[all(s)] + T[A[y]]
    <3>1. PICK v, w : v = all(s) /\ w = A[y]
      OBVIOUS
    <3>2. v \in SUBSET U /\ w \in SUBSET U /\ \A k \in v : k \notin w
      BY <2>1, <3>1
    <3>3. T[v \cup w] = T[v] + T[w]
      BY <1>1, <1>2, <3>2, AddsTogether
    <3> QED
      BY <3>1, <3>3
  <2>5. PICK a, b : a = T[all(s)] /\ b = T[A[y]]
    OBVIOUS
  <2>6. S[s \cup {y}] = b + a /\ T[all(s) \cup A[y]] = a + b /\ a \in Int /\ b \in Int
    BY <2>2, <2>3, <2>4, <2>5
  <2>7. S[s \cup {y}] = T[all(s \cup {y})]
    <3>1. PICK w : w = all(s \cup {y})
      OBVIOUS
    <3>2. T[w] = a + b
      BY <2>1, <2>6, <3>1
    <3>3. a + b = b + a
      BY <2>6
    <3> QED
      BY <2>6, <3>1, <3>2, <3>3
  <2> QED
    BY <2>7
<1>10. D \in F
  <2> HIDE DEF F
  <2> QED
    BY <1>8, <1>9, SubsetsBuilt
<1>11. S[D] = T[U]
  BY <1>0, <1>10
<1>12. S[D] = SumFunction(h) /\ T[U] = SumFunction(f)
  BY <1>2, <1>6 DEF Adds
<1> QED
  BY <1>1, <1>11, <1>12

\* Sums are linear.
LEMMA SumLinear ==
  ASSUME NEW D, NEW f, NEW g, NEW h, NEW a \in Int, NEW b \in Int, IsFiniteSet(D),
         f \in [D -> Int], g \in [D -> Int], h \in [D -> Int],
         \A x \in D : h[x] = a * f[x] + b * g[x]
  PROVE  /\ SumFunction(f) \in Int /\ SumFunction(g) \in Int
         /\ SumFunction(h) = a * SumFunction(f) + b * SumFunction(g)
<1>1. PICK T, U, V : Adds(T, f, D) /\ Adds(U, g, D) /\ Adds(V, h, D)
  BY SumAdds
<1> DEFINE F == {s \in SUBSET D : V[s] = a * T[s] + b * U[s]}
<1>2. {} \in F
  <2>1. V[{}] = 0 /\ T[{}] = 0 /\ U[{}] = 0
    BY <1>1 DEF Adds
  <2>2. a * 0 + b * 0 = 0
    OBVIOUS
  <2> QED
    BY <2>1, <2>2
<1>3. ASSUME NEW s \in SUBSET D, NEW y \in D \ s, s \in F PROVE s \cup {y} \in F
  <2>1. PICK p, q, t, u : p = f[y] /\ q = g[y] /\ t = T[s] /\ u = U[s]
    OBVIOUS
  <2>2. p \in Int /\ q \in Int /\ t \in Int /\ u \in Int
    BY <1>1, <2>1 DEF Adds
  <2>3. /\ V[s \cup {y}] = (a * p + b * q) + (a * t + b * u)
        /\ T[s \cup {y}] = p + t /\ U[s \cup {y}] = q + u
    BY <1>1, <1>3, <2>1 DEF Adds
  <2>4. (a * p + b * q) + (a * t + b * u) = a * (p + t) + b * (q + u)
    BY <2>2
  <2> QED
    BY <2>3, <2>4
<1>4. D \in F
  <2> HIDE DEF F
  <2> QED
    BY <1>2, <1>3, SubsetsBuilt
<1> QED
  BY <1>1, <1>4 DEF Adds

\* As many times a number as there are.
LEMMA SumOfSame ==
  ASSUME NEW D, NEW f, NEW c \in Int, IsFiniteSet(D), f \in [D -> Int], \A x \in D : f[x] = c
  PROVE  SumFunction(f) = Cardinality(D) * c
<1>1. PICK T : Adds(T, f, D)
  BY SumAdds
<1> DEFINE F == {s \in SUBSET D : T[s] = Cardinality(s) * c}
<1>2. {} \in F
  <2>1. T[{}] = 0 /\ Cardinality({}) = 0 /\ 0 * c = 0
    BY <1>1, FS_EmptySet DEF Adds
  <2> QED
    BY <2>1
<1>3. ASSUME NEW s \in SUBSET D, NEW y \in D \ s, s \in F PROVE s \cup {y} \in F
  <2>1. IsFiniteSet(s)
    BY FS_Subset
  <2>2. PICK n \in Nat : n = Cardinality(s)
    BY <2>1, FS_CardinalityType
  <2>3. Cardinality(s \cup {y}) = n + 1
    BY <2>1, <2>2, FS_AddElement
  <2>4. T[s \cup {y}] = c + n * c
    BY <1>1, <1>3, <2>2 DEF Adds
  <2>5. c + n * c = (n + 1) * c
    OBVIOUS
  <2> QED
    BY <2>3, <2>4, <2>5
<1>4. D \in F
  <2> HIDE DEF F
  <2> QED
    BY <1>2, <1>3, SubsetsBuilt
<1> QED
  BY <1>1, <1>4 DEF Adds

\* No part of a sum of numbers that are not negative is more than the sum.
LEMMA PartsWithin ==
  ASSUME NEW D, NEW f, NEW x, IsFiniteSet(D), f \in [D -> Int], \A y \in D : 0 <= f[y], x \in D
  PROVE  0 <= f[x] /\ f[x] <= SumFunction(f)
<1> DEFINE z == [y \in D |-> 0]
           h == [f EXCEPT ![x] = 0]
<1>1. z \in [D -> Int] /\ h \in [D -> Int] /\ \A y \in D : z[y] = 0 /\ z[y] <= h[y]
  OBVIOUS
<1>2. h = [f EXCEPT ![x] = 0] /\ 0 \in Int
  OBVIOUS
<1> HIDE DEF z, h
<1>3. SumFunction(z) = 0 /\ SumFunction(z) <= SumFunction(h)
  BY <1>1, SumOfZeros, SumGrows
<1>4. SumFunction(f) \in Int /\ SumFunction(h) \in Int /\ SumFunction(h) = SumFunction(f) + (0 - f[x])
  BY <1>2, SumChanged
<1>5. PICK s, t, v : s = SumFunction(f) /\ t = SumFunction(h) /\ v = f[x]
  OBVIOUS
<1>6. s \in Int /\ t \in Int /\ v \in Int /\ 0 <= v /\ 0 <= t /\ t = s + (0 - v)
  BY <1>3, <1>4, <1>5
<1> QED
  BY <1>5, <1>6

-----------------------------------------------------------------------------
(* How far numbers are from their mean *)

\* A square is not negative, and zero only of zero.
LEMMA SquaresArePositive ==
  ASSUME NEW a \in Int
  PROVE  a * a \in Int /\ 0 <= a * a /\ (a * a = 0 => a = 0)
OBVIOUS

\* A factor that is positive can be left out.
LEMMA PositiveFactor ==
  ASSUME NEW n \in Nat \ {0}, NEW a \in Int, NEW b \in Int
  PROVE  /\ 0 <= n * a => 0 <= a
         /\ n * a = n * b => a = b
<1>1. 0 <= n * a => 0 <= a
  OBVIOUS
<1>2. n * a = n * b => a = b
  <2>1. n * a = n * b => n * (a - b) = 0
    OBVIOUS
  <2>2. n * (a - b) = 0 => a - b = 0
    OBVIOUS
  <2> QED
    BY <2>1, <2>2
<1> QED
  BY <1>1, <1>2

\* A difference squared.
LEMMA SquareOut ==
  ASSUME NEW n \in Int, NEW x \in Int, NEW s \in Int, NEW y \in Int, y = x * x
  PROVE  (n * x - s) * (n * x - s) = ((n * n) * y + (0 - 2 * (n * s)) * x) + s * s
OBVIOUS

\* As many times the sum of squares as there are numbers, less the square of the
\* sum, is the spread of the numbers: zero only if they are all the same.
Multiplied(D, w, r, x) == \A i \in D : w[i] = r[i] * x[i]
SpreadOf(v, D, x, q) == v = Cardinality(D) * SumFunction(q) - SumFunction(x) * SumFunction(x)

LEMMA Spread ==
  ASSUME NEW D, NEW x, NEW q, NEW spread, IsFiniteSet(D), D # {}, x \in [D -> Int], q \in [D -> Int],
         Multiplied(D, q, x, x), SpreadOf(spread, D, x, q)
  PROVE  spread \in Int /\ 0 <= spread /\ (spread = 0 => \A i, k \in D : x[i] = x[k])
<1>1. PICK n, s, t : n = Cardinality(D) /\ s = SumFunction(x) /\ t = SumFunction(q)
  OBVIOUS
<1>2. n \in Nat \ {0}
  BY <1>1, FS_CardinalityType, FS_EmptySet
<1>3. s \in Int /\ t \in Int
  <2>1. PICK T, U : Adds(T, x, D) /\ Adds(U, q, D)
    BY SumAdds
  <2> QED
    BY <1>1, <2>1 DEF Adds
<1>4. PICK a \in Int, b \in Int, c \in Int : a = n * n /\ b = 0 - 2 * (n * s) /\ c = s * s
  BY <1>2, <1>3
<1> DEFINE z == [i \in D |-> (n * x[i] - s) * (n * x[i] - s)]
           p == [i \in D |-> a * q[i] + b * x[i]]
           e == [i \in D |-> c]
<1>5. p \in [D -> Int] /\ e \in [D -> Int] /\ \A i \in D : p[i] = a * q[i] + b * x[i] /\ e[i] = c
  OBVIOUS
<1>6. \A i \in D : z[i] = 1 * p[i] + 1 * e[i]
  <2> TAKE i \in D
  <2>1. PICK u \in Int, y \in Int : u = x[i] /\ y = q[i] /\ y = u * u
    BY DEF Multiplied
  <2>2. n \in Int
    BY <1>2
  <2>3. (n * u - s) * (n * u - s) = ((n * n) * y + (0 - 2 * (n * s)) * u) + s * s
    BY <1>3, <2>1, <2>2, SquareOut
  <2>4. z[i] = (a * y + b * u) + c
    BY <1>4, <2>1, <2>3
  <2>5. p[i] = a * y + b * u /\ e[i] = c
    BY <2>1
  <2>6. PICK h \in Int : h = a * y + b * u
    OBVIOUS
  <2> QED
    BY <2>4, <2>5, <2>6
<1>7. z \in [D -> Int] /\ \A i \in D : 0 <= z[i] /\ (z[i] = 0 => n * x[i] = s)
  <2> SUFFICES ASSUME NEW i \in D PROVE z[i] \in Int /\ 0 <= z[i] /\ (z[i] = 0 => n * x[i] = s)
    OBVIOUS
  <2>1. PICK u \in Int : u = x[i]
    OBVIOUS
  <2>2. PICK d \in Int : d = n * u - s
    BY <1>2, <1>3
  <2>3. z[i] = d * d
    BY <2>1, <2>2
  <2>4. d = 0 => n * u = s
    BY <1>2, <1>3, <2>2
  <2> QED
    BY <2>1, <2>3, <2>4, SquaresArePositive
<1> HIDE DEF z, p, e
<1>8. SumFunction(p) = a * t + b * s
  BY <1>1, <1>5, SumLinear
<1>9. SumFunction(e) = n * c
  BY <1>1, <1>4, <1>5, SumOfSame
<1>10. SumFunction(z) = 1 * SumFunction(p) + 1 * SumFunction(e)
  BY <1>5, <1>6, <1>7, SumLinear
<1>11. PICK v \in Int : v = n * t - s * s
  BY <1>2, <1>3
<1>12. SumFunction(z) = n * v
  BY <1>2, <1>3, <1>4, <1>8, <1>9, <1>10, <1>11
<1>13. 0 <= v
  <2>1. PICK i \in D : TRUE
    OBVIOUS
  <2>2. 0 <= z[i] /\ z[i] <= SumFunction(z)
    BY <1>7, PartsWithin
  <2>3. PICK w \in Int : w = z[i] /\ 0 <= w /\ w <= n * v
    BY <1>7, <1>12, <2>2
  <2>4. 0 <= n * v
    BY <1>2, <2>3
  <2> QED
    BY <1>2, <2>4, PositiveFactor
<1>14. ASSUME v = 0, NEW i \in D, NEW k \in D PROVE x[i] = x[k]
  <2>1. SumFunction(z) = 0
    BY <1>2, <1>12, <1>14
  <2>2. z[i] = 0 /\ z[k] = 0
    <3>1. 0 <= z[i] /\ z[i] <= 0 /\ 0 <= z[k] /\ z[k] <= 0
      BY <1>7, <2>1, PartsWithin
    <3> QED
      BY <1>7, <3>1
  <2>3. n * x[i] = n * x[k] /\ x[i] \in Int /\ x[k] \in Int
    BY <1>7, <2>2
  <2> QED
    BY <1>2, <2>3, PositiveFactor
<1> QED
  BY <1>1, <1>11, <1>13, <1>14 DEF SpreadOf

-----------------------------------------------------------------------------
(* Rounding *)

\* v is n/d to within a half.
Near(v, n, d) == v \in Int /\ 2 * (d * v) <= 2 * n + d /\ 2 * n <= 2 * (d * v) + d

\* Up or down, what is left is at most a half.
LEMMA ToNearestIsNear ==
  ASSUME NEW q \in Int, NEW d \in Nat \ {0}, NEW r \in 0..(d - 1), NEW n \in Int, n = d * q + r
  PROVE  Near(ToNearest(q, r, d), n, d)
<1>1. PICK m \in Int : m = d * q
  OBVIOUS
<1>2. d * (q + 1) = m + d
  BY <1>1
<1>3. CASE 2 * r > d \/ (2 * r = d /\ q % 2 = 1)
  <2>1. ToNearest(q, r, d) = q + 1
    BY <1>3 DEF ToNearest
  <2> QED
    BY <1>1, <1>2, <1>3, <2>1 DEF Near
<1>4. CASE ~(2 * r > d \/ (2 * r = d /\ q % 2 = 1))
  <2>1. ToNearest(q, r, d) = q /\ 2 * r <= d
    BY <1>4 DEF ToNearest
  <2> QED
    BY <1>1, <2>1 DEF Near
<1> QED
  BY <1>3, <1>4

\* A quotient and its remainder.
LEMMA Divided ==
  ASSUME NEW n \in Int, NEW d \in Nat \ {0}
  PROVE  n \div d \in Int /\ n % d \in 0..(d - 1) /\ n = d * (n \div d) + (n % d)
OBVIOUS

\* Python's round.
LEMMA RoundIsNear ==
  ASSUME NEW n \in Int, NEW d \in Nat \ {0}
  PROVE  Near(Round(n, d), n, d)
BY Divided, ToNearestIsNear DEF Round

\* The same of a scaled fraction: the parts that are divided one by one add up.
LEMMA RoundScaledIsNear ==
  ASSUME NEW n \in Int, NEW d \in Nat \ {0}, NEW f \in Nat, NEW g \in Nat \ {0}
  PROVE  Near(RoundScaled(n, d, f, g), n * f, d * g)
<1>1. PICK p \in Int, s \in Int : p = n \div d /\ s = n % d /\ n = d * p + s
  BY Divided
<1>2. PICK whole \in Int : whole = p * f
  OBVIOUS
<1>3. PICK a \in Int, b \in Int : a = whole \div g /\ b = whole % g /\ whole = g * a + b
  BY Divided
<1>4. PICK rest \in Int : rest = b * d + s * f
  OBVIOUS
<1>5. PICK e \in Nat \ {0} : e = d * g
  OBVIOUS
<1>6. PICK c \in Int, r \in 0..(e - 1) : c = rest \div e /\ r = rest % e /\ rest = e * c + r
  BY Divided
<1>7. RoundScaled(n, d, f, g) = ToNearest(a + c, r, e)
  BY <1>1, <1>2, <1>3, <1>4, <1>5, <1>6 DEF RoundScaled
<1>8. n * f = e * (a + c) + r
  <2>1. n * f = d * whole + s * f
    <3>1. n * f = (d * p) * f + s * f
      BY <1>1
    <3>2. (d * p) * f = d * (p * f)
      OBVIOUS
    <3> QED
      BY <1>2, <3>1, <3>2
  <2>2. d * whole = e * a + b * d
    <3>1. d * whole = d * (g * a) + d * b
      BY <1>3
    <3>2. d * (g * a) = e * a
      BY <1>5
    <3> QED
      BY <3>1, <3>2
  <2>3. PICK x \in Int, y \in Int, z \in Int, w \in Int :
          x = e * a /\ y = b * d /\ z = s * f /\ w = e * c
    OBVIOUS
  <2>4. e * (a + c) = x + w
    BY <2>3
  <2>5. rest = y + z /\ rest = w + r /\ n * f = (x + y) + z
    BY <1>4, <1>6, <2>1, <2>2, <2>3
  <2> HIDE <2>3
  <2> QED
    BY <2>4, <2>5
<1>9. n * f \in Int /\ a + c \in Int
  OBVIOUS
<1>10. Near(ToNearest(a + c, r, e), n * f, e)
  BY <1>8, <1>9, ToNearestIsNear
<1> QED
  BY <1>5, <1>7, <1>10

\* Multiples of a positive number are ordered like their factors.
LEMMA FactorsOrdered ==
  ASSUME NEW d \in Nat \ {0}, NEW v \in Int, NEW w \in Int
  PROVE  /\ d * v < d * w + d => v <= w
         /\ d * v < d * w => v < w
<1>1. \A x \in Int : x > 0 => d * x >= d
  OBVIOUS
<1>2. ASSUME v > w PROVE d * v >= d * w + d
  <2>1. PICK x \in Int : x = v - w /\ x > 0
    BY <1>2
  <2>2. d * v = d * w + d * x
    BY <2>1
  <2>3. PICK y \in Int, z \in Int : y = d * w /\ z = d * x
    OBVIOUS
  <2> QED
    BY <1>1, <2>1, <2>2, <2>3
<1>3. d * v \in Int /\ d * w \in Int
  OBVIOUS
<1> QED
  BY <1>2, <1>3

\* Rounding keeps the order of fractions, and keeps them apart if they are more
\* than one apart.
LEMMA NearGrows ==
  ASSUME NEW d \in Nat \ {0}, NEW n \in Int, NEW m \in Int, NEW v, NEW w,
         Near(v, n, d), Near(w, m, d)
  PROVE  (n < m => v <= w) /\ (n + d < m => v < w)
<1>1. PICK a \in Int, b \in Int : a = d * v /\ b = d * w
  BY DEF Near
<1>2. (n < m => a < b + d) /\ (n + d < m => a < b)
  BY <1>1 DEF Near
<1> QED
  BY <1>1, <1>2, FactorsOrdered DEF Near

\* A whole number that bounds a fraction bounds it rounded.
LEMMA NearBounded ==
  ASSUME NEW d \in Nat \ {0}, NEW n \in Int, NEW v, Near(v, n, d), NEW b \in Int
  PROVE  (n <= d * b => v <= b) /\ (d * b <= n => b <= v)
<1>1. PICK a \in Int, c \in Int : a = d * v /\ c = d * b
  BY DEF Near
<1>2. (n <= c => a < c + d) /\ (c <= n => c < a + d)
  BY <1>1 DEF Near
<1> QED
  BY <1>1, <1>2, FactorsOrdered DEF Near
=============================================================================
