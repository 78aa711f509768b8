---------------------------- MODULE SumTheorems ----------------------------
(***************************************************************************)
(* Sums over finite sets.  SumFunctionOnSet is a recursive function inside *)
(* a fold, and no prover here does induction; but the subsets of a finite  *)
(* set are well-founded by inclusion, so what fails for some subset fails  *)
(* for a smallest one, and that is enough for the laws of a sum.           *)
(***************************************************************************)
EXTENDS FiniteSetsExt, FiniteSetTheorems, WellFoundedInduction, TLAPS

\* The element that a fold takes first, and the function that it computes.
First(s) == CHOOSE x \in s : TRUE

IsSum(f, S, g) == g = [s \in SUBSET S |-> IF s = {} THEN 0 ELSE f[First(s)] + g[s \ {First(s)}]]

SumBy(f, S) == (CHOOSE g : IsSum(f, S, g))[S]

\* The sum of the library is this sum.
LEMMA SumDefined == ASSUME NEW f, NEW S PROVE SumFunctionOnSet(f, S) = SumBy(f, S)
BY DEF SumFunctionOnSet, FoldFunctionOnSet, MapThenFoldSet, SumBy, IsSum, First

\* What holds of a subset of a finite set holds of a smallest one.
LEMMA Minimal ==
    ASSUME NEW S, IsFiniteSet(S), NEW T \in SUBSET SUBSET S, T # {}
    PROVE  \E x \in T : \A y : y \subseteq x /\ y # x => y \notin T
<1>1. IsWellFoundedOn(StrictSubsetOrdering(S), SUBSET S)
  BY FS_StrictSubsetOrderingWellFounded, FS_FiniteSubsetsOfFinite
<1>2. \E x \in T : \A y \in T : ~(<<y, x>> \in StrictSubsetOrdering(S))
  BY <1>1, WFMin
<1> QED BY <1>2 DEF StrictSubsetOrdering

\* A non-empty set of numbers up to a bound has a greatest one: the bounds that
\* it has are initial segments, and the smallest of them ends with a member.
LEMMA Greatest ==
    ASSUME NEW n \in Nat, NEW S \in SUBSET (0..n), S # {}
    PROVE  \E x \in S : \A y \in S : x >= y
<1> DEFINE Bound(k) == k \in 0..n /\ \A y \in S : y <= k
           T == {s \in SUBSET (0..n) : \E k \in 0..n : Bound(k) /\ s = 0..k}
<1>1. T \in SUBSET SUBSET (0..n) /\ T # {}
  <2>1. Bound(n) /\ 0..n \in SUBSET (0..n)
    OBVIOUS
  <2> QED BY <2>1
<1>2. IsFiniteSet(0..n)
  BY FS_Interval
<1>3. PICK s \in T : \A r : r \subseteq s /\ r # s => r \notin T
  <2> HIDE DEF T
  <2> QED BY <1>1, <1>2, Minimal
<1>4. PICK k \in 0..n : Bound(k) /\ s = 0..k
  OBVIOUS
<1>5. k \in S
  <2> SUFFICES ASSUME k \notin S PROVE FALSE
    OBVIOUS
  <2>1. k # 0
    <3>1. PICK y \in S : TRUE
      OBVIOUS
    <3>2. y \in 0..n /\ y <= k /\ y # k
      BY <1>4, <3>1
    <3> QED BY <3>2
  <2>2. k - 1 \in 0..n /\ Bound(k - 1)
    BY <1>4, <2>1
  <2>3. 0..(k - 1) \in T
    BY <2>2
  <2>4. 0..(k - 1) \subseteq s /\ 0..(k - 1) # s
    <3>1. k \in s /\ k \notin 0..(k - 1)
      BY <1>4
    <3>2. 0..(k - 1) \subseteq 0..k
      OBVIOUS
    <3> QED BY <1>4, <3>1, <3>2
  <2> QED BY <1>3, <2>3, <2>4
<1>6. \A y \in S : k >= y
  BY <1>4
<1> QED BY <1>5, <1>6

\* The first element is an element.
LEMMA FirstIn == ASSUME NEW s, s # {} PROVE First(s) \in s
BY DEF First

\* Two functions that sum agree where both are defined.
LEMMA SumUnique ==
    ASSUME NEW f, NEW A, NEW B, NEW g, NEW h, IsSum(f, A, g), IsSum(f, B, h), NEW S, IsFiniteSet(S), S \subseteq A, S \subseteq B
    PROVE  g[S] = h[S]
<1> DEFINE T == {s \in SUBSET S : g[s] # h[s]}
<1> SUFFICES ASSUME g[S] # h[S] PROVE FALSE
  OBVIOUS
<1>0. T \in SUBSET SUBSET S /\ T # {}
  OBVIOUS
<1>1. PICK s \in T : \A y : y \subseteq s /\ y # s => y \notin T
  <2> HIDE DEF T
  <2> QED BY <1>0, Minimal
<1>2. s # {}
  BY <1>1 DEF IsSum
<1>3. s \ {First(s)} \notin T
  <2>1. First(s) \in s
    BY <1>2, FirstIn
  <2>2. s \ {First(s)} \subseteq s /\ s \ {First(s)} # s
    BY <2>1
  <2> QED BY <1>1, <2>2
<1>4. g[s \ {First(s)}] = h[s \ {First(s)}]
  BY <1>1, <1>3
<1>5. g[s] = f[First(s)] + g[s \ {First(s)}]
  BY <1>1, <1>2 DEF IsSum
<1>6. h[s] = f[First(s)] + h[s \ {First(s)}]
  BY <1>1, <1>2 DEF IsSum
<1> QED BY <1>1, <1>4, <1>5, <1>6

\* There is a function that sums.
LEMMA SumExists ==
    ASSUME NEW f, NEW S, IsFiniteSet(S)
    PROVE  \E g : IsSum(f, S, g)
<1> DEFINE T == {s \in SUBSET S : ~ \E g : IsSum(f, s, g)}
<1> SUFFICES ASSUME ~ \E g : IsSum(f, S, g) PROVE FALSE
  OBVIOUS
<1>0. T \in SUBSET SUBSET S /\ T # {}
  OBVIOUS
<1>1. PICK U \in T : \A y : y \subseteq U /\ y # U => y \notin T
  <2> HIDE DEF T
  <2> QED BY <1>0, Minimal
<1>2. ASSUME NEW s \in SUBSET U, s # U PROVE \E g : IsSum(f, s, g)
  <2>1. s \notin T
    BY <1>1, <1>2
  <2>2. s \in SUBSET S
    BY <1>1
  <2> QED BY <2>1, <2>2
<1> DEFINE val(s) == (CHOOSE g : IsSum(f, s, g))[s]
           last == IF U = {} THEN 0 ELSE f[First(U)] + val(U \ {First(U)})
           g == [s \in SUBSET U |-> IF s = U THEN last ELSE val(s)]
<1>3. ASSUME NEW s \in SUBSET U, s # U
      PROVE  val(s) = IF s = {} THEN 0 ELSE f[First(s)] + val(s \ {First(s)})
  <2>1. IsSum(f, s, CHOOSE h : IsSum(f, s, h))
    BY <1>2, <1>3
  <2> DEFINE h == CHOOSE k : IsSum(f, s, k)
             r == s \ {First(s)}
             k == CHOOSE i : IsSum(f, r, i)
  <2>2. CASE s = {}
    BY <2>1, <2>2 DEF IsSum
  <2>3. CASE s # {}
    <3>1. r \in SUBSET U /\ r # U /\ r \subseteq s
      BY <1>3
    <3>2. IsSum(f, r, k)
      BY <1>2, <3>1
    <3>3. IsFiniteSet(r)
      BY <1>1, <3>1, FS_Subset
    <3>4. IsSum(f, s, h)
      BY <2>1
    <3> HIDE DEF h, k, r
    <3>5. h[r] = k[r]
      BY <3>1, <3>2, <3>3, <3>4, SumUnique
    <3>6. h[s] = f[First(s)] + h[r]
      BY <2>3, <3>4 DEF IsSum, r
    <3> QED BY <2>3, <3>5, <3>6 DEF h, k, r
  <2> QED BY <2>2, <2>3
<1>4. ASSUME NEW s \in SUBSET U
      PROVE  g[s] = IF s = {} THEN 0 ELSE f[First(s)] + g[s \ {First(s)}]
  <2>1. s # {} => s \ {First(s)} # U /\ s \ {First(s)} \in SUBSET U
    BY FirstIn
  <2> HIDE DEF val
  <2>2. CASE s = U
    BY <2>1, <2>2
  <2>3. CASE s # U
    BY <1>3, <2>1, <2>3
  <2> QED BY <2>2, <2>3
<1>5. IsSum(f, U, g)
  <2> HIDE DEF val, last
  <2> QED BY <1>4 DEF IsSum
<1> QED BY <1>1, <1>5

\* The sum takes the first element and goes on with the others.
LEMMA SumRule ==
    ASSUME NEW f, NEW S, IsFiniteSet(S)
    PROVE  SumBy(f, S) = IF S = {} THEN 0 ELSE f[First(S)] + SumBy(f, S \ {First(S)})
<1> DEFINE r == S \ {First(S)}
           g == CHOOSE i : IsSum(f, S, i)
           h == CHOOSE i : IsSum(f, r, i)
<1>1. IsFiniteSet(r) /\ r \subseteq S
  BY FS_Subset
<1>2. IsSum(f, S, g)
  BY SumExists
<1>3. IsSum(f, r, h)
  BY <1>1, SumExists
<1>4. SumBy(f, S) = g[S] /\ SumBy(f, r) = h[r]
  BY DEF SumBy
<1> HIDE DEF g, h
<1>5. g[r] = h[r]
  BY <1>1, <1>2, <1>3, SumUnique
<1>6. g[S] = IF S = {} THEN 0 ELSE f[First(S)] + g[r]
  BY <1>2 DEF IsSum
<1> QED BY <1>4, <1>5, <1>6

\* Nothing adds up to nothing.
LEMMA SumEmpty == \A f : SumBy(f, {}) = 0
BY SumRule, FS_EmptySet

\* A sum of integers is one.
LEMMA SumInt ==
    ASSUME NEW S, IsFiniteSet(S), NEW f, \A x \in S : f[x] \in Int
    PROVE  SumBy(f, S) \in Int
<1> DEFINE T == {s \in SUBSET S : SumBy(f, s) \notin Int}
<1> SUFFICES ASSUME SumBy(f, S) \notin Int PROVE FALSE
  OBVIOUS
<1>0. T \in SUBSET SUBSET S /\ T # {}
  OBVIOUS
<1>1. PICK s \in T : \A y : y \subseteq s /\ y # s => y \notin T
  <2> HIDE DEF T
  <2> QED BY <1>0, Minimal
<1>2. IsFiniteSet(s) /\ s \subseteq S
  BY <1>1, FS_Subset
<1>3. s # {}
  BY SMTT(30), <1>1, SumEmpty
<1>4. First(s) \in s
  BY <1>3, FirstIn
<1>5. SumBy(f, s \ {First(s)}) \in Int
  <2>1. s \ {First(s)} \subseteq s /\ s \ {First(s)} # s /\ s \ {First(s)} \in SUBSET S
    BY <1>2, <1>4
  <2> QED BY <1>1, <2>1
<1> QED BY <1>1, <1>2, <1>3, <1>4, <1>5, SumRule

\* A sum of natural numbers is one.
LEMMA SumNat ==
    ASSUME NEW S, IsFiniteSet(S), NEW f, \A x \in S : f[x] \in Nat
    PROVE  SumBy(f, S) \in Nat
<1> DEFINE T == {s \in SUBSET S : SumBy(f, s) \notin Nat}
<1> SUFFICES ASSUME SumBy(f, S) \notin Nat PROVE FALSE
  OBVIOUS
<1>0. T \in SUBSET SUBSET S /\ T # {}
  OBVIOUS
<1>1. PICK s \in T : \A y : y \subseteq s /\ y # s => y \notin T
  <2> HIDE DEF T
  <2> QED BY <1>0, Minimal
<1>2. IsFiniteSet(s) /\ s \subseteq S
  BY <1>1, FS_Subset
<1>3. s # {}
  <2>1. SumBy(f, {}) \in Nat
    BY SumEmpty
  <2> QED BY <1>1, <2>1
<1>4. First(s) \in s
  BY <1>3, FirstIn
<1>5. SumBy(f, s \ {First(s)}) \in Nat
  <2>1. s \ {First(s)} \subseteq s /\ s \ {First(s)} # s /\ s \ {First(s)} \in SUBSET S
    BY <1>2, <1>4
  <2> QED BY <1>1, <2>1
<1> QED BY <1>1, <1>2, <1>3, <1>4, <1>5, SumRule

\* The order does not matter: any element can be taken out.
LEMMA SumPick ==
    ASSUME NEW S, IsFiniteSet(S), NEW f, \A x \in S : f[x] \in Int, NEW x \in S
    PROVE  SumBy(f, S) = f[x] + SumBy(f, S \ {x})
<1> DEFINE Fits(s) == \A y \in s : SumBy(f, s) = f[y] + SumBy(f, s \ {y})
           T == {s \in SUBSET S : ~Fits(s)}
<1> SUFFICES ASSUME ~Fits(S) PROVE FALSE
  OBVIOUS
<1>0. T \in SUBSET SUBSET S /\ T # {}
  OBVIOUS
<1>1. PICK s \in T : \A y : y \subseteq s /\ y # s => y \notin T
  <2> HIDE DEF T
  <2> QED BY <1>0, Minimal
<1>2. ASSUME NEW r, r \subseteq s, r # s PROVE Fits(r)
  BY <1>1, <1>2
<1>3. PICK y \in s : SumBy(f, s) # f[y] + SumBy(f, s \ {y})
  BY <1>1
<1> DEFINE c == First(s)
<1>4. IsFiniteSet(s) /\ s \subseteq S /\ c \in s
  BY <1>1, <1>3, FS_Subset, FirstIn
<1>5. SumBy(f, s) = f[c] + SumBy(f, s \ {c})
  BY <1>3, <1>4, SumRule
<1>6. c # y
  BY <1>3, <1>5
<1> HIDE DEF c
<1>7. SumBy(f, s \ {c}) = f[y] + SumBy(f, (s \ {c}) \ {y})
  <2>1. Fits(s \ {c})
    BY <1>2, <1>4
  <2> QED BY <2>1, <1>3, <1>6
<1>8. SumBy(f, s \ {y}) = f[c] + SumBy(f, (s \ {y}) \ {c})
  <2>1. Fits(s \ {y})
    BY <1>2, <1>3
  <2> QED BY <2>1, <1>4, <1>6
<1>9. (s \ {y}) \ {c} = (s \ {c}) \ {y}
  OBVIOUS
<1>10. SumBy(f, (s \ {c}) \ {y}) \in Int
  <2>1. IsFiniteSet((s \ {c}) \ {y})
    BY <1>4, FS_Subset
  <2> QED BY <1>4, <2>1, SumInt
<1>11. f[c] \in Int /\ f[y] \in Int
  BY <1>3, <1>4
<1> DEFINE v == SumBy(f, (s \ {c}) \ {y})
<1>12. SumBy(f, s) = f[c] + (f[y] + v) /\ SumBy(f, s \ {y}) = f[c] + v
  BY <1>5, <1>7, <1>8, <1>9
<1> HIDE DEF v
<1>13. v \in Int
  BY <1>10 DEF v
<1>14. f[c] + (f[y] + v) = f[y] + (f[c] + v)
  BY <1>11, <1>13
<1> QED BY <1>3, <1>12, <1>14

\* Only the values on the set count.
LEMMA SumSame ==
    ASSUME NEW S, IsFiniteSet(S), NEW f, NEW g, \A x \in S : f[x] = g[x]
    PROVE  SumBy(f, S) = SumBy(g, S)
<1> DEFINE T == {s \in SUBSET S : SumBy(f, s) # SumBy(g, s)}
<1> SUFFICES ASSUME SumBy(f, S) # SumBy(g, S) PROVE FALSE
  OBVIOUS
<1>0. T \in SUBSET SUBSET S /\ T # {}
  OBVIOUS
<1>1. PICK s \in T : \A y : y \subseteq s /\ y # s => y \notin T
  <2> HIDE DEF T
  <2> QED BY <1>0, Minimal
<1>2. IsFiniteSet(s) /\ s \subseteq S
  BY <1>1, FS_Subset
<1>3. s # {}
  BY <1>1, SumEmpty
<1>4. First(s) \in s
  BY <1>3, FirstIn
<1>5. SumBy(f, s \ {First(s)}) = SumBy(g, s \ {First(s)})
  <2>1. s \ {First(s)} \subseteq s /\ s \ {First(s)} # s /\ s \ {First(s)} \in SUBSET S
    BY <1>2, <1>4
  <2> QED BY <1>1, <2>1
<1> QED BY <1>1, <1>2, <1>3, <1>4, <1>5, SumRule

\* Disjoint sets add up.
LEMMA SumUnion ==
    ASSUME NEW S, IsFiniteSet(S), NEW R, IsFiniteSet(R), S \cap R = {},
           NEW f, \A x \in S \cup R : f[x] \in Int
    PROVE  SumBy(f, S \cup R) = SumBy(f, S) + SumBy(f, R)
<1> DEFINE Adds(s) == SumBy(f, s \cup R) = SumBy(f, s) + SumBy(f, R)
           T == {s \in SUBSET S : ~Adds(s)}
<1> SUFFICES ASSUME ~Adds(S) PROVE FALSE
  OBVIOUS
<1>0. T \in SUBSET SUBSET S /\ T # {}
  OBVIOUS
<1>1. PICK s \in T : \A y : y \subseteq s /\ y # s => y \notin T
  <2> HIDE DEF T
  <2> QED BY <1>0, Minimal
<1>2. IsFiniteSet(s) /\ s \subseteq S /\ IsFiniteSet(s \cup R)
  BY <1>1, FS_Subset, FS_Union
<1>3. SumBy(f, R) \in Int
  BY SumInt
<1>4. s # {}
  <2>1. Adds({})
    BY <1>3, SumEmpty
  <2> QED BY <1>1, <2>1
<1>5. PICK c : c \in s
  BY <1>4
<1> DEFINE r == s \ {c}
<1>6. Adds(r)
  <2>1. r \subseteq s /\ r # s /\ r \in SUBSET S
    BY <1>2, <1>5
  <2> QED BY <1>1, <2>1
<1>7. SumBy(f, s) = f[c] + SumBy(f, r)
  BY <1>2, <1>5, SumPick
<1>8. SumBy(f, s \cup R) = f[c] + SumBy(f, r \cup R)
  <2>1. (s \cup R) \ {c} = r \cup R
    BY <1>2, <1>5
  <2> QED BY <1>2, <1>5, <2>1, SumPick
<1>9. f[c] \in Int /\ SumBy(f, r) \in Int
  BY <1>2, <1>5, SumInt, FS_Subset
<1>10. ~Adds(s)
  BY <1>1
<1> DEFINE a == SumBy(f, r)
           b == SumBy(f, R)
<1>11. SumBy(f, s) = f[c] + a /\ SumBy(f, s \cup R) = f[c] + (a + b) /\ a \in Int /\ b \in Int
  BY <1>3, <1>6, <1>7, <1>8, <1>9
<1> HIDE DEF a
<1>12. f[c] + (a + b) = (f[c] + a) + b
  BY <1>9, <1>11
<1> QED BY <1>10, <1>11, <1>12

\* Zeros add up to nothing.
LEMMA SumZero ==
    ASSUME NEW S, IsFiniteSet(S), NEW f, \A x \in S : f[x] = 0
    PROVE  SumBy(f, S) = 0
<1> DEFINE T == {s \in SUBSET S : SumBy(f, s) # 0}
<1> SUFFICES ASSUME SumBy(f, S) # 0 PROVE FALSE
  OBVIOUS
<1>0. T \in SUBSET SUBSET S /\ T # {}
  OBVIOUS
<1>1. PICK s \in T : \A y : y \subseteq s /\ y # s => y \notin T
  <2> HIDE DEF T
  <2> QED BY <1>0, Minimal
<1>2. IsFiniteSet(s) /\ s \subseteq S
  BY <1>1, FS_Subset
<1>3. s # {}
  BY <1>1, SumEmpty
<1>4. First(s) \in s
  BY <1>3, FirstIn
<1>5. SumBy(f, s \ {First(s)}) = 0
  <2>1. s \ {First(s)} \subseteq s /\ s \ {First(s)} # s /\ s \ {First(s)} \in SUBSET S
    BY <1>2, <1>4
  <2> QED BY <1>1, <2>1
<1> QED BY <1>1, <1>2, <1>3, <1>4, <1>5, SumRule

\* A set counts at most what another counts that has all its non-zero elements.
LEMMA SumCovers ==
    ASSUME NEW S, IsFiniteSet(S), NEW R, IsFiniteSet(R),
           NEW f, \A x \in S \cup R : f[x] \in Nat, \A x \in S : x \in R \/ f[x] = 0
    PROVE  SumBy(f, S) =< SumBy(f, R)
<1> DEFINE i == S \cap R
           u == S \ R
           v == R \ S
<1>1. IsFiniteSet(i) /\ IsFiniteSet(u) /\ IsFiniteSet(v)
  BY FS_Subset
<1>2. i \cup u = S /\ i \cup v = R /\ i \cap u = {} /\ i \cap v = {}
  OBVIOUS
<1>3. SumBy(f, u) = 0
  <2>1. \A x \in u : f[x] = 0
    OBVIOUS
  <2> QED BY <1>1, <2>1, SumZero
<1>4. SumBy(f, v) \in Nat /\ SumBy(f, i) \in Nat
  <2>1. (\A x \in v : f[x] \in Nat) /\ (\A x \in i : f[x] \in Nat)
    OBVIOUS
  <2> QED BY <1>1, <2>1, SumNat
<1>5. \A x \in S \cup R : f[x] \in Int
  OBVIOUS
<1> HIDE DEF i, u, v
<1>6. SumBy(f, S) = SumBy(f, i) + SumBy(f, u)
  <2>1. \A x \in i \cup u : f[x] \in Int
    BY <1>2, <1>5
  <2>2. SumBy(f, i \cup u) = SumBy(f, i) + SumBy(f, u)
    BY <1>1, <1>2, <2>1, SumUnion
  <2> QED BY <1>2, <2>2
<1>7. SumBy(f, R) = SumBy(f, i) + SumBy(f, v)
  <2>1. \A x \in i \cup v : f[x] \in Int
    BY <1>2, <1>5
  <2>2. SumBy(f, i \cup v) = SumBy(f, i) + SumBy(f, v)
    BY <1>1, <1>2, <2>1, SumUnion
  <2> QED BY <1>2, <2>2
<1> QED BY <1>3, <1>4, <1>6, <1>7

\* One value more, and the sum over a set with its place is that much more.
LEMMA SumChange ==
    ASSUME NEW S, IsFiniteSet(S), NEW f, NEW g, NEW x \in S,
           \A y \in S : f[y] \in Int /\ g[y] \in Int, \A y \in S : y # x => g[y] = f[y]
    PROVE  SumBy(g, S) = SumBy(f, S) - f[x] + g[x]
<1>1. SumBy(f, S) = f[x] + SumBy(f, S \ {x}) /\ SumBy(g, S) = g[x] + SumBy(g, S \ {x})
  BY SumPick
<1>2. IsFiniteSet(S \ {x})
  BY FS_Subset
<1>3. SumBy(f, S \ {x}) = SumBy(g, S \ {x})
  BY <1>2, SumSame
<1>4. SumBy(f, S \ {x}) \in Int
  BY <1>2, SumInt
<1> QED BY <1>1, <1>3, <1>4

\* A point-wise bound is a bound of the sums.
LEMMA SumBounded ==
    ASSUME NEW S, IsFiniteSet(S), NEW f, NEW g, \A x \in S : f[x] \in Int /\ g[x] \in Int /\ f[x] =< g[x]
    PROVE  SumBy(f, S) =< SumBy(g, S)
<1> DEFINE T == {s \in SUBSET S : ~(SumBy(f, s) =< SumBy(g, s))}
<1> SUFFICES ASSUME ~(SumBy(f, S) =< SumBy(g, S)) PROVE FALSE
  OBVIOUS
<1>0. T \in SUBSET SUBSET S /\ T # {}
  OBVIOUS
<1>1. PICK s \in T : \A y : y \subseteq s /\ y # s => y \notin T
  <2> HIDE DEF T
  <2> QED BY <1>0, Minimal
<1>2. IsFiniteSet(s) /\ s \subseteq S
  BY <1>1, FS_Subset
<1>3. s # {}
  <2>1. SumBy(f, {}) =< SumBy(g, {})
    BY SumEmpty
  <2> QED BY <1>1, <2>1
<1>4. First(s) \in s
  BY <1>3, FirstIn
<1> DEFINE r == s \ {First(s)}
<1>5. SumBy(f, r) =< SumBy(g, r)
  <2>1. r \subseteq s /\ r # s /\ r \in SUBSET S
    BY <1>2, <1>4
  <2> QED BY <1>1, <2>1
<1>6. SumBy(f, r) \in Int /\ SumBy(g, r) \in Int
  BY <1>2, FS_Subset, SumInt
<1>7. SumBy(f, s) = f[First(s)] + SumBy(f, r) /\ SumBy(g, s) = g[First(s)] + SumBy(g, r)
  BY <1>2, <1>3, SumRule
<1>8. f[First(s)] \in Int /\ g[First(s)] \in Int /\ f[First(s)] =< g[First(s)]
  BY <1>2, <1>4
<1>9. ~(SumBy(f, s) =< SumBy(g, s))
  BY <1>1
<1> HIDE DEF r
<1> QED BY <1>5, <1>6, <1>7, <1>8, <1>9

\* A set counts at most what two others count that have its non-zero elements.
LEMMA SumTwo ==
    ASSUME NEW S, IsFiniteSet(S), NEW P, IsFiniteSet(P), NEW R, IsFiniteSet(R),
           NEW f, \A x \in S \cup P \cup R : f[x] \in Nat,
           \A x \in S : x \in P \/ x \in R \/ f[x] = 0
    PROVE  SumBy(f, S) =< SumBy(f, P) + SumBy(f, R)
<1> DEFINE q == R \ P
<1>1. IsFiniteSet(q) /\ IsFiniteSet(P \cup q) /\ P \cap q = {}
  BY FS_Subset, FS_Union
<1>2. SumBy(f, q) =< SumBy(f, R)
  <2>1. \A x \in q \cup R : f[x] \in Nat
    OBVIOUS
  <2>2. \A x \in q : x \in R \/ f[x] = 0
    OBVIOUS
  <2> HIDE DEF q
  <2> QED BY <1>1, <2>1, <2>2, SumCovers
<1>3. SumBy(f, P \cup q) = SumBy(f, P) + SumBy(f, q)
  <2>1. \A x \in P \cup q : f[x] \in Int
    OBVIOUS
  <2> HIDE DEF q
  <2> QED BY <1>1, <2>1, SumUnion
<1>4. SumBy(f, S) =< SumBy(f, P \cup q)
  <2> DEFINE u == P \cup q
  <2>1. \A x \in S \cup u : f[x] \in Nat
    OBVIOUS
  <2>2. \A x \in S : x \in u \/ f[x] = 0
    OBVIOUS
  <2>3. IsFiniteSet(u)
    BY <1>1
  <2> HIDE DEF u
  <2>4. SumBy(f, S) =< SumBy(f, u)
    BY <2>1, <2>2, <2>3, SumCovers
  <2> QED BY <2>4 DEF u
<1>5. SumBy(f, S) \in Nat /\ SumBy(f, P) \in Nat /\ SumBy(f, q) \in Nat /\ SumBy(f, R) \in Nat
  <2>1. \A x \in q : f[x] \in Nat
    OBVIOUS
  <2> HIDE DEF q
  <2> QED BY <1>1, <2>1, SumNat
<1> HIDE DEF q
<1> QED BY <1>2, <1>3, <1>4, <1>5

\* An element counts no more than its set.
LEMMA SumPoint ==
    ASSUME NEW S, IsFiniteSet(S), NEW f, \A x \in S : f[x] \in Nat, NEW x \in S
    PROVE  f[x] =< SumBy(f, S)
<1>1. SumBy(f, S) = f[x] + SumBy(f, S \ {x})
  BY SumPick
<1>2. SumBy(f, S \ {x}) \in Nat
  BY FS_Subset, SumNat
<1> QED BY <1>1, <1>2

\* Ones add up to how many they are.
LEMMA SumOnes ==
    ASSUME NEW S, IsFiniteSet(S), NEW f, \A x \in S : f[x] = 1
    PROVE  SumBy(f, S) = Cardinality(S)
<1> DEFINE T == {s \in SUBSET S : SumBy(f, s) # Cardinality(s)}
<1> SUFFICES ASSUME SumBy(f, S) # Cardinality(S) PROVE FALSE
  OBVIOUS
<1>0. T \in SUBSET SUBSET S /\ T # {}
  OBVIOUS
<1>1. PICK s \in T : \A y : y \subseteq s /\ y # s => y \notin T
  <2> HIDE DEF T
  <2> QED BY <1>0, Minimal
<1>2. IsFiniteSet(s) /\ s \subseteq S
  BY <1>1, FS_Subset
<1>3. s # {}
  BY <1>1, SumEmpty, FS_EmptySet
<1>4. First(s) \in s
  BY <1>3, FirstIn
<1> DEFINE r == s \ {First(s)}
<1>5. SumBy(f, r) = Cardinality(r)
  <2>1. r \subseteq s /\ r # s /\ r \in SUBSET S
    BY <1>2, <1>4
  <2> QED BY <1>1, <2>1
<1>6. Cardinality(s) \in Nat /\ Cardinality(r) = Cardinality(s) - 1
  BY <1>2, <1>4, FS_CardinalityType, FS_RemoveElement
<1>7. SumBy(f, s) = 1 + SumBy(f, r)
  <2>1. SumBy(f, s) = f[First(s)] + SumBy(f, r)
    BY <1>2, <1>3, SumRule
  <2> QED BY <1>2, <1>4, <2>1
<1>8. SumBy(f, s) = Cardinality(s)
  <2> HIDE DEF r
  <2> QED BY <1>5, <1>6, <1>7
<1> QED BY <1>1, <1>8

\* Two sets with values that differ at one point only.
LEMMA SumAlters ==
    ASSUME NEW U, IsFiniteSet(U), NEW A \in SUBSET U, NEW B \in SUBSET U, NEW f, NEW g, NEW x \in U,
           \A y \in A : f[y] \in Int, \A y \in B : g[y] \in Int,
           \A y \in U : y # x => (y \in A <=> y \in B) /\ (y \in A => g[y] = f[y])
    PROVE  SumBy(g, B) - (IF x \in B THEN g[x] ELSE 0) = SumBy(f, A) - (IF x \in A THEN f[x] ELSE 0)
<1> DEFINE r == A \ {x}
<1>1. r = B \ {x} /\ \A y \in r : f[y] = g[y] /\ f[y] \in Int
  OBVIOUS
<1>2. IsFiniteSet(A) /\ IsFiniteSet(B) /\ IsFiniteSet(r)
  BY FS_Subset
<1>3. SumBy(f, A) - (IF x \in A THEN f[x] ELSE 0) = SumBy(f, r)
  <2>1. SumBy(f, r) \in Int
    <3> HIDE DEF r
    <3> QED BY <1>1, <1>2, SumInt
  <2>2. CASE x \in A
    <3>1. SumBy(f, A) = f[x] + SumBy(f, r)
      BY <1>2, <2>2, SumPick
    <3>2. f[x] \in Int
      BY <2>2
    <3> HIDE DEF r
    <3> QED BY <2>1, <2>2, <3>1, <3>2
  <2>3. CASE x \notin A
    <3>1. r = A
      BY <2>3
    <3> HIDE DEF r
    <3> QED BY <2>1, <2>3, <3>1
  <2> QED BY <2>2, <2>3
<1>4. SumBy(g, B) - (IF x \in B THEN g[x] ELSE 0) = SumBy(g, r)
  <2>1. SumBy(g, r) \in Int
    <3> HIDE DEF r
    <3> QED BY <1>1, <1>2, SumInt
  <2>2. CASE x \in B
    <3>1. SumBy(g, B) = g[x] + SumBy(g, B \ {x})
      BY <1>2, <2>2, SumPick
    <3>2. g[x] \in Int /\ B \ {x} = r
      BY <1>1, <2>2
    <3> HIDE DEF r
    <3> QED BY <2>1, <2>2, <3>1, <3>2
  <2>3. CASE x \notin B
    <3>1. r = B
      BY <1>1, <2>3
    <3> HIDE DEF r
    <3> QED BY <2>1, <2>3, <3>1
  <2> QED BY <2>2, <2>3
<1>5. SumBy(f, r) = SumBy(g, r)
  <2> HIDE DEF r
  <2> QED BY <1>1, <1>2, SumSame
<1> QED BY <1>3, <1>4, <1>5

\* The sum of two functions, taken element by element.
LEMMA SumAdds ==
    ASSUME NEW S, IsFiniteSet(S), NEW f, NEW g, NEW h,
           \A x \in S : f[x] \in Int /\ g[x] \in Int /\ h[x] = f[x] + g[x]
    PROVE  SumBy(h, S) = SumBy(f, S) + SumBy(g, S)
<1> DEFINE T == {s \in SUBSET S : SumBy(h, s) # SumBy(f, s) + SumBy(g, s)}
<1> SUFFICES ASSUME SumBy(h, S) # SumBy(f, S) + SumBy(g, S) PROVE FALSE
  OBVIOUS
<1>0. T \in SUBSET SUBSET S /\ T # {}
  OBVIOUS
<1>1. PICK s \in T : \A y : y \subseteq s /\ y # s => y \notin T
  <2> HIDE DEF T
  <2> QED BY <1>0, Minimal
<1>2. IsFiniteSet(s) /\ s \subseteq S
  BY <1>1, FS_Subset
<1>3. s # {}
  <2>1. SumBy(h, {}) = SumBy(f, {}) + SumBy(g, {})
    BY SumEmpty
  <2> QED BY <1>1, <2>1
<1>4. First(s) \in s
  BY <1>3, FirstIn
<1> DEFINE r == s \ {First(s)}
<1>5. SumBy(h, r) = SumBy(f, r) + SumBy(g, r)
  <2>1. r \subseteq s /\ r # s /\ r \in SUBSET S
    BY <1>2, <1>4
  <2> QED BY <1>1, <2>1
<1>6. SumBy(f, r) \in Int /\ SumBy(g, r) \in Int
  BY <1>2, FS_Subset, SumInt
<1>7. /\ SumBy(f, s) = f[First(s)] + SumBy(f, r) /\ SumBy(g, s) = g[First(s)] + SumBy(g, r)
      /\ SumBy(h, s) = h[First(s)] + SumBy(h, r)
  BY <1>2, <1>3, SumRule
<1>8. f[First(s)] \in Int /\ g[First(s)] \in Int /\ h[First(s)] = f[First(s)] + g[First(s)]
  BY <1>2, <1>4
<1>9. SumBy(h, s) # SumBy(f, s) + SumBy(g, s)
  BY <1>1
<1> HIDE DEF r
<1> QED BY <1>5, <1>6, <1>7, <1>8, <1>9

=============================================================================
