-------------------------------- MODULE Sums --------------------------------
(* Sums over a finite set: SumFunction changes by what one value changes.  *)
EXTENDS Integers, FiniteSets, Functions, FiniteSetTheorems, WellFoundedInduction, TLAPS

\* The element a fold takes first.
First(s) == CHOOSE x \in s : TRUE

\* g folds f over the sets in D, which has with a set the rest of it.
FoldsTo(g, f, D) ==
    \A s \in D : g[s] = IF s = {} THEN 0 ELSE f[First(s)] + g[s \ {First(s)}]

\* The subsets of S with at most n elements.
UpTo(S, n) == {s \in SUBSET S : Cardinality(s) <= n}

\* Taking the first element away leaves a smaller set.
LEMMA TakeFirst ==
  ASSUME NEW S, IsFiniteSet(S), NEW s \in SUBSET S, s # {}
  PROVE  /\ First(s) \in s /\ First(s) \in S
         /\ s \ {First(s)} \in SUBSET S
         /\ IsFiniteSet(s) /\ Cardinality(s) \in Nat
         /\ Cardinality(s \ {First(s)}) = Cardinality(s) - 1
  <1>1. First(s) \in s
    BY DEF First
  <1>2. IsFiniteSet(s)
    BY FS_Subset
  <1>3. Cardinality(s) \in Nat
    BY <1>2, FS_CardinalityType
  <1>4. Cardinality(s \ {First(s)}) = Cardinality(s) - 1
    BY <1>1, <1>2, FS_RemoveElement
  <1> QED BY <1>1, <1>2, <1>3, <1>4

\* A non-empty set of subsets of S has one with fewest elements.
LEMMA Smallest ==
  ASSUME NEW S, IsFiniteSet(S), NEW T \in SUBSET (SUBSET S), T # {}
  PROVE  \E s \in T : \A t \in T : Cardinality(s) <= Cardinality(t)
  <1> DEFINE N == {Cardinality(s) : s \in T}
             R == OpToRel(<, Nat)
  <1>1. \A s \in T : Cardinality(s) \in Nat
    BY FS_Subset, FS_CardinalityType
  <1>2. N \subseteq Nat /\ N # {}
    BY <1>1
  <1>3. IsWellFoundedOn(R, Nat)
    BY NatLessThanWellFounded, Zenon
  <1>4. \A x, y \in Nat : <<x, y>> \in R <=> x < y
    BY DEF OpToRel
  <1>5. \A s \in T : Cardinality(s) \in N
    OBVIOUS
  <1>6. \A n \in N : \E s \in T : n = Cardinality(s)
    OBVIOUS
  <1> HIDE DEF R, N
  <1>7. PICK n \in N : \A m \in N : ~(<<m, n>> \in R)
    BY <1>2, <1>3, WFMin, Zenon
  <1>8. \A m \in N : n <= m
    <2>1. \A m \in N : ~(m < n)
      BY <1>2, <1>4, <1>7
    <2> QED BY <2>1, <1>2
  <1>9. PICK s \in T : n = Cardinality(s)
    BY <1>6
  <1> QED BY <1>5, <1>8, <1>9

\* A fold exists on the subsets of any size.
LEMMA FoldUpTo ==
  ASSUME NEW S, IsFiniteSet(S), NEW f \in [S -> Int], NEW n \in Nat
  PROVE  \E g \in [UpTo(S, n) -> Int] : FoldsTo(g, f, UpTo(S, n))
  <1> DEFINE P(m) == \E g \in [UpTo(S, m) -> Int] : FoldsTo(g, f, UpTo(S, m))
             T == {m \in Nat : ~P(m)}
             R == OpToRel(<, Nat)
  <1> SUFFICES ASSUME T # {} PROVE FALSE
    OBVIOUS
  <1>1. IsWellFoundedOn(R, Nat)
    BY NatLessThanWellFounded, Zenon
  <1>2. \A x, y \in Nat : <<x, y>> \in R <=> x < y
    BY DEF OpToRel
  <1>3. T \subseteq Nat
    OBVIOUS
  <1> HIDE DEF R, T, P
  <1>4. PICK m \in T : \A k \in T : ~(<<k, m>> \in R)
    BY <1>1, <1>3, WFMin, Zenon
  <1>5. m \in Nat /\ ~P(m) /\ \A k \in Nat : k < m => P(k)
    BY <1>2, <1>3, <1>4 DEF T
  <1>6. \A s \in SUBSET S : Cardinality(s) \in Nat /\ (Cardinality(s) = 0 <=> s = {})
    BY FS_Subset, FS_CardinalityType, FS_EmptySet
  <1>7. CASE m = 0
    <2> DEFINE g == [s \in UpTo(S, 0) |-> 0]
    <2>1. \A s \in UpTo(S, 0) : s = {}
      BY <1>6 DEF UpTo
    <2>2. g \in [UpTo(S, 0) -> Int] /\ FoldsTo(g, f, UpTo(S, 0))
      BY <2>1 DEF FoldsTo
    <2> QED BY <1>5, <1>7, <2>2 DEF P
  <1>8. CASE m # 0
    <2>1. m - 1 \in Nat /\ m - 1 < m
      BY <1>5, <1>8
    <2>2. PICK g \in [UpTo(S, m - 1) -> Int] : FoldsTo(g, f, UpTo(S, m - 1))
      BY <2>1, <1>5 DEF P
    <2> DEFINE h == [s \in UpTo(S, m) |->
                        IF s = {} THEN 0 ELSE f[First(s)] + g[s \ {First(s)}]]
    <2>3. ASSUME NEW s \in UpTo(S, m), s # {}
          PROVE  s \ {First(s)} \in UpTo(S, m - 1) /\ s \ {First(s)} \in UpTo(S, m) /\ First(s) \in S
      <3>1. /\ s \in SUBSET S /\ Cardinality(s) <= m /\ Cardinality(s) \in Nat
            /\ s \ {First(s)} \in SUBSET S /\ Cardinality(s \ {First(s)}) = Cardinality(s) - 1
            /\ First(s) \in S
        BY <2>3, TakeFirst DEF UpTo
      <3>2. Cardinality(s) - 1 <= m - 1 /\ Cardinality(s) - 1 <= m
        BY <3>1, <1>5
      <3> QED BY <3>1, <3>2 DEF UpTo
    <2>4. ASSUME NEW s \in UpTo(S, m - 1) PROVE g[s] = h[s]
      <3>1. s \in UpTo(S, m)
        <4>1. Cardinality(s) <= m - 1 /\ Cardinality(s) \in Nat /\ s \in SUBSET S
          BY <1>6 DEF UpTo
        <4>2. Cardinality(s) <= m
          BY <4>1, <1>5
        <4> QED BY <4>1, <4>2 DEF UpTo
      <3> QED BY <3>1, <2>2 DEF FoldsTo
    <2>5. h \in [UpTo(S, m) -> Int]
      <3>1. ASSUME NEW s \in UpTo(S, m), s # {} PROVE f[First(s)] + g[s \ {First(s)}] \in Int
        BY <3>1, <2>2, <2>3
      <3>2. \A s \in UpTo(S, m) : h[s] \in Int
        BY <3>1
      <3>3. h = [s \in UpTo(S, m) |-> h[s]]
        OBVIOUS
      <3> HIDE DEF h
      <3> QED BY <3>2, <3>3
    <2>6. FoldsTo(h, f, UpTo(S, m))
      <3>1. ASSUME NEW s \in UpTo(S, m)
            PROVE  h[s] = IF s = {} THEN 0 ELSE f[First(s)] + h[s \ {First(s)}]
        <4>1. CASE s = {}
          BY <4>1
        <4>2. CASE s # {}
          BY <4>2, <2>3, <2>4
        <4> QED BY <4>1, <4>2
      <3> HIDE DEF h
      <3> QED BY <3>1 DEF FoldsTo
    <2> QED BY <1>5, <2>5, <2>6 DEF P
  <1> QED BY <1>7, <1>8

\* SumFunction(f) is what a fold of f gives for its whole domain.
LEMMA SumFolds ==
  ASSUME NEW S, IsFiniteSet(S), NEW f \in [S -> Int]
  PROVE  \E g \in [SUBSET S -> Int] : FoldsTo(g, f, SUBSET S) /\ SumFunction(f) = g[S]
  <1> DEFINE iter == CHOOSE g : g = [s \in SUBSET S |->
                        IF s = {} THEN 0 ELSE f[First(s)] + g[s \ {First(s)}]]
  <1>1. SumFunction(f) = iter[S]
    BY DEF SumFunction, SumFunctionOnSet, FoldFunctionOnSet, MapThenFoldSet, First
  <1>2. UpTo(S, Cardinality(S)) = SUBSET S /\ Cardinality(S) \in Nat
    BY FS_Subset, FS_CardinalityType DEF UpTo
  <1> HIDE DEF iter
  <1>3. PICK g \in [SUBSET S -> Int] : FoldsTo(g, f, SUBSET S)
    <2>1. PICK n \in Nat : n = Cardinality(S)
      BY <1>2
    <2>2. \E g \in [UpTo(S, n) -> Int] : FoldsTo(g, f, UpTo(S, n))
      BY FoldUpTo
    <2>3. UpTo(S, n) = SUBSET S
      BY <1>2, <2>1
    <2> QED BY <2>2, <2>3
  <1>4. g = [s \in SUBSET S |-> IF s = {} THEN 0 ELSE f[First(s)] + g[s \ {First(s)}]]
    BY <1>3 DEF FoldsTo
  <1>5. iter = [s \in SUBSET S |-> IF s = {} THEN 0 ELSE f[First(s)] + iter[s \ {First(s)}]]
    BY <1>4 DEF iter
  <1> HIDE DEF iter
  <1>6. FoldsTo(iter, f, SUBSET S)
    BY <1>5 DEF FoldsTo
  <1>7. ASSUME NEW s \in SUBSET S PROVE iter[s] \in Int
    <2> DEFINE T == {t \in SUBSET S : iter[t] \notin Int}
    <2> SUFFICES ASSUME T # {} PROVE FALSE
      OBVIOUS
    <2>1. PICK t \in T : \A u \in T : Cardinality(t) <= Cardinality(u)
      <3>1. T \in SUBSET (SUBSET S)
        OBVIOUS
      <3> HIDE DEF T
      <3> QED BY <3>1, Smallest
    <2>2. t # {}
      <3>1. iter[{}] = 0
        BY <1>6 DEF FoldsTo
      <3> QED BY <3>1
    <2>3. /\ t \ {First(t)} \in SUBSET S /\ First(t) \in S
          /\ Cardinality(t) \in Nat /\ Cardinality(t \ {First(t)}) = Cardinality(t) - 1
      BY <2>2, TakeFirst
    <2>4. iter[t \ {First(t)}] \in Int
      BY <2>1, <2>3
    <2>5. iter[t] = f[First(t)] + iter[t \ {First(t)}]
      BY <2>2, <1>6 DEF FoldsTo
    <2> QED BY <2>3, <2>4, <2>5
  <1>8. iter \in [SUBSET S -> Int]
    <2>1. DOMAIN iter = SUBSET S /\ iter = [s \in SUBSET S |-> iter[s]]
      BY <1>5
    <2> QED BY <2>1, <1>7
  <1> QED BY <1>1, <1>6, <1>8

\* If one value changes, the sum changes by as much.
LEMMA SumChange ==
  ASSUME NEW S, IsFiniteSet(S), NEW f \in [S -> Int], NEW g \in [S -> Int], NEW r \in S,
         \A x \in S : x # r => g[x] = f[x]
  PROVE  SumFunction(g) = SumFunction(f) + (g[r] - f[r])
  <1>1. PICK a \in [SUBSET S -> Int] : FoldsTo(a, f, SUBSET S) /\ SumFunction(f) = a[S]
    BY SumFolds
  <1>2. PICK b \in [SUBSET S -> Int] : FoldsTo(b, g, SUBSET S) /\ SumFunction(g) = b[S]
    BY SumFolds
  <1> DEFINE Right(s) == b[s] = a[s] + (IF r \in s THEN g[r] - f[r] ELSE 0)
             T == {s \in SUBSET S : ~Right(s)}
  <1>3. T = {}
    <2> SUFFICES ASSUME T # {} PROVE FALSE
      OBVIOUS
    <2>1. PICK t \in T : \A u \in T : Cardinality(t) <= Cardinality(u)
      <3>1. T \in SUBSET (SUBSET S)
        OBVIOUS
      <3> HIDE DEF T
      <3> QED BY <3>1, Smallest
    <2>2. t \in SUBSET S /\ ~Right(t) /\ a[t] \in Int /\ b[t] \in Int
      OBVIOUS
    <2>3. t # {}
      <3>1. a[{}] = 0 /\ b[{}] = 0
        BY <1>1, <1>2 DEF FoldsTo
      <3>2. Right({})
        BY <3>1
      <3> HIDE DEF Right
      <3> QED BY <3>2, <2>2, Zenon
    <2> DEFINE x == First(t)
               u == t \ {x}
    <2>4. /\ x \in t /\ x \in S /\ u \in SUBSET S
          /\ Cardinality(t) \in Nat /\ Cardinality(u) = Cardinality(t) - 1
      BY <2>2, <2>3, TakeFirst
    <2>5. a[t] = f[x] + a[u] /\ b[t] = g[x] + b[u]
      BY <2>2, <2>3, <1>1, <1>2 DEF FoldsTo
    <2>6. r \in t <=> (r \in u \/ r = x)
      BY <2>4
    <2>7. x \notin u
      OBVIOUS
    <2> HIDE DEF x, u
    <2>8. u \notin T
      BY <2>1, <2>4
    <2>9. Right(u) /\ a[u] \in Int /\ b[u] \in Int
      BY <2>4, <2>8
    <2>10. f[x] \in Int /\ g[x] \in Int /\ f[r] \in Int /\ g[r] \in Int
      BY <2>4
    <2>11. CASE x = r
      <3>1. b[u] = a[u]
        BY <2>7, <2>9, <2>11, <2>10
      <3> QED BY <3>1, <2>2, <2>5, <2>6, <2>9, <2>10, <2>11
    <2>12. CASE x # r
      <3>1. g[x] = f[x]
        BY <2>4, <2>12
      <3> QED BY <3>1, <2>2, <2>5, <2>6, <2>9, <2>10, <2>12
    <2> QED BY <2>11, <2>12
  <1>4. Right(S)
    BY <1>3
  <1> QED BY <1>1, <1>2, <1>4

\* A sum of numbers that are not negative is not negative; of zeros it is zero.
LEMMA SumType ==
  ASSUME NEW S, IsFiniteSet(S), NEW f \in [S -> Nat]
  PROVE  SumFunction(f) \in Nat /\ ((\A x \in S : f[x] = 0) => SumFunction(f) = 0)
  <1>0. f \in [S -> Int]
    OBVIOUS
  <1>1. PICK a \in [SUBSET S -> Int] : FoldsTo(a, f, SUBSET S) /\ SumFunction(f) = a[S]
    BY <1>0, SumFolds
  <1> DEFINE Right(s) == a[s] >= 0 /\ ((\A x \in S : f[x] = 0) => a[s] = 0)
             T == {s \in SUBSET S : ~Right(s)}
  <1>3. T = {}
    <2> SUFFICES ASSUME T # {} PROVE FALSE
      OBVIOUS
    <2>1. PICK t \in T : \A u \in T : Cardinality(t) <= Cardinality(u)
      <3>1. T \in SUBSET (SUBSET S)
        OBVIOUS
      <3> HIDE DEF T
      <3> QED BY <3>1, Smallest
    <2>2. t \in SUBSET S /\ ~Right(t) /\ a[t] \in Int
      OBVIOUS
    <2>3. t # {}
      <3>1. a[{}] = 0
        BY <1>1 DEF FoldsTo
      <3>2. Right({})
        BY <3>1
      <3> HIDE DEF Right
      <3> QED BY <3>2, <2>2, Zenon
    <2> DEFINE x == First(t)
               u == t \ {x}
    <2>4. /\ x \in t /\ x \in S /\ u \in SUBSET S
          /\ Cardinality(t) \in Nat /\ Cardinality(u) = Cardinality(t) - 1
      BY <2>2, <2>3, TakeFirst
    <2>5. a[t] = f[x] + a[u]
      BY <2>2, <2>3, <1>1 DEF FoldsTo
    <2> HIDE DEF x, u
    <2>8. u \notin T
      BY <2>1, <2>4
    <2>9. Right(u) /\ a[u] \in Int
      BY <2>4, <2>8
    <2>10. f[x] \in Nat
      BY <2>4
    <2> QED BY <2>2, <2>4, <2>5, <2>9, <2>10
  <1>4. Right(S) /\ a[S] \in Int
    BY <1>3
  <1> QED BY <1>1, <1>4

\* No value that is not negative exceeds the sum of such values.
LEMMA SumAtLeast ==
  ASSUME NEW S, IsFiniteSet(S), NEW f \in [S -> Nat], NEW r \in S
  PROVE  f[r] <= SumFunction(f)
  <1> DEFINE g == [f EXCEPT ![r] = 0]
  <1>1. g \in [S -> Nat] /\ g[r] = 0 /\ \A x \in S : x # r => g[x] = f[x]
    OBVIOUS
  <1> HIDE DEF g
  <1>2. SumFunction(g) \in Nat /\ SumFunction(f) \in Nat /\ f[r] \in Nat
    BY <1>1, SumType
  <1>3. SumFunction(g) = SumFunction(f) + (g[r] - f[r])
    <2>1. f \in [S -> Int] /\ g \in [S -> Int]
      BY <1>1
    <2> QED BY <1>1, <2>1, SumChange
  <1> QED BY <1>1, <1>2, <1>3
=============================================================================
