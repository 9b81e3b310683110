------------------------- MODULE Collections_proofs -------------------------
(***************************************************************************)
(* What the library's sums, concatenations and folds return.  It defines   *)
(* them by recursive functions on the subsets, or positions, of what they  *)
(* run over, and each fact is proved by the smallest subset, or position,  *)
(* for which it would not hold.                                            *)
(***************************************************************************)
EXTENDS Collections, Integers, SequencesExt, FiniteSetTheorems, WellFoundedInduction,
        SequenceTheorems, TLAPS

-----------------------------------------------------------------------------
(* Sums.  MapThenSumSet sums a function over a set by a recursive function *)
(* on the subsets of the set.  What it returns is proved by the smallest   *)
(* subset for which it would not be so.                                    *)

\* What the sum of f over s is, when g has the sums over the smaller sets.
SumStep(f, g, s) ==
    IF s = {} THEN 0 ELSE f[CHOOSE x \in s : TRUE] + g[s \ {CHOOSE x \in s : TRUE}]
\* g has the sums of f over the subsets of S.
Adds(f, g, S) == g = [s \in SUBSET S |-> SumStep(f, g, s)]

\* The sum is that of the recursive function of its definition.
LEMMA TotalDef ==
    ASSUME NEW f, NEW S
    PROVE  TotalOf(f, S) = (CHOOSE g : Adds(f, g, S))[S]
BY DEF TotalOf, MapThenSumSet, MapThenFoldSet, Adds, SumStep

\* A set of finite sets that is not empty has a minimal element.
LEMMA MinimalSet ==
    ASSUME NEW S, IsFiniteSet(S), NEW Bad \in SUBSET (SUBSET S), Bad # {}
    PROVE  \E T \in Bad : \A U \in SUBSET T : U # T => U \notin Bad
<1>1. IsWellFoundedOn(StrictSubsetOrdering(S), FiniteSubsetsOf(S))
  BY FS_StrictSubsetOrderingWellFounded
<1>2. Bad \subseteq FiniteSubsetsOf(S)
  BY FS_Subset DEF FiniteSubsetsOf
<1>3. PICK T \in Bad : \A U \in Bad : ~ (<<U, T>> \in StrictSubsetOrdering(S))
  BY <1>1, <1>2, WFMin, Zenon
<1>4. ASSUME NEW U \in SUBSET T, U # T, U \in Bad PROVE FALSE
  BY <1>3, <1>4 DEF StrictSubsetOrdering
<1>5. QED
  BY <1>3, <1>4

\* The sums over the subsets of a set are those over the subsets of a larger one.
LEMMA SumRestricts ==
    ASSUME NEW f, NEW g, NEW S, NEW T \in SUBSET S, Adds(f, g, S)
    PROVE  Adds(f, [s \in SUBSET T |-> g[s]], T)
<1>1. \A s \in SUBSET T : SumStep(f, [u \in SUBSET T |-> g[u]], s) = SumStep(f, g, s)
  BY DEF SumStep
<1>2. \A s \in SUBSET T : g[s] = SumStep(f, g, s)
  BY DEF Adds
<1>3. QED
  BY <1>1, <1>2 DEF Adds

\* Sums of functions that agree are equal.
LEMMA SumAgrees ==
    ASSUME NEW S, IsFiniteSet(S), NEW f, NEW k, \A x \in S : f[x] = k[x],
           NEW g, NEW h, Adds(f, g, S), Adds(k, h, S)
    PROVE  g[S] = h[S]
<1> DEFINE Bad == {T \in SUBSET S : g[T] # h[T]}
<1>1. SUFFICES ASSUME Bad # {} PROVE FALSE
  OBVIOUS
<1>2. PICK T \in Bad : \A U \in SUBSET T : U # T => U \notin Bad
  <2> HIDE DEF Bad
  <2>1. Bad \in SUBSET (SUBSET S)
    BY DEF Bad
  <2>2. QED
    BY <1>1, <2>1, MinimalSet
<1>3. g[T] = SumStep(f, g, T) /\ h[T] = SumStep(k, h, T)
  BY DEF Adds
<1>4. T # {}
  BY <1>3 DEF SumStep
<1> DEFINE x == CHOOSE x \in T : TRUE
<1>5. x \in T /\ f[x] = k[x]
  BY <1>4
<1>6. g[T \ {x}] = h[T \ {x}]
  BY <1>2, <1>5
<1>7. SumStep(f, g, T) = f[x] + g[T \ {x}] /\ SumStep(k, h, T) = k[x] + h[T \ {x}]
  BY <1>4 DEF SumStep
<1> HIDE DEF x
<1>8. QED
  BY <1>3, <1>5, <1>6, <1>7

\* A function over a finite set has sums.
LEMMA SumExists ==
    ASSUME NEW f, NEW S, IsFiniteSet(S)
    PROVE  \E g : Adds(f, g, S)
<1> DEFINE Val(s) == (CHOOSE h : Adds(f, h, s))[s]
           All(T) == [s \in SUBSET T |-> Val(s)]
           Bad == {T \in SUBSET S : ~ Adds(f, All(T), T)}
<1>1. SUFFICES ASSUME Bad # {} PROVE FALSE
  <2>1. Adds(f, All(S), S)
    BY <1>1
  <2>2. QED
    BY <2>1
<1>2. PICK T \in Bad : \A U \in SUBSET T : U # T => U \notin Bad
  <2> HIDE DEF Bad
  <2>1. Bad \in SUBSET (SUBSET S)
    BY DEF Bad
  <2>2. QED
    BY <1>1, <2>1, MinimalSet
<1>3. \A U \in SUBSET T : U # T => Adds(f, All(U), U)
  BY <1>2
<1>4. ASSUME NEW s \in SUBSET T, s # T
      PROVE  Val(s) = SumStep(f, All(T), s)
  <2>1. All(s)[s] = SumStep(f, All(s), s)
    BY <1>3, <1>4 DEF Adds
  <2>2. SumStep(f, All(s), s) = SumStep(f, All(T), s)
    BY DEF SumStep
  <2>3. QED
    BY <2>1, <2>2
<1>5. Val(T) = SumStep(f, All(T), T)
  <2> DEFINE g == [s \in SUBSET T |-> IF s = T THEN SumStep(f, All(T), T) ELSE Val(s)]
  <2>1. \A s \in SUBSET T : SumStep(f, g, s) = SumStep(f, All(T), s)
    BY DEF SumStep
  <2>2. \A s \in SUBSET T : g[s] = SumStep(f, All(T), s)
    BY <1>4
  <2>3. Adds(f, g, T)
    <3> HIDE DEF All, Val
    <3>1. QED
      BY <2>1, <2>2 DEF Adds
  <2>4. Adds(f, CHOOSE h : Adds(f, h, T), T)
    <3> HIDE DEF g
    <3>1. QED
      BY <2>3
  <2>5. IsFiniteSet(T)
    BY FS_Subset
  <2>6. g[T] = Val(T)
    <3> HIDE DEF g
    <3>1. QED
    BY <2>3, <2>4, <2>5, SumAgrees, Zenon
  <2>7. QED
    BY <2>6
<1>6. Adds(f, All(T), T)
  <2>1. \A s \in SUBSET T : Val(s) = SumStep(f, All(T), s)
    BY <1>4, <1>5
  <2> HIDE DEF Val
  <2>2. QED
    BY <2>1 DEF Adds
<1>7. QED
  BY <1>6

\* A sum is at most the bound of the summands, once for each.
LEMMA TotalBound ==
    ASSUME NEW S, IsFiniteSet(S), NEW b \in Nat, NEW f, \A x \in S : f[x] \in 0..b
    PROVE  TotalOf(f, S) \in 0..(b * Cardinality(S))
<1> DEFINE g == CHOOSE g : Adds(f, g, S)
<1>1. Adds(f, g, S)
  BY SumExists, Zenon
<1>2. TotalOf(f, S) = g[S]
  BY TotalDef
<1> HIDE DEF g
<1> DEFINE Bad == {T \in SUBSET S : g[T] \notin 0..(b * Cardinality(T))}
<1>3. SUFFICES ASSUME Bad # {} PROVE FALSE
  BY <1>2
<1>4. PICK T \in Bad : \A U \in SUBSET T : U # T => U \notin Bad
  <2> HIDE DEF Bad
  <2>1. Bad \in SUBSET (SUBSET S)
    BY DEF Bad
  <2>2. QED
    BY <1>3, <2>1, MinimalSet
<1>5. g[T] = SumStep(f, g, T)
  BY <1>1 DEF Adds
<1>6. T # {}
  BY <1>5, FS_EmptySet DEF SumStep
<1> DEFINE x == CHOOSE x \in T : TRUE
<1>7. x \in T /\ f[x] \in 0..b /\ T \ {x} \in SUBSET T /\ T \ {x} # T
  BY <1>6
<1>8. g[T \ {x}] \in 0..(b * Cardinality(T \ {x}))
  BY <1>4, <1>7
<1>9. Cardinality(T \ {x}) = Cardinality(T) - 1 /\ Cardinality(T) \in Nat /\ Cardinality(T \ {x}) \in Nat
  BY <1>7, FS_Subset, FS_RemoveElement, FS_CardinalityType
<1>10. g[T] = f[x] + g[T \ {x}]
  BY <1>5, <1>6 DEF SumStep
<1>11. b * Cardinality(T) = b + b * (Cardinality(T) - 1)
  BY <1>9
<1> HIDE DEF x
<1>12. g[T] \in 0..(b * Cardinality(T))
  <2>1. b * (Cardinality(T) - 1) \in Nat /\ b * Cardinality(T) \in Nat
    BY <1>9
  <2>2. QED
    BY <1>7, <1>8, <1>9, <1>10, <1>11, <2>1
<1>13. QED
  BY <1>12

\* Functions that agree on a set have the same sum over it.
LEMMA TotalsAgree ==
    ASSUME NEW S, IsFiniteSet(S), NEW f, NEW k, \A x \in S : f[x] = k[x]
    PROVE  TotalOf(f, S) = TotalOf(k, S)
<1> DEFINE g == CHOOSE g : Adds(f, g, S)
           h == CHOOSE h : Adds(k, h, S)
<1>1. Adds(f, g, S) /\ Adds(k, h, S)
  BY SumExists, Zenon
<1>2. TotalOf(f, S) = g[S] /\ TotalOf(k, S) = h[S]
  BY TotalDef
<1> HIDE DEF g, h
<1>3. QED
  BY <1>1, <1>2, SumAgrees

\* The sums of a function over the subsets of a set are its totals.
LEMMA TotalOfPart ==
    ASSUME NEW f, NEW g, NEW S, IsFiniteSet(S), Adds(f, g, S), NEW T \in SUBSET S
    PROVE  TotalOf(f, T) = g[T]
<1> DEFINE h == CHOOSE h : Adds(f, h, T)
           k == [s \in SUBSET T |-> g[s]]
<1>1. IsFiniteSet(T)
  BY FS_Subset
<1>2. Adds(f, h, T) /\ TotalOf(f, T) = h[T]
  BY <1>1, SumExists, TotalDef, Zenon
<1>3. Adds(f, k, T)
  BY SumRestricts
<1>4. k[T] = g[T]
  OBVIOUS
<1> HIDE DEF h, k
<1>5. QED
  BY <1>1, <1>2, <1>3, <1>4, SumAgrees

LEMMA TotalIsNat ==
    ASSUME NEW S, IsFiniteSet(S), NEW f, \A x \in S : f[x] \in Nat
    PROVE  TotalOf(f, S) \in Nat
<1>1. PICK g : Adds(f, g, S)
  BY SumExists
<1> DEFINE Bad == {T \in SUBSET S : g[T] \notin Nat}
<1>2. SUFFICES ASSUME Bad # {} PROVE FALSE
  BY <1>1, TotalOfPart
<1>3. PICK T \in Bad : \A U \in SUBSET T : U # T => U \notin Bad
  <2> HIDE DEF Bad
  <2>1. Bad \in SUBSET (SUBSET S)
    BY DEF Bad
  <2>2. QED
    BY <1>2, <2>1, MinimalSet
<1>4. g[T] = SumStep(f, g, T)
  BY <1>1 DEF Adds
<1>5. T # {}
  BY <1>4 DEF SumStep
<1> DEFINE x == CHOOSE x \in T : TRUE
<1>6. x \in T /\ f[x] \in Nat /\ T \ {x} \in SUBSET T /\ T \ {x} # T
  BY <1>5
<1>7. g[T \ {x}] \in Nat /\ g[T] = f[x] + g[T \ {x}]
  BY <1>3, <1>4, <1>5, <1>6 DEF SumStep
<1> HIDE DEF x
<1>8. QED
  BY <1>6, <1>7

\* Any summand can be taken out of a sum first.
LEMMA TotalTakesOut ==
    ASSUME NEW S, IsFiniteSet(S), NEW f, \A x \in S : f[x] \in Nat, NEW a \in S
    PROVE  TotalOf(f, S) = f[a] + TotalOf(f, S \ {a})
<1>1. PICK g : Adds(f, g, S)
  BY SumExists
<1>2. \A T \in SUBSET S : g[T] \in Nat
  <2>1. ASSUME NEW T \in SUBSET S PROVE g[T] \in Nat
    <3>1. IsFiniteSet(T)
      BY FS_Subset
    <3>2. TotalOf(f, T) \in Nat /\ TotalOf(f, T) = g[T]
      BY <1>1, <3>1, TotalOfPart, TotalIsNat
    <3>3. QED
      BY <3>2
  <2>2. QED
    BY <2>1
<1> DEFINE Bad == {T \in SUBSET S : \E x \in T : g[T] # f[x] + g[T \ {x}]}
<1>3. SUFFICES ASSUME Bad # {} PROVE FALSE
  <2>1. g[S] = f[a] + g[S \ {a}]
    BY <1>3
  <2>2. QED
    BY <1>1, <2>1, TotalOfPart
<1>4. PICK T \in Bad : \A U \in SUBSET T : U # T => U \notin Bad
  <2> HIDE DEF Bad
  <2>1. Bad \in SUBSET (SUBSET S)
    BY DEF Bad
  <2>2. QED
    BY <1>3, <2>1, MinimalSet
<1>5. PICK x \in T : g[T] # f[x] + g[T \ {x}]
  OBVIOUS
<1> DEFINE c == CHOOSE y \in T : TRUE
<1>6. g[T] = f[c] + g[T \ {c}] /\ c \in T
  BY <1>1, <1>5 DEF Adds, SumStep
<1> HIDE DEF c
<1>7. c # x
  BY <1>5, <1>6
<1>8. g[T \ {c}] = f[x] + g[T \ {c, x}]
  <2>1. T \ {c} \notin Bad /\ x \in T \ {c} /\ (T \ {c}) \ {x} = T \ {c, x} /\ T \ {c} \in SUBSET S
    BY <1>4, <1>6, <1>7
  <2>2. QED
    BY <2>1
<1>9. g[T \ {x}] = f[c] + g[T \ {c, x}]
  <2>1. T \ {x} \notin Bad /\ c \in T \ {x} /\ (T \ {x}) \ {c} = T \ {c, x} /\ T \ {x} \in SUBSET S
    BY <1>4, <1>6, <1>7
  <2>2. QED
    BY <2>1
<1>10. f[c] \in Nat /\ f[x] \in Nat /\ g[T \ {c, x}] \in Nat
  BY <1>2, <1>6
<1>11. QED
  BY <1>5, <1>6, <1>8, <1>9, <1>10

-----------------------------------------------------------------------------
(* Sums over the first positions.                                          *)

LEMMA PrefixTotals ==
    ASSUME NEW n \in Nat, NEW f, \A i \in 1..n : f[i] \in Nat
    PROVE  /\ TotalOf(f, 1..0) = 0
           /\ \A k \in 0..n : TotalOf(f, 1..k) \in Nat
           /\ \A k \in 1..n : TotalOf(f, 1..k) = TotalOf(f, 1..(k - 1)) + f[k]
<1>1. TotalOf(f, 1..0) = 0
  <2>1. 1..0 = {} /\ IsFiniteSet({}) /\ Cardinality({}) = 0
    BY FS_EmptySet
  <2>2. TotalOf(f, {}) \in 0..(0 * Cardinality({}))
    BY <2>1, TotalBound
  <2>3. QED
    BY <2>1, <2>2
<1>2. ASSUME NEW k \in 0..n PROVE TotalOf(f, 1..k) \in Nat
  <2>1. IsFiniteSet(1..k) /\ \A i \in 1..k : f[i] \in Nat
    BY FS_Interval
  <2>2. QED
    BY <2>1, TotalIsNat
<1>3. ASSUME NEW k \in 1..n PROVE TotalOf(f, 1..k) = TotalOf(f, 1..(k - 1)) + f[k]
  <2>1. IsFiniteSet(1..k) /\ (\A i \in 1..k : f[i] \in Nat) /\ k \in 1..k
    BY FS_Interval
  <2>2. (1..k) \ {k} = 1..(k - 1)
    OBVIOUS
  <2>3. TotalOf(f, 1..k) = f[k] + TotalOf(f, (1..k) \ {k})
    BY <2>1, TotalTakesOut
  <2>4. TotalOf(f, 1..(k - 1)) \in Nat
    <3>1. k - 1 \in 0..n
      OBVIOUS
    <3>2. QED
      BY <1>2, <3>1
  <2>5. f[k] \in Nat
    OBVIOUS
  <2> DEFINE a == TotalOf(f, 1..k)
             b == TotalOf(f, 1..(k - 1))
             c == f[k]
  <2>6. a = c + b
    BY <2>2, <2>3, Zenon
  <2>7. b \in Nat /\ c \in Nat
    BY <2>4, <2>5
  <2>8. a = b + c
    <3> HIDE DEF a, b, c
    <3>1. QED
      BY <2>6, <2>7
  <2>9. QED
    BY <2>8, Zenon
<1>4. QED
  BY <1>1, <1>2, <1>3

\* A set of numbers that is not empty has a smallest.
LEMMA SmallestOf ==
    ASSUME NEW Bad \in SUBSET Nat, Bad # {}
    PROVE  \E k \in Bad : \A j \in Bad : k <= j
<1>1. PICK k \in Bad : \A j \in Bad : ~ (<<j, k>> \in OpToRel(<, Nat))
  BY NatLessThanWellFounded, WFMin, Zenon
<1>2. \A j \in Bad : ~ (j < k)
  BY <1>1 DEF OpToRel
<1>3. QED
  BY <1>2

LEMMA EmptyTotal ==
    ASSUME NEW f
    PROVE  TotalOf(f, {}) = 0
<1>1. IsFiniteSet({}) /\ Cardinality({}) = 0 /\ \A x \in {} : f[x] \in 0..0
  BY FS_EmptySet
<1>2. TotalOf(f, {}) \in 0..(0 * Cardinality({}))
  BY <1>1, TotalBound
<1>3. QED
  BY <1>1, <1>2

\* What holds at 0 and is handed on holds up to the end.
LEMMA UpTo ==
    ASSUME NEW n \in Nat, NEW Good \in SUBSET (0..n), 0 \in Good,
           \A k \in 1..n : k - 1 \in Good => k \in Good
    PROVE  Good = 0..n
<1> DEFINE Bad == (0..n) \ Good
<1>1. SUFFICES ASSUME Bad # {} PROVE FALSE
  OBVIOUS
<1>2. PICK k \in Bad : \A j \in Bad : k <= j
  <2>1. Bad \in SUBSET Nat
    OBVIOUS
  <2> HIDE DEF Bad
  <2>2. QED
    BY <1>1, <2>1, SmallestOf
<1>3. k # 0
  OBVIOUS
<1>4. k \in 1..n /\ k - 1 \in 0..n /\ k - 1 \notin Bad
  BY <1>2, <1>3
<1>5. QED
  BY <1>4

\* Sums of what is mapped one to one into what is no smaller.
LEMMA TotalInjected ==
    ASSUME NEW S, IsFiniteSet(S), NEW T, IsFiniteSet(T), NEW h \in [S -> T],
           \A x, y \in S : h[x] = h[y] => x = y,
           NEW f, \A x \in S : f[x] \in Nat, NEW k, \A y \in T : k[y] \in Nat,
           \A x \in S : f[x] <= k[h[x]]
    PROVE  TotalOf(f, S) <= TotalOf(k, T)
<1> DEFINE Fits(U) == \A V \in SUBSET T : (\A x \in U : h[x] \in V) => TotalOf(f, U) <= TotalOf(k, V)
           Bad == {U \in SUBSET S : ~ Fits(U)}
<1>1. SUFFICES ASSUME Bad # {} PROVE FALSE
  <2>1. Fits(S)
    BY <1>1
  <2>2. QED
    BY <2>1
<1>2. PICK U \in Bad : \A W \in SUBSET U : W # U => W \notin Bad
  <2> HIDE DEF Bad
  <2>1. Bad \in SUBSET (SUBSET S)
    BY DEF Bad
  <2>2. QED
    BY <1>1, <2>1, MinimalSet
<1>3. PICK V \in SUBSET T : (\A x \in U : h[x] \in V) /\ ~ (TotalOf(f, U) <= TotalOf(k, V))
  BY <1>2
<1>4. IsFiniteSet(U) /\ IsFiniteSet(V) /\ U \subseteq S
  BY <1>2, <1>3, FS_Subset
<1>5. TotalOf(k, V) \in Nat
  BY <1>3, <1>4, TotalIsNat
<1>6. CASE U = {}
  <2>1. TotalOf(f, {}) = 0
    BY EmptyTotal
  <2>2. QED
    BY <1>3, <1>5, <1>6, <2>1
<1>7. ASSUME NEW a \in U PROVE FALSE
  <2> DEFINE b == h[a]
  <2>1. b \in V /\ a \in S
    BY <1>3, <1>4, <1>7
  <2>2. TotalOf(f, U) = f[a] + TotalOf(f, U \ {a})
    <3>1. \A x \in U : f[x] \in Nat
      BY <1>4
    <3>2. QED
      BY <1>4, <1>7, <3>1, TotalTakesOut
  <2>3. TotalOf(k, V) = k[b] + TotalOf(k, V \ {b})
    <3>1. \A y \in V : k[y] \in Nat
      BY <1>3
    <3>2. QED
      BY <1>4, <2>1, <3>1, TotalTakesOut
  <2>4. TotalOf(f, U \ {a}) <= TotalOf(k, V \ {b})
    <3>1. U \ {a} \in SUBSET U /\ U \ {a} # U /\ U \ {a} \in SUBSET S
      BY <1>4, <1>7
    <3>2. Fits(U \ {a})
      BY <1>2, <3>1
    <3>3. V \ {b} \in SUBSET T /\ \A x \in U \ {a} : h[x] \in V \ {b}
      BY <1>3, <1>4, <2>1
    <3>4. QED
      BY <3>2, <3>3
  <2>5. TotalOf(f, U \ {a}) \in Nat /\ TotalOf(k, V \ {b}) \in Nat
    <3>1. IsFiniteSet(U \ {a}) /\ IsFiniteSet(V \ {b})
      BY <1>4, FS_Subset
    <3>2. (\A x \in U \ {a} : f[x] \in Nat) /\ \A y \in V \ {b} : k[y] \in Nat
      BY <1>3, <1>4
    <3>3. QED
      BY <3>1, <3>2, TotalIsNat
  <2>6. f[a] \in Nat /\ k[b] \in Nat /\ f[a] <= k[b]
    BY <1>3, <2>1
  <2> DEFINE p == TotalOf(f, U)
             q == TotalOf(k, V)
             p2 == TotalOf(f, U \ {a})
             q2 == TotalOf(k, V \ {b})
             fa == f[a]
             kb == k[b]
  <2>7. p = fa + p2 /\ q = kb + q2 /\ p2 <= q2 /\ p2 \in Nat /\ q2 \in Nat /\ fa \in Nat /\ kb \in Nat /\ fa <= kb
    BY ONLY <2>2, <2>3, <2>4, <2>5, <2>6, Zenon
  <2>8. p <= q
    <3> HIDE DEF p, q, p2, q2, fa, kb
    <3>1. QED
      BY ONLY <2>7
  <2>9. QED
    BY ONLY <1>3, <2>8, Zenon
<1>8. QED
  BY <1>6, <1>7

-----------------------------------------------------------------------------
(* FlattenSeq, which concatenates by a recursive function on positions.    *)

FlatStep(s, g, i) == IF i = 1 THEN s[i] ELSE g[i - 1] \o s[i]
Flattens(s, g) == g = [i \in 1..Len(s) |-> FlatStep(s, g, i)]

LEMMA FlattenDef ==
    ASSUME NEW s, Len(s) # 0
    PROVE  FlattenSeq(s) = (CHOOSE g : Flattens(s, g))[Len(s)]
BY DEF FlattenSeq, Flattens, FlatStep

LEMMA FlatUnique ==
    ASSUME NEW s, NEW n \in Nat, Len(s) = n, n # 0, NEW g, NEW h, Flattens(s, g), Flattens(s, h)
    PROVE  g[n] = h[n]
<1> DEFINE Bad == {k \in 1..n : g[k] # h[k]}
<1>1. SUFFICES ASSUME Bad # {} PROVE FALSE
  OBVIOUS
<1>2. PICK k \in Bad : \A j \in Bad : k <= j
  <2>1. Bad \in SUBSET Nat
    OBVIOUS
  <2> HIDE DEF Bad
  <2>2. QED
    BY <1>1, <2>1, SmallestOf
<1>3. g[k] = FlatStep(s, g, k) /\ h[k] = FlatStep(s, h, k)
  BY DEF Flattens
<1>4. k # 1
  BY <1>2, <1>3 DEF FlatStep
<1>5. k - 1 \in 1..n /\ k - 1 \notin Bad
  BY <1>2, <1>4
<1>6. g[k - 1] = h[k - 1]
  BY <1>5
<1>7. QED
  BY <1>2, <1>3, <1>4, <1>6 DEF FlatStep


LEMMA FlattenExists ==
    ASSUME NEW S, NEW s \in Seq(Seq(S))
    PROVE  \E g \in [1..Len(s) -> Seq(S)] : Flattens(s, g)
<1> DEFINE n == Len(s)
           Upto(k, g) == \A i \in 1..k : g[i] = FlatStep(s, g, i)
           Good == {k \in 0..n : \E g \in [1..k -> Seq(S)] : Upto(k, g)}
<1>1. n \in Nat /\ \A i \in 1..n : s[i] \in Seq(S)
  OBVIOUS
<1>2. 0 \in Good
  <2>1. 0 \in 0..n /\ [i \in 1..0 |-> <<>>] \in [1..0 -> Seq(S)] /\ Upto(0, [i \in 1..0 |-> <<>>])
    BY <1>1
  <2>2. QED
    BY <2>1
<1>3. ASSUME NEW k \in 1..n, k - 1 \in Good
      PROVE  k \in Good
  <2>1. PICK g \in [1..(k - 1) -> Seq(S)] : Upto(k - 1, g)
    BY <1>3
  <2> DEFINE v == IF k = 1 THEN s[k] ELSE g[k - 1] \o s[k]
             h == [i \in 1..k |-> IF i = k THEN v ELSE g[i]]
  <2>2. v \in Seq(S)
    <3>1. CASE k = 1
      BY <1>1, <3>1
    <3>2. CASE k # 1
      <4>1. g[k - 1] \in Seq(S) /\ s[k] \in Seq(S)
        BY <1>1, <3>2
      <4>2. g[k - 1] \o s[k] \in Seq(S)
        BY <4>1, ConcatProperties
      <4>3. QED
        BY <3>2, <4>2
    <3>3. QED
      BY <3>1, <3>2
  <2>3. \A i \in 1..(k - 1) : h[i] = g[i] /\ (i # 1 => h[i - 1] = g[i - 1])
    <3>1. \A i \in 1..(k - 1) : i \in 1..k /\ i # k /\ (i # 1 => i - 1 \in 1..k /\ i - 1 # k)
      BY <1>1
    <3> HIDE DEF v
    <3>2. QED
      BY <3>1
  <2>4. h[k] = v /\ (k # 1 => h[k - 1] = g[k - 1])
    OBVIOUS
  <2>5. h \in [1..k -> Seq(S)]
    <3> HIDE DEF v
    <3>1. QED
      BY <2>1, <2>2
  <2> HIDE DEF h
  <2>6. Upto(k, h)
    <3>1. ASSUME NEW i \in 1..(k - 1) PROVE h[i] = FlatStep(s, h, i)
      <4>1. g[i] = FlatStep(s, g, i)
        BY <2>1
      <4>2. QED
        BY <2>3, <4>1 DEF FlatStep
    <3>2. h[k] = FlatStep(s, h, k)
      BY <2>4 DEF FlatStep
    <3>3. \A i \in 1..k : i = k \/ i \in 1..(k - 1)
      OBVIOUS
    <3>4. QED
      BY <3>1, <3>2, <3>3
  <2>7. \E f \in [1..k -> Seq(S)] : Upto(k, f)
    BY ONLY <2>5, <2>6
  <2>8. k \in 0..n
    BY <1>1
  <2> HIDE DEF Upto
  <2>9. QED
    BY <2>7, <2>8
<1>4. \A k \in 0..n : k \in Good
  <2> HIDE DEF Good
  <2>1. Good = 0..n
    <3>1. Good \in SUBSET (0..n)
      BY DEF Good
    <3>2. QED
      BY <1>1, <1>2, <1>3, <3>1, UpTo
  <2>2. QED
    BY <2>1
<1>5. PICK g \in [1..n -> Seq(S)] : Upto(n, g)
  <2> HIDE DEF Upto
  <2>1. n \in 0..n
    BY <1>1
  <2>2. QED
    BY <1>4, <2>1
<1>6. g = [i \in 1..n |-> FlatStep(s, g, i)]
  BY <1>5
<1>7. QED
  BY <1>6 DEF Flattens

\* The concatenation of no lists, and of one more.
LEMMA FlattenAppend ==
    ASSUME NEW S, NEW s \in Seq(Seq(S)), NEW e \in Seq(S)
    PROVE  /\ FlattenSeq(s) \in Seq(S)
           /\ s = <<>> => FlattenSeq(s) = <<>>
           /\ FlattenSeq(Append(s, e)) = FlattenSeq(s) \o e
<1> DEFINE n == Len(s)
           t == Append(s, e)
<1>1. /\ n \in Nat /\ t \in Seq(Seq(S)) /\ Len(t) = n + 1 /\ t[n + 1] = e
      /\ \A i \in 1..n : t[i] = s[i]
  OBVIOUS
<1>2. ASSUME s = <<>> PROVE FlattenSeq(s) = <<>>
  BY <1>2 DEF FlattenSeq
<1> HIDE DEF t
<1>3. PICK g \in [1..(n + 1) -> Seq(S)] : Flattens(t, g)
  BY <1>1, FlattenExists
<1>4. FlattenSeq(t) = g[n + 1]
  <2>1. Len(t) = n + 1 /\ n + 1 \in Nat /\ n + 1 # 0 /\ Len(t) # 0
    BY <1>1
  <2>2. Flattens(t, CHOOSE h : Flattens(t, h))
    BY <1>3
  <2>3. FlattenSeq(t) = (CHOOSE h : Flattens(t, h))[n + 1]
    BY <2>1, FlattenDef
  <2> DEFINE c == CHOOSE h : Flattens(t, h)
  <2> HIDE DEF c
  <2>4. c[n + 1] = g[n + 1]
    BY <1>3, <2>1, <2>2, FlatUnique DEF c
  <2>5. QED
    BY <2>3, <2>4 DEF c
<1>5. g[n + 1] = IF n = 0 THEN e ELSE g[n] \o e
  <2>1. g[n + 1] = FlatStep(t, g, n + 1)
    <3>1. n + 1 \in 1..Len(t)
      BY <1>1
    <3>2. g = [i \in 1..Len(t) |-> FlatStep(t, g, i)]
      BY <1>3 DEF Flattens
    <3>3. QED
      BY ONLY <3>1, <3>2, Zenon
  <2>2. n + 1 - 1 = n /\ (n + 1 = 1 <=> n = 0)
    BY <1>1
  <2>3. QED
    BY <1>1, <2>1, <2>2 DEF FlatStep
<1>6. CASE n = 0
  <2>1. s = <<>>
    BY <1>6
  <2>2. <<>> \o e = e /\ FlattenSeq(s) = <<>>
    BY <1>2, <2>1
  <2>3. FlattenSeq(t) = FlattenSeq(s) \o e
    BY <1>4, <1>5, <1>6, <2>2
  <2>4. FlattenSeq(s) \in Seq(S)
    BY <2>2
  <2>5. QED
    BY <1>2, <2>3, <2>4 DEF t
<1>7. CASE n # 0
  <2> DEFINE h == [i \in 1..n |-> g[i]]
  <2>1. Flattens(s, h)
    <3>1. ASSUME NEW i \in 1..n PROVE h[i] = FlatStep(s, h, i)
      <4>1. i \in 1..(n + 1) /\ (i # 1 => i - 1 \in 1..n) /\ t[i] = s[i]
        BY <1>1, SMTT(30)
      <4>2. g[i] = FlatStep(t, g, i)
        BY <1>1, <1>3, <4>1 DEF Flattens
      <4>3. QED
        BY <4>1, <4>2 DEF FlatStep
    <3>2. h = [i \in 1..n |-> h[i]]
      OBVIOUS
    <3> HIDE DEF h
    <3>3. QED
      BY <3>1, <3>2 DEF Flattens
  <2>2. FlattenSeq(s) = h[n]
    <3>1. n \in Nat /\ Len(s) # 0 /\ Flattens(s, CHOOSE f : Flattens(s, f))
      <4> HIDE DEF h
      <4>1. QED
        BY <1>1, <1>7, <2>1
    <3>2. FlattenSeq(s) = (CHOOSE f : Flattens(s, f))[n]
      BY <3>1, FlattenDef
    <3> DEFINE c == CHOOSE f : Flattens(s, f)
    <3> HIDE DEF c, h
    <3>3. c[n] = h[n]
      BY <2>1, <3>1, FlatUnique DEF c
    <3>4. QED
      BY <3>2, <3>3 DEF c
  <2>3. h[n] = g[n] /\ g[n] \in Seq(S)
    BY <1>1, <1>3, <1>7
  <2>4. s # <<>>
    BY <1>7
  <2>5. QED
    BY <1>4, <1>5, <1>7, <2>2, <2>3, <2>4 DEF t
<1>8. QED
  BY <1>6, <1>7

\* A finite set of numbers that is not empty has a largest.
LEMMA MaxIsIn ==
    ASSUME NEW T \in SUBSET Int, IsFiniteSet(T), T # {}
    PROVE  Max(T) \in T /\ \A y \in T : Max(T) >= y
<1> DEFINE Bad == {U \in SUBSET T : U # {} /\ ~ \E x \in U : \A y \in U : x >= y}
<1>1. Bad = {}
  <2>1. SUFFICES ASSUME Bad # {} PROVE FALSE
    OBVIOUS
  <2>2. PICK U \in Bad : \A W \in SUBSET U : W # U => W \notin Bad
    <3> HIDE DEF Bad
    <3>1. Bad \in SUBSET (SUBSET T)
      BY DEF Bad
    <3>2. QED
      BY <2>1, <3>1, MinimalSet
  <2>3. PICK a \in U : TRUE
    BY <2>2
  <2>4. U \ {a} \notin Bad /\ U \ {a} \in SUBSET T
    BY <2>2, <2>3
  <2>5. CASE U \ {a} = {}
    <3>1. \A y \in U : a >= y
      BY <2>3, <2>5
    <3>2. QED
      BY <2>2, <2>3, <3>1
  <2>6. CASE U \ {a} # {}
    <3>1. PICK b \in U \ {a} : \A y \in U \ {a} : b >= y
      BY <2>4, <2>6
    <3>2. a \in Int /\ b \in Int /\ U \subseteq Int
      BY <2>2, <2>3, <3>1
    <3>3. CASE a >= b
      <4>1. \A y \in U : a >= y
        BY <3>1, <3>2, <3>3
      <4>2. QED
        BY <2>2, <2>3, <4>1
    <3>4. CASE ~ (a >= b)
      <4>1. \A y \in U : b >= y
        BY <3>1, <3>2, <3>4
      <4>2. QED
        BY <2>2, <3>1, <4>1
    <3>5. QED
      BY <3>3, <3>4
  <2>7. QED
    BY <2>5, <2>6
<1>2. \E x \in T : \A y \in T : x >= y
  BY <1>1
<1>3. QED
  BY <1>2 DEF Max

-----------------------------------------------------------------------------
(* FoldLeft, which recurs on the subsets of the positions: what it has of  *)
(* the first k positions is what it has of the first k - 1 and the k-th.   *)

FoldStep(op, base, s, g, T) == IF T = {} THEN base ELSE op[<<g[T \ {Max(T)}], s[Max(T)]>>]

\* What g has of each set of positions of s, whose items are in X, is op folded over it, in A.
FoldsBy(op, base, s, A, X, g) ==
    /\ g = [T \in SUBSET DOMAIN s |-> g[T]]
    /\ \A T \in SUBSET DOMAIN s :
         IF T = {} THEN g[T] = base
         ELSE /\ g[T \ {Max(T)}] \in A /\ s[Max(T)] \in X
              /\ g[T] = op[<<g[T \ {Max(T)}], s[Max(T)]>>]

\* A function of pairs can be folded over a sequence.
LEMMA FoldExists ==
    ASSUME NEW A, NEW X, NEW base \in A, NEW op \in [A \X X -> A], NEW s \in Seq(X)
    PROVE  \E g : FoldsBy(op, base, s, A, X, g)
<1> DEFINE n == Len(s)
           Has(k, g) == \A T \in SUBSET (1..k) : g[T] = FoldStep(op, base, s, g, T)
           Good == {k \in 0..n : \E g \in [SUBSET (1..k) -> A] : Has(k, g)}
<1>1. n \in Nat /\ DOMAIN s = 1..n /\ \A i \in 1..n : s[i] \in X
  OBVIOUS
<1>2. 0 \in Good
  <2> DEFINE g == [T \in SUBSET (1..0) |-> base]
  <2>1. \A T \in SUBSET (1..0) : T = {}
    OBVIOUS
  <2>2. g \in [SUBSET (1..0) -> A] /\ Has(0, g)
    BY <2>1 DEF FoldStep
  <2> HIDE DEF g
  <2>3. \E f \in [SUBSET (1..0) -> A] : Has(0, f)
    BY ONLY <2>2
  <2>4. 0 \in 0..n
    BY <1>1
  <2> HIDE DEF Has, n
  <2>5. QED
    BY <2>3, <2>4, Zenon
<1>3. ASSUME NEW k \in 1..n, k - 1 \in Good
      PROVE  k \in Good
  <2>1. PICK g \in [SUBSET (1..(k - 1)) -> A] : Has(k - 1, g)
    BY <1>3
  <2> DEFINE h == [T \in SUBSET (1..k) |-> IF k \in T THEN op[<<g[T \ {k}], s[k]>>] ELSE g[T]]
  <2>2. \A T \in SUBSET (1..k) : /\ T \ {k} \in SUBSET (1..(k - 1))
                                 /\ k \notin T => T \in SUBSET (1..(k - 1))
                                 /\ k \in T => Max(T) = k
    <3>1. ASSUME NEW T \in SUBSET (1..k) PROVE T \ {k} \in SUBSET (1..(k - 1))
      OBVIOUS
    <3>2. ASSUME NEW T \in SUBSET (1..k), k \notin T PROVE T \in SUBSET (1..(k - 1))
      BY <3>2
    <3>3. ASSUME NEW T \in SUBSET (1..k), k \in T PROVE Max(T) = k
      <4>1. \A y \in T : k >= y
        OBVIOUS
      <4>2. \A x \in T : (\A y \in T : x >= y) => x = k
        BY <3>3
      <4>3. QED
        BY <3>3, <4>1, <4>2 DEF Max
    <3>4. QED
      BY <3>1, <3>2, <3>3
  <2>3. h \in [SUBSET (1..k) -> A]
    <3>1. ASSUME NEW T \in SUBSET (1..k)
          PROVE  (IF k \in T THEN op[<<g[T \ {k}], s[k]>>] ELSE g[T]) \in A
      <4>1. g[T \ {k}] \in A /\ s[k] \in X /\ (k \notin T => g[T] \in A)
        BY <1>1, <2>1, <2>2
      <4>2. <<g[T \ {k}], s[k]>> \in A \X X
        BY <4>1
      <4>3. QED
        BY <4>1, <4>2
    <3>2. QED
      BY <3>1
  <2>4. ASSUME NEW T \in SUBSET (1..k)
        PROVE  h[T] = FoldStep(op, base, s, h, T)
    <3>1. CASE k \in T
      <4>1. h[T \ {k}] = g[T \ {k}]
        BY <2>2
      <4>2. h[T] = op[<<g[T \ {k}], s[k]>>]
        BY <3>1
      <4> HIDE DEF h
      <4>3. QED
        BY <2>2, <3>1, <4>1, <4>2 DEF FoldStep
    <3>2. CASE k \notin T
      <4>1. T \in SUBSET (1..(k - 1)) /\ h[T] = g[T] /\ g[T] = FoldStep(op, base, s, g, T)
        BY <2>1, <2>2, <3>2
      <4>2. CASE T = {}
        <5> HIDE DEF h
        <5>1. QED
          BY <4>1, <4>2 DEF FoldStep
      <4>3. CASE T # {}
        <5>1. k \notin T \ {Max(T)} /\ T \ {Max(T)} \in SUBSET (1..k)
          BY <3>2
        <5>2. h[T \ {Max(T)}] = g[T \ {Max(T)}]
          BY <5>1
        <5> HIDE DEF h
        <5>3. QED
          BY <4>1, <4>3, <5>2 DEF FoldStep
      <4>4. QED
        BY <4>2, <4>3
    <3>3. QED
      BY <3>1, <3>2
  <2> HIDE DEF h
  <2>5. \E f \in [SUBSET (1..k) -> A] : Has(k, f)
    BY ONLY <2>3, <2>4
  <2>6. k \in 0..n
    BY <1>1
  <2> HIDE DEF Has
  <2>7. QED
    BY <2>5, <2>6
<1>4. n \in Good
  <2> HIDE DEF Good
  <2>1. Good \in SUBSET (0..n)
    BY DEF Good
  <2>2. Good = 0..n
    BY <1>1, <1>2, <1>3, <2>1, UpTo
  <2>3. QED
    BY <1>1, <2>2
<1>5. PICK g \in [SUBSET (1..n) -> A] : Has(n, g)
  BY <1>4
<1>6. ASSUME NEW T \in SUBSET DOMAIN s, T # {}
      PROVE  /\ g[T \ {Max(T)}] \in A /\ s[Max(T)] \in X
             /\ g[T] = op[<<g[T \ {Max(T)}], s[Max(T)]>>]
  <2>1. Max(T) \in T
    <3>1. IsFiniteSet(1..n) /\ T \in SUBSET (1..n)
      BY <1>1, FS_Interval
    <3> HIDE DEF n
    <3>2. T \in SUBSET Int
      BY <3>1
    <3> DEFINE I == 1..n
    <3>3. IsFiniteSet(I) /\ T \in SUBSET I
      BY <3>1
    <3> HIDE DEF I
    <3>4. IsFiniteSet(T)
      BY <3>3, FS_Subset
    <3>5. QED
      BY <1>6, <3>2, <3>4, MaxIsIn
  <2>2. s[Max(T)] \in X /\ T \ {Max(T)} \in SUBSET (1..n) /\ T \in SUBSET (1..n)
    BY <1>1, <2>1
  <2>3. g[T \ {Max(T)}] \in A
    BY <1>5, <2>2
  <2>4. g[T] = op[<<g[T \ {Max(T)}], s[Max(T)]>>]
    BY <1>5, <1>6, <2>2 DEF FoldStep
  <2>5. QED
    BY <2>2, <2>3, <2>4
<1>7. g[{}] = base
  <2>1. {} \in SUBSET (1..n)
    OBVIOUS
  <2>2. QED
    BY <1>5, <2>1 DEF FoldStep
<1>8. g = [T \in SUBSET DOMAIN s |-> g[T]]
  BY <1>1, <1>5
<1>9. QED
  BY <1>6, <1>7, <1>8 DEF FoldsBy

\* The largest of the first k positions.
LEMMA LastOfPrefix ==
    ASSUME NEW k \in Nat, k # 0
    PROVE  1..k # {} /\ Max(1..k) = k /\ (1..k) \ {Max(1..k)} = 1..(k - 1)
<1>1. k \in 1..k /\ \A y \in 1..k : k >= y
  OBVIOUS
<1>2. \A x \in 1..k : (\A y \in 1..k : x >= y) => x = k
  BY <1>1
<1>3. Max(1..k) = k
  BY <1>1, <1>2 DEF Max
<1>4. QED
  BY <1>1, <1>3

\* A prefix is the one before it and an element more.
LEMMA PrefixAppend ==
    ASSUME NEW S, NEW s \in Seq(S), NEW k \in 1..Len(s)
    PROVE  SubSeq(s, 1, k) = Append(SubSeq(s, 1, k - 1), s[k]) /\ SubSeq(s, 1, k - 1) \in Seq(S)
<1>1. k \in Nat /\ k - 1 \in Nat /\ Len(s) \in Nat /\ \A i \in 1..Len(s) : s[i] \in S
  OBVIOUS
<1>2. /\ SubSeq(s, 1, k) \in Seq(S) /\ Len(SubSeq(s, 1, k)) = k
      /\ \A i \in 1..k : SubSeq(s, 1, k)[i] = s[i]
  <2>1. \A i \in 1..k : s[i] \in S
    BY <1>1
  <2>2. QED
    BY <1>1, <2>1, SubSeqProperties
<1>3. /\ SubSeq(s, 1, k - 1) \in Seq(S) /\ Len(SubSeq(s, 1, k - 1)) = k - 1
      /\ \A i \in 1..(k - 1) : SubSeq(s, 1, k - 1)[i] = s[i]
  <2>1. \A i \in 1..(k - 1) : s[i] \in S
    BY <1>1
  <2>2. QED
    BY <1>1, <2>1, SubSeqProperties
<1> DEFINE a == SubSeq(s, 1, k)
           b == Append(SubSeq(s, 1, k - 1), s[k])
<1>4. b \in Seq(S) /\ Len(b) = k /\ (\A i \in 1..(k - 1) : b[i] = s[i]) /\ b[k] = s[k]
  <2>1. s[k] \in S /\ k - 1 + 1 = k
    BY <1>1
  <2>2. QED
    BY <1>3, <2>1, AppendProperties
<1> HIDE DEF a, b
<1>5. a = b
  <2>1. a \in Seq(S) /\ Len(a) = k /\ \A i \in 1..k : a[i] = s[i]
    BY <1>2 DEF a
  <2>2. \A i \in 1..k : a[i] = b[i]
    BY <1>1, <1>4, <2>1
  <2>3. QED
    BY <1>4, <2>1, <2>2, SeqEqual
<1>6. QED
  BY <1>3, <1>5 DEF a, b

=============================================================================
