------------------------ MODULE LearningPaths_proofs ------------------------
(***************************************************************************)
(* Proofs about PathGeneration and QuizSubmission, which both sum over the *)
(* rows of a path: the types of both, where generated modules are put,     *)
(* what is reported and shown of a path, what scores are of, and what      *)
(* progress settles on.                                                    *)
(*                                                                         *)
(* PathInv is inductive: at each stage of its call, what is stored of a    *)
(* maker's path is exactly what its commits so far stored of the answer,   *)
(* a plan is stored whole or not at all, and a view has found a path as    *)
(* new as any there was when it began.                                     *)
(*                                                                         *)
(* QuizInv is inductive.  It adds to the types that a request has been     *)
(* credited for exactly the questions it has answered rightly at their     *)
(* position, that a request whose questions were not written meanwhile     *)
(* still holds them in the order of the table, and that the answers stored *)
(* while one submission of a quiz stores them are its own.                 *)
(*                                                                         *)
(* ProgressInv is inductive beside it.  Below a settled level that does    *)
(* not hold the average there is a request that will store it; a request   *)
(* either has run at the same time as another, and nothing above its quiz  *)
(* is settled, or it is the only one that runs, and then what it holds of  *)
(* the rows is what is stored.                                             *)
(***************************************************************************)
EXTENDS MCLearning, LessonWork_proofs, Collections_proofs, FiniteSetTheorems,
        WellFoundedInduction, SequenceTheorems, TLAPS

-----------------------------------------------------------------------------
(* The positions of a sum, and runs of positions in FlattenSeq.             *)

\* The position whose share of a sum a number falls into.
Falls(f, j, p) == TotalOf(f, 1..(j - 1)) < p /\ p <= TotalOf(f, 1..j)

LEMMA OneFalls ==
    ASSUME NEW n \in Nat, NEW f, \A i \in 1..n : f[i] \in Nat, NEW p \in 1..TotalOf(f, 1..n)
    PROVE  /\ \E j \in 1..n : Falls(f, j, p)
           /\ \A i, j \in 1..n : Falls(f, i, p) /\ Falls(f, j, p) => i = j
<1> DEFINE T(k) == TotalOf(f, 1..k)
<1>1. /\ T(0) = 0 /\ \A k \in 0..n : T(k) \in Nat
      /\ \A k \in 1..n : T(k) = T(k - 1) + f[k]
  BY PrefixTotals
<1> HIDE DEF T
<1>2. \E j \in 1..n : T(j - 1) < p /\ p <= T(j)
  <2> DEFINE Over == {k \in 0..n : p <= T(k)}
  <2>1. n \in Over
    BY <1>1 DEF T
  <2>2. PICK k \in Over : \A j \in Over : k <= j
    <3>1. Over \in SUBSET Nat /\ Over # {}
      BY <2>1
    <3> HIDE DEF Over
    <3>2. QED
      BY <3>1, SmallestOf
  <2>3. k # 0
    BY <1>1, <2>2
  <2>4. k - 1 \in 0..n /\ k - 1 \notin Over /\ k \in 1..n
    BY <2>2, <2>3
  <2>5. T(k - 1) < p /\ p <= T(k)
    BY <1>1, <2>2, <2>4
  <2>6. QED
    BY <2>4, <2>5
<1>3. \A i, j \in 0..n : i <= j => T(i) <= T(j)
  <2>1. ASSUME NEW i \in 0..n PROVE \A j \in 0..n : i <= j => T(i) <= T(j)
    <3> DEFINE Bad == {j \in 0..n : i <= j /\ ~ (T(i) <= T(j))}
    <3>1. SUFFICES ASSUME Bad # {} PROVE FALSE
      OBVIOUS
    <3>2. PICK k \in Bad : \A j \in Bad : k <= j
      <4>1. Bad \in SUBSET Nat /\ Bad # {}
        BY <3>1
      <4> HIDE DEF Bad
      <4>2. QED
        BY <4>1, SmallestOf
    <3>3. k # i
      BY <1>1
    <3>4. k - 1 \in 0..n /\ i <= k - 1 /\ k \in 1..n
      BY <3>2, <3>3
    <3>5. T(i) <= T(k - 1)
      BY <3>2, <3>4
    <3>6. T(k) = T(k - 1) + f[k] /\ f[k] \in Nat /\ T(k - 1) \in Nat /\ T(i) \in Nat
      BY <1>1, <3>4
    <3>7. T(i) <= T(k)
      BY <3>5, <3>6
    <3>8. QED
      BY <3>2, <3>7
  <2>2. QED
    BY <2>1
<1>4. ASSUME NEW i \in 1..n, NEW j \in 1..n, i < j, T(i - 1) < p, p <= T(i), T(j - 1) < p
      PROVE  FALSE
  <2>1. i <= j - 1 /\ i \in 0..n /\ j - 1 \in 0..n
    BY <1>4
  <2>2. T(i) <= T(j - 1) /\ T(i) \in Nat /\ T(j - 1) \in Nat
    BY <1>1, <1>3, <2>1
  <2>3. QED
    BY <1>4, <2>2
<1>5. \A i, j \in 1..n : Falls(f, i, p) /\ Falls(f, j, p) => i = j
  <2>1. SUFFICES ASSUME NEW i \in 1..n, NEW j \in 1..n, Falls(f, i, p), Falls(f, j, p), i # j
                 PROVE  FALSE
    OBVIOUS
  <2>2. T(i - 1) < p /\ p <= T(i) /\ T(j - 1) < p /\ p <= T(j)
    BY <2>1 DEF Falls, T
  <2>3. i < j \/ j < i
    BY <2>1
  <2>4. QED
    BY <1>4, <2>2, <2>3
<1>6. QED
  BY <1>2, <1>5 DEF Falls, T

\* The position whose run a number falls into, when f gives the runs' lengths.
OwnerOf(f, n, p) == CHOOSE j \in 1..n : Falls(f, j, p)
\* Runs of positions: as many of each as f says.
Runs(f, n, k) == [p \in 1..TotalOf(f, 1..k) |-> OwnerOf(f, n, p)]

LEMMA OwnerIs ==
    ASSUME NEW n \in Nat, NEW f, \A i \in 1..n : f[i] \in Nat, NEW p \in 1..TotalOf(f, 1..n),
           NEW j \in 1..n, Falls(f, j, p)
    PROVE  OwnerOf(f, n, p) = j
<1>1. \A i, k \in 1..n : Falls(f, i, p) /\ Falls(f, k, p) => i = k
  BY OneFalls
<1>2. QED
  BY <1>1 DEF OwnerOf

LEMMA OwnerFalls ==
    ASSUME NEW n \in Nat, NEW f, \A i \in 1..n : f[i] \in Nat, NEW p \in 1..TotalOf(f, 1..n)
    PROVE  OwnerOf(f, n, p) \in 1..n /\ Falls(f, OwnerOf(f, n, p), p)
<1>1. \E j \in 1..n : Falls(f, j, p)
  BY OneFalls
<1>2. QED
  BY <1>1 DEF OwnerOf

LEMMA TotalsGrow ==
    ASSUME NEW n \in Nat, NEW f, \A i \in 1..n : f[i] \in Nat, NEW k \in 0..n
    PROVE  TotalOf(f, 1..k) <= TotalOf(f, 1..n)
<1> DEFINE T(i) == TotalOf(f, 1..i)
<1>1. /\ \A i \in 0..n : T(i) \in Nat
      /\ \A i \in 1..n : T(i) = T(i - 1) + f[i]
  BY PrefixTotals
<1> HIDE DEF T
<1> DEFINE Bad == {i \in 0..n : k <= i /\ ~ (T(k) <= T(i))}
<1>2. SUFFICES ASSUME Bad # {} PROVE FALSE
  <2>1. n \notin Bad
    BY <1>2
  <2>2. T(k) <= T(n)
    BY <2>1
  <2>3. QED
    BY <2>2 DEF T
<1>3. PICK i \in Bad : \A j \in Bad : i <= j
  <2>1. Bad \in SUBSET Nat
    OBVIOUS
  <2> HIDE DEF Bad
  <2>2. QED
    BY <1>2, <2>1, SmallestOf
<1>4. i # k
  BY <1>1
<1>5. i - 1 \in 0..n /\ k <= i - 1 /\ i \in 1..n /\ i - 1 \notin Bad
  BY <1>3, <1>4
<1>6. T(k) <= T(i - 1) /\ T(i) = T(i - 1) + f[i] /\ f[i] \in Nat /\ T(i - 1) \in Nat /\ T(k) \in Nat
  BY <1>1, <1>5
<1>7. QED
  BY <1>3, <1>6

LEMMA FlattenRuns ==
    ASSUME NEW n \in Nat, n # 0, NEW f, \A i \in 1..n : f[i] \in Nat
    PROVE  FlattenSeq([k \in 1..n |-> [i \in 1..f[k] |-> k]]) = Runs(f, n, n)
<1> DEFINE s == [k \in 1..n |-> [i \in 1..f[k] |-> k]]
           g == [k \in 1..n |-> Runs(f, n, k)]
<1>1. Len(s) = n
  OBVIOUS
<1>2. /\ TotalOf(f, 1..0) = 0 /\ \A k \in 0..n : TotalOf(f, 1..k) \in Nat
      /\ \A k \in 1..n : TotalOf(f, 1..k) = TotalOf(f, 1..(k - 1)) + f[k]
  BY PrefixTotals
<1>3. ASSUME NEW k \in 1..n PROVE Runs(f, n, k) \in Seq(1..n) /\ Len(Runs(f, n, k)) = TotalOf(f, 1..k)
  <2>1. TotalOf(f, 1..k) \in Nat /\ TotalOf(f, 1..k) <= TotalOf(f, 1..n) /\ TotalOf(f, 1..n) \in Nat
    <3>1. k \in 0..n /\ n \in 0..n
      OBVIOUS
    <3>2. QED
      BY <1>2, <3>1, TotalsGrow
  <2>2. \A p \in 1..TotalOf(f, 1..k) : OwnerOf(f, n, p) \in 1..n
    <3>1. ASSUME NEW p \in 1..TotalOf(f, 1..k) PROVE OwnerOf(f, n, p) \in 1..n
      <4>1. p \in 1..TotalOf(f, 1..n)
        BY <2>1
      <4>2. QED
        BY <4>1, OwnerFalls
    <3>2. QED
      BY <3>1
  <2>3. QED
    BY <2>1, <2>2 DEF Runs
<1>4. ASSUME NEW k \in 1..n, NEW p \in 1..TotalOf(f, 1..k), TotalOf(f, 1..(k - 1)) < p
      PROVE  OwnerOf(f, n, p) = k
  <2>1. Falls(f, k, p)
    BY <1>4 DEF Falls
  <2>2. p \in 1..TotalOf(f, 1..n)
    <3>1. k \in 0..n /\ n \in 0..n
      OBVIOUS
    <3>2. TotalOf(f, 1..k) <= TotalOf(f, 1..n) /\ TotalOf(f, 1..k) \in Nat /\ TotalOf(f, 1..n) \in Nat
      BY <1>2, <3>1, TotalsGrow
    <3>3. QED
      BY <3>2
  <2>3. QED
    BY <2>1, <2>2, OwnerIs
<1>5. Runs(f, n, 1) = s[1]
  <2>1. TotalOf(f, 1..1) = f[1] /\ f[1] \in Nat /\ 1 \in 1..n
    <3>1. 1 \in 1..n /\ 1 - 1 = 0
      OBVIOUS
    <3>2. TotalOf(f, 1..1) = TotalOf(f, 1..(1 - 1)) + f[1] /\ TotalOf(f, 1..(1 - 1)) = 0
      BY <1>2, <3>1
    <3>3. QED
      BY <3>1, <3>2
  <2>2. \A p \in 1..TotalOf(f, 1..1) : OwnerOf(f, n, p) = 1
    BY <1>2, <1>4, <2>1
  <2>3. s[1] = [i \in 1..f[1] |-> 1]
    BY <2>1
  <2> HIDE DEF s
  <2>4. QED
    BY <2>1, <2>2, <2>3 DEF Runs
<1>6. ASSUME NEW k \in 2..n PROVE Runs(f, n, k) = Runs(f, n, k - 1) \o s[k]
  <2> DEFINE a == Runs(f, n, k - 1)
             t == s[k]
  <2>1. k \in 1..n /\ k - 1 \in 1..n
    OBVIOUS
  <2>2. a \in Seq(1..n) /\ Len(a) = TotalOf(f, 1..(k - 1))
    BY <1>3, <2>1
  <2>3. t \in Seq(1..n) /\ Len(t) = f[k] /\ \A i \in 1..f[k] : t[i] = k
    BY <2>1
  <2>4. /\ a \o t \in Seq(1..n) /\ Len(a \o t) = Len(a) + Len(t)
        /\ \A i \in 1..(Len(a) + Len(t)) : (a \o t)[i] = IF i <= Len(a) THEN a[i] ELSE t[i - Len(a)]
    <3> HIDE DEF a, t
    <3>1. QED
      BY <2>2, <2>3, ConcatProperties
  <2> DEFINE A == TotalOf(f, 1..(k - 1))
             B == TotalOf(f, 1..k)
  <2>5. B = A + f[k] /\ A \in Nat /\ B \in Nat /\ f[k] \in Nat
    BY <1>2, <2>1
  <2>6. a \o t = [i \in 1..B |-> (a \o t)[i]]
    <3> HIDE DEF a, t, A, B
    <3>1. QED
      BY <2>2, <2>3, <2>4, <2>5, LenProperties DEF A
  <2>7. ASSUME NEW i \in 1..B PROVE (a \o t)[i] = OwnerOf(f, n, i)
    <3>1. CASE i <= A
      <4>1. i \in 1..A
        BY <2>5, <3>1
      <4>2. a[i] = OwnerOf(f, n, i)
        BY <4>1 DEF Runs
      <4> HIDE DEF a, t, A, B
      <4>3. (a \o t)[i] = a[i]
        BY <2>2, <2>3, <2>4, <2>5, <3>1 DEF A
      <4>4. QED
        BY <4>2, <4>3
    <3>2. CASE ~ (i <= A)
      <4>1. OwnerOf(f, n, i) = k
        BY <1>4, <2>1, <2>5, <3>2
      <4> HIDE DEF a, t, A, B
      <4>2. (a \o t)[i] = t[i - A] /\ i - A \in 1..f[k]
        <5>1. Len(a) = A /\ Len(t) = f[k]
          BY <2>2, <2>3 DEF A
        <5> DEFINE c == a \o t
                   x == f[k]
        <5>2. \A j \in 1..(A + x) : c[j] = IF j <= A THEN a[j] ELSE t[j - A]
          BY ONLY <2>4, <5>1, Zenon DEF c, x
        <5> HIDE DEF c, x
        <5>3. A \in Nat /\ x \in Nat /\ B = A + x /\ i \in 1..B /\ ~ (i <= A)
          BY <2>5, <2>7, <3>2 DEF x
        <5>4. c[i] = t[i - A] /\ i - A \in 1..x
          BY ONLY <5>2, <5>3
        <5>5. QED
          BY <5>4 DEF c, x
      <4>3. QED
        BY <2>3, <4>1, <4>2
    <3>3. QED
      BY <3>1, <3>2
  <2>8. Runs(f, n, k) = [i \in 1..B |-> OwnerOf(f, n, i)]
    BY DEF Runs
  <2> HIDE DEF a, t, A, B
  <2>9. Runs(f, n, k) = a \o t
    BY <2>6, <2>7, <2>8
  <2>10. QED
    BY <2>9 DEF a, t
<1>7. Flattens(s, g)
  <2>1. \A i \in 1..n : g[i] = FlatStep(s, g, i)
    <3>1. ASSUME NEW i \in 1..n PROVE g[i] = FlatStep(s, g, i)
      <4>1. CASE i = 1
        <5>1. g[1] = Runs(f, n, 1)
          BY <4>1
        <5>2. FlatStep(s, g, i) = s[1]
          BY <4>1 DEF FlatStep
        <5> HIDE DEF g, s
        <5>3. QED
          BY <1>5, <4>1, <5>1, <5>2
      <4>2. CASE i # 1
        <5>1. i \in 2..n /\ i - 1 \in 1..n
          BY <4>2
        <5>2. g[i] = Runs(f, n, i) /\ g[i - 1] = Runs(f, n, i - 1)
          BY <5>1
        <5>3. FlatStep(s, g, i) = g[i - 1] \o s[i]
          BY <4>2 DEF FlatStep
        <5> HIDE DEF g, s
        <5>4. QED
          BY <1>6, <5>1, <5>2, <5>3
      <4>3. QED
        BY <4>1, <4>2
    <3>2. QED
      BY <3>1
  <2>2. g = [i \in 1..n |-> g[i]]
    OBVIOUS
  <2> HIDE DEF g, s
  <2>3. QED
    BY <1>1, <2>1, <2>2 DEF Flattens
<1>8. g[n] = Runs(f, n, n)
  OBVIOUS
<1> HIDE DEF s, g
<1>9. Flattens(s, CHOOSE h : Flattens(s, h))
  BY <1>7
<1>10. FlattenSeq(s) = (CHOOSE h : Flattens(s, h))[n]
  BY <1>1, FlattenDef, Zenon
<1> DEFINE h == CHOOSE h : Flattens(s, h)
<1>11. Flattens(s, h) /\ FlattenSeq(s) = h[n]
  BY <1>9, <1>10
<1> HIDE DEF h
<1>12. FlattenSeq(s) = Runs(f, n, n)
  BY <1>1, <1>7, <1>8, <1>11, FlatUnique
<1>13. QED
  BY <1>12 DEF s

-----------------------------------------------------------------------------
(* The modules made for the lessons of an answer, and where they are put.  *)

IsAnswer(ls) ==
    /\ Len(ls) \in Nat
    /\ ls = [k \in 1..Len(ls) |-> ls[k]]
    /\ \A k \in 1..Len(ls) : ls[k].made \in Nat /\ ls[k].asked \in Nat

MadeOf(ls)  == [k \in DOMAIN ls |-> ls[k].made]
AskedOf(ls) == [k \in DOMAIN ls |-> ls[k].asked]

LEMMA AskedIsTotal ==
    ASSUME NEW ls, NEW k
    PROVE  AskedBefore(ls, k) = TotalOf(AskedOf(ls), 1..k)
BY DEF AskedBefore, TotalOf, AskedOf

LEMMA MadeForIs ==
    ASSUME NEW ls, IsAnswer(ls)
    PROVE  MadeFor(ls) = Runs(MadeOf(ls), Len(ls), Len(ls))
<1> DEFINE n == Len(ls)
           f == MadeOf(ls)
           s == [k \in DOMAIN ls |-> [i \in 1..ls[k].made |-> k]]
<1>1. DOMAIN ls = 1..n /\ n \in Nat
  BY DEF IsAnswer
<1>2. \A k \in 1..n : f[k] = ls[k].made /\ f[k] \in Nat
  BY <1>1 DEF IsAnswer, MadeOf
<1>3. s = [k \in 1..n |-> [i \in 1..f[k] |-> k]]
  BY <1>1, <1>2
<1>4. MadeFor(ls) = FlattenSeq(s)
  BY DEF MadeFor
<1>5. CASE n # 0
  <2> HIDE DEF s, f, n
  <2>1. FlattenSeq([k \in 1..n |-> [i \in 1..f[k] |-> k]]) = Runs(f, n, n)
    BY <1>1, <1>2, <1>5, FlattenRuns
  <2>2. MadeFor(ls) = Runs(f, n, n)
    BY <1>3, <1>4, <2>1
  <2>3. QED
    BY <2>2 DEF f, n
<1>6. CASE n = 0
  <2>1. Len(s) = 0 /\ s = [k \in 1..0 |-> [i \in 1..f[k] |-> k]]
    BY <1>1, <1>3, <1>6
  <2>2. FlattenSeq(s) = s
    BY <2>1 DEF FlattenSeq
  <2>3. TotalOf(f, 1..0) = 0
    <3> HIDE DEF f
    <3>1. \A i \in 1..0 : f[i] \in Nat
      OBVIOUS
    <3>2. QED
      BY <3>1, PrefixTotals
  <2>4. Runs(f, n, n) = [p \in 1..0 |-> OwnerOf(f, n, p)]
    BY <1>6, <2>3 DEF Runs
  <2> HIDE DEF f
  <2>5. s = Runs(f, n, n)
    BY <2>1, <2>4
  <2>6. QED
    BY <1>4, <2>2, <2>5 DEF f
<1>7. QED
  BY <1>5, <1>6

LEMMA AnswerTotals ==
    ASSUME NEW ls, IsAnswer(ls)
    PROVE  /\ Len(ls) \in Nat /\ DOMAIN ls = 1..Len(ls)
           /\ \A k \in 1..Len(ls) : MadeOf(ls)[k] = ls[k].made /\ MadeOf(ls)[k] \in Nat
           /\ \A k \in 1..Len(ls) : AskedOf(ls)[k] = ls[k].asked /\ AskedOf(ls)[k] \in Nat
BY DEF IsAnswer, MadeOf, AskedOf

\* The list of the modules made: for each the lesson, and of each lesson as many as made.
LEMMA MadeForProperties ==
    ASSUME NEW ls, IsAnswer(ls)
    PROVE  /\ MadeFor(ls) \in Seq(1..Len(ls))
           /\ Len(MadeFor(ls)) = TotalOf(MadeOf(ls), 1..Len(ls))
           /\ \A i \in 1..Len(MadeFor(ls)) : MadeFor(ls)[i] = OwnerOf(MadeOf(ls), Len(ls), i)
           /\ \A k \in 1..Len(ls) :
                Cardinality({i \in 1..Len(MadeFor(ls)) : MadeFor(ls)[i] = k}) = ls[k].made
<1> DEFINE n == Len(ls)
           f == MadeOf(ls)
           T(k) == TotalOf(f, 1..k)
<1>1. n \in Nat /\ \A k \in 1..n : f[k] = ls[k].made /\ f[k] \in Nat
  BY AnswerTotals
<1> HIDE DEF n, f
<1>2. /\ \A k \in 0..n : T(k) \in Nat
      /\ \A k \in 1..n : T(k) = T(k - 1) + f[k]
  BY <1>1, PrefixTotals
<1>3. \A i \in 1..T(n) : OwnerOf(f, n, i) \in 1..n /\ Falls(f, OwnerOf(f, n, i), i)
  BY <1>1, OwnerFalls
<1>4. MadeFor(ls) = [i \in 1..T(n) |-> OwnerOf(f, n, i)]
  BY MadeForIs DEF Runs, n, f
<1>5. T(n) \in Nat
  BY <1>1, <1>2
<1>6. MadeFor(ls) \in Seq(1..n) /\ Len(MadeFor(ls)) = T(n)
  <2> DEFINE t == T(n)
             g == [i \in 1..t |-> OwnerOf(f, n, i)]
  <2>1. t \in Nat /\ \A i \in 1..t : OwnerOf(f, n, i) \in 1..n
    BY <1>3, <1>5
  <2> HIDE DEF t
  <2>2. g \in Seq(1..n) /\ Len(g) = t
    BY <2>1
  <2>3. MadeFor(ls) = g
    BY <1>4 DEF t
  <2> HIDE DEF g
  <2>4. MadeFor(ls) \in Seq(1..n) /\ Len(MadeFor(ls)) = t
    BY <2>2, <2>3
  <2>5. QED
    BY <2>4 DEF t
<1>7. ASSUME NEW k \in 1..n
      PROVE  Cardinality({i \in 1..T(n) : MadeFor(ls)[i] = k}) = ls[k].made
  <2>1. T(k) = T(k - 1) + f[k] /\ T(k) \in Nat /\ T(k - 1) \in Nat /\ T(k) <= T(n)
    <3>1. k \in 0..n /\ k - 1 \in 0..n
      BY <1>1
    <3>2. T(k) <= T(n)
      BY <1>1, <3>1, TotalsGrow
    <3>3. QED
      BY <1>2, <3>1, <3>2
  <2>2. ASSUME NEW i \in 1..T(n)
        PROVE  MadeFor(ls)[i] = k <=> T(k - 1) < i /\ i <= T(k)
    <3>1. MadeFor(ls)[i] = OwnerOf(f, n, i)
      BY <1>4
    <3>2. OwnerOf(f, n, i) = k => Falls(f, k, i)
      BY <1>3
    <3>3. Falls(f, k, i) => OwnerOf(f, n, i) = k
      BY <1>1, OwnerIs
    <3>4. Falls(f, k, i) <=> T(k - 1) < i /\ i <= T(k)
      BY DEF Falls
    <3>5. QED
      BY <3>1, <3>2, <3>3, <3>4
  <2>3. {i \in 1..T(n) : MadeFor(ls)[i] = k} = (T(k - 1) + 1)..T(k)
    <3> HIDE DEF T
    <3>1. QED
      BY <1>5, <2>1, <2>2
  <2>4. Cardinality((T(k - 1) + 1)..T(k)) = f[k]
    <3> HIDE DEF T
    <3>1. f[k] \in Nat /\ T(k - 1) + 1 \in Int /\ T(k) \in Int
      BY <1>1, <2>1
    <3>2. Cardinality((T(k - 1) + 1)..T(k)) = IF T(k - 1) + 1 > T(k) THEN 0 ELSE T(k) - (T(k - 1) + 1) + 1
      BY <3>1, FS_Interval
    <3>3. QED
      BY <2>1, <3>1, <3>2
  <2>5. QED
    BY <1>1, <2>3, <2>4
<1>8. QED
  BY <1>4, <1>6, <1>7 DEF n, f

\* The module is put under a lesson of the answer, when there are not too many.
LEMMA LessonForIsOne ==
    ASSUME NEW ls, IsAnswer(ls), Assignable(ls), NEW i \in 1..Len(MadeFor(ls))
    PROVE  LessonFor(ls, i) \in 1..Len(ls)
<1> DEFINE n == Len(ls)
           f == AskedOf(ls)
<1>1. n \in Nat /\ \A k \in 1..n : f[k] \in Nat
  BY AnswerTotals
<1>2. Len(MadeFor(ls)) \in Nat
  BY MadeForProperties
<1>3. TotalOf(f, 1..n) \in Nat
  <2>1. n \in 0..n
    BY <1>1
  <2> HIDE DEF n, f
  <2>2. QED
    BY <1>1, <2>1, PrefixTotals
<1>4. i \in 1..TotalOf(f, 1..n)
  <2>1. Len(MadeFor(ls)) <= TotalOf(f, 1..n)
    BY AskedIsTotal DEF Assignable
  <2>2. QED
    BY <1>2, <1>3, <2>1
<1>5. \E k \in 1..n : Falls(f, k, i)
  <2> HIDE DEF n, f
  <2>1. QED
    BY <1>1, <1>4, OneFalls
<1>6. \E k \in 1..n : AskedBefore(ls, k - 1) < i /\ i <= AskedBefore(ls, k)
  BY <1>5, AskedIsTotal DEF Falls
<1>7. QED
  BY <1>6 DEF LessonFor

\* It is the one it was made for, when each lesson has as many modules as asked.
LEMMA LessonForIsMade ==
    ASSUME NEW ls, IsAnswer(ls), \A k \in DOMAIN ls : ls[k].made = ls[k].asked,
           NEW i \in 1..Len(MadeFor(ls))
    PROVE  LessonFor(ls, i) = MadeFor(ls)[i]
<1> DEFINE n == Len(ls)
           f == MadeOf(ls)
<1>1. n \in Nat /\ \A k \in 1..n : f[k] \in Nat
  BY AnswerTotals
<1>2. AskedOf(ls) = f
  BY DEF AskedOf, MadeOf
<1>3. \A k : AskedBefore(ls, k) = TotalOf(f, 1..k)
  BY <1>2, AskedIsTotal
<1>4. i \in 1..TotalOf(f, 1..n) /\ MadeFor(ls)[i] = OwnerOf(f, n, i)
  BY MadeForProperties
<1> HIDE DEF f, n
<1>5. LessonFor(ls, i) = CHOOSE k \in 1..n : TotalOf(f, 1..(k - 1)) < i /\ i <= TotalOf(f, 1..k)
  BY <1>3 DEF LessonFor, n
<1>6. QED
  BY <1>4, <1>5 DEF OwnerOf, Falls

\* The last row of an item's lesson is a row; the item's own when no lesson comes twice.
LEMMA RowForIsOne ==
    ASSUME NEW ls, IsAnswer(ls), NEW i \in 1..Len(ls)
    PROVE  /\ RowFor(ls, i) \in 1..Len(ls)
           /\ ls[RowFor(ls, i)].lesson = ls[i].lesson
<1> DEFINE n == Len(ls)
           Same == {k \in 1..n : ls[k].lesson = ls[i].lesson}
           Back == {d \in Nat : \E k \in Same : d = n - k}
<1>1. n \in Nat
  BY DEF IsAnswer
<1>2. Back # {} /\ Back \in SUBSET Nat
  <2>1. n - i \in Back
    BY <1>1
  <2>2. QED
    BY <2>1
<1>3. PICK d \in Back : \A e \in Back : d <= e
  <2> HIDE DEF Back
  <2>1. QED
    BY <1>2, SmallestOf
<1>4. PICK k \in Same : d = n - k
  BY <1>3
<1>5. \A j \in 1..n : ls[j].lesson = ls[i].lesson => j <= k
  <2>1. ASSUME NEW j \in 1..n, ls[j].lesson = ls[i].lesson PROVE j <= k
    <3>1. n - j \in Back
      BY <1>1, <2>1
    <3>2. n - k <= n - j
      BY <1>3, <1>4, <3>1
    <3>3. QED
      BY <1>1, <1>4, <3>2
  <2>2. QED
    BY <2>1
<1>6. \E r \in 1..n : /\ ls[r].lesson = ls[i].lesson
                      /\ \A j \in 1..n : ls[j].lesson = ls[i].lesson => j <= r
  BY <1>4, <1>5
<1>7. QED
  BY <1>6 DEF RowFor

-----------------------------------------------------------------------------
(* Path generation: the inductive invariant.                               *)

InPaths(m) == \E i \in DOMAIN paths : paths[i] = m

\* The rows of the modules, as the maker puts them under the lessons, and their documents.
Placed(m) ==
    LET ls  == proposal[m]
        for == MadeFor(ls)
    IN  IF m \in Generations
        THEN [i \in DOMAIN for |-> [under |-> LessonFor(ls, i), for |-> for[i]]]
        ELSE [i \in DOMAIN for |-> [under |-> RowFor(ls, for[i]), for |-> for[i]]]
DocsFor(m) == [i \in DOMAIN modulesOf[m] |-> [of |-> i, for |-> i]]

AnswerFits(m) ==
    /\ IsAnswer(proposal[m])
    /\ Len(proposal[m]) <= MaxLessons
    /\ \A k \in DOMAIN proposal[m] : proposal[m][k] \in GeneratedLesson \cup PlannedLesson

NoLessons(m) == lessonsOf[m] = <<>>
NoModules(m) == modulesOf[m] = <<>> /\ docsOf[m] = <<>>
ItsLessons(m) == lessonsOf[m] = proposal[m] /\ proposal[m] # <<>>
ItsModules(m) ==
    /\ ItsLessons(m)
    /\ modulesOf[m] = Placed(m)
    /\ MadeFor(proposal[m]) # <<>>
    /\ m \in Generations => Assignable(proposal[m])

\* What is stored of a maker's path at each stage of it.
AtStage(m) ==
    /\ stage[m] \in {"idle", "answered", "path", "lessons", "modules", "ok", "failed"}
    /\ stage[m] \in {"path", "lessons", "modules"} => m \in Generations
    /\ stage[m] \in {"idle", "answered"} => ~InPaths(m) /\ NoLessons(m) /\ NoModules(m)
    /\ stage[m] = "path" => InPaths(m) /\ NoLessons(m) /\ NoModules(m)
    /\ stage[m] = "lessons" => InPaths(m) /\ ItsLessons(m) /\ NoModules(m)
    /\ stage[m] = "modules" => InPaths(m) /\ ItsModules(m) /\ docsOf[m] = <<>>
    /\ stage[m] = "ok" => /\ InPaths(m) /\ ItsModules(m)
                          /\ docsOf[m] = IF m \in Generations THEN DocsFor(m) ELSE <<>>
    /\ stage[m] = "failed" => /\ m \in Plans => ~InPaths(m)
                              /\ NoLessons(m) \/ ItsLessons(m)
                              /\ NoModules(m) \/ (ItsModules(m) /\ docsOf[m] = <<>>)

PathTables ==
    /\ paths \in Seq(Makers)
    /\ DOMAIN lessonsOf = Makers /\ DOMAIN modulesOf = Makers /\ DOMAIN docsOf = Makers
    /\ stage = [p \in Makers \cup Views |-> stage[p]] /\ DOMAIN proposal = Makers
    /\ DOMAIN view = Views /\ DOMAIN expected = Views

\* What a view has read at each stage of it.
ViewFits(v) ==
    /\ stage[v] \in {"idle", "newest", "read", "ok", "failed"}
    /\ DOMAIN view[v] = {"at", "lessons", "modules"}
    /\ view[v].at \in 0..Len(paths) /\ expected[v] \in 0..Len(paths)
    /\ view[v].lessons \in Nat /\ view[v].modules \in Nat
    /\ stage[v] \in {"newest", "read", "ok"} => view[v].at >= expected[v] /\ view[v].at > 0
    /\ view[v].modules > 0 => stage[v] = "ok" /\ view[v].lessons > 0

MakersFit == \A m \in Makers : AnswerFits(m) /\ AtStage(m)
PathInv == PathTables /\ MakersFit /\ \A v \in Views : ViewFits(v)

-----------------------------------------------------------------------------
(* What a step leaves of it.                                               *)

LEMMA DifferentCalls ==
    /\ \A m \in Makers : m \notin Views
    /\ \A m \in Plans : m \notin Generations
BY CallsAssumption DEF Makers

\* The answers that a model can give.
LEMMA AnswersFit ==
    ASSUME NEW S, S \in {GeneratedLesson, PlannedLesson}, NEW ls \in ListsUpTo(S, MaxLessons)
    PROVE  /\ IsAnswer(ls) /\ Len(ls) <= MaxLessons
           /\ \A k \in DOMAIN ls : ls[k] \in GeneratedLesson \cup PlannedLesson
<1>1. PICK n \in 0..MaxLessons : ls \in [1..n -> S]
  BY DEF ListsUpTo
<1>2. n \in Nat /\ Len(ls) = n /\ DOMAIN ls = 1..n /\ n <= MaxLessons
  BY <1>1, BoundsAssumption
<1>3. \A k \in 1..n : ls[k] \in S
  BY <1>1
<1>4. \A x \in S : x.made \in Nat /\ x.asked \in Nat
  <2>1. \A x \in GeneratedLesson : x.made \in Nat /\ x.asked \in Nat
    BY BoundsAssumption DEF GeneratedLesson
  <2>2. \A x \in PlannedLesson : x.made \in Nat /\ x.asked \in Nat
    BY BoundsAssumption DEF PlannedLesson
  <2>3. QED
    BY <2>1, <2>2
<1>5. QED
  BY <1>1, <1>2, <1>3, <1>4 DEF IsAnswer

\* A step that leaves a maker's stage, rows and answer leaves what holds of it.
LEMMA OtherMaker ==
    ASSUME NEW m \in Makers, AnswerFits(m), AtStage(m),
           stage'[m] = stage[m], proposal'[m] = proposal[m], lessonsOf'[m] = lessonsOf[m],
           modulesOf'[m] = modulesOf[m], docsOf'[m] = docsOf[m], InPaths(m)' <=> InPaths(m)
    PROVE  AnswerFits(m)' /\ AtStage(m)'
<1>1. AnswerFits(m)'
  BY DEF AnswerFits
<1>2. Placed(m)' = Placed(m) /\ DocsFor(m)' = DocsFor(m)
  BY DEF Placed, DocsFor
<1>3. /\ NoLessons(m)' <=> NoLessons(m)
      /\ NoModules(m)' <=> NoModules(m)
      /\ ItsLessons(m)' <=> ItsLessons(m)
  BY DEF NoLessons, NoModules, ItsLessons
<1>4. ItsModules(m)' <=> ItsModules(m)
  BY <1>2, <1>3 DEF ItsModules
<1>5. AtStage(m)'
  BY <1>2, <1>3, <1>4 DEF AtStage
<1>6. QED
  BY <1>1, <1>5

\* A step that changes neither the paths nor the views' state leaves what they have read.
LEMMA OtherViews ==
    ASSUME \A v \in Views : ViewFits(v), UNCHANGED <<view, expected>>,
           paths \in Seq(Makers), paths' \in Seq(Makers), Len(paths') >= Len(paths),
           \A v \in Views : stage'[v] = stage[v]
    PROVE  \A v \in Views : ViewFits(v)'
<1>1. Len(paths) \in Nat /\ Len(paths') \in Nat
  OBVIOUS
<1>2. ASSUME NEW v \in Views PROVE ViewFits(v)'
  BY <1>1, <1>2 DEF ViewFits
<1>3. QED
  BY <1>2

LEMMA AppendedPath ==
    ASSUME NEW r \in Makers, paths \in Seq(Makers), paths' = Append(paths, r)
    PROVE  /\ paths' \in Seq(Makers) /\ Len(paths') = Len(paths) + 1 /\ Len(paths) \in Nat
           /\ InPaths(r)'
           /\ \A m \in Makers : m # r => (InPaths(m)' <=> InPaths(m))
<1>1. paths' \in Seq(Makers) /\ Len(paths') = Len(paths) + 1 /\ Len(paths) \in Nat
  BY AppendProperties
<1>2. DOMAIN paths = 1..Len(paths) /\ DOMAIN paths' = 1..(Len(paths) + 1)
  BY <1>1
<1>3. /\ \A i \in 1..Len(paths) : paths'[i] = paths[i]
      /\ paths'[Len(paths) + 1] = r
  BY AppendProperties
<1>4. InPaths(r)'
  BY <1>1, <1>2, <1>3 DEF InPaths
<1>5. ASSUME NEW m \in Makers, m # r PROVE InPaths(m)' <=> InPaths(m)
  <2>1. InPaths(m) => InPaths(m)'
    BY <1>1, <1>2, <1>3 DEF InPaths
  <2>2. ASSUME InPaths(m)' PROVE InPaths(m)
    <3>1. PICK i \in 1..(Len(paths) + 1) : paths'[i] = m
      BY <1>2, <2>2 DEF InPaths
    <3>2. i # Len(paths) + 1
      BY <1>3, <1>5, <3>1
    <3>3. i \in 1..Len(paths)
      BY <1>1, <3>2
    <3>4. QED
      BY <1>2, <1>3, <3>1, <3>3 DEF InPaths
  <2>3. QED
    BY <2>1, <2>2
<1>6. QED
  BY <1>1, <1>4, <1>5

\* The maker whose step it is: what is left to show is what holds of it.
Steps(r) ==
    /\ stage' = [stage EXCEPT ![r] = stage'[r]]
    /\ \A m \in Makers : m # r =>
         /\ proposal'[m] = proposal[m] /\ lessonsOf'[m] = lessonsOf[m]
         /\ modulesOf'[m] = modulesOf[m] /\ docsOf'[m] = docsOf[m]
    /\ DOMAIN lessonsOf' = Makers /\ DOMAIN modulesOf' = Makers /\ DOMAIN docsOf' = Makers
    /\ DOMAIN proposal' = Makers
    /\ UNCHANGED <<view, expected>>
    /\ paths' = paths \/ paths' = Append(paths, r)

LEMMA MakerStep ==
    ASSUME PathInv, NEW r \in Makers, Steps(r), AnswerFits(r)', AtStage(r)'
    PROVE  PathInv'
<1>1. /\ paths' \in Seq(Makers) /\ Len(paths') >= Len(paths)
      /\ \A m \in Makers : m # r => (InPaths(m)' <=> InPaths(m))
  <2>1. paths \in Seq(Makers)
    BY DEF PathInv, PathTables
  <2>2. CASE paths' = paths
    BY <2>1, <2>2 DEF InPaths
  <2>3. CASE paths' = Append(paths, r)
    BY <2>1, <2>3, AppendedPath
  <2>4. QED
    BY <2>2, <2>3 DEF Steps
<1>2. PathTables'
  BY <1>1 DEF PathInv, PathTables, Steps
<1>3. \A p \in Makers \cup Views : p # r => stage'[p] = stage[p]
  BY DEF Steps, PathInv, PathTables
<1>4. \A v \in Views : ViewFits(v)'
  <2>1. \A v \in Views : stage'[v] = stage[v]
    BY <1>3, DifferentCalls
  <2>2. QED
    BY <1>1, <2>1, OtherViews DEF PathInv, PathTables, Steps
<1>5. ASSUME NEW m \in Makers, m # r PROVE AnswerFits(m)' /\ AtStage(m)'
  BY <1>1, <1>3, <1>5, OtherMaker DEF PathInv, MakersFit, Steps
<1>6. MakersFit'
  BY <1>5 DEF MakersFit
<1>7. QED
  BY <1>2, <1>4, <1>6 DEF PathInv

-----------------------------------------------------------------------------
(* The actions.                                                            *)

\* What the steps of a maker use of the invariant before it.
LEMMA MakerBefore ==
    ASSUME PathInv, NEW r \in Makers
    PROVE  /\ AnswerFits(r) /\ AtStage(r)
           /\ DOMAIN stage = Makers \cup Views /\ DOMAIN proposal = Makers
           /\ DOMAIN lessonsOf = Makers /\ DOMAIN modulesOf = Makers /\ DOMAIN docsOf = Makers
           /\ paths \in Seq(Makers)
BY DEF PathInv, PathTables, MakersFit

\* A step that stores nothing and keeps the answer, to a stage that what is stored fits.
LEMMA StageStep ==
    ASSUME PathInv, NEW r \in Makers, stage' = [stage EXCEPT ![r] = stage'[r]],
           UNCHANGED <<stored, proposal, view, expected>>, AtStage(r)'
    PROVE  PathInv'
<1>1. Steps(r)
  BY MakerBefore DEF Steps, stored
<1>2. AnswerFits(r)'
  BY MakerBefore DEF AnswerFits
<1>3. QED
  BY <1>1, <1>2, MakerStep

\* When nothing stored changes, neither do the parts of what holds at the stages.
LEMMA SameStored ==
    ASSUME NEW r \in Makers, UNCHANGED <<stored, proposal>>
    PROVE  /\ InPaths(r)' <=> InPaths(r)
           /\ NoLessons(r)' <=> NoLessons(r)
           /\ NoModules(r)' <=> NoModules(r)
           /\ ItsLessons(r)' <=> ItsLessons(r)
           /\ ItsModules(r)' <=> ItsModules(r)
           /\ docsOf'[r] = docsOf[r] /\ DocsFor(r)' = DocsFor(r)
<1>1. Placed(r)' = Placed(r)
  BY DEF Placed, stored
<1>2. QED
  BY <1>1 DEF InPaths, NoLessons, NoModules, ItsLessons, ItsModules, DocsFor, stored

\* A maker fails where it may: the path of a plan is not stored before it is whole.
LEMMA FailsAtStage ==
    ASSUME PathInv, NEW r \in Makers, UNCHANGED <<stored, proposal, view, expected>>,
           stage' = [stage EXCEPT ![r] = "failed"],
           stage[r] \in {"idle", "answered", "path", "lessons", "modules"}
    PROVE  PathInv'
<1>1. stage'[r] = "failed"
  BY MakerBefore
<1>2. AtStage(r)'
  <2>1. AtStage(r) /\ (r \in Plans => r \notin Generations)
    BY MakerBefore, DifferentCalls
  <2>2. r \in Plans => ~InPaths(r)
    BY <2>1 DEF AtStage
  <2>3. /\ NoLessons(r) \/ ItsLessons(r)
        /\ NoModules(r) \/ (ItsModules(r) /\ docsOf[r] = <<>>)
    BY <2>1 DEF AtStage, ItsModules
  <2>4. QED
    BY <1>1, <2>2, <2>3, SameStored DEF AtStage
<1>3. QED
  BY <1>1, <1>2, StageStep

LEMMA AnswerKeepsInv ==
    ASSUME PathInv, NEW r \in Makers, NEW S, S \in {GeneratedLesson, PlannedLesson},
           Advance(r, "idle", "answered"), NEW ls \in ListsUpTo(S, MaxLessons),
           proposal' = [proposal EXCEPT ![r] = ls], UNCHANGED <<stored, view, expected>>
    PROVE  PathInv'
<1>1. stage'[r] = "answered" /\ stage[r] = "idle" /\ proposal'[r] = ls
  BY MakerBefore DEF Advance
<1>2. Steps(r)
  BY <1>1, MakerBefore DEF Steps, stored, Advance
<1>3. AnswerFits(r)'
  BY <1>1, AnswersFit DEF AnswerFits
<1>4. AtStage(r)'
  BY <1>1, MakerBefore DEF AtStage, InPaths, NoLessons, NoModules, stored
<1>5. QED
  BY <1>2, <1>3, <1>4, MakerStep

LEMMA CreatePathKeepsInv ==
    ASSUME PathInv, NEW r \in Generations, CreatePath(r)
    PROVE  PathInv'
<1>1. r \in Makers
  BY DEF Makers
<1>2. stage'[r] = "path" /\ stage[r] = "answered"
  BY <1>1, MakerBefore DEF CreatePath, Advance
<1>3. Steps(r)
  BY <1>1, <1>2, MakerBefore DEF Steps, CreatePath, Advance
<1>4. AnswerFits(r)'
  BY <1>1, MakerBefore DEF AnswerFits, CreatePath
<1>5. InPaths(r)'
  BY <1>1, MakerBefore, AppendedPath DEF CreatePath
<1>6. AtStage(r)'
  BY <1>1, <1>2, <1>5, MakerBefore DEF AtStage, NoLessons, NoModules, CreatePath
<1>7. QED
  BY <1>1, <1>3, <1>4, <1>6, MakerStep

LEMMA CreateLessonsKeepsInv ==
    ASSUME PathInv, NEW r \in Generations, CreateLessons(r)
    PROVE  PathInv'
<1>1. r \in Makers
  BY DEF Makers
<1>2. stage'[r] = "lessons" /\ stage[r] = "path" /\ lessonsOf'[r] = proposal[r]
  BY <1>1, MakerBefore DEF CreateLessons, Advance
<1>3. Steps(r)
  BY <1>1, <1>2, MakerBefore DEF Steps, CreateLessons, Advance
<1>4. AnswerFits(r)'
  BY <1>1, MakerBefore DEF AnswerFits, CreateLessons
<1>5. InPaths(r)' <=> InPaths(r)
  BY DEF InPaths, CreateLessons
<1>6. AtStage(r)'
  BY <1>1, <1>2, <1>5, MakerBefore DEF AtStage, ItsLessons, NoModules, CreateLessons, Known
<1>7. QED
  BY <1>1, <1>3, <1>4, <1>6, MakerStep

\* The rows of a list that is not empty are not empty.
LEMMA PlacedIsNotEmpty ==
    ASSUME NEW m \in Makers, AnswerFits(m), MadeFor(proposal[m]) # <<>>
    PROVE  Placed(m) # <<>> /\ Len(Placed(m)) = Len(MadeFor(proposal[m]))
           /\ DOMAIN Placed(m) = 1..Len(MadeFor(proposal[m])) /\ Len(MadeFor(proposal[m])) \in Nat
<1> DEFINE for == MadeFor(proposal[m])
<1>1. for \in Seq(1..Len(proposal[m]))
  BY MadeForProperties DEF AnswerFits
<1>2. Len(for) \in Nat /\ DOMAIN for = 1..Len(for) /\ Len(for) # 0
  BY <1>1
<1>3. DOMAIN Placed(m) = 1..Len(for)
  BY <1>2 DEF Placed
<1> HIDE DEF for
<1>4. 1 \in DOMAIN Placed(m)
  BY <1>2, <1>3
<1>5. Placed(m) # <<>>
  BY <1>4
<1>6. Len(Placed(m)) = Len(for)
  <2>1. \/ Placed(m) = [i \in 1..Len(for) |-> Placed(m)[i]]
    BY <1>2, <1>3 DEF Placed, for
  <2>2. QED
    BY <1>2, <2>1
<1>7. QED
  BY <1>2, <1>3, <1>5, <1>6 DEF for

LEMMA CreateModulesKeepsInv ==
    ASSUME PathInv, NEW r \in Generations, CreateModules(r)
    PROVE  PathInv'
<1>1. r \in Makers
  BY DEF Makers
<1>2. stage'[r] = "modules" /\ stage[r] = "lessons" /\ modulesOf'[r] = Placed(r)
  BY <1>1, MakerBefore DEF CreateModules, Advance, Placed
<1>3. Steps(r)
  BY <1>1, <1>2, MakerBefore DEF Steps, CreateModules, Advance
<1>4. AnswerFits(r)'
  BY <1>1, MakerBefore DEF AnswerFits, CreateModules
<1>5. (InPaths(r)' <=> InPaths(r)) /\ Placed(r)' = Placed(r) /\ (ItsLessons(r)' <=> ItsLessons(r))
  BY DEF InPaths, CreateModules, Placed, ItsLessons
<1>6. ItsLessons(r) /\ InPaths(r) /\ docsOf[r] = <<>>
  BY <1>1, <1>2, MakerBefore DEF AtStage, NoModules
<1>7. ItsModules(r)'
  BY <1>2, <1>5, <1>6 DEF ItsModules, CreateModules
<1>8. docsOf'[r] = <<>>
  BY <1>6 DEF CreateModules
<1>9. AtStage(r)'
  BY <1>2, <1>5, <1>6, <1>7, <1>8 DEF AtStage
<1>10. QED
  BY <1>1, <1>3, <1>4, <1>9, MakerStep

LEMMA CreateDocumentsKeepsInv ==
    ASSUME PathInv, NEW r \in Generations, CreateDocuments(r)
    PROVE  PathInv'
<1>1. r \in Makers
  BY DEF Makers
<1>2. stage'[r] = "ok" /\ stage[r] = "modules" /\ docsOf'[r] = DocsFor(r)
  BY <1>1, MakerBefore DEF CreateDocuments, Advance, DocsFor
<1>3. Steps(r)
  BY <1>1, <1>2, MakerBefore DEF Steps, CreateDocuments, Advance
<1>4. AnswerFits(r)'
  BY <1>1, MakerBefore DEF AnswerFits, CreateDocuments
<1>5. /\ InPaths(r)' <=> InPaths(r)
      /\ Placed(r)' = Placed(r)
      /\ ItsLessons(r)' <=> ItsLessons(r)
      /\ DocsFor(r)' = DocsFor(r)
  BY DEF InPaths, CreateDocuments, Placed, ItsLessons, DocsFor
<1>6. ItsModules(r)' <=> ItsModules(r)
  BY <1>5 DEF ItsModules, CreateDocuments
<1>7. ItsModules(r) /\ InPaths(r)
  BY <1>1, <1>2, MakerBefore DEF AtStage
<1>8. AtStage(r)'
  BY <1>2, <1>5, <1>6, <1>7 DEF AtStage
<1>9. QED
  BY <1>1, <1>3, <1>4, <1>8, MakerStep

LEMMA StorePlanKeepsInv ==
    ASSUME PathInv, NEW r \in Plans, StorePlan(r)
    PROVE  PathInv'
<1>1. r \in Makers /\ r \notin Generations
  BY DifferentCalls DEF Makers
<1>2. stage'[r] = "ok" /\ stage[r] = "answered" /\ modulesOf'[r] = Placed(r) /\ lessonsOf'[r] = proposal[r]
  BY <1>1, MakerBefore DEF StorePlan, Advance, Placed
<1>3. Steps(r)
  BY <1>1, <1>2, MakerBefore DEF Steps, StorePlan, Advance
<1>4. AnswerFits(r)'
  BY <1>1, MakerBefore DEF AnswerFits, StorePlan
<1>5. InPaths(r)'
  BY <1>1, MakerBefore, AppendedPath DEF StorePlan
<1>6. Placed(r)' = Placed(r)
  BY DEF StorePlan, Placed
<1>7. ItsModules(r)'
  BY <1>1, <1>2, <1>6 DEF ItsModules, ItsLessons, StorePlan, Known
<1>8. docsOf'[r] = <<>>
  BY <1>1, <1>2, MakerBefore DEF AtStage, NoModules, StorePlan
<1>9. AtStage(r)'
  BY <1>1, <1>2, <1>5, <1>7, <1>8 DEF AtStage
<1>10. QED
  BY <1>1, <1>3, <1>4, <1>9, MakerStep

-----------------------------------------------------------------------------
(* The views.                                                              *)

\* A step of a view leaves what is stored and the makers.
LEMMA ViewStep ==
    ASSUME PathInv, NEW v \in Views, UNCHANGED <<stored, proposal>>,
           stage' = [stage EXCEPT ![v] = stage'[v]],
           DOMAIN view' = Views, DOMAIN expected' = Views,
           \A w \in Views : w # v => view'[w] = view[w] /\ expected'[w] = expected[w],
           ViewFits(v)'
    PROVE  PathInv'
<1>1. PathTables'
  BY DEF PathInv, PathTables, stored
<1>2. \A p \in Makers \cup Views : p # v => stage'[p] = stage[p]
  BY DEF PathInv, PathTables
<1>3. ASSUME NEW m \in Makers PROVE AnswerFits(m)' /\ AtStage(m)'
  <2>1. stage'[m] = stage[m]
    BY <1>2, DifferentCalls
  <2>2. InPaths(m)' <=> InPaths(m)
    BY DEF InPaths, stored
  <2>3. QED
    BY <2>1, <2>2, OtherMaker DEF PathInv, MakersFit, stored
<1>4. ASSUME NEW w \in Views, w # v PROVE ViewFits(w)'
  BY <1>2, <1>4 DEF PathInv, ViewFits, stored
<1>5. QED
  BY <1>1, <1>3, <1>4 DEF PathInv, MakersFit

LEMMA ViewBefore ==
    ASSUME PathInv, NEW v \in Views
    PROVE  /\ ViewFits(v)
           /\ DOMAIN stage = Makers \cup Views /\ DOMAIN view = Views /\ DOMAIN expected = Views
           /\ Len(paths) \in Nat /\ paths \in Seq(Makers)
BY DEF PathInv, PathTables

LEMMA NoPathKeepsInv ==
    ASSUME PathInv, NEW v \in Views, NoPath(v)
    PROVE  PathInv'
<1>1. stage'[v] = "failed" /\ stage[v] = "idle"
  BY ViewBefore DEF NoPath, Advance
<1>2. ViewFits(v)'
  BY <1>1, ViewBefore DEF ViewFits, NoPath, stored
<1>3. QED
  BY <1>1, <1>2, ViewBefore, ViewStep DEF NoPath, Advance

LEMMA FindNewestKeepsInv ==
    ASSUME PathInv, NEW v \in Views, FindNewest(v)
    PROVE  PathInv'
<1>1. stage'[v] = "newest" /\ stage[v] = "idle"
  BY ViewBefore DEF FindNewest, Advance
<1>2. /\ view'[v] = [view[v] EXCEPT !.at = Len(paths)] /\ expected'[v] = Len(paths)
      /\ \A w \in Views : w # v => view'[w] = view[w] /\ expected'[w] = expected[w]
      /\ DOMAIN view' = Views /\ DOMAIN expected' = Views
  BY ViewBefore DEF FindNewest
<1>3. Len(paths) > 0 /\ Len(paths) \in Nat
  BY ViewBefore, EmptySeq DEF FindNewest
<1>4. /\ DOMAIN view'[v] = {"at", "lessons", "modules"} /\ view'[v].at = Len(paths)
      /\ view'[v].lessons = view[v].lessons /\ view'[v].modules = view[v].modules
  BY <1>2, ViewBefore DEF ViewFits
<1>5. ViewFits(v)'
  BY <1>1, <1>2, <1>3, <1>4, ViewBefore DEF ViewFits, FindNewest, stored
<1>6. QED
  BY <1>1, <1>2, <1>5, ViewStep DEF FindNewest, Advance

\* The path that a view has found is a maker's.
LEMMA FoundPath ==
    ASSUME PathInv, NEW v \in Views, stage[v] \in {"newest", "read"}
    PROVE  /\ paths[view[v].at] \in Makers
           /\ Len(lessonsOf[paths[view[v].at]]) \in Nat
           /\ Len(modulesOf[paths[view[v].at]]) \in Nat
<1>1. view[v].at \in 1..Len(paths)
  BY ViewBefore DEF ViewFits
<1>2. paths[view[v].at] \in Makers
  BY <1>1, ViewBefore
<1> DEFINE m == paths[view[v].at]
<1>3. AnswerFits(m) /\ AtStage(m)
  BY <1>2, MakerBefore
<1> HIDE DEF m
<1>4. Len(lessonsOf[m]) \in Nat
  <2>1. lessonsOf[m] = <<>> \/ lessonsOf[m] = proposal[m]
    BY <1>3 DEF AtStage, NoLessons, ItsLessons, ItsModules
  <2>2. QED
    BY <1>3, <2>1 DEF AnswerFits, IsAnswer
<1>5. Len(modulesOf[m]) \in Nat
  <2>1. modulesOf[m] = <<>> \/ ItsModules(m)
    BY <1>3 DEF AtStage, NoModules
  <2>2. CASE modulesOf[m] = <<>>
    BY <2>2
  <2>3. CASE ItsModules(m)
    <3>1. m \in Makers
      BY <1>2 DEF m
    <3>2. QED
      BY <1>3, <2>3, <3>1, PlacedIsNotEmpty DEF ItsModules
  <2>4. QED
    BY <2>1, <2>2, <2>3
<1>6. QED
  BY <1>2, <1>4, <1>5 DEF m

LEMMA ReadLessonsKeepsInv ==
    ASSUME PathInv, NEW v \in Views, ReadLessons(v)
    PROVE  PathInv'
<1>1. stage'[v] = "read" /\ stage[v] = "newest"
  BY ViewBefore DEF ReadLessons, Advance
<1> DEFINE k == Len(lessonsOf[paths[view[v].at]])
<1>2. /\ view'[v] = [view[v] EXCEPT !.lessons = k] /\ expected'[v] = expected[v]
      /\ \A w \in Views : w # v => view'[w] = view[w] /\ expected'[w] = expected[w]
      /\ DOMAIN view' = Views /\ DOMAIN expected' = Views
  BY ViewBefore DEF ReadLessons
<1>3. k \in Nat
  BY <1>1, FoundPath
<1> HIDE DEF k
<1>4. /\ DOMAIN view'[v] = {"at", "lessons", "modules"} /\ view'[v].at = view[v].at
      /\ view'[v].lessons = k /\ view'[v].modules = view[v].modules
  BY <1>2, ViewBefore DEF ViewFits
<1>5. ViewFits(v)'
  BY <1>1, <1>2, <1>3, <1>4, ViewBefore DEF ViewFits, ReadLessons, stored
<1>6. QED
  BY <1>1, <1>2, <1>5, ViewStep DEF ReadLessons, Advance

LEMMA ReadModulesKeepsInv ==
    ASSUME PathInv, NEW v \in Views, ReadModules(v)
    PROVE  PathInv'
<1>1. stage'[v] = "ok" /\ stage[v] = "read"
  BY ViewBefore DEF ReadModules, Advance
<1> DEFINE k == IF view[v].lessons = 0 THEN 0 ELSE Len(modulesOf[paths[view[v].at]])
<1>2. /\ view'[v] = [view[v] EXCEPT !.modules = k] /\ expected'[v] = expected[v]
      /\ \A w \in Views : w # v => view'[w] = view[w] /\ expected'[w] = expected[w]
      /\ DOMAIN view' = Views /\ DOMAIN expected' = Views
  BY ViewBefore DEF ReadModules
<1>3. k \in Nat /\ (k > 0 => view[v].lessons # 0)
  BY <1>1, FoundPath
<1> HIDE DEF k
<1>4. /\ DOMAIN view'[v] = {"at", "lessons", "modules"} /\ view'[v].at = view[v].at
      /\ view'[v].lessons = view[v].lessons /\ view'[v].modules = k
  BY <1>2, ViewBefore DEF ViewFits
<1>5. ViewFits(v)'
  BY <1>1, <1>2, <1>3, <1>4, ViewBefore DEF ViewFits, ReadModules, stored
<1>6. QED
  BY <1>1, <1>2, <1>5, ViewStep DEF ReadModules, Advance

-----------------------------------------------------------------------------
(* Path generation: the theorems.                                          *)

LEMMA PathInitInv == PathInit => PathInv
<1> SUFFICES ASSUME PathInit PROVE PathInv
  OBVIOUS
<1>1. PathTables
  BY EmptySeq DEF PathInit, PathTables
<1>2. ASSUME NEW m \in Makers PROVE AnswerFits(m) /\ AtStage(m)
  <2>1. /\ proposal[m] = <<>> /\ lessonsOf[m] = <<>> /\ modulesOf[m] = <<>> /\ docsOf[m] = <<>>
        /\ stage[m] = "idle"
    BY DEF PathInit
  <2>2. ~InPaths(m)
    BY DEF PathInit, InPaths
  <2>3. AnswerFits(m)
    <3>1. /\ Len(proposal[m]) = 0
          /\ DOMAIN proposal[m] = {}
          /\ proposal[m] = [k \in 1..0 |-> proposal[m][k]]
      BY <2>1
    <3>2. QED
      BY <3>1, BoundsAssumption DEF AnswerFits, IsAnswer
  <2>4. AtStage(m)
    BY <2>1, <2>2 DEF AtStage, NoLessons, NoModules
  <2>5. QED
    BY <2>3, <2>4
<1>3. \A v \in Views : ViewFits(v)
  BY DEF PathInit, ViewFits
<1>4. QED
  BY <1>1, <1>2, <1>3 DEF PathInv, MakersFit

LEMMA PathNextInv == PathInv /\ [PathNext]_pathVars => PathInv'
<1> SUFFICES ASSUME PathInv, [PathNext]_pathVars PROVE PathInv'
  OBVIOUS
<1>1. CASE UNCHANGED pathVars
  <2>1. PathTables'
    BY <1>1 DEF PathInv, PathTables, pathVars, stored
  <2>2. ASSUME NEW m \in Makers PROVE AnswerFits(m)' /\ AtStage(m)'
    BY <1>1, OtherMaker DEF PathInv, MakersFit, pathVars, stored, InPaths
  <2>3. ASSUME NEW v \in Views PROVE ViewFits(v)'
    BY <1>1 DEF PathInv, ViewFits, pathVars, stored
  <2>4. QED
    BY <2>1, <2>2, <2>3 DEF PathInv, MakersFit
<1>2. ASSUME NEW r \in Makers, Reject(r) PROVE PathInv'
  <2>1. stage[r] = "idle" /\ stage' = [stage EXCEPT ![r] = "failed"]
    BY <1>2 DEF Reject, Advance
  <2>2. QED
    BY <1>2, <2>1, FailsAtStage DEF Reject
<1>3. ASSUME NEW r \in Generations,
             \/ Answer(r) \/ CreatePath(r)
             \/ CreateLessons(r) \/ LessonsRaise(r)
             \/ CreateModules(r) \/ ModulesRaise(r)
             \/ CreateDocuments(r) \/ GenerationFails(r)
      PROVE  PathInv'
  <2>1. r \in Makers
    BY DEF Makers
  <2>2. CASE Answer(r)
    <3>1. PICK ls \in ListsUpTo(GeneratedLesson, MaxLessons) : proposal' = [proposal EXCEPT ![r] = ls]
      BY <2>2 DEF Answer
    <3>2. Advance(r, "idle", "answered") /\ UNCHANGED <<stored, view, expected>>
      BY <2>2 DEF Answer
    <3>3. QED
      BY <2>1, <3>1, <3>2, AnswerKeepsInv
  <2>3. CASE CreatePath(r)
    BY <2>3, CreatePathKeepsInv
  <2>4. CASE CreateLessons(r)
    BY <2>4, CreateLessonsKeepsInv
  <2>5. CASE LessonsRaise(r)
    BY <2>1, <2>5, FailsAtStage DEF LessonsRaise, Advance
  <2>6. CASE CreateModules(r)
    BY <2>6, CreateModulesKeepsInv
  <2>7. CASE ModulesRaise(r)
    BY <2>1, <2>7, FailsAtStage DEF ModulesRaise, Advance
  <2>8. CASE CreateDocuments(r)
    BY <2>8, CreateDocumentsKeepsInv
  <2>9. CASE GenerationFails(r)
    BY <2>1, <2>9, FailsAtStage DEF GenerationFails
  <2>10. QED
    BY <1>3, <2>2, <2>3, <2>4, <2>5, <2>6, <2>7, <2>8, <2>9
<1>4. ASSUME NEW r \in Plans, Plan(r) \/ StorePlan(r) \/ RollBack(r)
      PROVE  PathInv'
  <2>1. r \in Makers
    BY DEF Makers
  <2>2. CASE Plan(r)
    <3>1. PICK ls \in ListsUpTo(PlannedLesson, MaxLessons) : proposal' = [proposal EXCEPT ![r] = ls]
      BY <2>2 DEF Plan
    <3>2. Advance(r, "idle", "answered") /\ UNCHANGED <<stored, view, expected>>
      BY <2>2 DEF Plan
    <3>3. QED
      BY <2>1, <3>1, <3>2, AnswerKeepsInv
  <2>3. CASE StorePlan(r)
    BY <2>3, StorePlanKeepsInv
  <2>4. CASE RollBack(r)
    BY <2>1, <2>4, FailsAtStage DEF RollBack, Advance
  <2>5. QED
    BY <1>4, <2>2, <2>3, <2>4
<1>5. ASSUME NEW v \in Views, NoPath(v) \/ FindNewest(v) \/ ReadLessons(v) \/ ReadModules(v)
      PROVE  PathInv'
  BY <1>5, NoPathKeepsInv, FindNewestKeepsInv, ReadLessonsKeepsInv, ReadModulesKeepsInv
<1>6. QED
  BY <1>1, <1>2, <1>3, <1>4, <1>5 DEF PathNext

LEMMA PathInvariant == PathSpec => []PathInv
BY PathInitInv, PathNextInv, PTL DEF PathSpec

\* A maker's stored modules are none, or the rows of the modules made.
LEMMA StoredModules ==
    ASSUME PathInv, NEW m \in Makers, NEW i \in DOMAIN modulesOf[m]
    PROVE  /\ IsAnswer(proposal[m]) /\ Len(proposal[m]) <= MaxLessons
           /\ i \in 1..Len(MadeFor(proposal[m]))
           /\ m \in Generations => Assignable(proposal[m])
           /\ modulesOf[m][i].under = IF m \in Generations THEN LessonFor(proposal[m], i)
                                      ELSE RowFor(proposal[m], MadeFor(proposal[m])[i])
           /\ modulesOf[m][i].for = MadeFor(proposal[m])[i]
           /\ i \in Nat
<1>1. AnswerFits(m) /\ AtStage(m)
  BY MakerBefore
<1>2. modulesOf[m] # <<>>
  OBVIOUS
<1>3. ItsModules(m)
  BY <1>1, <1>2 DEF AtStage, NoModules
<1>4. modulesOf[m] = Placed(m) /\ DOMAIN Placed(m) = 1..Len(MadeFor(proposal[m]))
  BY <1>1, <1>3, PlacedIsNotEmpty DEF ItsModules
<1>5. Placed(m)[i] = [under |-> IF m \in Generations THEN LessonFor(proposal[m], i)
                                ELSE RowFor(proposal[m], MadeFor(proposal[m])[i]),
                      for |-> MadeFor(proposal[m])[i]]
  <2>1. i \in DOMAIN MadeFor(proposal[m])
    BY <1>1, <1>4, MadeForProperties DEF AnswerFits
  <2>2. QED
    BY <2>1 DEF Placed
<1>6. IsAnswer(proposal[m]) /\ Len(MadeFor(proposal[m])) \in Nat
  BY <1>1, MadeForProperties DEF AnswerFits
<1>7. QED
  <2> DEFINE p == MadeFor(proposal[m])
             u == IF m \in Generations THEN LessonFor(proposal[m], i) ELSE RowFor(proposal[m], p[i])
  <2>1. modulesOf[m][i] = [under |-> u, for |-> p[i]]
    BY <1>4, <1>5
  <2> HIDE DEF u
  <2>2. modulesOf[m][i].under = u /\ modulesOf[m][i].for = p[i]
    BY <2>1
  <2>3. i \in 1..Len(p)
    BY <1>4
  <2>4. QED
    BY <1>1, <1>3, <1>6, <2>2, <2>3 DEF AnswerFits, ItsModules, u

LEMMA InvTypes == PathInv => PathTypeOK
<1> SUFFICES ASSUME PathInv PROVE PathTypeOK
  OBVIOUS
<1>1. \A i \in DOMAIN paths : paths[i] \in Makers
  BY DEF PathInv, PathTables
<1>2. ASSUME NEW m \in Makers
      PROVE  /\ Len(proposal[m]) <= MaxLessons
             /\ \A k \in DOMAIN proposal[m] : proposal[m][k] \in GeneratedLesson \cup PlannedLesson
             /\ lessonsOf[m] \in {<<>>, proposal[m]}
             /\ \A i \in DOMAIN modulesOf[m] :
                  modulesOf[m][i].under \in 1..MaxLessons /\ modulesOf[m][i].for \in 1..MaxLessons
             /\ \A i \in DOMAIN docsOf[m] : docsOf[m][i].of \in Nat /\ docsOf[m][i].for \in Nat
  <2>1. AnswerFits(m) /\ AtStage(m)
    BY <1>2, MakerBefore
  <2>2. lessonsOf[m] \in {<<>>, proposal[m]}
    BY <2>1 DEF AtStage, NoLessons, ItsLessons, ItsModules
  <2>3. ASSUME NEW i \in DOMAIN modulesOf[m]
        PROVE  modulesOf[m][i].under \in 1..MaxLessons /\ modulesOf[m][i].for \in 1..MaxLessons
    <3> DEFINE ls == proposal[m]
    <3>1. IsAnswer(ls) /\ Len(ls) <= MaxLessons /\ i \in 1..Len(MadeFor(ls)) /\ Len(ls) \in Nat
      BY <1>2, <2>3, StoredModules DEF IsAnswer
    <3>2. MadeFor(ls)[i] \in 1..Len(ls)
      BY <3>1, MadeForProperties
    <3>3. m \in Generations => LessonFor(ls, i) \in 1..Len(ls)
      BY <1>2, <2>3, <3>1, StoredModules, LessonForIsOne
    <3>4. RowFor(ls, MadeFor(ls)[i]) \in 1..Len(ls)
      BY <3>1, <3>2, RowForIsOne
    <3>5. /\ modulesOf[m][i].for = MadeFor(ls)[i]
          /\ modulesOf[m][i].under = IF m \in Generations THEN LessonFor(ls, i) ELSE RowFor(ls, MadeFor(ls)[i])
      BY <1>2, <2>3, StoredModules
    <3>6. 1..Len(ls) \subseteq 1..MaxLessons
      BY <3>1, BoundsAssumption
    <3> HIDE DEF ls
    <3>7. QED
      BY <3>2, <3>3, <3>4, <3>5, <3>6
  <2>4. ASSUME NEW i \in DOMAIN docsOf[m] PROVE docsOf[m][i].of \in Nat /\ docsOf[m][i].for \in Nat
    <3>1. docsOf[m] = DocsFor(m)
      BY <2>1, <2>4 DEF AtStage, NoModules
    <3>2. i \in DOMAIN modulesOf[m] /\ docsOf[m][i] = [of |-> i, for |-> i]
      BY <2>4, <3>1 DEF DocsFor
    <3>3. i \in Nat
      BY <1>2, <3>2, StoredModules
    <3>4. QED
      BY <3>2, <3>3
  <2>5. QED
    BY <2>1, <2>2, <2>3, <2>4 DEF AnswerFits
<1>3. stage \in [Makers \cup Views ->
                {"idle", "answered", "path", "lessons", "modules", "newest", "read", "ok", "failed"}]
  <2>1. \A m \in Makers : stage[m] \in
            {"idle", "answered", "path", "lessons", "modules", "newest", "read", "ok", "failed"}
    BY MakerBefore DEF AtStage
  <2>2. \A v \in Views : stage[v] \in
            {"idle", "answered", "path", "lessons", "modules", "newest", "read", "ok", "failed"}
    BY ViewBefore DEF ViewFits
  <2>3. stage = [p \in Makers \cup Views |-> stage[p]]
    BY DEF PathInv, PathTables
  <2>4. QED
    BY <2>1, <2>2, <2>3
<1>4. \A v \in Views : view[v].at \in 0..Len(paths) /\ expected[v] \in 0..Len(paths)
  BY ViewBefore DEF ViewFits
<1>5. QED
  BY <1>1, <1>2, <1>3, <1>4 DEF PathTypeOK

\* Types hold: of the stored rows, of the answers, and of what a view has read.
THEOREM PathTypesHold == PathSpec => []PathTypeOK
BY PathInvariant, InvTypes, PTL

\* ModulesUnderTheirLesson is an invariant: when each lesson got the modules it was asked
\* for, or a plan has no lesson twice, each module is under the lesson it was made for.
THEOREM ModulesAreUnderTheirLesson == PathSpec => []ModulesUnderTheirLesson
<1>1. PathInv => ModulesUnderTheirLesson
  <2> SUFFICES ASSUME PathInv, NEW m \in Makers, AnsweredAsAsked(m), NEW i \in DOMAIN modulesOf[m]
               PROVE  modulesOf[m][i].under = modulesOf[m][i].for
    BY DEF ModulesUnderTheirLesson, InPlace
  <2> DEFINE ls == proposal[m]
  <2>1. IsAnswer(ls) /\ i \in 1..Len(MadeFor(ls))
    BY StoredModules
  <2>2. /\ modulesOf[m][i].for = MadeFor(ls)[i]
        /\ modulesOf[m][i].under = IF m \in Generations THEN LessonFor(ls, i) ELSE RowFor(ls, MadeFor(ls)[i])
    BY StoredModules
  <2>3. CASE m \in Generations
    <3>1. \A k \in DOMAIN ls : ls[k].made = ls[k].asked
      BY <2>3 DEF AnsweredAsAsked
    <3>2. LessonFor(ls, i) = MadeFor(ls)[i]
      BY <2>1, <3>1, LessonForIsMade
    <3>3. QED
      BY <2>2, <2>3, <3>2
  <2>4. CASE m \notin Generations
    <3>1. \A j, k \in 1..Len(ls) : ls[j].lesson = ls[k].lesson => j = k
      BY <2>1, <2>4, AnswerTotals DEF AnsweredAsAsked
    <3>2. MadeFor(ls)[i] \in 1..Len(ls)
      BY <2>1, MadeForProperties
    <3> DEFINE k == MadeFor(ls)[i]
    <3> HIDE DEF k, ls
    <3>3. RowFor(ls, k) \in 1..Len(ls) /\ ls[RowFor(ls, k)].lesson = ls[k].lesson
      BY <2>1, <3>2, RowForIsOne DEF k
    <3>4. RowFor(ls, k) = k
      BY <3>1, <3>2, <3>3 DEF k
    <3>5. QED
      BY <2>2, <2>4, <3>4 DEF k
  <2>5. QED
    BY <2>3, <2>4
<1>2. QED
  BY <1>1, PathInvariant, PTL

\* PathsAreWhole is an invariant: what is reported and shown of a path is whole although a
\* generation commits it in four parts, in every order of generations, plans and views.
THEOREM PathsStayWhole == PathSpec => []PathsAreWhole
<1>1. PathInv => ReportedPathsAreWhole
  <2> SUFFICES ASSUME PathInv, NEW m \in Makers, stage[m] = "ok"
               PROVE  /\ \E i \in DOMAIN paths : paths[i] = m
                      /\ lessonsOf[m] = proposal[m]
                      /\ \A k \in DOMAIN proposal[m] :
                           Cardinality({i \in DOMAIN modulesOf[m] : modulesOf[m][i].for = k})
                              = proposal[m][k].made
                      /\ m \in Generations =>
                           \A i \in DOMAIN modulesOf[m] :
                               \E j \in DOMAIN docsOf[m] : docsOf[m][j] = [of |-> i, for |-> i]
    BY DEF ReportedPathsAreWhole
  <2>1. AnswerFits(m) /\ AtStage(m)
    BY MakerBefore
  <2>2. InPaths(m) /\ ItsModules(m) /\ (m \in Generations => docsOf[m] = DocsFor(m))
    BY <2>1 DEF AtStage
  <2> DEFINE ls == proposal[m]
             for == MadeFor(ls)
  <2>3. DOMAIN modulesOf[m] = 1..Len(for)
    BY <2>1, <2>2, PlacedIsNotEmpty DEF ItsModules
  <2>4. ASSUME NEW k \in DOMAIN ls
        PROVE  Cardinality({i \in DOMAIN modulesOf[m] : modulesOf[m][i].for = k}) = ls[k].made
    <3>1. IsAnswer(ls)
      BY <2>1 DEF AnswerFits
    <3>2. \A i \in 1..Len(for) : modulesOf[m][i].for = for[i]
      BY <2>3, StoredModules
    <3>3. {i \in DOMAIN modulesOf[m] : modulesOf[m][i].for = k} = {i \in 1..Len(for) : for[i] = k}
      <4> HIDE DEF for, ls
      <4>1. QED
        BY <2>3, <3>2
    <3>4. k \in 1..Len(ls)
      BY <3>1, AnswerTotals
    <3>5. Cardinality({i \in 1..Len(for) : for[i] = k}) = ls[k].made
      BY <3>1, <3>4, MadeForProperties
    <3>6. QED
      BY <3>3, <3>5
  <2>5. ASSUME m \in Generations, NEW i \in DOMAIN modulesOf[m]
        PROVE  \E j \in DOMAIN docsOf[m] : docsOf[m][j] = [of |-> i, for |-> i]
    <3>1. i \in DOMAIN docsOf[m] /\ docsOf[m][i] = [of |-> i, for |-> i]
      BY <2>2, <2>5 DEF DocsFor
    <3>2. QED
      BY <3>1
  <2>6. QED
    BY <2>2, <2>4, <2>5 DEF InPaths, ItsModules, ItsLessons
<1>2. PathInv => CurrentPathIsWhole
  <2> SUFFICES ASSUME PathInv, paths # <<>>
               PROVE  LET m == paths[Len(paths)]
                      IN  \/ m \in Generations /\ stage[m] \in {"path", "lessons", "failed"}
                          \/ lessonsOf[m] # <<>> /\ modulesOf[m] # <<>>
    BY DEF CurrentPathIsWhole
  <2> DEFINE m == paths[Len(paths)]
  <2>1. Len(paths) \in DOMAIN paths /\ m \in Makers
    BY EmptySeq DEF PathInv, PathTables
  <2>2. InPaths(m)
    BY <2>1 DEF InPaths
  <2> HIDE DEF m
  <2>3. AnswerFits(m) /\ AtStage(m)
    BY <2>1, MakerBefore
  <2>4. m \in Generations \/ m \in Plans
    BY <2>1 DEF Makers
  <2>5. \/ m \in Generations /\ stage[m] \in {"path", "lessons", "failed"}
        \/ ItsModules(m)
    BY <2>2, <2>3, <2>4 DEF AtStage
  <2>6. ItsModules(m) => lessonsOf[m] # <<>> /\ modulesOf[m] # <<>>
    BY <2>1, <2>3, PlacedIsNotEmpty DEF ItsModules, ItsLessons
  <2>7. QED
    BY <2>5, <2>6 DEF m
<1>3. PathInv => ViewsAreRecent
  BY DEF PathInv, ViewFits, ViewsAreRecent
<1>4. PathInv => PathsAreWhole
  BY <1>1, <1>2, <1>3 DEF PathsAreWhole
<1>5. QED
  BY <1>4, PathInvariant, PTL

-----------------------------------------------------------------------------
(* Quiz submission: the inductive invariants.                              *)

Size(z)   == Cardinality(QuestionsOf(z))
Orders(z) == SetToSeqs(QuestionsOf(z))
Opened(r) == phase[r] \notin {"idle", "failed"}
Early  == {"shown", "loaded"}
Scored == {"read", "average", "analyse", "module", "lesson", "writeLesson", "path", "writePath", "ok"}

QuizRow == [status : {"new", "completed"}, score : 0..Full]

\* A request holds a submission: field by field the record that Open makes.
IsHeld(h) ==
    /\ DOMAIN h = {"quiz", "page", "right", "order", "done", "correct", "module", "quizzes",
                   "lesson", "lessons", "path"}
    /\ h.quiz \in Quizzes
    /\ h.page \in Orders(h.quiz) /\ h.order \in Orders(h.quiz)
    /\ h.right \in [QuestionsOf(h.quiz) -> BOOLEAN]
    /\ h.done \in 0..Size(h.quiz)
    /\ h.correct \in 0..h.done
    /\ h.module \in 0..Full
    /\ h.quizzes \in [Quizzes -> QuizRow]
    /\ h.lesson \in 0..100
    /\ h.lessons \in [Lessons -> 0..100]
    /\ h.path \in 0..100

RowInv ==
    /\ choice \in [Questions -> {"none", "right", "wrong"}]
    /\ scan \in [Quizzes -> Seq(Questions)]
    /\ \A z \in Quizzes : scan[z] \in Orders(z)
    /\ quiz \in [Quizzes -> QuizRow]
    /\ moduleProgress \in [Modules -> 0..100]
    /\ lessonProgress \in [Lessons -> 0..100]
    /\ pathProgress \in 0..100

RequestInv ==
    /\ phase \in [Submitters \cup Clears -> {"idle", "answers", "failed"} \cup Early \cup Scored]
    /\ DOMAIN local = Submitters \cup Clears
    /\ \A r \in Submitters \cup Clears :
         /\ phase[r] = "idle" => local[r] = Unread
         /\ phase[r] = "failed" => local[r].quiz \in Quizzes /\ local[r].module \in 0..Full
         /\ Opened(r) => r \in Submitters /\ IsHeld(local[r])

HistoryInv ==
    /\ overtaken \subseteq Submitters
    /\ mixed \subseteq Quizzes
    /\ crowded \subseteq Submitters
    /\ unsettled \subseteq Modules \cup Lessons \cup {"path"}

TypeInv == RowInv /\ RequestInv /\ HistoryInv

\* The questions that request r has been credited for with its first n answers.
Credited(r, n) == {x \in QuestionsOf(local[r].quiz) :
    /\ local[r].right[x]
    /\ \E i \in 1..n : local[r].order[i] = x /\ local[r].page[i] = x}

\* What request r has answered, and been credited for.
AnswersOf(r) == Opened(r) =>
    LET h == local[r] IN
    /\ h.correct = Cardinality(Credited(r, h.done))
    /\ phase[r] \in Early => h.done = 0
    /\ phase[r] \in Scored => h.done = Size(h.quiz) /\ h.quizzes[h.quiz].status = "completed"
    /\ r \notin overtaken => h.page = IF phase[r] \in Early THEN scan[h.quiz] ELSE h.order
    /\ phase[r] = "answers" => \A i \in 1..h.done : choice[h.order[i]] # "none"

AnswersInv == \A r \in Submitters : AnswersOf(r)

Answering(r, z) == phase[r] = "answers" /\ local[r].quiz = z

\* As long as one submission stores answers, they are what it is credited for.
StoredOf(r) == phase[r] = "answers" /\ local[r].quiz \notin mixed =>
    /\ \A o \in Submitters : Answering(o, local[r].quiz) => o = r
    /\ \A i \in 1..local[r].done :
         choice[local[r].order[i]] = "right" <=> local[r].order[i] \in Credited(r, local[r].done)

StoredInv == \A r \in Submitters : StoredOf(r)

QuizInv == TypeInv /\ AnswersInv /\ StoredInv /\ CompletedMeansAnswered /\ ScoreOfStoredAnswers

\* The progress of module m, from its completed quizzes.
Expected(m) ==
    LET S == Completed(quiz, QuizzesOf(m)) IN IF S = {} THEN 0 ELSE WholeAverage(quiz, S)
Behind  == {"read", "average", "analyse", "module"}
ModuleHolds(m) == moduleProgress[m] = Expected(m)
LessonHolds(l) == lessonProgress[l] = Average(moduleProgress, ModulesOf(l))
PathHolds      == pathProgress = Average(lessonProgress, Lessons)

\* Each settled level is the average of the level below, or a request will make it so.
LevelsInv ==
    /\ \A m \in Modules \ unsettled :
         ModuleHolds(m) \/ \E r \in Active : phase[r] \in Behind /\ MyModule(r) = m
    /\ \A l \in Lessons \ unsettled :
         LessonHolds(l) \/ \E r \in Active : phase[r] \in Behind \cup {"lesson", "writeLesson"} /\ MyLesson(r) = l
    /\ "path" \notin unsettled => PathHolds \/ \E r \in Active : phase[r] \notin {"loaded", "answers"}

\* A request that runs is the only one, or nothing above its quiz is settled.
CrowdInv ==
    /\ \A r \in crowded : phase[r] \notin {"idle", "shown"}
    /\ \A r \in Active :
         \/ r \in crowded /\ Above(local[r].quiz) \subseteq unsettled
         \/ r \notin crowded /\ Active = {r}

\* What a request that runs alone holds of the levels above its quiz.
AloneOf(r) ==
    LET h == local[r]
        m == MyModule(r)
        l == MyLesson(r)
    IN  /\ phase[r] \in {"loaded", "answers", "read", "average"} => h.module = 100 * moduleProgress[m]
        /\ phase[r] \in Scored => quiz[h.quiz].status = "completed" /\ h.quizzes[h.quiz] = quiz[h.quiz]
        /\ phase[r] \in Scored \ {"read"} => h.quizzes = quiz
        /\ phase[r] \in {"analyse", "module"} =>
              /\ h.module = Average(Scores(quiz), Completed(quiz, QuizzesOf(m)))
              /\ moduleProgress[m] = h.module \div 100
        /\ phase[r] \in {"lesson", "writeLesson", "path", "writePath"} =>
              ModuleHolds(m) /\ h.module = 100 * moduleProgress[m]
        /\ h.lesson = lessonProgress[l]
        /\ phase[r] = "writeLesson" => h.lessons[l] = Average(moduleProgress, ModulesOf(l))
        /\ phase[r] \in {"path", "writePath"} => LessonHolds(l)
        /\ phase[r] = "writePath" => h.lessons = lessonProgress
        /\ h.path = pathProgress

AloneInv == \A r \in Active \ crowded : AloneOf(r)

ProgressInv == LevelsInv /\ CrowdInv /\ AloneInv

-----------------------------------------------------------------------------
(* Orders, and rounded averages.                                           *)

\* An order of the questions of a quiz has each of them once.
LEMMA OrderFacts ==
    ASSUME NEW z \in Quizzes, NEW s \in Orders(z)
    PROVE  /\ IsFiniteSet(QuestionsOf(z)) /\ Size(z) \in Nat
           /\ s \in [1..Size(z) -> QuestionsOf(z)]
           /\ Len(s) = Size(z) /\ s \in Seq(Questions)
           /\ \A i, j \in 1..Size(z) : s[i] = s[j] => i = j
           /\ \A x \in QuestionsOf(z) : \E i \in 1..Size(z) : s[i] = x
           /\ ToSet(s) = QuestionsOf(z)
<1>1. IsFiniteSet(QuestionsOf(z)) /\ Size(z) \in Nat
  BY TreeAssumption, FS_Subset, FS_CardinalityType DEF QuestionsOf, Size
<1>2. /\ s \in [1..Size(z) -> QuestionsOf(z)]
      /\ \A i, j \in 1..Size(z) : s[i] = s[j] => i = j
  BY DEF Orders, SetToSeqs, Size
<1>3. Len(s) = Size(z) /\ s \in Seq(Questions)
  BY <1>1, <1>2 DEF QuestionsOf
<1>4. s \in Injection(1..Size(z), QuestionsOf(z))
  BY <1>2 DEF Injection, IsInjective
<1>5. IsFiniteSet(1..Size(z)) /\ Cardinality(1..Size(z)) = Size(z)
  BY <1>1, FS_Interval
<1>6. s \in Surjection(1..Size(z), QuestionsOf(z))
  BY <1>1, <1>4, <1>5, FS_Injection DEF Size
<1>7. \A x \in QuestionsOf(z) : \E i \in 1..Size(z) : s[i] = x
  BY <1>6 DEF Surjection
<1>8. ToSet(s) = QuestionsOf(z)
  BY <1>2, <1>7 DEF ToSet
<1>9. QED
  BY <1>1, <1>2, <1>3, <1>7, <1>8

\* Rounding does not leave a range of integers.
LEMMA RoundBound ==
    ASSUME NEW a \in Nat, NEW b \in Nat \ {0}, NEW k \in Nat, a <= k * b
    PROVE  RoundDiv(a, b) \in 0..k
<1> DEFINE q == a \div b
           r == a % b
<1>1. q \in Nat /\ r \in 0..(b - 1) /\ a = b * q + r
  OBVIOUS
<1> HIDE DEF q, r
<1>2. CASE q >= k + 1
  <2>1. b * q >= b * (k + 1)
    BY <1>1, <1>2
  <2>2. b * (k + 1) = k * b + b
    OBVIOUS
  <2>3. QED
    BY <1>1, <2>1, <2>2
<1>3. CASE q = k
  <2>1. r = 0
    BY <1>1, <1>3
  <2>2. RoundDiv(a, b) = q
    BY <2>1 DEF RoundDiv, q, r
  <2>3. QED
    BY <1>3, <2>2
<1>4. CASE q < k
  <2>1. RoundDiv(a, b) \in {q, q + 1}
    BY DEF RoundDiv, q, r
  <2>2. QED
    BY <1>1, <1>4, <2>1
<1>5. QED
  BY <1>1, <1>2, <1>3, <1>4

LEMMA FullFacts == Full \in Nat /\ Full = 100 * 100
BY DEF Full

\* What the progress column keeps of hundredths of a percent.
LEMMA WholePercents ==
    ASSUME NEW a \in 0..Full
    PROVE  /\ a \div 100 \in 0..100
           /\ \A k \in Int : a = 100 * k => a \div 100 = k
<1>1. a \in Int /\ 0 <= a /\ a <= 100 * 100
  BY FullFacts, SMTT(30)
<1>2. QED
  BY <1>1

LEMMA PercentBound ==
    ASSUME NEW n \in Nat \ {0}, NEW c \in 0..n
    PROVE  Percent(c, n) \in 0..Full
<1>1. Full * c \in Nat /\ Full * c <= Full * n
  BY FullFacts
<1>2. QED
  BY <1>1, FullFacts, RoundBound DEF Percent

\* The average of nothing is zero, and that of something is within its bounds.
LEMMA AverageBound ==
    ASSUME NEW S, IsFiniteSet(S), NEW k \in Nat, NEW f, \A x \in S : f[x] \in 0..k
    PROVE  Average(f, S) \in 0..k
<1>1. CASE S = {}
  BY <1>1 DEF Average
<1>2. CASE S # {}
  <2>1. Cardinality(S) \in Nat \ {0}
    BY <1>2, FS_EmptySet, FS_CardinalityType
  <2>2. TotalOf(f, S) \in 0..(k * Cardinality(S))
    BY TotalBound
  <2>3. TotalOf(f, S) \in Nat /\ TotalOf(f, S) <= k * Cardinality(S)
    BY <2>1, <2>2
  <2>4. QED
    BY <1>2, <2>1, <2>3, RoundBound DEF Average
<1>3. QED
  BY <1>1, <1>2

LEMMA WholeAverageBound ==
    ASSUME NEW qs \in [Quizzes -> QuizRow], NEW S \in SUBSET Quizzes, S # {}
    PROVE  WholeAverage(qs, S) \in 0..100
<1>1. IsFiniteSet(S) /\ Cardinality(S) \in Nat \ {0}
  BY TreeAssumption, FS_Subset, FS_EmptySet, FS_CardinalityType
<1>2. \A z \in S : Scores(qs)[z] \in 0..Full
  BY DEF Scores, QuizRow
<1>3. TotalOf(Scores(qs), S) \in 0..(Full * Cardinality(S))
  BY <1>1, <1>2, FullFacts, TotalBound
<1>4. /\ TotalOf(Scores(qs), S) \in Nat
      /\ TotalOf(Scores(qs), S) <= 100 * (100 * Cardinality(S))
      /\ 100 * Cardinality(S) \in Nat \ {0}
  BY <1>1, <1>3, FullFacts
<1>5. QED
  BY <1>4, RoundBound DEF WholeAverage

LEMMA AverageAgrees ==
    ASSUME NEW S, IsFiniteSet(S), NEW f, NEW k, \A x \in S : f[x] = k[x]
    PROVE  Average(f, S) = Average(k, S)
<1>1. TotalOf(f, S) = TotalOf(k, S)
  BY TotalsAgree
<1>2. QED
  BY <1>1 DEF Average

-----------------------------------------------------------------------------
(* The types.                                                              *)

Phases == {"answers"} \cup Early \cup Scored

LEMMA HeldFacts ==
    ASSUME RequestInv, NEW r \in Submitters, Opened(r)
    PROVE  /\ IsHeld(local[r]) /\ local[r].quiz \in Quizzes
           /\ MyModule(r) \in Modules /\ MyLesson(r) \in Lessons
           /\ Above(local[r].quiz) \subseteq Modules \cup Lessons \cup {"path"}
BY TreeAssumption DEF RequestInv, IsHeld, MyModule, MyLesson, Above

LEMMA QuizTypeInit == QuizInit => TypeInv
<1> SUFFICES ASSUME QuizInit PROVE TypeInv
  OBVIOUS
<1>1. RowInv
  <2>1. /\ \A z \in Quizzes : scan[z] \in Orders(z)
        /\ DOMAIN scan = Quizzes /\ scan = [z \in Quizzes |-> scan[z]]
    BY DEF QuizInit, Orders
  <2>2. scan \in [Quizzes -> Seq(Questions)]
    BY <2>1, OrderFacts
  <2>3. quiz \in [Quizzes -> QuizRow]
    BY FullFacts DEF QuizInit, QuizRow, NewQuiz
  <2>4. QED
    BY <2>1, <2>2, <2>3 DEF QuizInit, RowInv
<1>2. RequestInv
  BY DEF QuizInit, RequestInv, Opened
<1>3. HistoryInv
  BY DEF QuizInit, HistoryInv
<1>4. QED
  BY <1>1, <1>2, <1>3 DEF TypeInv

\* What a step of request r makes of local.
LocalStep(r) ==
    /\ DOMAIN local' = DOMAIN local
    /\ IsHeld(local'[r])
    /\ \A o \in (Submitters \cup Clears) \ {r} : local'[o] = local[o]

\* What request r answers stays the same.
AnswersKept(r) ==
    /\ local'[r].quiz = local[r].quiz
    /\ local'[r].page = local[r].page
    /\ local'[r].right = local[r].right
    /\ local'[r].order = local[r].order
    /\ local'[r].done = local[r].done
    /\ local'[r].correct = local[r].correct

LEMMA RequestKept ==
    ASSUME RequestInv, NEW r \in Submitters, NEW p \in Phases, phase' = [phase EXCEPT ![r] = p], LocalStep(r)
    PROVE  RequestInv'
BY DEF RequestInv, Opened, Phases, Early, Scored, LocalStep

-----------------------------------------------------------------------------
(* What each action leaves in the hands of the request that takes it.      *)

LEMMA OpenLocal ==
    ASSUME TypeInv, NEW r \in Submitters, Open(r)
    PROVE  /\ LocalStep(r)
           /\ local'[r].page = scan[local'[r].quiz] /\ local'[r].done = 0 /\ local'[r].correct = 0
<1>1. PICK z \in Quizzes : \E right \in [QuestionsOf(z) -> BOOLEAN] :
         local' = [local EXCEPT ![r] =
            [quiz |-> z, page |-> scan[z], right |-> right, order |-> scan[z],
             done |-> 0, correct |-> 0, module |-> 0, quizzes |-> quiz,
             lesson |-> 0, lessons |-> lessonProgress, path |-> 0]]
  BY DEF Open
<1>2. PICK right \in [QuestionsOf(z) -> BOOLEAN] :
         local' = [local EXCEPT ![r] =
            [quiz |-> z, page |-> scan[z], right |-> right, order |-> scan[z],
             done |-> 0, correct |-> 0, module |-> 0, quizzes |-> quiz,
             lesson |-> 0, lessons |-> lessonProgress, path |-> 0]]
  BY <1>1
<1> DEFINE s == scan[z]
<1>3. /\ s \in Orders(z) /\ DOMAIN local = Submitters \cup Clears
      /\ quiz \in [Quizzes -> QuizRow] /\ lessonProgress \in [Lessons -> 0..100]
  BY DEF TypeInv, RowInv, RequestInv
<1>4. local' = [local EXCEPT ![r] =
            [quiz |-> z, page |-> s, right |-> right, order |-> s,
             done |-> 0, correct |-> 0, module |-> 0, quizzes |-> quiz,
             lesson |-> 0, lessons |-> lessonProgress, path |-> 0]]
  BY <1>2
<1>5. /\ DOMAIN local' = DOMAIN local
      /\ \A o \in (Submitters \cup Clears) \ {r} : local'[o] = local[o]
      /\ local'[r] = [quiz |-> z, page |-> s, right |-> right, order |-> s,
             done |-> 0, correct |-> 0, module |-> 0, quizzes |-> quiz,
             lesson |-> 0, lessons |-> lessonProgress, path |-> 0]
  BY <1>3, <1>4
<1>6. local'[r].quiz = z /\ local'[r].page = s /\ local'[r].done = 0 /\ local'[r].correct = 0
  BY <1>5
<1> HIDE DEF s
<1>7. Size(z) \in Nat /\ 0 \in 0..Full
  BY <1>3, OrderFacts, FullFacts
<1>8. IsHeld(local'[r])
  BY <1>3, <1>5, <1>7 DEF IsHeld
<1>9. QED
  BY <1>5, <1>6, <1>8 DEF LocalStep, s

LEMMA LoadLocal ==
    ASSUME TypeInv, NEW r \in Submitters, Load(r)
    PROVE  /\ LocalStep(r) /\ AnswersKept(r)
           /\ local'[r].module = 100 * moduleProgress[MyModule(r)]
           /\ local'[r].lesson = lessonProgress[MyLesson(r)]
           /\ local'[r].path = pathProgress
<1> DEFINE m == 100 * moduleProgress[MyModule(r)]
           l == lessonProgress[MyLesson(r)]
<1>1. Opened(r) /\ RequestInv /\ DOMAIN local = Submitters \cup Clears
  BY DEF Load, Proceed, Opened, TypeInv, RequestInv
<1>2. moduleProgress[MyModule(r)] \in 0..100 /\ l \in 0..100 /\ pathProgress \in 0..100
  BY <1>1, HeldFacts, SMTT(30) DEF TypeInv, RowInv
<1>3. m \in 0..Full
  BY <1>2, FullFacts, SMTT(30)
<1>4. local' = [local EXCEPT ![r].module = m, ![r].lesson = l, ![r].path = pathProgress]
  BY DEF Load
<1>5. IsHeld(local[r])
  BY <1>1, HeldFacts
<1> HIDE DEF m, l
<1>6. LocalStep(r)
  BY <1>1, <1>2, <1>3, <1>4, <1>5 DEF IsHeld, LocalStep
<1>7. AnswersKept(r) /\ local'[r].module = m /\ local'[r].lesson = l /\ local'[r].path = pathProgress
  BY <1>1, <1>4, <1>5 DEF IsHeld, AnswersKept
<1>8. QED
  BY <1>6, <1>7 DEF m, l

LEMMA ReadQuestionsLocal ==
    ASSUME TypeInv, NEW r \in Submitters, ReadQuestions(r)
    PROVE  /\ LocalStep(r)
           /\ local'[r].order = scan[local[r].quiz]
           /\ local'[r].quiz = local[r].quiz /\ local'[r].page = local[r].page
           /\ local'[r].right = local[r].right
           /\ local'[r].done = local[r].done /\ local'[r].correct = local[r].correct
           /\ local'[r].module = local[r].module /\ local'[r].lesson = local[r].lesson
           /\ local'[r].path = local[r].path
<1> DEFINE s == scan[local[r].quiz]
<1>1. Opened(r) /\ RequestInv /\ DOMAIN local = Submitters \cup Clears
  BY DEF ReadQuestions, Proceed, Opened, TypeInv, RequestInv
<1>2. IsHeld(local[r]) /\ s \in Orders(local[r].quiz)
  BY <1>1, HeldFacts DEF TypeInv, RowInv
<1>3. local' = [local EXCEPT ![r].order = s]
  BY DEF ReadQuestions
<1> HIDE DEF s
<1>4. LocalStep(r)
  BY <1>1, <1>2, <1>3 DEF IsHeld, LocalStep
<1>5. QED
  BY <1>1, <1>2, <1>3, <1>4 DEF IsHeld, s

LEMMA ReorderedFacts ==
    ASSUME NEW z \in Quizzes, NEW s \in Orders(z), NEW x, NEW t \in Reordered(s, x)
    PROVE  t \in Orders(z)
BY OrderFacts DEF Reordered, Orders

LEMMA StoreAnswerLocal ==
    ASSUME TypeInv, NEW r \in Submitters, StoreAnswer(r)
    PROVE  LET n == local[r].done + 1
               x == local[r].order[n]
           IN  /\ LocalStep(r)
               /\ local'[r].quiz = local[r].quiz /\ local'[r].page = local[r].page
               /\ local'[r].right = local[r].right /\ local'[r].order = local[r].order
               /\ n \in 1..Size(local[r].quiz) /\ local'[r].done = n
               /\ local'[r].correct = IF local[r].page[n] = x /\ local[r].right[x]
                                      THEN local[r].correct + 1 ELSE local[r].correct
               /\ local'[r].module = local[r].module /\ local'[r].lesson = local[r].lesson
               /\ local'[r].path = local[r].path
<1> DEFINE n == local[r].done + 1
           x == local[r].order[n]
           c == IF local[r].page[n] = x /\ local[r].right[x] THEN local[r].correct + 1 ELSE local[r].correct
<1>1. Opened(r) /\ RequestInv /\ DOMAIN local = Submitters \cup Clears
  BY DEF StoreAnswer, Opened, TypeInv, RequestInv
<1>2. IsHeld(local[r])
  BY <1>1, HeldFacts
<1>3. Len(local[r].order) = Size(local[r].quiz) /\ Size(local[r].quiz) \in Nat
  BY <1>2, OrderFacts DEF IsHeld
<1>4. local[r].done < Len(local[r].order)
  BY DEF StoreAnswer
<1>5. n \in 1..Size(local[r].quiz)
  BY <1>2, <1>3, <1>4 DEF IsHeld
<1>6. c \in 0..n
  BY <1>2, <1>3 DEF IsHeld
<1>7. local' = [local EXCEPT ![r].done = n, ![r].correct = c]
  BY DEF StoreAnswer
<1> HIDE DEF n, c
<1>8. n \in 0..Size(local[r].quiz)
  BY <1>3, <1>5
<1>9. LocalStep(r)
  BY <1>1, <1>2, <1>6, <1>7, <1>8 DEF IsHeld, LocalStep
<1>10. /\ local'[r].quiz = local[r].quiz /\ local'[r].page = local[r].page
       /\ local'[r].right = local[r].right /\ local'[r].order = local[r].order
       /\ local'[r].done = n /\ local'[r].correct = c
       /\ local'[r].module = local[r].module /\ local'[r].lesson = local[r].lesson
       /\ local'[r].path = local[r].path
  BY <1>1, <1>2, <1>7 DEF IsHeld
<1>11. QED
  BY <1>5, <1>9, <1>10 DEF n, c

LEMMA StoreScoreLocal ==
    ASSUME TypeInv, NEW r \in Submitters, StoreScore(r)
    PROVE  LET z == local[r].quiz
               row == [status |-> "completed", score |-> Percent(local[r].correct, Size(z))]
           IN  /\ LocalStep(r) /\ AnswersKept(r)
               /\ Size(z) \in Nat \ {0} /\ local[r].done = Size(z)
               /\ row \in QuizRow
               /\ quiz' = [quiz EXCEPT ![z] = row]
               /\ local'[r].quizzes[z] = row
               /\ local'[r].module = local[r].module /\ local'[r].lesson = local[r].lesson
               /\ local'[r].path = local[r].path
<1> DEFINE z == local[r].quiz
           row == [status |-> "completed", score |-> Percent(local[r].correct, Size(z))]
           loaded == [local[r].quizzes EXCEPT ![z] = row]
<1>1. Opened(r) /\ RequestInv /\ DOMAIN local = Submitters \cup Clears
  BY DEF StoreScore, Proceed, Opened, TypeInv, RequestInv
<1>2. IsHeld(local[r])
  BY <1>1, HeldFacts
<1>3. Len(local[r].order) = Size(z) /\ Size(z) \in Nat
  BY <1>2, OrderFacts DEF IsHeld
<1>4. Size(z) \in Nat \ {0} /\ local[r].done = Size(z)
  BY <1>3 DEF StoreScore
<1>5. Percent(local[r].correct, Size(z)) \in 0..Full
  <2>1. local[r].correct \in 0..Size(z)
    BY <1>2, <1>4 DEF IsHeld
  <2>2. QED
    BY <1>4, <2>1, PercentBound
<1>6. row \in QuizRow
  BY <1>5 DEF QuizRow
<1>7. /\ quiz' = [quiz EXCEPT ![z] = [status |-> "completed",
                                      score |-> Percent(local[r].correct, Len(local[r].order))]]
      /\ local' = [local EXCEPT ![r].quizzes = [local[r].quizzes EXCEPT ![z] = quiz'[z]]]
  BY DEF StoreScore
<1>8. quiz' = [quiz EXCEPT ![z] = row]
  BY <1>3, <1>7
<1> HIDE DEF row
<1>9. quiz'[z] = row
  BY <1>2, <1>8 DEF TypeInv, RowInv, IsHeld
<1>10. local' = [local EXCEPT ![r].quizzes = loaded]
  BY <1>7, <1>9
<1>11. loaded \in [Quizzes -> QuizRow] /\ loaded[z] = row
  BY <1>2, <1>6 DEF IsHeld
<1> HIDE DEF loaded, z
<1>12. LocalStep(r)
  BY <1>1, <1>2, <1>10, <1>11 DEF IsHeld, LocalStep
<1>13. /\ AnswersKept(r) /\ local'[r].quizzes = loaded
       /\ local'[r].module = local[r].module /\ local'[r].lesson = local[r].lesson
       /\ local'[r].path = local[r].path
  BY <1>1, <1>2, <1>10 DEF IsHeld, AnswersKept
<1>14. QED
  BY <1>4, <1>6, <1>8, <1>11, <1>12, <1>13 DEF z, row

LEMMA ReadQuizzesLocal ==
    ASSUME TypeInv, NEW r \in Submitters, ReadQuizzes(r)
    PROVE  /\ LocalStep(r) /\ AnswersKept(r)
           /\ local'[r].quizzes = [quiz EXCEPT ![local[r].quiz] = local[r].quizzes[local[r].quiz]]
           /\ local'[r].module = local[r].module /\ local'[r].lesson = local[r].lesson
           /\ local'[r].path = local[r].path
<1> DEFINE loaded == [quiz EXCEPT ![local[r].quiz] = local[r].quizzes[local[r].quiz]]
<1>1. Opened(r) /\ RequestInv /\ DOMAIN local = Submitters \cup Clears
  BY DEF ReadQuizzes, Proceed, Opened, TypeInv, RequestInv
<1>2. IsHeld(local[r])
  BY <1>1, HeldFacts
<1>3. loaded \in [Quizzes -> QuizRow]
  BY <1>2 DEF TypeInv, RowInv, IsHeld
<1>4. local' = [local EXCEPT ![r].quizzes = loaded]
  BY DEF ReadQuizzes
<1> HIDE DEF loaded
<1>5. LocalStep(r)
  BY <1>1, <1>2, <1>3, <1>4 DEF IsHeld, LocalStep
<1>6. /\ AnswersKept(r) /\ local'[r].quizzes = loaded
      /\ local'[r].module = local[r].module /\ local'[r].lesson = local[r].lesson
      /\ local'[r].path = local[r].path
  BY <1>1, <1>2, <1>4 DEF IsHeld, AnswersKept
<1>7. QED
  BY <1>5, <1>6 DEF loaded

\* The average of the quizzes that request r holds of its module.
HeldAverage(r) ==
    Average(Scores(local[r].quizzes), Completed(local[r].quizzes, QuizzesOf(MyModule(r))))

LEMMA StoreAverageLocal ==
    ASSUME TypeInv, NEW r \in Submitters, StoreAverage(r)
    PROVE  /\ LocalStep(r) /\ AnswersKept(r)
           /\ HeldAverage(r) \in 0..Full
           /\ HeldAverage(r) \div 100 \in 0..100
           /\ moduleProgress' = [moduleProgress EXCEPT ![MyModule(r)] = HeldAverage(r) \div 100]
           /\ local'[r].module = HeldAverage(r)
           /\ local'[r].quizzes = local[r].quizzes
           /\ local'[r].lesson = local[r].lesson /\ local'[r].path = local[r].path
<1> DEFINE S == Completed(local[r].quizzes, QuizzesOf(MyModule(r)))
<1>1. Opened(r) /\ RequestInv /\ DOMAIN local = Submitters \cup Clears
  BY DEF StoreAverage, Proceed, Opened, TypeInv, RequestInv
<1>2. IsHeld(local[r])
  BY <1>1, HeldFacts
<1>3. IsFiniteSet(S) /\ \A z \in S : Scores(local[r].quizzes)[z] \in 0..Full
  <2>1. S \in SUBSET Quizzes
    BY DEF Completed, QuizzesOf
  <2>2. \A z \in Quizzes : Scores(local[r].quizzes)[z] \in 0..Full
    <3>1. local[r].quizzes \in [Quizzes -> QuizRow]
      BY <1>2 DEF IsHeld
    <3>2. ASSUME NEW z \in Quizzes PROVE local[r].quizzes[z].score \in 0..Full
      <4>1. local[r].quizzes[z] \in QuizRow
        BY ONLY <3>1, z \in Quizzes, Zenon
      <4>2. \A row \in QuizRow : row.score \in 0..Full
        BY ONLY ZenonT(40) DEF QuizRow
      <4>3. QED
        BY ONLY <4>1, <4>2, Zenon
    <3>3. QED
      BY ONLY <3>2, Zenon DEF Scores
  <2> HIDE DEF S
  <2>3. QED
    BY <2>1, <2>2, TreeAssumption, FS_Subset
<1> HIDE DEF S
<1>4. HeldAverage(r) \in 0..Full
  BY <1>3, FullFacts, AverageBound, ZenonT(40) DEF HeldAverage, S
<1>5. HeldAverage(r) \div 100 \in 0..100
  BY <1>4, WholePercents
<1>6. /\ moduleProgress' = [moduleProgress EXCEPT ![MyModule(r)] = HeldAverage(r) \div 100]
      /\ local' = [local EXCEPT ![r].module = HeldAverage(r)]
  BY DEF StoreAverage, HeldAverage
<1>7. LocalStep(r)
  BY <1>1, <1>2, <1>4, <1>6 DEF IsHeld, LocalStep
<1>8. /\ AnswersKept(r) /\ local'[r].module = HeldAverage(r) /\ local'[r].quizzes = local[r].quizzes
      /\ local'[r].lesson = local[r].lesson /\ local'[r].path = local[r].path
  BY <1>1, <1>2, <1>6 DEF IsHeld, AnswersKept
<1>9. QED
  BY <1>4, <1>5, <1>6, <1>7, <1>8

\* The module's progress, from the quizzes that request r holds.
HeldWhole(r) ==
    WholeAverage(local[r].quizzes, Completed(local[r].quizzes, QuizzesOf(MyModule(r))))

LEMMA UpdateModuleProgressLocal ==
    ASSUME TypeInv, NEW r \in Submitters, UpdateModuleProgress(r),
           Completed(local[r].quizzes, QuizzesOf(MyModule(r))) # {}
    PROVE  /\ LocalStep(r) /\ AnswersKept(r)
           /\ HeldWhole(r) \in 0..100
           /\ moduleProgress' = IF local[r].module = 100 * HeldWhole(r) THEN moduleProgress
                                ELSE [moduleProgress EXCEPT ![MyModule(r)] = HeldWhole(r)]
           /\ local'[r].module = 100 * HeldWhole(r)
           /\ local'[r].quizzes = local[r].quizzes
           /\ local'[r].lesson = local[r].lesson /\ local'[r].path = local[r].path
<1> DEFINE S == Completed(local[r].quizzes, QuizzesOf(MyModule(r)))
           h == 100 * HeldWhole(r)
<1>1. Opened(r) /\ RequestInv /\ DOMAIN local = Submitters \cup Clears
  BY DEF UpdateModuleProgress, Proceed, Opened, TypeInv, RequestInv
<1>2. IsHeld(local[r])
  BY <1>1, HeldFacts
<1>3. S \in SUBSET Quizzes
  BY SMTT(30) DEF Completed, QuizzesOf
<1>4. HeldWhole(r) \in 0..100
  <2>1. local[r].quizzes \in [Quizzes -> QuizRow] /\ S # {}
    BY <1>2 DEF IsHeld
  <2> HIDE DEF S
  <2>2. WholeAverage(local[r].quizzes, S) \in 0..100
    BY <1>3, <2>1, WholeAverageBound, SMTT(30)
  <2>3. QED
    BY <2>2, SMTT(30) DEF HeldWhole, S
<1>5. h \in 0..Full
  BY <1>4, FullFacts
<1>6. /\ moduleProgress' = IF local[r].module = h THEN moduleProgress
                           ELSE [moduleProgress EXCEPT ![MyModule(r)] = HeldWhole(r)]
      /\ local' = [local EXCEPT ![r].module = h]
  BY DEF UpdateModuleProgress, HeldWhole
<1> HIDE DEF h
<1>7. LocalStep(r)
  BY <1>1, <1>2, <1>5, <1>6 DEF IsHeld, LocalStep
<1>8. /\ AnswersKept(r) /\ local'[r].module = h /\ local'[r].quizzes = local[r].quizzes
      /\ local'[r].lesson = local[r].lesson /\ local'[r].path = local[r].path
  BY <1>1, <1>2, <1>6 DEF IsHeld, AnswersKept
<1>9. QED
  BY <1>4, <1>6, <1>7, <1>8 DEF h

LEMMA ReadModulesLocal ==
    ASSUME TypeInv, NEW r \in Submitters, ReadModulesOfLesson(r)
    PROVE  LET mine == [moduleProgress EXCEPT ![MyModule(r)] = local[r].module \div 100]
           IN  /\ LocalStep(r) /\ AnswersKept(r)
               /\ local'[r].lessons[MyLesson(r)] = Average(mine, ModulesOf(MyLesson(r)))
               /\ local'[r].quizzes = local[r].quizzes /\ local'[r].module = local[r].module
               /\ local'[r].lesson = local[r].lesson /\ local'[r].path = local[r].path
<1> DEFINE mine == [moduleProgress EXCEPT ![MyModule(r)] = local[r].module \div 100]
           S == ModulesOf(MyLesson(r))
           a == Average(mine, S)
           loaded == [lessonProgress EXCEPT ![MyLesson(r)] = a]
<1>1. Opened(r) /\ RequestInv /\ DOMAIN local = Submitters \cup Clears
  BY DEF ReadModulesOfLesson, Proceed, Opened, TypeInv, RequestInv
<1>2. IsHeld(local[r]) /\ MyLesson(r) \in Lessons
  BY <1>1, HeldFacts
<1>3. local[r].module \div 100 \in 0..100
  BY <1>2, WholePercents DEF IsHeld
<1>4. a \in 0..100
  <2>1. mine \in [Modules -> 0..100] /\ S \in SUBSET Modules
    BY <1>3 DEF TypeInv, RowInv, ModulesOf
  <2> HIDE DEF mine, S
  <2>2. \A m \in S : mine[m] \in 0..100
    BY <2>1
  <2>3. IsFiniteSet(S)
    BY <2>1, TreeAssumption, FS_Subset
  <2>4. QED
    BY <2>2, <2>3, AverageBound
<1>5. local' = [local EXCEPT ![r].lessons = loaded]
  BY DEF ReadModulesOfLesson
<1> HIDE DEF a
<1>6. loaded \in [Lessons -> 0..100] /\ loaded[MyLesson(r)] = a
  BY <1>2, <1>4 DEF TypeInv, RowInv
<1> HIDE DEF loaded
<1>7. LocalStep(r)
  BY <1>1, <1>2, <1>5, <1>6 DEF IsHeld, LocalStep
<1>8. /\ AnswersKept(r) /\ local'[r].lessons = loaded
      /\ local'[r].quizzes = local[r].quizzes /\ local'[r].module = local[r].module
      /\ local'[r].lesson = local[r].lesson /\ local'[r].path = local[r].path
  BY <1>1, <1>2, <1>5 DEF IsHeld, AnswersKept
<1>9. QED
  BY <1>6, <1>7, <1>8 DEF a

LEMMA StoreLessonLocal ==
    ASSUME TypeInv, NEW r \in Submitters, StoreLessonProgress(r)
    PROVE  LET l == MyLesson(r)
               new == local[r].lessons[l]
           IN  /\ LocalStep(r) /\ AnswersKept(r)
               /\ new \in 0..100
               /\ lessonProgress' = IF local[r].lesson = new THEN lessonProgress
                                    ELSE [lessonProgress EXCEPT ![l] = new]
               /\ local'[r].lesson = new
               /\ local'[r].quizzes = local[r].quizzes /\ local'[r].module = local[r].module
               /\ local'[r].path = local[r].path
<1> DEFINE new == local[r].lessons[MyLesson(r)]
<1>1. Opened(r) /\ RequestInv /\ DOMAIN local = Submitters \cup Clears
  BY DEF StoreLessonProgress, Proceed, Opened, TypeInv, RequestInv
<1>2. IsHeld(local[r]) /\ MyLesson(r) \in Lessons
  BY <1>1, HeldFacts
<1>3. new \in 0..100
  BY <1>2 DEF IsHeld
<1>4. /\ lessonProgress' = IF local[r].lesson = new THEN lessonProgress
                           ELSE [lessonProgress EXCEPT ![MyLesson(r)] = new]
      /\ local' = [local EXCEPT ![r].lesson = new]
  BY DEF StoreLessonProgress
<1> HIDE DEF new
<1>5. LocalStep(r)
  BY <1>1, <1>2, <1>3, <1>4 DEF IsHeld, LocalStep
<1>6. /\ AnswersKept(r) /\ local'[r].lesson = new
      /\ local'[r].quizzes = local[r].quizzes /\ local'[r].module = local[r].module
      /\ local'[r].path = local[r].path
  BY <1>1, <1>2, <1>4 DEF IsHeld, AnswersKept
<1>7. QED
  BY <1>3, <1>4, <1>5, <1>6 DEF new

LEMMA ReadLessonsLocal ==
    ASSUME TypeInv, NEW r \in Submitters, ReadLessonsOfPath(r)
    PROVE  /\ LocalStep(r) /\ AnswersKept(r)
           /\ local'[r].lessons = [lessonProgress EXCEPT ![MyLesson(r)] = local[r].lesson]
           /\ local'[r].quizzes = local[r].quizzes /\ local'[r].module = local[r].module
           /\ local'[r].lesson = local[r].lesson /\ local'[r].path = local[r].path
<1> DEFINE loaded == [lessonProgress EXCEPT ![MyLesson(r)] = local[r].lesson]
<1>1. Opened(r) /\ RequestInv /\ DOMAIN local = Submitters \cup Clears
  BY DEF ReadLessonsOfPath, Proceed, Opened, TypeInv, RequestInv
<1>2. IsHeld(local[r])
  BY <1>1, HeldFacts
<1>3. loaded \in [Lessons -> 0..100]
  BY <1>2 DEF IsHeld, TypeInv, RowInv
<1>4. local' = [local EXCEPT ![r].lessons = loaded]
  BY DEF ReadLessonsOfPath
<1> HIDE DEF loaded
<1>5. LocalStep(r)
  BY <1>1, <1>2, <1>3, <1>4 DEF IsHeld, LocalStep
<1>6. /\ AnswersKept(r) /\ local'[r].lessons = loaded
      /\ local'[r].quizzes = local[r].quizzes /\ local'[r].module = local[r].module
      /\ local'[r].lesson = local[r].lesson /\ local'[r].path = local[r].path
  BY <1>1, <1>2, <1>4 DEF IsHeld, AnswersKept
<1>7. QED
  BY <1>5, <1>6 DEF loaded

-----------------------------------------------------------------------------
(* The types are kept.                                                     *)

LEMMA ReorderedRows ==
    ASSUME TypeInv, NEW r \in Submitters, StoreAnswer(r)
    PROVE  /\ choice' \in [Questions -> {"none", "right", "wrong"}]
           /\ scan' \in [Quizzes -> Seq(Questions)] /\ \A z \in Quizzes : scan'[z] \in Orders(z)
           /\ \A z \in Quizzes \ {local[r].quiz} : scan'[z] = scan[z]
<1>1. local[r].quiz \in Quizzes
  BY HeldFacts DEF StoreAnswer, Opened, TypeInv
<1>2. PICK s \in Reordered(scan[local[r].quiz], local[r].order[local[r].done + 1]) :
        scan' = [scan EXCEPT ![local[r].quiz] = s]
  BY DEF StoreAnswer
<1>3. s \in Orders(local[r].quiz) /\ s \in Seq(Questions)
  BY <1>1, ReorderedFacts, OrderFacts DEF TypeInv, RowInv
<1>4. choice' \in [Questions -> {"none", "right", "wrong"}]
  BY DEF StoreAnswer, TypeInv, RowInv
<1>5. QED
  BY <1>1, <1>2, <1>3, <1>4 DEF TypeInv, RowInv

\* The module's progress has a quiz to be computed from: that of the submission.
LEMMA FinishedHeld ==
    ASSUME TypeInv, AnswersInv, NEW r \in Submitters, UpdateModuleProgress(r)
    PROVE  Completed(local[r].quizzes, QuizzesOf(MyModule(r))) # {}
<1>1. Opened(r) /\ phase[r] \in Scored
  BY DEF UpdateModuleProgress, Proceed, Opened, Scored
<1>2. IsHeld(local[r]) /\ local[r].quizzes[local[r].quiz].status = "completed"
  BY <1>1, HeldFacts DEF AnswersInv, AnswersOf, TypeInv
<1>3. local[r].quiz \in Completed(local[r].quizzes, QuizzesOf(MyModule(r)))
  BY <1>2 DEF IsHeld, Completed, QuizzesOf, MyModule
<1>4. QED
  BY <1>3

LEMMA StepType ==
    ASSUME TypeInv, AnswersInv, QuizNext PROVE TypeInv'
<1> USE DEF quizRows, quizHistory, Phases, Early, Scored, Proceed
<1>1. ASSUME NEW r \in Submitters, Open(r) PROVE TypeInv'
  <2>1. RequestInv'
    BY <1>1, OpenLocal, RequestKept DEF Open, TypeInv
  <2>2. QED
    BY <1>1, <2>1 DEF Open, TypeInv, RowInv, HistoryInv
<1>2. ASSUME NEW r \in Submitters, Load(r) PROVE TypeInv'
  <2>1. RequestInv'
    BY <1>2, LoadLocal, RequestKept DEF Load, TypeInv
  <2>2. \A o \in Active \cup {r} : Opened(o) /\ o \in Submitters
    BY <1>2 DEF Active, Ended, Opened, Load
  <2>3. UNION {Above(local[o].quiz) : o \in Active \cup {r}} \subseteq Modules \cup Lessons \cup {"path"}
    BY <2>2, HeldFacts DEF TypeInv
  <2>4. QED
    BY <1>2, <2>1, <2>2, <2>3 DEF Load, TypeInv, RowInv, HistoryInv
<1>3. ASSUME NEW r \in Submitters, ReadQuestions(r) PROVE TypeInv'
  <2>1. RequestInv'
    BY <1>3, ReadQuestionsLocal, RequestKept DEF ReadQuestions, TypeInv
  <2>2. local[r].quiz \in Quizzes
    BY <1>3, HeldFacts DEF ReadQuestions, Opened, TypeInv
  <2>3. QED
    BY <1>3, <2>1, <2>2 DEF ReadQuestions, TypeInv, RowInv, HistoryInv
<1>4. ASSUME NEW r \in Submitters, StoreAnswer(r) PROVE TypeInv'
  <2>1. phase' = [phase EXCEPT ![r] = "answers"]
    BY <1>4 DEF StoreAnswer, TypeInv, RequestInv
  <2>2. RequestInv'
    BY <1>4, <2>1, StoreAnswerLocal, RequestKept DEF TypeInv
  <2>3. RowInv'
    <3>1. UNCHANGED <<quiz, moduleProgress, lessonProgress, pathProgress>>
      BY <1>4 DEF StoreAnswer
    <3>2. QED
      BY <1>4, <3>1, ReorderedRows DEF TypeInv, RowInv, Orders
  <2>4. HistoryInv'
    BY <1>4 DEF StoreAnswer, TypeInv, HistoryInv
  <2>5. QED
    BY <2>2, <2>3, <2>4 DEF TypeInv
<1>5. ASSUME NEW r \in Submitters, StoreScore(r) PROVE TypeInv'
  <2>1. RequestInv'
    BY <1>5, StoreScoreLocal, RequestKept DEF StoreScore, TypeInv
  <2>2. quiz' \in [Quizzes -> QuizRow]
    BY <1>5, StoreScoreLocal DEF TypeInv, RowInv
  <2>3. QED
    BY <1>5, <2>1, <2>2, SMTT(30) DEF StoreScore, TypeInv, RowInv, HistoryInv
<1>6. ASSUME NEW r \in Submitters, ReadQuizzes(r) PROVE TypeInv'
  <2>1. RequestInv'
    BY <1>6, ReadQuizzesLocal, RequestKept DEF ReadQuizzes, TypeInv
  <2>2. QED
    BY <1>6, <2>1 DEF ReadQuizzes, TypeInv, RowInv, HistoryInv
<1>7. ASSUME NEW r \in Submitters, StoreAverage(r) PROVE TypeInv'
  <2>1. RequestInv'
    BY <1>7, StoreAverageLocal, RequestKept DEF StoreAverage, TypeInv
  <2>2. moduleProgress' \in [Modules -> 0..100]
    BY <1>7, StoreAverageLocal DEF TypeInv, RowInv
  <2>3. QED
    BY <1>7, <2>1, <2>2 DEF StoreAverage, TypeInv, RowInv, HistoryInv
<1>8. ASSUME NEW r \in Submitters, Analyse(r) PROVE TypeInv'
  <2>1. LocalStep(r)
    BY <1>8, HeldFacts DEF Analyse, LocalStep, Opened, TypeInv
  <2>2. RequestInv'
    BY <1>8, <2>1, RequestKept DEF Analyse, TypeInv
  <2>3. QED
    BY <1>8, <2>2 DEF Analyse, TypeInv, RowInv, HistoryInv
<1>9. ASSUME NEW r \in Submitters, UpdateModuleProgress(r) PROVE TypeInv'
  <2>1. RequestInv'
    BY <1>9, FinishedHeld, UpdateModuleProgressLocal, RequestKept DEF UpdateModuleProgress, TypeInv
  <2>2. moduleProgress' \in [Modules -> 0..100]
    BY <1>9, FinishedHeld, UpdateModuleProgressLocal, ZenonT(40) DEF TypeInv, RowInv
  <2>3. QED
    BY <1>9, <2>1, <2>2 DEF UpdateModuleProgress, TypeInv, RowInv, HistoryInv
<1>10. ASSUME NEW r \in Submitters, ReadModulesOfLesson(r) PROVE TypeInv'
  <2>1. RequestInv'
    BY <1>10, ReadModulesLocal, RequestKept DEF ReadModulesOfLesson, TypeInv
  <2>2. QED
    BY <1>10, <2>1 DEF ReadModulesOfLesson, TypeInv, RowInv, HistoryInv
<1>11. ASSUME NEW r \in Submitters, StoreLessonProgress(r) PROVE TypeInv'
  <2>1. RequestInv'
    BY <1>11, StoreLessonLocal, RequestKept DEF StoreLessonProgress, TypeInv
  <2>2. lessonProgress' \in [Lessons -> 0..100]
    BY <1>11, StoreLessonLocal, ZenonT(40) DEF TypeInv, RowInv
  <2>3. QED
    BY <1>11, <2>1, <2>2 DEF StoreLessonProgress, TypeInv, RowInv, HistoryInv
<1>12. ASSUME NEW r \in Submitters, ReadLessonsOfPath(r) PROVE TypeInv'
  <2>1. RequestInv'
    BY <1>12, ReadLessonsLocal, RequestKept DEF ReadLessonsOfPath, TypeInv
  <2>2. QED
    BY <1>12, <2>1 DEF ReadLessonsOfPath, TypeInv, RowInv, HistoryInv
<1>13. ASSUME NEW r \in Submitters, StorePathProgress(r) PROVE TypeInv'
  <2>1. Opened(r) /\ IsHeld(local[r])
    BY <1>13, HeldFacts DEF StorePathProgress, Opened, TypeInv
  <2>2. LocalStep(r)
    BY <1>13, <2>1 DEF StorePathProgress, LocalStep
  <2>3. RequestInv'
    BY <1>13, <2>2, RequestKept DEF StorePathProgress, TypeInv
  <2>4. Average(local[r].lessons, Lessons) \in 0..100
    BY <2>1, AverageBound, TreeAssumption, ZenonT(40) DEF IsHeld
  <2>5. QED
    BY <1>13, <2>3, <2>4 DEF StorePathProgress, TypeInv, RowInv, HistoryInv
<1>14. ASSUME NEW r \in Submitters, DivideByZero(r) PROVE TypeInv'
  <2>1. RequestInv'
    <3>1. IsHeld(local[r])
      BY <1>14, HeldFacts DEF DivideByZero, Opened, TypeInv
    <3>2. local[r].quiz \in Quizzes /\ local[r].module \in 0..Full
      BY <3>1 DEF IsHeld
    <3>3. local' = local /\ phase' = [phase EXCEPT ![r] = "failed"] /\ RequestInv
      BY <1>14 DEF DivideByZero, Proceed, TypeInv
    <3>4. /\ phase' \in [Submitters \cup Clears -> {"idle", "answers", "failed"} \cup Early \cup Scored]
          /\ phase'[r] = "failed" /\ \A q \in (Submitters \cup Clears) \ {r} : phase'[q] = phase[q]
      BY <3>3 DEF RequestInv
    <3>5. ASSUME NEW q \in Submitters \cup Clears
          PROVE  /\ phase'[q] = "idle" => local'[q] = Unread
                 /\ phase'[q] = "failed" => local'[q].quiz \in Quizzes /\ local'[q].module \in 0..Full
                 /\ Opened(q)' => q \in Submitters /\ IsHeld(local'[q])
      <4>1. CASE q = r
        BY <3>2, <3>3, <3>4, <4>1 DEF Opened
      <4>2. CASE q # r
        <5>1. phase'[q] = phase[q] /\ (Opened(q)' <=> Opened(q))
          BY <3>4, <4>2 DEF Opened
        <5>2. QED
          BY <3>3, <5>1 DEF RequestInv
      <4>3. QED
        BY <4>1, <4>2
    <3>6. QED
      BY <3>3, <3>4, <3>5 DEF RequestInv
  <2>2. QED
    BY <1>14, <2>1 DEF DivideByZero, TypeInv, RowInv, HistoryInv
<1>15. ASSUME NEW r \in Submitters, SubmissionFails(r) PROVE TypeInv'
  <2>1. Opened(r)
    BY <1>15, SMTT(30) DEF SubmissionFails, Ended, Opened
  <2>2. RequestInv'
    <3>1. IsHeld(local[r])
      BY <2>1, HeldFacts DEF TypeInv
    <3>2. QED
      BY <1>15, <3>1 DEF SubmissionFails, TypeInv, RequestInv, Opened, IsHeld
  <2>3. QED
    BY <1>15, <2>1, <2>2, HeldFacts, SMTT(30) DEF SubmissionFails, TypeInv, RowInv, HistoryInv
<1>16. ASSUME NEW r \in Clears, ClearRaises(r) PROVE TypeInv'
  <2>1. RequestInv'
    <3>1. PICK z \in Quizzes : local' = [local EXCEPT ![r] = [quiz |-> z, module |-> 0]]
      BY <1>16 DEF ClearRaises
    <3>2. /\ DOMAIN local = Submitters \cup Clears
          /\ local'[r] = [quiz |-> z, module |-> 0]
      BY <3>1 DEF TypeInv, RequestInv
    <3>4. 0 \in 0..Full
      BY FullFacts
    <3>5. local'[r].quiz \in Quizzes /\ local'[r].module \in 0..Full
      BY <3>2, <3>4
    <3>3. QED
      BY <1>16, <3>1, <3>2, <3>5 DEF ClearRaises, TypeInv, RequestInv, Opened
  <2>2. QED
    BY <1>16, <2>1 DEF ClearRaises, TypeInv, RowInv, HistoryInv
<1>17. QED
  BY <1>1, <1>2, <1>3, <1>4, <1>5, <1>6, <1>7, <1>8, <1>9, <1>10, <1>11, <1>12, <1>13, <1>14,
     <1>15, <1>16 DEF QuizNext

-----------------------------------------------------------------------------
(* The answers that a request holds.                                       *)

LEMMA AnswersOfOthers ==
    ASSUME TypeInv, NEW o \in Submitters, AnswersOf(o),
           local'[o] = local[o], phase'[o] = phase[o], overtaken \subseteq overtaken',
           o \notin overtaken' /\ phase[o] \in Early => scan'[local[o].quiz] = scan[local[o].quiz],
           \A x \in Questions : choice[x] # "none" => choice'[x] # "none"
    PROVE  AnswersOf(o)'
<1> SUFFICES ASSUME Opened(o) PROVE AnswersOf(o)'
  BY DEF AnswersOf, Opened
<1>1. Credited(o, local[o].done)' = Credited(o, local[o].done)
  BY DEF Credited
<1>2. Size(local[o].quiz)' = Size(local[o].quiz)
  BY DEF Size
<1>3. IsHeld(local[o])
  BY HeldFacts DEF TypeInv
<1>4. \A i \in 1..local[o].done : local[o].order[i] \in Questions
  <2>1. /\ local[o].order \in [1..Size(local[o].quiz) -> QuestionsOf(local[o].quiz)]
        /\ Size(local[o].quiz) \in Nat
    BY <1>3, OrderFacts DEF IsHeld
  <2>2. local[o].done \in 0..Size(local[o].quiz)
    BY <1>3 DEF IsHeld
  <2>3. QED
    BY <2>1, <2>2 DEF QuestionsOf
<1>5. QED
  BY <1>1, <1>2, <1>4 DEF AnswersOf, Early, Scored

LEMMA CreditedFacts ==
    ASSUME NEW r \in Submitters, IsHeld(local[r]), NEW n
    PROVE  IsFiniteSet(Credited(r, n))
<1>1. Credited(r, n) \subseteq QuestionsOf(local[r].quiz)
  BY SMTT(30) DEF Credited
<1>2. QED
  BY <1>1, OrderFacts, FS_Subset DEF IsHeld

LEMMA CreditedStep ==
    ASSUME TypeInv, NEW r \in Submitters, StoreAnswer(r)
    PROVE  LET n == local[r].done + 1
               x == local[r].order[n]
           IN  /\ x \in QuestionsOf(local[r].quiz)
               /\ \A i \in 1..local[r].done : local[r].order[i] # x
               /\ x \notin Credited(r, local[r].done)
               /\ Credited(r, local[r].done)' = IF local[r].page[n] = x /\ local[r].right[x]
                                    THEN Credited(r, local[r].done) \cup {x}
                                    ELSE Credited(r, local[r].done)
<1> DEFINE n == local[r].done + 1
           x == local[r].order[n]
           z == local[r].quiz
<1>1. Opened(r) /\ IsHeld(local[r])
  BY HeldFacts DEF StoreAnswer, Opened, TypeInv
<1>2. /\ n \in 1..Size(z) /\ Size(z) \in Nat /\ local[r].done = n - 1
      /\ local[r].order \in [1..Size(z) -> QuestionsOf(z)]
      /\ \A i, j \in 1..Size(z) : local[r].order[i] = local[r].order[j] => i = j
  <2>1. local[r].done \in 0..Size(z) /\ z \in Quizzes /\ local[r].order \in Orders(z)
    BY <1>1 DEF IsHeld
  <2>2. n \in 1..Size(z)
    BY StoreAnswerLocal
  <2>3. /\ Size(z) \in Nat /\ local[r].order \in [1..Size(z) -> QuestionsOf(z)]
        /\ \A i, j \in 1..Size(z) : local[r].order[i] = local[r].order[j] => i = j
    <3> HIDE DEF z
    <3>1. QED
      BY <2>1, OrderFacts
  <2>4. local[r].done = n - 1
    BY <2>1, <2>3
  <2>5. QED
    BY <2>2, <2>3, <2>4
<1>3. /\ local'[r].quiz = z /\ local'[r].page = local[r].page
      /\ local'[r].right = local[r].right /\ local'[r].order = local[r].order
      /\ local'[r].done = n
  BY StoreAnswerLocal
<1> HIDE DEF n, z
<1>4. x \in QuestionsOf(z) /\ \A i \in 1..(n - 1) : local[r].order[i] # x
  BY <1>2
<1>5. x \notin Credited(r, n - 1)
  BY <1>4 DEF Credited
<1>6. Credited(r, local[r].done)' = {y \in QuestionsOf(z) :
            local[r].right[y] /\ \E i \in 1..n : local[r].order[i] = y /\ local[r].page[i] = y}
  BY <1>3 DEF Credited
<1>7. Credited(r, n - 1) = {y \in QuestionsOf(z) :
            local[r].right[y] /\ \E i \in 1..(n - 1) : local[r].order[i] = y /\ local[r].page[i] = y}
  BY DEF Credited, z
<1>8. \A i : i \in 1..n <=> i \in 1..(n - 1) \/ i = n
  BY <1>2
<1>9. CASE local[r].page[n] = x /\ local[r].right[x]
  <2>1. Credited(r, local[r].done)' = Credited(r, n - 1) \cup {x}
    BY <1>4, <1>6, <1>7, <1>8, <1>9, SMTT(30)
  <2>2. QED
    BY <1>2, <1>4, <1>5, <1>9, <2>1 DEF n, z
<1>10. CASE ~ (local[r].page[n] = x /\ local[r].right[x])
  <2>1. Credited(r, local[r].done)' = Credited(r, n - 1)
    BY <1>4, <1>6, <1>7, <1>8, <1>10
  <2>2. QED
    BY <1>2, <1>4, <1>5, <1>10, <2>1 DEF n, z
<1>11. QED
  BY <1>9, <1>10

LEMMA AnswersOfStoreAnswer ==
    ASSUME TypeInv, NEW r \in Submitters, AnswersOf(r), StoreAnswer(r)
    PROVE  AnswersOf(r)'
<1> DEFINE n == local[r].done + 1
           x == local[r].order[n]
           z == local[r].quiz
           right == local[r].page[n] = x /\ local[r].right[x]
<1>1. Opened(r) /\ IsHeld(local[r]) /\ phase[r] = "answers" /\ phase' = phase
  BY HeldFacts DEF StoreAnswer, Opened, TypeInv
<1>2. /\ local'[r].quiz = z /\ local'[r].page = local[r].page
      /\ local'[r].order = local[r].order /\ local'[r].done = n
      /\ local'[r].correct = IF right THEN local[r].correct + 1 ELSE local[r].correct
      /\ n \in 1..Size(z)
  BY StoreAnswerLocal
<1>3. local'[r].correct = Cardinality(Credited(r, local[r].done)')
  <2>1. /\ IsFiniteSet(Credited(r, local[r].done)) /\ x \notin Credited(r, local[r].done)
        /\ Credited(r, local[r].done)' = IF right THEN Credited(r, local[r].done) \cup {x}
                             ELSE Credited(r, local[r].done)
        /\ local[r].correct = Cardinality(Credited(r, local[r].done))
    BY <1>1, CreditedStep, CreditedFacts DEF AnswersOf
  <2>2. Cardinality(Credited(r, local[r].done) \cup {x}) = Cardinality(Credited(r, local[r].done)) + 1
    BY <2>1, FS_AddElement
  <2>3. QED
    BY <1>2, <2>1, <2>2
<1>4. (r \notin overtaken)' => local'[r].page = local'[r].order
  BY <1>1, <1>2 DEF StoreAnswer, AnswersOf, Early
<1>5. \A i \in 1..n : choice'[local[r].order[i]] # "none"
  <2>1. choice' = [choice EXCEPT ![x] = IF right THEN "right" ELSE "wrong"]
    BY DEF StoreAnswer
  <2>2. \A i \in 1..n : i \in 1..local[r].done \/ i = n
    BY <1>1, <1>2 DEF IsHeld
  <2>3. x \in Questions
    BY CreditedStep DEF QuestionsOf
  <2>4. \A i \in 1..local[r].done : choice[local[r].order[i]] # "none"
    BY <1>1 DEF AnswersOf
  <2>5. \A y \in Questions \ {x} : choice'[y] = choice[y]
    BY <2>1 DEF TypeInv, RowInv
  <2>6. choice'[x] # "none"
    BY <2>1, <2>3 DEF TypeInv, RowInv
  <2>7. \A i \in 1..local[r].done : local[r].order[i] \in Questions
    <3>1. /\ local[r].order \in [1..Size(z) -> QuestionsOf(z)] /\ Size(z) \in Nat
          /\ local[r].done \in 0..Size(z)
      BY <1>1, OrderFacts DEF IsHeld
    <3>2. QED
      BY <3>1 DEF QuestionsOf
  <2>8. QED
    BY <2>2, <2>4, <2>5, <2>6, <2>7
<1> HIDE DEF n
<1>6. QED
  BY <1>1, <1>2, <1>3, <1>4, <1>5 DEF AnswersOf, Early, Scored

LEMMA AnswersOfKept ==
    ASSUME TypeInv, NEW r \in Submitters, AnswersOf(r), Opened(r), AnswersKept(r),
           scan' = scan, choice' = choice, overtaken' = overtaken,
           phase'[r] \in Early <=> phase[r] \in Early,
           phase'[r] = "answers" => phase[r] = "answers",
           phase'[r] \in Scored =>
               local[r].done = Size(local[r].quiz) /\ local'[r].quizzes[local[r].quiz].status = "completed"
    PROVE  AnswersOf(r)'
<1>1. Credited(r, local[r].done)' = Credited(r, local[r].done)
  BY DEF Credited, AnswersKept
<1>2. Size(local[r].quiz)' = Size(local[r].quiz)
  BY DEF AnswersKept
<1>3. QED
  BY <1>1, <1>2 DEF AnswersOf, AnswersKept, Early, Scored

\* A step of r that writes no answers: only r's own are to be considered.
LEMMA AnswersUnwritten ==
    ASSUME TypeInv, AnswersInv, NEW r,
           \A o \in Submitters \ {r} : local'[o] = local[o] /\ phase'[o] = phase[o],
           scan' = scan, choice' = choice, overtaken' = overtaken,
           r \in Submitters => AnswersOf(r)'
    PROVE  AnswersInv'
<1>1. ASSUME NEW o \in Submitters, o # r PROVE AnswersOf(o)'
  BY <1>1, AnswersOfOthers DEF AnswersInv
<1>2. QED
  BY <1>1 DEF AnswersInv

LEMMA StepOfOne ==
    ASSUME TypeInv, NEW r \in Submitters, NEW p, phase' = [phase EXCEPT ![r] = p], LocalStep(r)
    PROVE  /\ phase'[r] = p
           /\ \A o \in Submitters \ {r} : local'[o] = local[o] /\ phase'[o] = phase[o]
BY DEF LocalStep, TypeInv, RequestInv

LEMMA StepAnswers ==
    ASSUME TypeInv, AnswersInv, QuizNext PROVE AnswersInv'
<1> USE DEF Proceed, Early, Scored
<1>1. ASSUME NEW r \in Submitters, Open(r) PROVE AnswersInv'
  <2>1. LocalStep(r) /\ local'[r].page = scan[local'[r].quiz] /\ local'[r].done = 0 /\ local'[r].correct = 0
    BY <1>1, OpenLocal
  <2>2. phase' = [phase EXCEPT ![r] = "shown"] /\ UNCHANGED <<choice, scan, overtaken>>
    BY <1>1 DEF Open, quizRows, quizHistory
  <2>3. Credited(r, local[r].done)' = {}
    BY <2>1 DEF Credited
  <2>4. phase'[r] = "shown" /\ \A o \in Submitters \ {r} : local'[o] = local[o] /\ phase'[o] = phase[o]
    BY <2>1, <2>2, StepOfOne
  <2>5. AnswersOf(r)'
    BY <2>1, <2>2, <2>3, <2>4, FS_EmptySet DEF AnswersOf
  <2>6. QED
    BY <2>2, <2>4, <2>5, AnswersUnwritten
<1>2. ASSUME NEW r \in Submitters, Load(r) PROVE AnswersInv'
  <2>1. LocalStep(r) /\ AnswersKept(r)
    BY <1>2, LoadLocal
  <2>2. phase' = [phase EXCEPT ![r] = "loaded"] /\ phase[r] = "shown" /\ UNCHANGED <<choice, scan, overtaken>>
    BY <1>2 DEF Load, quizRows
  <2>3. phase'[r] = "loaded" /\ \A o \in Submitters \ {r} : local'[o] = local[o] /\ phase'[o] = phase[o]
    BY <2>1, <2>2, StepOfOne
  <2>4. AnswersOf(r)'
    BY <2>1, <2>2, <2>3, AnswersOfKept DEF AnswersInv, Opened
  <2>5. QED
    BY <2>2, <2>3, <2>4, AnswersUnwritten
<1>3. ASSUME NEW r \in Submitters, ReadQuestions(r) PROVE AnswersInv'
  <2>1. /\ LocalStep(r) /\ local'[r].order = scan[local[r].quiz]
        /\ local'[r].quiz = local[r].quiz /\ local'[r].page = local[r].page
        /\ local'[r].done = local[r].done /\ local'[r].correct = local[r].correct
    BY <1>3, ReadQuestionsLocal
  <2>2. phase' = [phase EXCEPT ![r] = "answers"] /\ phase[r] = "loaded" /\ UNCHANGED <<choice, scan, overtaken>>
    BY <1>3 DEF ReadQuestions, quizRows
  <2>3. phase'[r] = "answers" /\ \A o \in Submitters \ {r} : local'[o] = local[o] /\ phase'[o] = phase[o]
    BY <2>1, <2>2, StepOfOne
  <2>4. /\ local[r].correct = Cardinality(Credited(r, local[r].done)) /\ local[r].done = 0
        /\ r \notin overtaken => local[r].page = scan[local[r].quiz]
    BY <2>2 DEF AnswersInv, AnswersOf, Opened
  <2>5. Credited(r, local[r].done) = {} /\ Credited(r, local[r].done)' = {}
    BY <2>1, <2>4 DEF Credited
  <2>6. AnswersOf(r)'
    BY <2>1, <2>2, <2>3, <2>4, <2>5 DEF AnswersOf
  <2>7. QED
    BY <2>2, <2>3, <2>6, AnswersUnwritten
<1>4. ASSUME NEW r \in Submitters, StoreAnswer(r) PROVE AnswersInv'
  <2>1. AnswersOf(r)'
    BY <1>4, AnswersOfStoreAnswer DEF AnswersInv
  <2>2. ASSUME NEW o \in Submitters \ {r} PROVE AnswersOf(o)'
    <3>1. local'[o] = local[o] /\ phase'[o] = phase[o] /\ overtaken \subseteq overtaken'
      <4>1. local'[o] = local[o]
        <5>1. LocalStep(r)
          BY <1>4, StoreAnswerLocal
        <5>2. QED
          BY <5>1 DEF LocalStep
      <4>2. phase' = phase /\ overtaken \subseteq overtaken'
        BY <1>4 DEF StoreAnswer
      <4>3. QED
        BY <4>1, <4>2
    <3>2. ASSUME o \notin overtaken', phase[o] \in Early PROVE scan'[local[o].quiz] = scan[local[o].quiz]
      <4>1. local[o].quiz \in Quizzes
        BY <3>2, HeldFacts DEF TypeInv, Opened
      <4>2. local[o].quiz # local[r].quiz
        BY <1>4, <3>2 DEF StoreAnswer
      <4>3. QED
        BY <1>4, <4>1, <4>2, ReorderedRows
    <3>3. \A x \in Questions : choice[x] # "none" => choice'[x] # "none"
      <4> DEFINE n == local[r].done + 1
                 y == local[r].order[n]
                 a == IF local[r].page[n] = y /\ local[r].right[y] THEN "right" ELSE "wrong"
      <4>1. choice' = [choice EXCEPT ![y] = a]
        BY <1>4, Zenon DEF StoreAnswer
      <4>2. DOMAIN choice = Questions /\ a # "none"
        BY DEF TypeInv, RowInv
      <4> HIDE DEF n, y, a
      <4>3. QED
        BY ONLY <4>1, <4>2
    <3>4. QED
      BY <3>1, <3>2, <3>3, AnswersOfOthers DEF AnswersInv
  <2>3. QED
    BY <2>1, <2>2 DEF AnswersInv
<1>5. ASSUME NEW r \in Submitters, StoreScore(r) PROVE AnswersInv'
  <2>1. /\ LocalStep(r) /\ AnswersKept(r) /\ local[r].done = Size(local[r].quiz)
        /\ local'[r].quizzes[local[r].quiz].status = "completed"
    <3>1. /\ LocalStep(r) /\ AnswersKept(r) /\ local[r].done = Size(local[r].quiz)
          /\ local'[r].quizzes[local[r].quiz] =
                [status |-> "completed", score |-> Percent(local[r].correct, Size(local[r].quiz))]
      BY <1>5, StoreScoreLocal, Zenon
    <3>2. QED
      BY <3>1
  <2>2. phase' = [phase EXCEPT ![r] = "read"] /\ phase[r] = "answers" /\ UNCHANGED <<choice, scan, overtaken>>
    BY <1>5 DEF StoreScore, quizHistory
  <2>3. phase'[r] = "read" /\ \A o \in Submitters \ {r} : local'[o] = local[o] /\ phase'[o] = phase[o]
    BY <2>1, <2>2, StepOfOne
  <2>4. AnswersOf(r)'
    BY <2>1, <2>2, <2>3, AnswersOfKept DEF AnswersInv, Opened
  <2>5. QED
    BY <2>2, <2>3, <2>4, AnswersUnwritten
<1>6. ASSUME NEW r \in Submitters, NEW p \in Scored, phase' = [phase EXCEPT ![r] = p], phase[r] \in Scored,
             LocalStep(r), AnswersKept(r), UNCHANGED <<choice, scan, overtaken>>,
             local'[r].quizzes[local[r].quiz] = local[r].quizzes[local[r].quiz]
      PROVE  AnswersInv'
  <2>1. phase'[r] = p /\ \A o \in Submitters \ {r} : local'[o] = local[o] /\ phase'[o] = phase[o]
    BY <1>6, StepOfOne
  <2>2. AnswersOf(r) /\ Opened(r)
    BY <1>6 DEF AnswersInv, Opened
  <2>3. AnswersOf(r)'
    <3>1. local[r].done = Size(local[r].quiz) /\ local'[r].quizzes[local[r].quiz].status = "completed"
      BY <1>6, <2>2, SMTT(30) DEF AnswersOf
    <3>2. QED
      BY <1>6, <2>1, <2>2, <3>1, AnswersOfKept
  <2>4. QED
    BY <1>6, <2>1, <2>3, AnswersUnwritten
<1>7. ASSUME NEW r \in Submitters, ReadQuizzes(r) PROVE AnswersInv'
  <2>1. Opened(r) /\ IsHeld(local[r])
    BY <1>7, HeldFacts DEF ReadQuizzes, Opened, TypeInv
  <2>2. local'[r].quizzes[local[r].quiz] = local[r].quizzes[local[r].quiz]
    BY <1>7, <2>1, ReadQuizzesLocal DEF IsHeld, TypeInv, RowInv
  <2>3. QED
    BY <1>6, <1>7, <2>2, ReadQuizzesLocal DEF ReadQuizzes, quizRows, quizHistory
<1>8. ASSUME NEW r \in Submitters, StoreAverage(r) PROVE AnswersInv'
  BY <1>6, <1>8, StoreAverageLocal DEF StoreAverage, quizHistory
<1>9. ASSUME NEW r \in Submitters, Analyse(r) PROVE AnswersInv'
  <2>1. LocalStep(r) /\ AnswersKept(r)
    BY <1>9, HeldFacts DEF Analyse, LocalStep, AnswersKept, Opened, TypeInv
  <2>2. QED
    BY <1>6, <1>9, <2>1 DEF Analyse, quizRows, quizHistory
<1>10. ASSUME NEW r \in Submitters, UpdateModuleProgress(r) PROVE AnswersInv'
  <2>1. LocalStep(r) /\ AnswersKept(r) /\ local'[r].quizzes = local[r].quizzes
    BY <1>10, FinishedHeld, UpdateModuleProgressLocal
  <2>2. QED
    BY <1>6, <1>10, <2>1 DEF UpdateModuleProgress, quizHistory
<1>11. ASSUME NEW r \in Submitters, ReadModulesOfLesson(r) PROVE AnswersInv'
  BY <1>6, <1>11, ReadModulesLocal DEF ReadModulesOfLesson, quizRows, quizHistory
<1>12. ASSUME NEW r \in Submitters, StoreLessonProgress(r) PROVE AnswersInv'
  BY <1>6, <1>12, StoreLessonLocal DEF StoreLessonProgress, quizHistory
<1>13. ASSUME NEW r \in Submitters, ReadLessonsOfPath(r) PROVE AnswersInv'
  BY <1>6, <1>13, ReadLessonsLocal DEF ReadLessonsOfPath, quizRows, quizHistory
<1>14. ASSUME NEW r \in Submitters, StorePathProgress(r) PROVE AnswersInv'
  <2>1. LocalStep(r) /\ AnswersKept(r)
    BY <1>14, HeldFacts DEF StorePathProgress, LocalStep, AnswersKept, Opened, TypeInv
  <2>2. QED
    BY <1>6, <1>14, <2>1 DEF StorePathProgress
<1>15. ASSUME NEW r \in Submitters, DivideByZero(r) PROVE AnswersInv'
  <2>1. AnswersOf(r)'
    BY <1>15 DEF DivideByZero, AnswersOf, Opened, TypeInv, RequestInv
  <2>2. QED
    BY <1>15, <2>1, AnswersUnwritten DEF DivideByZero, quizRows, quizHistory, TypeInv, RequestInv
<1>16. ASSUME NEW r \in Submitters, SubmissionFails(r) PROVE AnswersInv'
  <2>1. AnswersOf(r)'
    BY <1>16 DEF SubmissionFails, AnswersOf, Opened, TypeInv, RequestInv
  <2>2. QED
    BY <1>16, <2>1, AnswersUnwritten DEF SubmissionFails, quizRows, TypeInv, RequestInv
<1>17. ASSUME NEW r \in Clears, ClearRaises(r) PROVE AnswersInv'
  <2>1. AnswersOf(r)'
    BY <1>17 DEF ClearRaises, AnswersOf, Opened, TypeInv, RequestInv
  <2>2. QED
    BY <1>17, <2>1, AnswersUnwritten DEF ClearRaises, quizRows, quizHistory, TypeInv, RequestInv
<1>18. QED
  BY <1>1, <1>2, <1>3, <1>4, <1>5, <1>7, <1>8, <1>9, <1>10, <1>11, <1>12, <1>13, <1>14, <1>15, <1>16,
     <1>17 DEF QuizNext

-----------------------------------------------------------------------------
(* The answers that are stored.                                            *)

LEMMA EarnedFromAnswers ==
    ASSUME TypeInv, AnswersInv PROVE EarnedScore
<1> SUFFICES ASSUME NEW r \in Submitters \ overtaken,
                    phase[r] \notin {"idle", "shown", "loaded", "answers", "failed"}
             PROVE  local[r].correct = Cardinality({x \in DOMAIN local[r].right : local[r].right[x]})
  BY DEF EarnedScore
<1>1. phase[r] \in Scored /\ Opened(r) /\ phase[r] \notin Early
  BY DEF TypeInv, RequestInv, Early, Scored, Opened
<1>2. IsHeld(local[r])
  BY <1>1, HeldFacts DEF TypeInv
<1>3. /\ local[r].correct = Cardinality(Credited(r, Size(local[r].quiz)))
      /\ local[r].page = local[r].order
  BY <1>1 DEF AnswersInv, AnswersOf
<1>4. \A x \in QuestionsOf(local[r].quiz) : \E i \in 1..Size(local[r].quiz) : local[r].order[i] = x
  BY <1>2, OrderFacts, SMTT(30) DEF IsHeld
<1>5. DOMAIN local[r].right = QuestionsOf(local[r].quiz)
  BY <1>2 DEF IsHeld
<1>6. Credited(r, Size(local[r].quiz)) = {x \in DOMAIN local[r].right : local[r].right[x]}
  BY <1>3, <1>4, <1>5 DEF Credited
<1>7. QED
  BY <1>3, <1>6

\* A step of r that neither belongs to its storing of answers nor writes what the
\* properties of the answers compare.
Quiet(r) ==
    /\ phase[r] # "answers" /\ phase'[r] # "answers"
    /\ \A o \in Submitters \ {r} : local'[o] = local[o] /\ phase'[o] = phase[o]
    /\ choice' = choice /\ quiz' = quiz /\ mixed' = mixed

LEMMA StoredOfOthers ==
    ASSUME NEW o \in Submitters, StoredOf(o), local'[o] = local[o], phase'[o] = phase[o],
           local[o].quiz \notin mixed' => local[o].quiz \notin mixed,
           phase[o] = "answers" /\ local[o].quiz \notin mixed' =>
               /\ \A q \in Submitters : Answering(q, local[o].quiz)' => Answering(q, local[o].quiz)
               /\ \A i \in 1..local[o].done : choice'[local[o].order[i]] = choice[local[o].order[i]]
    PROVE  StoredOf(o)'
<1>1. Credited(o, local[o].done)' = Credited(o, local[o].done)
  BY DEF Credited
<1>2. QED
  BY <1>1 DEF StoredOf, Answering

LEMMA QuietStep ==
    ASSUME QuizInv, NEW r, Quiet(r)
    PROVE  StoredInv' /\ CompletedMeansAnswered' /\ ScoreOfStoredAnswers'
<1>1. \A q \in Submitters : \A z : Answering(q, z)' <=> Answering(q, z)
  BY DEF Quiet, Answering
<1>2. StoredInv'
  <2>1. r \in Submitters => StoredOf(r)'
    BY DEF Quiet, StoredOf
  <2>2. ASSUME NEW o \in Submitters, o # r PROVE StoredOf(o)'
    BY <1>1, <2>2, StoredOfOthers DEF Quiet, QuizInv, StoredInv
  <2>3. QED
    BY <2>1, <2>2 DEF StoredInv
<1>3. CompletedMeansAnswered'
  BY DEF Quiet, QuizInv, CompletedMeansAnswered
<1>4. ScoreOfStoredAnswers'
  BY <1>1 DEF Quiet, QuizInv, ScoreOfStoredAnswers, Answering
<1>5. QED
  BY <1>2, <1>3, <1>4

LEMMA StoredReadQuestions ==
    ASSUME QuizInv, NEW r \in Submitters, ReadQuestions(r)
    PROVE  StoredInv' /\ CompletedMeansAnswered' /\ ScoreOfStoredAnswers'
<1> DEFINE z == local[r].quiz
<1>1. /\ phase[r] = "loaded" /\ phase' = [phase EXCEPT ![r] = "answers"] /\ UNCHANGED <<choice, quiz>>
      /\ mixed' = IF \E o \in Submitters \ {r} : phase[o] = "answers" /\ local[o].quiz = z
                  THEN mixed \cup {z} ELSE mixed \ {z}
  BY DEF ReadQuestions, Proceed, quizRows
<1>2. /\ LocalStep(r) /\ local'[r].quiz = z /\ local'[r].done = local[r].done
  BY ReadQuestionsLocal DEF QuizInv
<1>3. phase'[r] = "answers" /\ \A o \in Submitters \ {r} : local'[o] = local[o] /\ phase'[o] = phase[o]
  BY <1>1, <1>2, StepOfOne DEF QuizInv
<1>4. local[r].done = 0
  BY <1>1 DEF QuizInv, AnswersInv, AnswersOf, Opened, Early
<1> HIDE DEF z
<1>5. ASSUME NEW o \in Submitters \ {r}, Answering(o, z) PROVE z \in mixed'
  BY <1>1, <1>5 DEF Answering
<1>6. StoredInv'
  <2>1. StoredOf(r)'
    <3>1. z \notin mixed' => \A o \in Submitters : phase'[o] = "answers" /\ local'[o].quiz = z => o = r
      BY <1>3, <1>5 DEF Answering
    <3>2. QED
      BY <1>2, <1>4, <3>1 DEF StoredOf, Answering
  <2>2. ASSUME NEW o \in Submitters \ {r} PROVE StoredOf(o)'
    <3>1. CASE ~ Answering(o, z)
      <4>1. ASSUME phase[o] = "answers"
            PROVE  /\ local[o].quiz # z
                   /\ local[o].quiz \notin mixed' => local[o].quiz \notin mixed
                   /\ \A q \in Submitters : Answering(q, local[o].quiz)' => Answering(q, local[o].quiz)
        BY <1>1, <1>2, <1>3, <3>1, <4>1 DEF Answering
      <4>2. StoredOf(o)
        BY DEF QuizInv, StoredInv
      <4>3. CASE phase[o] = "answers"
        BY <1>1, <1>3, <4>1, <4>2, <4>3, StoredOfOthers
      <4>4. CASE phase[o] # "answers"
        BY <1>3, <4>4 DEF StoredOf
      <4>5. QED
        BY <4>3, <4>4
    <3>2. CASE Answering(o, z)
      BY <1>3, <1>5, <3>2 DEF StoredOf, Answering
    <3>3. QED
      BY <3>1, <3>2
  <2>3. QED
    BY <2>1, <2>2 DEF StoredInv
<1>7. CompletedMeansAnswered'
  BY <1>1 DEF QuizInv, CompletedMeansAnswered
<1>8. ScoreOfStoredAnswers'
  <2>1. SUFFICES ASSUME NEW y \in Quizzes \ mixed', y # z, quiz[y].status = "completed"
                 PROVE  \/ \E q \in Submitters : phase'[q] = "answers" /\ local'[q].quiz = y
                        \/ quiz[y].score = Percent(Cardinality({x \in QuestionsOf(y) : choice[x] = "right"}),
                                                   Cardinality(QuestionsOf(y)))
    BY <1>1, <1>2, <1>3 DEF ScoreOfStoredAnswers
  <2>2. y \notin mixed
    BY <1>1, <2>1
  <2>3. \A q \in Submitters : phase[q] = "answers" => phase'[q] = "answers" /\ local'[q].quiz = local[q].quiz
    BY <1>1, <1>3
  <2>4. QED
    BY <2>1, <2>2, <2>3 DEF QuizInv, ScoreOfStoredAnswers
<1>9. QED
  BY <1>6, <1>7, <1>8

LEMMA StoredStoreAnswer ==
    ASSUME QuizInv, NEW r \in Submitters, StoreAnswer(r)
    PROVE  StoredInv' /\ CompletedMeansAnswered' /\ ScoreOfStoredAnswers'
<1> DEFINE n == local[r].done + 1
           x == local[r].order[n]
           z == local[r].quiz
           right == local[r].page[n] = x /\ local[r].right[x]
<1>1. /\ phase[r] = "answers" /\ phase' = phase /\ UNCHANGED <<quiz, mixed>>
      /\ choice' = [choice EXCEPT ![x] = IF right THEN "right" ELSE "wrong"]
  BY DEF StoreAnswer
<1>2. /\ LocalStep(r) /\ local'[r].quiz = z /\ local'[r].order = local[r].order /\ local'[r].done = n
      /\ n \in 1..Size(z)
  BY StoreAnswerLocal DEF QuizInv
<1>3. /\ x \in QuestionsOf(z) /\ x \in Questions /\ QuizOf[x] = z
      /\ \A i \in 1..local[r].done : local[r].order[i] # x
      /\ x \notin Credited(r, local[r].done)
      /\ Credited(r, local[r].done)' = IF right THEN Credited(r, local[r].done) \cup {x}
                                       ELSE Credited(r, local[r].done)
  BY CreditedStep DEF QuizInv, QuestionsOf
<1>4. \A i \in 1..n : i \in 1..local[r].done \/ i = n
  <2>1. IsHeld(local[r])
    BY <1>1, HeldFacts DEF QuizInv, TypeInv, Opened
  <2>2. local[r].done \in Nat
    BY <2>1, OrderFacts, SMTT(30) DEF IsHeld
  <2>3. QED
    BY <2>2
<1>5. /\ \A y : y # x => choice'[y] = choice[y]
      /\ choice'[x] = IF right THEN "right" ELSE "wrong"
  <2>1. DOMAIN choice = Questions
    BY DEF QuizInv, TypeInv, RowInv
  <2>2. QED
    BY <1>1, <1>3, <2>1
<1>6. \A q \in Submitters : \A y : Answering(q, y)' <=> Answering(q, y)
  BY <1>1, <1>2 DEF Answering, LocalStep
<1> HIDE DEF n, x, z, right
<1>7. StoredInv'
  <2>1. StoredOf(r)'
    <3>1. SUFFICES ASSUME z \notin mixed
                   PROVE  /\ \A o \in Submitters : phase'[o] = "answers" /\ local'[o].quiz = z => o = r
                          /\ \A i \in 1..n : choice'[local[r].order[i]] = "right"
                                             <=> local[r].order[i] \in Credited(r, local[r].done)'
      BY <1>1, <1>2 DEF StoredOf, Answering
    <3>2. /\ \A o \in Submitters : Answering(o, z) => o = r
          /\ \A i \in 1..local[r].done :
               choice[local[r].order[i]] = "right" <=> local[r].order[i] \in Credited(r, local[r].done)
      BY <1>1, <3>1 DEF QuizInv, StoredInv, StoredOf, z
    <3>3. \A i \in 1..local[r].done :
               choice'[local[r].order[i]] = "right" <=> local[r].order[i] \in Credited(r, local[r].done)'
      BY <1>3, <1>5, <3>2
    <3>4. choice'[x] = "right" <=> x \in Credited(r, local[r].done)'
      BY <1>3, <1>5
    <3>5. QED
      <4>1. \A o \in Submitters : phase'[o] = "answers" /\ local'[o].quiz = z => o = r
        BY <1>6, <3>2 DEF Answering
      <4>2. QED
        BY <1>4, <3>3, <3>4, <4>1 DEF x
  <2>2. ASSUME NEW o \in Submitters \ {r} PROVE StoredOf(o)'
    <3>1. local'[o] = local[o] /\ phase'[o] = phase[o]
      BY <1>1, <1>2 DEF LocalStep
    <3>2. ASSUME phase[o] = "answers", local[o].quiz \notin mixed
          PROVE  \A i \in 1..local[o].done : choice'[local[o].order[i]] = choice[local[o].order[i]]
      <4>1. local[o].quiz # z
        BY <1>1, <3>2 DEF QuizInv, StoredInv, StoredOf, Answering, z
      <4>2. IsHeld(local[o])
        BY <3>2, HeldFacts DEF QuizInv, TypeInv, Opened
      <4>3. /\ local[o].order \in [1..Size(local[o].quiz) -> QuestionsOf(local[o].quiz)]
            /\ Size(local[o].quiz) \in Nat /\ local[o].done \in 0..Size(local[o].quiz)
        BY <4>2, OrderFacts DEF IsHeld
      <4>4. \A i \in 1..local[o].done : local[o].order[i] \in QuestionsOf(local[o].quiz)
        BY <4>3
      <4>5. QED
        BY <1>3, <1>5, <4>1, <4>4 DEF QuestionsOf
    <3>3. QED
      BY <1>1, <1>6, <3>1, <3>2, StoredOfOthers DEF QuizInv, StoredInv
  <2>3. QED
    BY <2>1, <2>2 DEF StoredInv
<1>8. CompletedMeansAnswered'
  <2>1. \A y \in Questions : choice[y] # "none" => choice'[y] # "none"
    BY <1>5
  <2>2. QED
    BY <1>1, <2>1 DEF QuizInv, CompletedMeansAnswered, QuestionsOf
<1>9. ScoreOfStoredAnswers'
  <2>1. ASSUME NEW y \in Quizzes \ mixed, quiz[y].status = "completed", y # z
        PROVE  \/ \E q \in Submitters : Answering(q, y)'
               \/ quiz[y].score = Percent(Cardinality({x0 \in QuestionsOf(y) : choice'[x0] = "right"}),
                                          Cardinality(QuestionsOf(y)))
    <3>1. {x0 \in QuestionsOf(y) : choice'[x0] = "right"} = {x0 \in QuestionsOf(y) : choice[x0] = "right"}
      BY <1>3, <1>5, <2>1 DEF QuestionsOf
    <3>2. QED
      BY <1>6, <2>1, <3>1 DEF QuizInv, ScoreOfStoredAnswers, Answering
  <2>2. phase'[r] = "answers" /\ local'[r].quiz = z
    BY <1>1, <1>2 DEF Answering
  <2>3. QED
    BY <1>1, <2>1, <2>2 DEF ScoreOfStoredAnswers, Answering
<1>10. QED
  BY <1>7, <1>8, <1>9

LEMMA StoredStoreScore ==
    ASSUME QuizInv, NEW r \in Submitters, StoreScore(r)
    PROVE  StoredInv' /\ CompletedMeansAnswered' /\ ScoreOfStoredAnswers'
<1> DEFINE z == local[r].quiz
<1>1. /\ phase[r] = "answers" /\ phase' = [phase EXCEPT ![r] = "read"] /\ UNCHANGED <<choice, mixed>>
  BY DEF StoreScore, Proceed, quizHistory
<1>2. IsHeld(local[r]) /\ z \in Quizzes
  BY <1>1, HeldFacts DEF QuizInv, TypeInv, Opened
<1>3. /\ LocalStep(r) /\ Size(z) \in Nat \ {0} /\ local[r].done = Size(z)
      /\ quiz' = [quiz EXCEPT ![z] = [status |-> "completed", score |-> Percent(local[r].correct, Size(z))]]
  BY StoreScoreLocal, Zenon DEF QuizInv
<1>4. phase'[r] = "read" /\ \A o \in Submitters \ {r} : local'[o] = local[o] /\ phase'[o] = phase[o]
  BY <1>1, <1>3, StepOfOne DEF QuizInv
<1>5. /\ quiz'[z].status = "completed" /\ quiz'[z].score = Percent(local[r].correct, Size(z))
      /\ \A y \in Quizzes \ {z} : quiz'[y] = quiz[y]
  BY <1>2, <1>3 DEF QuizInv, TypeInv, RowInv
<1>6. \A x \in QuestionsOf(z) : \E i \in 1..local[r].done : local[r].order[i] = x
  BY <1>2, <1>3, OrderFacts, SMTT(30) DEF IsHeld
<1>7. StoredInv'
  <2>1. StoredOf(r)'
    BY <1>4 DEF StoredOf
  <2>2. ASSUME NEW o \in Submitters \ {r} PROVE StoredOf(o)'
    <3>1. \A q \in Submitters : \A y : Answering(q, y)' => Answering(q, y)
      BY <1>4 DEF Answering
    <3>2. QED
      BY <1>1, <1>4, <3>1, StoredOfOthers DEF QuizInv, StoredInv
  <2>3. QED
    BY <2>1, <2>2 DEF StoredInv
<1>8. CompletedMeansAnswered'
  <2>1. QuestionsOf(z) # {}
    BY <1>3, FS_EmptySet DEF Size
  <2>2. \A x \in QuestionsOf(z) : choice[x] # "none"
    <3>1. \A i \in 1..local[r].done : choice[local[r].order[i]] # "none"
      BY <1>1 DEF QuizInv, AnswersInv, AnswersOf, Opened
    <3>2. QED
      BY <1>6, <3>1
  <2>3. QED
    BY <1>1, <1>5, <2>1, <2>2 DEF QuizInv, CompletedMeansAnswered
<1>9. ScoreOfStoredAnswers'
  <2>1. ASSUME z \notin mixed
        PROVE  quiz'[z].score = Percent(Cardinality({x \in QuestionsOf(z) : choice[x] = "right"}),
                                        Cardinality(QuestionsOf(z)))
    <3>1. \A i \in 1..local[r].done :
            choice[local[r].order[i]] = "right" <=> local[r].order[i] \in Credited(r, local[r].done)
      BY <1>1, <2>1 DEF QuizInv, StoredInv, StoredOf
    <3>2. Credited(r, local[r].done) \subseteq QuestionsOf(z)
      BY DEF Credited
    <3>3. {x \in QuestionsOf(z) : choice[x] = "right"} = Credited(r, local[r].done)
      BY <1>6, <3>1, <3>2
    <3>4. local[r].correct = Cardinality(Credited(r, local[r].done))
      BY <1>1 DEF QuizInv, AnswersInv, AnswersOf, Opened
    <3>5. QED
      BY <1>5, <3>3, <3>4 DEF Size
  <2>2. ASSUME NEW y \in Quizzes \ mixed, y # z, quiz[y].status = "completed"
        PROVE  \/ \E q \in Submitters : phase'[q] = "answers" /\ local'[q].quiz = y
               \/ quiz[y].score = Percent(Cardinality({x \in QuestionsOf(y) : choice[x] = "right"}),
                                          Cardinality(QuestionsOf(y)))
    <3>1. \A q \in Submitters : phase[q] = "answers" /\ local[q].quiz = y =>
                                phase'[q] = "answers" /\ local'[q].quiz = y
      BY <1>4, <2>2
    <3>2. QED
      BY <2>2, <3>1 DEF QuizInv, ScoreOfStoredAnswers
  <2>3. QED
    BY <1>1, <1>5, <2>1, <2>2, ZenonT(40) DEF ScoreOfStoredAnswers
<1>10. QED
  BY <1>7, <1>8, <1>9

\* A submission that ends while it stores answers, without a score.
LEMMA StoredEnds ==
    ASSUME QuizInv, NEW r \in Submitters, phase' = [phase EXCEPT ![r] = "failed"],
           UNCHANGED <<choice, quiz, local>>,
           \/ phase[r] # "answers" /\ mixed' = mixed
           \/ phase[r] = "answers" /\ mixed' = mixed \cup {local[r].quiz}
           \/ mixed' = mixed /\ quiz[local[r].quiz].status # "completed"
    PROVE  StoredInv' /\ CompletedMeansAnswered' /\ ScoreOfStoredAnswers'
<1>1. phase'[r] = "failed" /\ \A o \in Submitters \ {r} : local'[o] = local[o] /\ phase'[o] = phase[o]
  BY DEF QuizInv, TypeInv, RequestInv
<1>2. StoredInv'
  <2>1. StoredOf(r)'
    BY <1>1 DEF StoredOf
  <2>2. ASSUME NEW o \in Submitters \ {r} PROVE StoredOf(o)'
    <3>1. \A q \in Submitters : \A y : Answering(q, y)' => Answering(q, y)
      BY <1>1 DEF Answering
    <3>2. QED
      BY <1>1, <3>1, StoredOfOthers DEF QuizInv, StoredInv
  <2>3. QED
    BY <2>1, <2>2 DEF StoredInv
<1>3. CompletedMeansAnswered'
  BY DEF QuizInv, CompletedMeansAnswered
<1>4. ScoreOfStoredAnswers'
  <2>1. SUFFICES ASSUME NEW y \in Quizzes \ mixed', quiz[y].status = "completed"
                 PROVE  \/ \E q \in Submitters : phase'[q] = "answers" /\ local[q].quiz = y
                        \/ quiz[y].score = Percent(Cardinality({x \in QuestionsOf(y) : choice[x] = "right"}),
                                                   Cardinality(QuestionsOf(y)))
    BY DEF ScoreOfStoredAnswers
  <2>2. \A q \in Submitters : phase[q] = "answers" /\ local[q].quiz = y =>
                              phase'[q] = "answers" /\ local[q].quiz = y
    BY <1>1, <2>1
  <2>3. y \notin mixed
    BY <2>1
  <2>4. QED
    BY <2>1, <2>2, <2>3 DEF QuizInv, ScoreOfStoredAnswers
<1>5. QED
  BY <1>2, <1>3, <1>4

LEMMA StepStored ==
    ASSUME QuizInv, QuizNext
    PROVE  StoredInv' /\ CompletedMeansAnswered' /\ ScoreOfStoredAnswers'
<1> USE DEF Proceed
<1>1. ASSUME NEW r \in Submitters, NEW p, phase[r] # "answers", p # "answers",
             phase' = [phase EXCEPT ![r] = p], LocalStep(r), UNCHANGED <<choice, quiz, mixed>>
      PROVE  StoredInv' /\ CompletedMeansAnswered' /\ ScoreOfStoredAnswers'
  <2>1. Quiet(r)
    BY <1>1, StepOfOne DEF Quiet, QuizInv
  <2>2. QED
    BY <2>1, QuietStep
<1>2. ASSUME NEW r \in Submitters, Open(r) \/ Load(r)
      PROVE  StoredInv' /\ CompletedMeansAnswered' /\ ScoreOfStoredAnswers'
  <2>1. LocalStep(r)
    BY <1>2, OpenLocal, LoadLocal DEF QuizInv
  <2>2. QED
    BY <1>1, <1>2, <2>1 DEF Open, Load, quizRows, quizHistory
<1>3. ASSUME NEW r \in Submitters, ReadQuizzes(r) \/ StoreAverage(r) \/ UpdateModuleProgress(r)
      PROVE  StoredInv' /\ CompletedMeansAnswered' /\ ScoreOfStoredAnswers'
  <2>1. LocalStep(r)
    BY <1>3, ReadQuizzesLocal, StoreAverageLocal, FinishedHeld, UpdateModuleProgressLocal, ZenonT(40) DEF QuizInv
  <2>2. QED
    BY <1>1, <1>3, <2>1 DEF ReadQuizzes, StoreAverage, UpdateModuleProgress, quizRows, quizHistory
<1>4. ASSUME NEW r \in Submitters, ReadModulesOfLesson(r) \/ StoreLessonProgress(r) \/ ReadLessonsOfPath(r)
      PROVE  StoredInv' /\ CompletedMeansAnswered' /\ ScoreOfStoredAnswers'
  <2>1. LocalStep(r)
    BY <1>4, ReadModulesLocal, StoreLessonLocal, ReadLessonsLocal DEF QuizInv
  <2>2. QED
    BY <1>1, <1>4, <2>1 DEF ReadModulesOfLesson, StoreLessonProgress, ReadLessonsOfPath, quizRows, quizHistory
<1>5. ASSUME NEW r \in Submitters, Analyse(r) \/ StorePathProgress(r)
      PROVE  StoredInv' /\ CompletedMeansAnswered' /\ ScoreOfStoredAnswers'
  <2>1. LocalStep(r)
    BY <1>5, HeldFacts DEF Analyse, StorePathProgress, LocalStep, Opened, QuizInv, TypeInv
  <2>2. QED
    BY <1>1, <1>5, <2>1 DEF Analyse, StorePathProgress, quizRows, quizHistory
<1>6. ASSUME NEW r \in Submitters, DivideByZero(r)
      PROVE  StoredInv' /\ CompletedMeansAnswered' /\ ScoreOfStoredAnswers'
  <2>1. IsHeld(local[r])
    BY <1>6, HeldFacts DEF DivideByZero, Opened, QuizInv, TypeInv
  <2>2. IsFiniteSet(QuestionsOf(local[r].quiz)) /\ Cardinality(QuestionsOf(local[r].quiz)) = 0
    BY <1>6, <2>1, OrderFacts DEF DivideByZero, IsHeld, Size
  <2>3. QuestionsOf(local[r].quiz) = {}
    BY <2>2, FS_EmptySet
  <2>4. quiz[local[r].quiz].status # "completed"
    BY <2>1, <2>3 DEF QuizInv, CompletedMeansAnswered, IsHeld
  <2>5. QED
    BY <1>6, <2>4, StoredEnds DEF DivideByZero, quizRows, quizHistory
<1>7. ASSUME NEW r \in Submitters, SubmissionFails(r)
      PROVE  StoredInv' /\ CompletedMeansAnswered' /\ ScoreOfStoredAnswers'
  BY <1>7, StoredEnds DEF SubmissionFails, quizRows
<1>8. ASSUME NEW r \in Clears, ClearRaises(r)
      PROVE  StoredInv' /\ CompletedMeansAnswered' /\ ScoreOfStoredAnswers'
  <2>1. Quiet(r)
    BY <1>8 DEF ClearRaises, Quiet, quizRows, quizHistory, QuizInv, TypeInv, RequestInv
  <2>2. QED
    BY <2>1, QuietStep
<1>9. QED
  BY <1>2, <1>3, <1>4, <1>5, <1>6, <1>7, <1>8, StoredReadQuestions, StoredStoreAnswer, StoredStoreScore DEF QuizNext

-----------------------------------------------------------------------------
(* The theorems about answers and scores.                                  *)

LEMMA QuizInvInit == QuizInit => QuizInv
<1> SUFFICES ASSUME QuizInit PROVE QuizInv
  OBVIOUS
<1>1. phase = [r \in Submitters \cup Clears |-> "idle"] /\ quiz = [z \in Quizzes |-> NewQuiz]
  BY DEF QuizInit
<1>2. \A z \in Quizzes : quiz[z].status # "completed"
  BY <1>1 DEF NewQuiz
<1>3. AnswersInv /\ StoredInv
  BY <1>1 DEF AnswersInv, AnswersOf, StoredInv, StoredOf, Opened
<1>4. QED
  BY <1>2, <1>3, QuizTypeInit DEF QuizInv, CompletedMeansAnswered, ScoreOfStoredAnswers

LEMMA QuizInvStutters == ASSUME QuizInv, UNCHANGED quizVars PROVE QuizInv'
<1> USE DEF quizVars, quizRows, quizHistory
<1>1. TypeInv'
  <2>1. RowInv'
    BY DEF QuizInv, TypeInv, RowInv
  <2>2. RequestInv'
    BY DEF QuizInv, TypeInv, RequestInv, Opened
  <2>3. HistoryInv'
    BY DEF QuizInv, TypeInv, HistoryInv
  <2>4. QED
    BY <2>1, <2>2, <2>3 DEF TypeInv
<1>2. AnswersInv'
  <2>1. \A r : Credited(r, local[r].done)' = Credited(r, local[r].done)
    BY DEF Credited
  <2>2. QED
    BY <2>1 DEF QuizInv, AnswersInv, AnswersOf, Opened
<1>3. StoredInv'
  <2>1. ASSUME NEW r \in Submitters PROVE StoredOf(r)'
    BY StoredOfOthers DEF QuizInv, StoredInv, Answering
  <2>2. QED
    BY <2>1 DEF StoredInv
<1>4. CompletedMeansAnswered' /\ ScoreOfStoredAnswers'
  BY DEF QuizInv, CompletedMeansAnswered, ScoreOfStoredAnswers
<1>5. QED
  BY <1>1, <1>2, <1>3, <1>4 DEF QuizInv

LEMMA QuizInvHolds == QuizSpec => []QuizInv
<1>1. ASSUME QuizInv, [QuizNext]_quizVars PROVE QuizInv'
  <2>1. CASE QuizNext
    BY <1>1, <2>1, StepType, StepAnswers, StepStored DEF QuizInv
  <2>2. CASE UNCHANGED quizVars
    BY <1>1, <2>2, QuizInvStutters
  <2>3. QED
    BY <1>1, <2>1, <2>2
<1>2. QED
  BY <1>1, QuizInvInit, PTL DEF QuizSpec

LEMMA TypeInvIsTypes == TypeInv => QuizTypeOK
<1> SUFFICES ASSUME TypeInv PROVE QuizTypeOK
  OBVIOUS
<1>1. ASSUME NEW r \in Submitters \cup Clears
      PROVE  local[r] = Unread \/ (local[r].quiz \in Quizzes /\ local[r].module \in 0..Full)
  BY DEF TypeInv, RequestInv, Opened, IsHeld
<1>2. QED
  BY <1>1 DEF TypeInv, RowInv, RequestInv, HistoryInv, QuizTypeOK, QuizRow, Orders, Early, Scored

\* Types: scores stay within a hundred percent and progress is a whole percentage, whatever
\* submissions of whatever quizzes overlap or fail (module.py:238).
THEOREM QuizTypesHold == QuizSpec => []QuizTypeOK
<1>1. QuizInv => QuizTypeOK
  BY TypeInvIsTypes DEF QuizInv
<1>2. QED
  BY <1>1, QuizInvHolds, PTL

\* A completed quiz has a question and an answer to each, and its score is the share of the
\* right answers stored with it, for any number of submissions: one that fails after some
\* answers leaves the status as it was, and one of a quiz without questions divides by zero
\* before it is written (module.py:243).
THEOREM ScoresAreOfStoredAnswers == QuizSpec => []StoredScores
<1>1. QuizInv => StoredScores
  BY DEF QuizInv, StoredScores
<1>2. QED
  BY <1>1, QuizInvHolds, PTL

\* A submission is credited with each right answer, as long as nobody wrote to the questions
\* between their showing and their judging: the table yields them in the same order.
THEOREM RightAnswersAreCredited == QuizSpec => []EarnedScore
<1>1. QuizInv => EarnedScore
  BY EarnedFromAnswers DEF QuizInv
<1>2. QED
  BY <1>1, QuizInvHolds, PTL

-----------------------------------------------------------------------------
(* Progress.                                                               *)

ActivePhases == {"loaded", "answers", "read", "average", "analyse", "module", "lesson",
                 "writeLesson", "path", "writePath"}

LEMMA ActiveFacts ==
    ASSUME TypeInv, NEW r \in Active
    PROVE  /\ r \in Submitters /\ phase[r] \in ActivePhases /\ Opened(r) /\ IsHeld(local[r])
           /\ local[r].quiz \in Quizzes /\ MyModule(r) \in Modules /\ MyLesson(r) \in Lessons
           /\ Above(local[r].quiz) = {MyModule(r), MyLesson(r), "path"}
<1>1. r \in Submitters /\ phase[r] \in ActivePhases /\ Opened(r)
  BY DEF Active, Ended, ActivePhases, TypeInv, RequestInv, Early, Scored, Opened
<1>2. QED
  BY <1>1, HeldFacts DEF TypeInv, Above, MyModule, MyLesson

LEMMA ExpectedKept ==
    ASSUME NEW m \in Modules, \A z \in QuizzesOf(m) : quiz'[z] = quiz[z]
    PROVE  Expected(m)' = Expected(m)
<1> DEFINE S == Completed(quiz, QuizzesOf(m))
           T == Completed(quiz', QuizzesOf(m))
<1>1. T = S /\ S \in SUBSET Quizzes
  BY DEF Completed, QuizzesOf
<1>2. IsFiniteSet(S)
  <2> HIDE DEF S
  <2>1. QED
    BY <1>1, TreeAssumption, FS_Subset
<1>3. \A z \in S : Scores(quiz')[z] = Scores(quiz)[z]
  BY DEF Scores, Completed, QuizzesOf
<1> HIDE DEF S, T
<1>4. TotalOf(Scores(quiz'), S) = TotalOf(Scores(quiz), S)
  BY <1>2, <1>3, TotalsAgree
<1>5. WholeAverage(quiz', S) = WholeAverage(quiz, S)
  BY <1>4 DEF WholeAverage
<1>6. /\ Expected(m)' = IF T = {} THEN 0 ELSE WholeAverage(quiz', T)
      /\ Expected(m) = IF S = {} THEN 0 ELSE WholeAverage(quiz, S)
  BY DEF Expected, S, T
<1>7. QED
  BY <1>1, <1>5, <1>6

LEMMA LessonKept ==
    ASSUME NEW l \in Lessons, \A m \in ModulesOf(l) : moduleProgress'[m] = moduleProgress[m]
    PROVE  Average(moduleProgress, ModulesOf(l))' = Average(moduleProgress, ModulesOf(l))
<1>1. IsFiniteSet(ModulesOf(l))
  BY TreeAssumption, FS_Subset DEF ModulesOf
<1>2. Average(moduleProgress', ModulesOf(l)) = Average(moduleProgress, ModulesOf(l))
  BY <1>1, AverageAgrees
<1>3. QED
  BY <1>2

\* The levels that are not above the quiz of r stay as they are.
ElsewhereKept(r) ==
    /\ \A z \in Quizzes \ {local[r].quiz} : quiz'[z] = quiz[z]
    /\ \A m \in Modules \ {MyModule(r)} : moduleProgress'[m] = moduleProgress[m]
    /\ \A l \in Lessons \ {MyLesson(r)} : lessonProgress'[l] = lessonProgress[l]

LEMMA ElsewhereHolds ==
    ASSUME NEW r, ElsewhereKept(r)
    PROVE  /\ \A m \in Modules : m # MyModule(r) => (ModuleHolds(m)' <=> ModuleHolds(m))
           /\ \A l \in Lessons : l # MyLesson(r) => (LessonHolds(l)' <=> LessonHolds(l))
<1>1. ASSUME NEW m \in Modules, m # MyModule(r) PROVE ModuleHolds(m)' <=> ModuleHolds(m)
  <2>1. \A z \in QuizzesOf(m) : quiz'[z] = quiz[z]
    BY <1>1 DEF ElsewhereKept, QuizzesOf, MyModule
  <2>2. Expected(m)' = Expected(m)
    BY <2>1, ExpectedKept
  <2>3. QED
    BY <1>1, <2>2 DEF ElsewhereKept, ModuleHolds
<1>2. ASSUME NEW l \in Lessons, l # MyLesson(r) PROVE LessonHolds(l)' <=> LessonHolds(l)
  <2>1. \A m \in ModulesOf(l) : moduleProgress'[m] = moduleProgress[m]
    BY <1>2 DEF ElsewhereKept, ModulesOf, MyLesson
  <2>2. Average(moduleProgress, ModulesOf(l))' = Average(moduleProgress, ModulesOf(l))
    BY <2>1, LessonKept
  <2>3. QED
    BY <1>2, <2>2 DEF ElsewhereKept, LessonHolds
<1>3. QED
  BY <1>1, <1>2

\* A step that no active request takes, and that makes none active.
LEMMA ProgressAside ==
    ASSUME ProgressInv, UNCHANGED <<quiz, moduleProgress, lessonProgress, pathProgress, crowded, unsettled>>,
           Active' = Active,
           \A o \in Active : local'[o] = local[o] /\ phase'[o] = phase[o],
           \A o \in crowded : phase'[o] \notin {"idle", "shown"}
    PROVE  ProgressInv'
<1>1. /\ \A m \in Modules : ModuleHolds(m)' <=> ModuleHolds(m)
      /\ \A l \in Lessons : LessonHolds(l)' <=> LessonHolds(l)
      /\ PathHolds' <=> PathHolds
  BY DEF ModuleHolds, LessonHolds, PathHolds, Expected
<1>2. \A o \in Active : MyModule(o)' = MyModule(o) /\ MyLesson(o)' = MyLesson(o)
  BY DEF MyModule, MyLesson
<1>3. LevelsInv'
  BY <1>1, <1>2 DEF ProgressInv, LevelsInv
<1>4. CrowdInv'
  BY DEF ProgressInv, CrowdInv
<1>5. AloneInv'
  <2>1. ASSUME NEW o \in Active \ crowded PROVE AloneOf(o)'
    <3>1. AloneOf(o)
      BY DEF ProgressInv, AloneInv
    <3>2. MyModule(o)' = MyModule(o) /\ MyLesson(o)' = MyLesson(o) /\ local'[o] = local[o] /\ phase'[o] = phase[o]
      BY <1>2
    <3>3. ModuleHolds(MyModule(o))' <=> ModuleHolds(MyModule(o))
      BY <3>2 DEF ModuleHolds, Expected
    <3>4. LessonHolds(MyLesson(o))' <=> LessonHolds(MyLesson(o))
      BY <3>2 DEF LessonHolds
    <3>5. QED
      BY <3>1, <3>2, <3>3, <3>4 DEF AloneOf
  <2>2. QED
    BY <2>1 DEF AloneInv
<1>6. QED
  BY <1>3, <1>4, <1>5 DEF ProgressInv

\* A step of a request that runs, or has run, at the same time as another.
LEMMA ProgressCrowded ==
    ASSUME TypeInv, ProgressInv, NEW r \in Active \cap crowded, NEW p, p \notin {"idle", "shown"},
           phase' = [phase EXCEPT ![r] = p],
           \A o \in Submitters \ {r} : local'[o] = local[o], local'[r].quiz = local[r].quiz,
           ElsewhereKept(r), crowded' = crowded, unsettled \subseteq unsettled'
    PROVE  ProgressInv'
<1>1. /\ r \in Submitters /\ phase'[r] = p
      /\ \A o \in Submitters \ {r} : phase'[o] = phase[o]
      /\ MyModule(r) \in unsettled /\ MyLesson(r) \in unsettled /\ "path" \in unsettled
  BY ActiveFacts DEF ProgressInv, CrowdInv, TypeInv, RequestInv, Active
<1>2. Active \subseteq crowded /\ Active' \subseteq Active
  <2>1. Active \subseteq crowded
    BY DEF ProgressInv, CrowdInv
  <2>2. Active' \subseteq Active
    BY <1>1 DEF Active, Ended
  <2>3. QED
    BY <2>1, <2>2
<1>3. AloneInv'
  BY <1>2 DEF AloneInv
<1>4. CrowdInv'
  <2>1. \A o \in crowded : phase'[o] \notin {"idle", "shown"}
    BY <1>1 DEF ProgressInv, CrowdInv, TypeInv, HistoryInv
  <2>2. \A o \in Active' : o \in crowded /\ Above(local'[o].quiz) \subseteq unsettled
    BY <1>1, <1>2 DEF ProgressInv, CrowdInv, Active
  <2>3. QED
    BY <2>1, <2>2 DEF CrowdInv
<1>5. LevelsInv'
  <2>1. ASSUME NEW m \in Modules \ unsettled'
        PROVE  ModuleHolds(m)' \/ \E o \in Active' : phase'[o] \in Behind /\ MyModule(o)' = m
    <3>1. m # MyModule(r) /\ m \notin unsettled
      BY <1>1
    <3>2. CASE ModuleHolds(m)
      BY <3>1, <3>2, ElsewhereHolds
    <3>3. CASE \E o \in Active : phase[o] \in Behind /\ MyModule(o) = m
      <4>1. PICK o \in Active : phase[o] \in Behind /\ MyModule(o) = m
        BY <3>3
      <4>2. o \in Submitters \ {r}
        BY <3>1, <4>1 DEF Active
      <4>3. o \in Active' /\ phase'[o] \in Behind /\ MyModule(o)' = m
        BY <1>1, <4>1, <4>2 DEF Active, MyModule
      <4>4. QED
        BY <4>3
    <3>4. QED
      BY <3>1, <3>2, <3>3 DEF ProgressInv, LevelsInv
  <2>2. ASSUME NEW l \in Lessons \ unsettled'
        PROVE  LessonHolds(l)' \/ \E o \in Active' :
                    phase'[o] \in Behind \cup {"lesson", "writeLesson"} /\ MyLesson(o)' = l
    <3>1. l # MyLesson(r) /\ l \notin unsettled
      BY <1>1
    <3>2. CASE LessonHolds(l)
      BY <3>1, <3>2, ElsewhereHolds
    <3>3. CASE \E o \in Active : phase[o] \in Behind \cup {"lesson", "writeLesson"} /\ MyLesson(o) = l
      <4>1. PICK o \in Active : phase[o] \in Behind \cup {"lesson", "writeLesson"} /\ MyLesson(o) = l
        BY <3>3
      <4>2. o \in Submitters \ {r}
        BY <3>1, <4>1 DEF Active
      <4>3. o \in Active' /\ phase'[o] \in Behind \cup {"lesson", "writeLesson"} /\ MyLesson(o)' = l
        BY <1>1, <4>1, <4>2 DEF Active, MyLesson, MyModule
      <4>4. QED
        BY <4>3
    <3>4. QED
      BY <3>1, <3>2, <3>3 DEF ProgressInv, LevelsInv
  <2>3. QED
    BY <1>1, <2>1, <2>2 DEF LevelsInv
<1>6. QED
  BY <1>3, <1>4, <1>5 DEF ProgressInv

LEMMA AloneLevels ==
    ASSUME TypeInv, ProgressInv, NEW r \in Active \ crowded
    PROVE  /\ Active = {r} /\ AloneOf(r)
           /\ MyModule(r) \notin unsettled => ModuleHolds(MyModule(r)) \/ phase[r] \in Behind
           /\ MyLesson(r) \notin unsettled =>
                 LessonHolds(MyLesson(r)) \/ phase[r] \in Behind \cup {"lesson", "writeLesson"}
           /\ "path" \notin unsettled => PathHolds \/ phase[r] \notin {"loaded", "answers"}
           /\ \A m \in Modules \ unsettled : m # MyModule(r) => ModuleHolds(m)
           /\ \A l \in Lessons \ unsettled : l # MyLesson(r) => LessonHolds(l)
<1>1. Active = {r} /\ AloneOf(r)
  BY DEF ProgressInv, CrowdInv, AloneInv
<1>2. /\ \A m \in Modules \ unsettled : ModuleHolds(m) \/ (phase[r] \in Behind /\ MyModule(r) = m)
      /\ \A l \in Lessons \ unsettled :
           LessonHolds(l) \/ (phase[r] \in Behind \cup {"lesson", "writeLesson"} /\ MyLesson(r) = l)
      /\ "path" \notin unsettled => PathHolds \/ phase[r] \notin {"loaded", "answers"}
  BY <1>1 DEF ProgressInv, LevelsInv
<1>3. MyModule(r) \in Modules /\ MyLesson(r) \in Lessons
  BY ActiveFacts
<1>4. QED
  BY <1>1, <1>2, <1>3 DEF ModuleHolds, LessonHolds

\* A step of a request that runs alone, and goes on.
LEMMA ProgressAlone ==
    ASSUME TypeInv, ProgressInv, NEW r \in Active \ crowded, NEW p \in ActivePhases,
           phase' = [phase EXCEPT ![r] = p], LocalStep(r), local'[r].quiz = local[r].quiz,
           ElsewhereKept(r), crowded' = crowded, unsettled' = unsettled,
           MyModule(r) \notin unsettled => ModuleHolds(MyModule(r))' \/ p \in Behind,
           MyLesson(r) \notin unsettled =>
               LessonHolds(MyLesson(r))' \/ p \in Behind \cup {"lesson", "writeLesson"},
           "path" \notin unsettled => PathHolds' \/ p \notin {"loaded", "answers"},
           AloneOf(r)'
    PROVE  ProgressInv'
<1>1. /\ phase'[r] = p /\ r \in Submitters
      /\ \A o \in Submitters \ {r} : local'[o] = local[o] /\ phase'[o] = phase[o]
  BY StepOfOne DEF Active
<1>2. Active' = {r}
  <2>1. Active = {r}
    BY AloneLevels
  <2>2. QED
    BY <1>1, <2>1 DEF Active, Ended, ActivePhases
<1>3. MyModule(r)' = MyModule(r) /\ MyLesson(r)' = MyLesson(r)
  BY DEF MyModule, MyLesson
<1>4. LevelsInv'
  <2>1. ASSUME NEW m \in Modules \ unsettled
        PROVE  ModuleHolds(m)' \/ (phase'[r] \in Behind /\ MyModule(r)' = m)
    <3>1. CASE m = MyModule(r)
      BY <1>1, <1>3, <2>1, <3>1 DEF ModuleHolds
    <3>2. CASE m # MyModule(r)
      BY <2>1, <3>2, AloneLevels, ElsewhereHolds
    <3>3. QED
      BY <3>1, <3>2
  <2>2. ASSUME NEW l \in Lessons \ unsettled
        PROVE  LessonHolds(l)' \/ (phase'[r] \in Behind \cup {"lesson", "writeLesson"} /\ MyLesson(r)' = l)
    <3>1. CASE l = MyLesson(r)
      BY <1>1, <1>3, <2>2, <3>1 DEF LessonHolds
    <3>2. CASE l # MyLesson(r)
      BY <2>2, <3>2, AloneLevels, ElsewhereHolds
    <3>3. QED
      BY <3>1, <3>2
  <2>3. QED
    BY <1>1, <1>2, <2>1, <2>2 DEF LevelsInv
<1>5. CrowdInv'
  <2>1. \A o \in crowded : phase'[o] \notin {"idle", "shown"}
    BY <1>1 DEF ProgressInv, CrowdInv, TypeInv, HistoryInv
  <2>2. QED
    BY <1>2, <2>1 DEF CrowdInv
<1>6. AloneInv'
  BY <1>2 DEF AloneInv
<1>7. QED
  BY <1>4, <1>5, <1>6 DEF ProgressInv

\* A step of a request that runs alone, and ends.
LEMMA ProgressEnds ==
    ASSUME TypeInv, ProgressInv, NEW r \in Active \ crowded, NEW p \in {"ok", "failed"},
           phase' = [phase EXCEPT ![r] = p], local' = local,
           UNCHANGED <<quiz, moduleProgress, lessonProgress, crowded>>,
           \/ pathProgress' = pathProgress /\ unsettled' = unsettled \cup Above(local[r].quiz)
           \/ /\ phase[r] = "answers" /\ pathProgress' = pathProgress /\ unsettled' = unsettled
           \/ /\ phase[r] = "writePath" /\ PathHolds'
              /\ unsettled' = unsettled \ Above(local[r].quiz)
    PROVE  ProgressInv'
<1>1. /\ phase'[r] = p /\ r \in Submitters
      /\ \A o \in Submitters \ {r} : phase'[o] = phase[o]
  BY DEF Active, TypeInv, RequestInv
<1>2. Active = {r} /\ Active' = {}
  <2>1. Active = {r}
    BY AloneLevels
  <2>2. QED
    BY <1>1, <2>1 DEF Active, Ended
<1>3. Above(local[r].quiz) = {MyModule(r), MyLesson(r), "path"}
  BY ActiveFacts
<1>4. CrowdInv' /\ AloneInv'
  BY <1>1, <1>2 DEF ProgressInv, CrowdInv, AloneInv, TypeInv, HistoryInv
<1>5. /\ \A m \in Modules : ModuleHolds(m)' <=> ModuleHolds(m)
      /\ \A l \in Lessons : LessonHolds(l)' <=> LessonHolds(l)
  BY DEF ModuleHolds, LessonHolds, Expected
<1>6. LevelsInv'
  <2>1. CASE pathProgress' = pathProgress /\ unsettled' = unsettled \cup Above(local[r].quiz)
    BY <1>3, <1>5, <2>1, AloneLevels DEF LevelsInv
  <2>2. CASE phase[r] = "answers" /\ pathProgress' = pathProgress /\ unsettled' = unsettled
    <3>1. MyModule(r) \notin unsettled => ModuleHolds(MyModule(r))
      BY <2>2, AloneLevels DEF Behind
    <3>2. MyLesson(r) \notin unsettled => LessonHolds(MyLesson(r))
      BY <2>2, AloneLevels DEF Behind
    <3>3. "path" \notin unsettled => PathHolds
      BY <2>2, AloneLevels
    <3>4. PathHolds' <=> PathHolds
      BY <2>2 DEF PathHolds
    <3>5. \A m \in Modules \ unsettled : ModuleHolds(m)
      BY <3>1, AloneLevels DEF ModuleHolds
    <3>6. \A l \in Lessons \ unsettled : LessonHolds(l)
      BY <3>2, AloneLevels DEF LessonHolds
    <3>7. QED
      BY <1>5, <2>2, <3>3, <3>4, <3>5, <3>6 DEF LevelsInv
  <2>3. CASE phase[r] = "writePath" /\ PathHolds' /\ unsettled' = unsettled \ Above(local[r].quiz)
    <3>1. ModuleHolds(MyModule(r)) /\ LessonHolds(MyLesson(r))
      BY <2>3, AloneLevels DEF AloneOf
    <3>2. MyModule(r) \in Modules /\ MyLesson(r) \in Lessons
      BY ActiveFacts
    <3>3. ASSUME NEW m \in Modules \ unsettled' PROVE ModuleHolds(m)
      <4>1. CASE m = MyModule(r)
        BY <3>1, <4>1 DEF ModuleHolds
      <4>2. CASE m # MyModule(r)
        <5>1. m \notin unsettled
          BY <1>3, <2>3, <3>2, <3>3, <4>2, LevelsAssumption
        <5>2. QED
          BY <4>2, <5>1, AloneLevels
      <4>3. QED
        BY <4>1, <4>2
    <3>4. ASSUME NEW l \in Lessons \ unsettled' PROVE LessonHolds(l)
      <4>1. CASE l = MyLesson(r)
        BY <3>1, <4>1 DEF LessonHolds
      <4>2. CASE l # MyLesson(r)
        <5>1. l \notin unsettled
          BY <1>3, <2>3, <3>2, <3>4, <4>2, LevelsAssumption
        <5>2. QED
          BY <4>2, <5>1, AloneLevels
      <4>3. QED
        BY <4>1, <4>2
    <3>5. QED
      BY <1>5, <2>3, <3>3, <3>4 DEF LevelsInv
  <2>4. QED
    BY <2>1, <2>2, <2>3
<1>7. QED
  BY <1>4, <1>6 DEF ProgressInv

LEMMA ProgressLoad ==
    ASSUME TypeInv, ProgressInv, NEW r \in Submitters, Load(r)
    PROVE  ProgressInv'
<1>1. /\ phase[r] = "shown" /\ phase' = [phase EXCEPT ![r] = "loaded"]
      /\ UNCHANGED <<quiz, moduleProgress, lessonProgress, pathProgress>>
      /\ crowded' = IF Active = {} THEN crowded ELSE crowded \cup Active \cup {r}
      /\ unsettled' = IF Active = {} THEN unsettled
                      ELSE unsettled \cup UNION {Above(local[o].quiz) : o \in Active \cup {r}}
  BY DEF Load, Proceed, quizRows
<1>2. /\ LocalStep(r) /\ local'[r].quiz = local[r].quiz
      /\ local'[r].module = 100 * moduleProgress[MyModule(r)]
      /\ local'[r].lesson = lessonProgress[MyLesson(r)] /\ local'[r].path = pathProgress
  BY LoadLocal DEF AnswersKept
<1>3. phase'[r] = "loaded" /\ \A o \in Submitters \ {r} : local'[o] = local[o] /\ phase'[o] = phase[o]
  BY <1>1, <1>2, StepOfOne
<1>4. Active' = Active \cup {r} /\ r \notin Active
  BY <1>1, <1>3 DEF Active, Ended
<1>5. r \notin crowded
  BY <1>1 DEF ProgressInv, CrowdInv
<1>6. /\ \A m \in Modules : ModuleHolds(m)' <=> ModuleHolds(m)
      /\ \A l \in Lessons : LessonHolds(l)' <=> LessonHolds(l)
      /\ PathHolds' <=> PathHolds
  BY <1>1 DEF ModuleHolds, LessonHolds, PathHolds, Expected
<1>7. MyModule(r)' = MyModule(r) /\ MyLesson(r)' = MyLesson(r)
  BY <1>2 DEF MyModule, MyLesson
<1>8. \A o \in Active : /\ o \in Active' /\ phase'[o] = phase[o] /\ local'[o] = local[o]
                        /\ MyModule(o)' = MyModule(o) /\ MyLesson(o)' = MyLesson(o)
  BY <1>3, <1>4 DEF Active, MyModule, MyLesson
<1>9. LevelsInv'
  <2>1. unsettled \subseteq unsettled'
    BY <1>1
  <2>2. \A m \in Modules \ unsettled' :
          ModuleHolds(m)' \/ \E o \in Active' : phase'[o] \in Behind /\ MyModule(o)' = m
    BY <1>6, <1>8, <2>1 DEF ProgressInv, LevelsInv
  <2>3. \A l \in Lessons \ unsettled' :
          LessonHolds(l)' \/ \E o \in Active' :
              phase'[o] \in Behind \cup {"lesson", "writeLesson"} /\ MyLesson(o)' = l
    BY <1>6, <1>8, <2>1 DEF ProgressInv, LevelsInv
  <2>4. "path" \notin unsettled' => PathHolds' \/ \E o \in Active' : phase'[o] \notin {"loaded", "answers"}
    BY <1>6, <1>8, <2>1 DEF ProgressInv, LevelsInv
  <2>5. QED
    BY <2>2, <2>3, <2>4 DEF LevelsInv
<1>10. CASE Active = {}
  <2>1. CrowdInv'
    BY <1>1, <1>3, <1>4, <1>5, <1>10 DEF ProgressInv, CrowdInv, TypeInv, HistoryInv
  <2>2. AloneOf(r)'
    BY <1>1, <1>2, <1>3, <1>7 DEF AloneOf, Scored
  <2>3. AloneInv'
    BY <1>4, <1>10, <2>2 DEF AloneInv
  <2>4. QED
    BY <1>9, <2>1, <2>3 DEF ProgressInv
<1>11. CASE Active # {}
  <2>1. crowded' = crowded \cup Active'
    BY <1>1, <1>4, <1>11
  <2>2. \A o \in Active \cup {r} : Above(local[o].quiz) \subseteq unsettled'
    BY <1>1, <1>11
  <2>3. \A o \in Active' : Above(local'[o].quiz) \subseteq unsettled'
    BY <1>2, <1>4, <1>8, <2>2
  <2>4. \A o \in crowded' : phase'[o] \notin {"idle", "shown"}
    <3>1. \A o \in Active' : phase'[o] \notin {"idle", "shown"}
      BY DEF Active, Ended
    <3>2. \A o \in crowded : phase'[o] \notin {"idle", "shown"}
      BY <1>3, <1>5 DEF ProgressInv, CrowdInv, TypeInv, HistoryInv
    <3>3. QED
      BY <2>1, <3>1, <3>2
  <2>5. CrowdInv'
    BY <2>1, <2>3, <2>4 DEF CrowdInv
  <2>6. AloneInv'
    BY <2>1 DEF AloneInv
  <2>7. QED
    BY <1>9, <2>5, <2>6 DEF ProgressInv
<1>12. QED
  BY <1>10, <1>11

\* A step, of r alone, that writes no level and leaves what r holds of the levels.
LEMMA ProgressWithin ==
    ASSUME TypeInv, ProgressInv, NEW r \in Active, NEW p \in ActivePhases,
           phase' = [phase EXCEPT ![r] = p], LocalStep(r), local'[r].quiz = local[r].quiz,
           UNCHANGED <<quiz, moduleProgress, lessonProgress, pathProgress, crowded, unsettled>>,
           phase[r] \in Behind <=> p \in Behind,
           phase[r] \in {"lesson", "writeLesson"} <=> p \in {"lesson", "writeLesson"},
           phase[r] \in {"loaded", "answers"} <=> p \in {"loaded", "answers"},
           r \notin crowded => AloneOf(r)'
    PROVE  ProgressInv'
<1>1. ElsewhereKept(r)
  BY DEF ElsewhereKept
<1>2. CASE r \in crowded
  BY <1>1, <1>2, ProgressCrowded DEF ActivePhases, LocalStep
<1>3. CASE r \notin crowded
  <2>1. MyModule(r)' = MyModule(r) /\ MyLesson(r)' = MyLesson(r)
    BY DEF MyModule, MyLesson
  <2>2. /\ ModuleHolds(MyModule(r))' <=> ModuleHolds(MyModule(r))
        /\ LessonHolds(MyLesson(r))' <=> LessonHolds(MyLesson(r))
        /\ PathHolds' <=> PathHolds
    BY <2>1 DEF ModuleHolds, LessonHolds, PathHolds, Expected
  <2>3. /\ MyModule(r) \notin unsettled => ModuleHolds(MyModule(r)) \/ p \in Behind
        /\ MyLesson(r) \notin unsettled =>
              LessonHolds(MyLesson(r)) \/ p \in Behind \cup {"lesson", "writeLesson"}
        /\ "path" \notin unsettled => PathHolds \/ p \notin {"loaded", "answers"}
    BY <1>3, AloneLevels
  <2>4. QED
    BY <1>1, <1>3, <2>2, <2>3, ProgressAlone
<1>4. QED
  BY <1>2, <1>3

LEMMA ProgressStoreScore ==
    ASSUME TypeInv, ProgressInv, NEW r \in Submitters, StoreScore(r)
    PROVE  ProgressInv'
<1> DEFINE z == local[r].quiz
           row == [status |-> "completed", score |-> Percent(local[r].correct, Size(z))]
<1>1. /\ phase[r] = "answers" /\ phase' = [phase EXCEPT ![r] = "read"]
      /\ UNCHANGED <<moduleProgress, lessonProgress, pathProgress, crowded, unsettled>>
  BY DEF StoreScore, Proceed, quizHistory
<1>2. r \in Active /\ z \in Quizzes
  <2>1. r \in Active
    BY <1>1 DEF Active, Ended
  <2>2. QED
    BY <2>1, ActiveFacts
<1>3. /\ LocalStep(r) /\ AnswersKept(r)
      /\ quiz' = [quiz EXCEPT ![z] = row] /\ local'[r].quizzes[z] = row
      /\ local'[r].module = local[r].module /\ local'[r].lesson = local[r].lesson
      /\ local'[r].path = local[r].path
  BY StoreScoreLocal, Zenon
<1>4. row.status = "completed"
  OBVIOUS
<1> HIDE DEF row
<1>5. quiz'[z] = row /\ \A y \in Quizzes \ {z} : quiz'[y] = quiz[y]
  BY <1>2, <1>3 DEF TypeInv, RowInv
<1>6. ElsewhereKept(r)
  BY <1>1, <1>5 DEF ElsewhereKept
<1>7. CASE r \in crowded
  BY <1>1, <1>2, <1>3, <1>6, <1>7, ProgressCrowded DEF LocalStep, AnswersKept
<1>8. CASE r \notin crowded
  <2>1. AloneOf(r)
    BY <1>2, <1>8, AloneLevels
  <2>2. phase'[r] = "read"
    BY <1>1, <1>3, StepOfOne
  <2>3. MyModule(r)' = MyModule(r) /\ MyLesson(r)' = MyLesson(r)
    BY <1>3 DEF MyModule, MyLesson, AnswersKept
  <2>4. AloneOf(r)'
    BY <1>1, <1>3, <1>4, <1>5, <2>1, <2>2, <2>3 DEF AloneOf, AnswersKept, Scored
  <2>5. QED
    BY <1>1, <1>2, <1>3, <1>6, <1>8, <2>4, ProgressAlone DEF AnswersKept, Behind, ActivePhases
<1>9. QED
  BY <1>7, <1>8

LEMMA ProgressReadQuizzes ==
    ASSUME TypeInv, AnswersInv, ProgressInv, NEW r \in Submitters, ReadQuizzes(r)
    PROVE  ProgressInv'
<1>1. /\ phase[r] = "read" /\ phase' = [phase EXCEPT ![r] = "average"]
      /\ UNCHANGED <<quiz, moduleProgress, lessonProgress, pathProgress, crowded, unsettled>>
  BY DEF ReadQuizzes, Proceed, quizRows, quizHistory
<1>2. r \in Active /\ local[r].quiz \in Quizzes
  <2>1. r \in Active
    BY <1>1 DEF Active, Ended
  <2>2. QED
    BY <2>1, ActiveFacts
<1>3. /\ LocalStep(r) /\ AnswersKept(r)
      /\ local'[r].quizzes = [quiz EXCEPT ![local[r].quiz] = local[r].quizzes[local[r].quiz]]
      /\ local'[r].module = local[r].module /\ local'[r].lesson = local[r].lesson
      /\ local'[r].path = local[r].path
  BY ReadQuizzesLocal
<1>4. ASSUME r \notin crowded PROVE AloneOf(r)'
  <2>1. AloneOf(r)
    BY <1>2, <1>4, AloneLevels
  <2>2. phase'[r] = "average"
    BY <1>1, <1>3, StepOfOne
  <2>3. MyModule(r)' = MyModule(r) /\ MyLesson(r)' = MyLesson(r)
    BY <1>3 DEF MyModule, MyLesson, AnswersKept
  <2>4. local[r].quizzes[local[r].quiz] = quiz[local[r].quiz] /\ quiz[local[r].quiz].status = "completed"
    BY <1>1, <2>1 DEF AloneOf, Scored
  <2>5. local'[r].quizzes = quiz
    BY <1>2, <1>3, <2>4 DEF TypeInv, RowInv
  <2>6. QED
    BY <1>1, <1>3, <2>1, <2>2, <2>3, <2>4, <2>5 DEF AloneOf, AnswersKept
<1>5. QED
  BY <1>1, <1>2, <1>3, <1>4, ProgressWithin DEF AnswersKept, Behind, ActivePhases

LEMMA ProgressStoreAverage ==
    ASSUME TypeInv, ProgressInv, NEW r \in Submitters, StoreAverage(r)
    PROVE  ProgressInv'
<1>1. /\ phase[r] = "average" /\ phase' = [phase EXCEPT ![r] = "analyse"]
      /\ UNCHANGED <<quiz, lessonProgress, pathProgress, crowded, unsettled>>
  BY DEF StoreAverage, Proceed, quizHistory
<1>2. r \in Active /\ MyModule(r) \in Modules
  <2>1. r \in Active
    BY <1>1 DEF Active, Ended
  <2>2. QED
    BY <2>1, ActiveFacts
<1>3. /\ LocalStep(r) /\ AnswersKept(r)
      /\ moduleProgress' = [moduleProgress EXCEPT ![MyModule(r)] = HeldAverage(r) \div 100]
      /\ local'[r].module = HeldAverage(r) /\ local'[r].quizzes = local[r].quizzes
      /\ local'[r].lesson = local[r].lesson /\ local'[r].path = local[r].path
  BY StoreAverageLocal
<1>4. /\ moduleProgress'[MyModule(r)] = HeldAverage(r) \div 100
      /\ \A m \in Modules \ {MyModule(r)} : moduleProgress'[m] = moduleProgress[m]
  BY <1>2, <1>3 DEF TypeInv, RowInv
<1>5. ElsewhereKept(r)
  BY <1>1, <1>4 DEF ElsewhereKept
<1>6. CASE r \in crowded
  BY <1>1, <1>2, <1>3, <1>5, <1>6, ProgressCrowded DEF LocalStep, AnswersKept
<1>7. CASE r \notin crowded
  <2>1. AloneOf(r)
    BY <1>2, <1>7, AloneLevels
  <2>2. phase'[r] = "analyse"
    BY <1>1, <1>3, StepOfOne
  <2>3. MyModule(r)' = MyModule(r) /\ MyLesson(r)' = MyLesson(r)
    BY <1>3 DEF MyModule, MyLesson, AnswersKept
  <2>4. local[r].quizzes = quiz
    BY <1>1, <2>1 DEF AloneOf, Scored
  <2>5. HeldAverage(r) = Average(Scores(quiz), Completed(quiz, QuizzesOf(MyModule(r))))
    BY <2>4 DEF HeldAverage
  <2> DEFINE a == HeldAverage(r)
  <2>6. AloneOf(r)'
    BY <1>1, <1>3, <1>4, <2>1, <2>2, <2>3, <2>4, <2>5 DEF AloneOf, AnswersKept, Scored
  <2>7. QED
    BY <1>1, <1>2, <1>3, <1>5, <1>7, <2>6, ProgressAlone DEF AnswersKept, Behind, ActivePhases
<1>8. QED
  BY <1>6, <1>7

LEMMA ProgressUpdateModule ==
    ASSUME TypeInv, AnswersInv, ProgressInv, NEW r \in Submitters, UpdateModuleProgress(r)
    PROVE  ProgressInv'
<1> DEFINE m == MyModule(r)
           w == HeldWhole(r)
<1>1. /\ phase[r] = "module" /\ phase' = [phase EXCEPT ![r] = "lesson"]
      /\ UNCHANGED <<quiz, lessonProgress, pathProgress, crowded, unsettled>>
  BY DEF UpdateModuleProgress, Proceed, quizHistory
<1>2. r \in Active /\ m \in Modules
  <2>1. r \in Active
    BY <1>1 DEF Active, Ended
  <2>2. QED
    BY <2>1, ActiveFacts
<1>3. /\ LocalStep(r) /\ AnswersKept(r) /\ w \in 0..100
      /\ moduleProgress' = IF local[r].module = 100 * w THEN moduleProgress
                           ELSE [moduleProgress EXCEPT ![m] = w]
      /\ local'[r].module = 100 * w /\ local'[r].quizzes = local[r].quizzes
      /\ local'[r].lesson = local[r].lesson /\ local'[r].path = local[r].path
  BY FinishedHeld, UpdateModuleProgressLocal
<1> HIDE DEF m, w
<1>4. \A y \in Modules \ {m} : moduleProgress'[y] = moduleProgress[y]
  BY <1>2, <1>3 DEF TypeInv, RowInv
<1>5. ElsewhereKept(r)
  BY <1>1, <1>4 DEF ElsewhereKept, m
<1>6. CASE r \in crowded
  BY <1>1, <1>2, <1>3, <1>5, <1>6, ProgressCrowded DEF LocalStep, AnswersKept
<1>7. CASE r \notin crowded
  <2>1. AloneOf(r)
    BY <1>2, <1>7, AloneLevels
  <2>2. phase'[r] = "lesson"
    BY <1>1, <1>3, StepOfOne
  <2>3. MyModule(r)' = m /\ MyLesson(r)' = MyLesson(r)
    BY <1>3 DEF MyModule, MyLesson, AnswersKept, m
  <2>4. local[r].quizzes = quiz /\ moduleProgress[m] = local[r].module \div 100
    BY <1>1, <2>1 DEF AloneOf, Scored, m
  <2>5. moduleProgress'[m] = w
    <3>1. CASE local[r].module = 100 * w
      BY <1>3, <2>4, <3>1
    <3>2. CASE local[r].module # 100 * w
      BY <1>2, <1>3, <3>2 DEF TypeInv, RowInv
    <3>3. QED
      BY <3>1, <3>2
  <2>6. w = Expected(m)
    <3>1. Completed(quiz, QuizzesOf(m)) # {}
      BY <2>4, FinishedHeld DEF m
    <3>2. QED
      BY <2>4, <3>1 DEF w, m, HeldWhole, Expected
  <2>7. ModuleHolds(MyModule(r))'
    <3>1. Expected(MyModule(r))' = Expected(m)
      BY <1>1, <2>3 DEF Expected
    <3>2. QED
      BY <2>3, <2>5, <2>6, <3>1 DEF ModuleHolds
  <2>8. AloneOf(r)'
    BY <1>1, <1>3, <2>1, <2>2, <2>3, <2>4, <2>5, <2>7 DEF AloneOf, AnswersKept, Scored
  <2>9. QED
    BY <1>1, <1>2, <1>3, <1>5, <1>7, <2>7, <2>8, ProgressAlone DEF AnswersKept, Behind, ActivePhases
<1>8. QED
  BY <1>6, <1>7

LEMMA ProgressReadModules ==
    ASSUME TypeInv, ProgressInv, NEW r \in Submitters, ReadModulesOfLesson(r)
    PROVE  ProgressInv'
<1> DEFINE mine == [moduleProgress EXCEPT ![MyModule(r)] = local[r].module \div 100]
<1>1. /\ phase[r] = "lesson" /\ phase' = [phase EXCEPT ![r] = "writeLesson"]
      /\ UNCHANGED <<quiz, moduleProgress, lessonProgress, pathProgress, crowded, unsettled>>
  BY DEF ReadModulesOfLesson, Proceed, quizRows, quizHistory
<1>2. r \in Active /\ MyModule(r) \in Modules /\ IsHeld(local[r])
  <2>1. r \in Active
    BY <1>1 DEF Active, Ended
  <2>2. QED
    BY <2>1, ActiveFacts
<1>3. /\ LocalStep(r) /\ AnswersKept(r)
      /\ local'[r].lessons[MyLesson(r)] = Average(mine, ModulesOf(MyLesson(r)))
      /\ local'[r].quizzes = local[r].quizzes /\ local'[r].module = local[r].module
      /\ local'[r].lesson = local[r].lesson /\ local'[r].path = local[r].path
  BY ReadModulesLocal
<1> HIDE DEF mine
<1>4. ASSUME r \notin crowded PROVE AloneOf(r)'
  <2>1. AloneOf(r)
    BY <1>2, <1>4, AloneLevels
  <2>2. phase'[r] = "writeLesson"
    BY <1>1, <1>3, StepOfOne
  <2>3. MyModule(r)' = MyModule(r) /\ MyLesson(r)' = MyLesson(r)
    BY <1>3 DEF MyModule, MyLesson, AnswersKept
  <2>4. ModuleHolds(MyModule(r)) /\ local[r].module = 100 * moduleProgress[MyModule(r)]
    BY <1>1, <2>1 DEF AloneOf
  <2>5. mine = moduleProgress
    <3>1. moduleProgress[MyModule(r)] \in Int /\ local[r].module \in 0..Full
      <4>1. moduleProgress[MyModule(r)] \in 0..100
        BY <1>2 DEF TypeInv, RowInv
      <4>2. QED
        BY <1>2, <4>1 DEF IsHeld
    <3>2. local[r].module \div 100 = moduleProgress[MyModule(r)]
      BY <2>4, <3>1, WholePercents
    <3>3. QED
      BY <3>2 DEF mine, TypeInv, RowInv
  <2>6. ModuleHolds(MyModule(r))'
    BY <1>1, <2>3, <2>4 DEF ModuleHolds, Expected
  <2>7. QED
    BY <1>1, <1>3, <2>1, <2>2, <2>3, <2>4, <2>5, <2>6 DEF AloneOf, AnswersKept, Scored
<1>5. QED
  BY <1>1, <1>2, <1>3, <1>4, ProgressWithin DEF AnswersKept, Behind, ActivePhases

LEMMA ProgressStoreLesson ==
    ASSUME TypeInv, ProgressInv, NEW r \in Submitters, StoreLessonProgress(r)
    PROVE  ProgressInv'
<1> DEFINE l == MyLesson(r)
           new == local[r].lessons[l]
<1>1. /\ phase[r] = "writeLesson" /\ phase' = [phase EXCEPT ![r] = "path"]
      /\ UNCHANGED <<quiz, moduleProgress, pathProgress, crowded, unsettled>>
  BY DEF StoreLessonProgress, Proceed, quizHistory
<1>2. r \in Active /\ l \in Lessons
  <2>1. r \in Active
    BY <1>1 DEF Active, Ended
  <2>2. QED
    BY <2>1, ActiveFacts
<1>3. /\ LocalStep(r) /\ AnswersKept(r)
      /\ lessonProgress' = IF local[r].lesson = new THEN lessonProgress
                           ELSE [lessonProgress EXCEPT ![l] = new]
      /\ local'[r].lesson = new
      /\ local'[r].quizzes = local[r].quizzes /\ local'[r].module = local[r].module
      /\ local'[r].path = local[r].path
  BY StoreLessonLocal
<1>4. \A y \in Lessons \ {l} : lessonProgress'[y] = lessonProgress[y]
  BY <1>2, <1>3 DEF TypeInv, RowInv
<1>5. ElsewhereKept(r)
  BY <1>1, <1>4 DEF ElsewhereKept
<1>6. CASE r \in crowded
  BY <1>1, <1>2, <1>3, <1>5, <1>6, ProgressCrowded DEF LocalStep, AnswersKept
<1>7. CASE r \notin crowded
  <2>1. AloneOf(r)
    BY <1>2, <1>7, AloneLevels
  <2>2. phase'[r] = "path"
    BY <1>1, <1>3, StepOfOne
  <2>3. MyModule(r)' = MyModule(r) /\ MyLesson(r)' = MyLesson(r)
    BY <1>3 DEF MyModule, MyLesson, AnswersKept
  <2>4. /\ ModuleHolds(MyModule(r)) /\ local[r].module = 100 * moduleProgress[MyModule(r)]
        /\ new = Average(moduleProgress, ModulesOf(l)) /\ local[r].lesson = lessonProgress[l]
    BY <1>1, <2>1 DEF AloneOf
  <2>5. lessonProgress'[l] = new
    BY <1>2, <1>3, <2>4 DEF TypeInv, RowInv
  <2>6. ModuleHolds(MyModule(r))' /\ LessonHolds(MyLesson(r))'
    BY <1>1, <2>3, <2>4, <2>5 DEF ModuleHolds, Expected, LessonHolds
  <2>7. MyModule(r) \notin unsettled => ModuleHolds(MyModule(r))'
    BY <2>6
  <2> HIDE DEF l, new
  <2>8. AloneOf(r)'
    <3>1. local'[r].lesson = lessonProgress'[MyLesson(r)']
      BY <1>3, <2>3, <2>5 DEF l
    <3>2. QED
      BY <1>1, <1>3, <2>1, <2>2, <2>3, <2>4, <2>6, <3>1 DEF AloneOf, AnswersKept, Scored
  <2>9. QED
    BY <1>1, <1>2, <1>3, <1>5, <1>7, <2>6, <2>8, ProgressAlone DEF AnswersKept, Behind, ActivePhases
<1>8. QED
  BY <1>6, <1>7

LEMMA ProgressReadLessons ==
    ASSUME TypeInv, ProgressInv, NEW r \in Submitters, ReadLessonsOfPath(r)
    PROVE  ProgressInv'
<1>1. /\ phase[r] = "path" /\ phase' = [phase EXCEPT ![r] = "writePath"]
      /\ UNCHANGED <<quiz, moduleProgress, lessonProgress, pathProgress, crowded, unsettled>>
  BY DEF ReadLessonsOfPath, Proceed, quizRows, quizHistory
<1>2. r \in Active /\ MyLesson(r) \in Lessons
  <2>1. r \in Active
    BY <1>1 DEF Active, Ended
  <2>2. QED
    BY <2>1, ActiveFacts
<1>3. /\ LocalStep(r) /\ AnswersKept(r)
      /\ local'[r].lessons = [lessonProgress EXCEPT ![MyLesson(r)] = local[r].lesson]
      /\ local'[r].quizzes = local[r].quizzes /\ local'[r].module = local[r].module
      /\ local'[r].lesson = local[r].lesson /\ local'[r].path = local[r].path
  BY ReadLessonsLocal
<1>4. ASSUME r \notin crowded PROVE AloneOf(r)'
  <2>1. AloneOf(r)
    BY <1>2, <1>4, AloneLevels
  <2>2. phase'[r] = "writePath"
    BY <1>1, <1>3, StepOfOne
  <2>3. MyModule(r)' = MyModule(r) /\ MyLesson(r)' = MyLesson(r)
    BY <1>3 DEF MyModule, MyLesson, AnswersKept
  <2>4. /\ ModuleHolds(MyModule(r)) /\ LessonHolds(MyLesson(r))
        /\ local[r].lesson = lessonProgress[MyLesson(r)]
    BY <1>1, <2>1 DEF AloneOf
  <2>5. local'[r].lessons = lessonProgress
    BY <1>3, <2>4 DEF TypeInv, RowInv
  <2>6. ModuleHolds(MyModule(r))' /\ LessonHolds(MyLesson(r))'
    BY <1>1, <2>3, <2>4 DEF ModuleHolds, Expected, LessonHolds
  <2>7. QED
    BY <1>1, <1>3, <2>1, <2>2, <2>3, <2>5, <2>6 DEF AloneOf, AnswersKept, Scored
<1>5. QED
  BY <1>1, <1>2, <1>3, <1>4, ProgressWithin DEF AnswersKept, Behind, ActivePhases

LEMMA ProgressStorePath ==
    ASSUME TypeInv, ProgressInv, NEW r \in Submitters, StorePathProgress(r)
    PROVE  ProgressInv'
<1> DEFINE new == Average(local[r].lessons, Lessons)
<1>1. /\ phase[r] = "writePath" /\ phase' = [phase EXCEPT ![r] = "ok"]
      /\ UNCHANGED <<quiz, moduleProgress, lessonProgress, local, crowded>>
      /\ pathProgress' = IF local[r].path = new THEN pathProgress ELSE new
      /\ unsettled' = IF r \in crowded THEN unsettled ELSE unsettled \ Above(local[r].quiz)
  BY DEF StorePathProgress, Proceed
<1>2. r \in Active
  BY <1>1 DEF Active, Ended
<1>3. CASE r \in crowded
  <2>1. ElsewhereKept(r)
    BY <1>1 DEF ElsewhereKept
  <2>2. QED
    BY <1>1, <1>2, <1>3, <2>1, ProgressCrowded
<1>4. CASE r \notin crowded
  <2>1. AloneOf(r)
    BY <1>2, <1>4, AloneLevels
  <2>2. local[r].lessons = lessonProgress /\ local[r].path = pathProgress
    BY <1>1, <2>1 DEF AloneOf
  <2>3. PathHolds'
    BY <1>1, <2>2 DEF PathHolds
  <2>4. QED
    BY <1>1, <1>2, <1>4, <2>3, ProgressEnds
<1>5. QED
  BY <1>3, <1>4

\* A submission that ends before its last commit.
LEMMA ProgressFails ==
    ASSUME TypeInv, ProgressInv, NEW r \in Submitters, SubmissionFails(r) \/ DivideByZero(r)
    PROVE  ProgressInv'
<1>1. /\ phase[r] \notin Ended /\ phase' = [phase EXCEPT ![r] = "failed"]
      /\ UNCHANGED <<quiz, moduleProgress, lessonProgress, pathProgress, local, crowded>>
      /\ \/ unsettled' = unsettled \cup Above(local[r].quiz)
         \/ phase[r] = "answers" /\ unsettled' = unsettled
  BY DEF SubmissionFails, DivideByZero, Proceed, Ended, quizRows, quizHistory
<1>2. r \in Active
  BY <1>1 DEF Active
<1>3. CASE r \in crowded
  <2>1. ElsewhereKept(r)
    BY <1>1 DEF ElsewhereKept
  <2>2. QED
    BY <1>1, <1>2, <1>3, <2>1, ProgressCrowded
<1>4. CASE r \notin crowded
  BY <1>1, <1>2, <1>4, ProgressEnds
<1>5. QED
  BY <1>3, <1>4

\* Answers, and what the handler does beside the progress.
LEMMA ProgressAnswers ==
    ASSUME TypeInv, ProgressInv, NEW r \in Submitters, ReadQuestions(r) \/ StoreAnswer(r)
    PROVE  ProgressInv'
<1>1. /\ phase[r] \in {"loaded", "answers"} /\ phase' = [phase EXCEPT ![r] = "answers"]
      /\ UNCHANGED <<quiz, moduleProgress, lessonProgress, pathProgress, crowded, unsettled>>
  BY DEF ReadQuestions, StoreAnswer, Proceed, quizRows, TypeInv, RequestInv
<1>2. r \in Active
  BY <1>1 DEF Active, Ended
<1>3. /\ LocalStep(r) /\ local'[r].quiz = local[r].quiz
      /\ local'[r].module = local[r].module /\ local'[r].lesson = local[r].lesson
      /\ local'[r].path = local[r].path
  BY ReadQuestionsLocal, StoreAnswerLocal
<1>4. ASSUME r \notin crowded PROVE AloneOf(r)'
  <2>1. AloneOf(r)
    BY <1>2, <1>4, AloneLevels
  <2>2. phase'[r] = "answers"
    BY <1>1, <1>3, StepOfOne
  <2>3. MyModule(r)' = MyModule(r) /\ MyLesson(r)' = MyLesson(r)
    BY <1>3 DEF MyModule, MyLesson
  <2>4. QED
    BY <1>1, <1>3, <2>1, <2>2, <2>3 DEF AloneOf, Scored
<1>5. QED
  BY <1>1, <1>2, <1>3, <1>4, ProgressWithin DEF Behind, ActivePhases

LEMMA ProgressAnalyse ==
    ASSUME TypeInv, ProgressInv, NEW r \in Submitters, Analyse(r)
    PROVE  ProgressInv'
<1>1. /\ phase[r] = "analyse" /\ phase' = [phase EXCEPT ![r] = "module"]
      /\ UNCHANGED <<quiz, moduleProgress, lessonProgress, pathProgress, local, crowded, unsettled>>
  BY DEF Analyse, Proceed, quizRows, quizHistory
<1>2. r \in Active
  BY <1>1 DEF Active, Ended
<1>3. LocalStep(r) /\ local'[r].quiz = local[r].quiz
  BY <1>1, <1>2, ActiveFacts DEF LocalStep
<1>4. ASSUME r \notin crowded PROVE AloneOf(r)'
  <2>1. AloneOf(r)
    BY <1>2, <1>4, AloneLevels
  <2>2. phase'[r] = "module"
    BY <1>1, <1>3, StepOfOne
  <2>3. MyModule(r)' = MyModule(r) /\ MyLesson(r)' = MyLesson(r)
    BY <1>3 DEF MyModule, MyLesson
  <2>4. QED
    BY <1>1, <2>1, <2>2, <2>3 DEF AloneOf, Scored
<1>5. QED
  BY <1>1, <1>2, <1>3, <1>4, ProgressWithin DEF Behind, ActivePhases

LEMMA ProgressOpens ==
    ASSUME TypeInv, ProgressInv, NEW r \in Submitters \cup Clears,
           (r \in Submitters /\ Open(r)) \/ (r \in Clears /\ ClearRaises(r))
    PROVE  ProgressInv'
<1>1. /\ phase[r] = "idle" /\ r \in Submitters \cup Clears
      /\ UNCHANGED <<quiz, moduleProgress, lessonProgress, pathProgress, crowded, unsettled>>
      /\ phase' = [phase EXCEPT ![r] = "shown"] \/ phase' = [phase EXCEPT ![r] = "failed"]
  BY DEF Open, ClearRaises, Proceed, quizRows, quizHistory
<1>2. /\ phase'[r] \in {"shown", "failed"}
      /\ \A o \in (Submitters \cup Clears) \ {r} : phase'[o] = phase[o]
  BY <1>1 DEF TypeInv, RequestInv
<1>3. \A o \in (Submitters \cup Clears) \ {r} : local'[o] = local[o]
  <2>1. CASE r \in Submitters /\ Open(r)
    BY <2>1, OpenLocal DEF LocalStep
  <2>2. CASE r \in Clears /\ ClearRaises(r)
    BY <2>2 DEF ClearRaises, TypeInv, RequestInv
  <2>3. QED
    BY <2>1, <2>2
<1>4. r \notin Active /\ Active' = Active
  BY <1>1, <1>2 DEF Active, Ended
<1>5. r \notin crowded
  BY <1>1 DEF ProgressInv, CrowdInv
<1>6. \A o \in Active : local'[o] = local[o] /\ phase'[o] = phase[o]
  BY <1>2, <1>3, <1>4 DEF Active
<1>7. \A o \in crowded : phase'[o] \notin {"idle", "shown"}
  BY <1>2, <1>5 DEF ProgressInv, CrowdInv, TypeInv, HistoryInv
<1>8. QED
  BY <1>1, <1>4, <1>6, <1>7, ProgressAside

LEMMA StepProgress ==
    ASSUME TypeInv, AnswersInv, ProgressInv, QuizNext PROVE ProgressInv'
<1>1. ASSUME NEW r \in Submitters, ReadQuestions(r) \/ StoreAnswer(r)
      PROVE  ProgressInv'
  BY <1>1, ProgressAnswers
<1>2. ASSUME NEW r \in Submitters, SubmissionFails(r) \/ DivideByZero(r) \/ Analyse(r)
      PROVE  ProgressInv'
  BY <1>2, ProgressFails, ProgressAnalyse
<1>3. ASSUME NEW r \in Submitters, Open(r) PROVE ProgressInv'
  BY <1>3, ProgressOpens, Zenon
<1>4. ASSUME NEW r \in Clears, ClearRaises(r) PROVE ProgressInv'
  BY <1>4, ProgressOpens, Zenon
<1>5. QED
  BY <1>1, <1>2, <1>3, <1>4, ProgressLoad, ProgressStoreScore, ProgressReadQuizzes, ProgressStoreAverage,
     ProgressUpdateModule, ProgressReadModules, ProgressStoreLesson, ProgressReadLessons,
     ProgressStorePath DEF QuizNext

LEMMA AveragesOfNothing ==
    ASSUME NEW S, NEW T \in SUBSET S, IsFiniteSet(S)
    PROVE  Average([x \in S |-> 0], T) = 0
<1>1. IsFiniteSet(T) /\ \A x \in T : [y \in S |-> 0][x] \in 0..0
  BY FS_Subset
<1>2. Average([x \in S |-> 0], T) \in 0..0
  BY <1>1, AverageBound
<1>3. QED
  BY <1>2

LEMMA ProgressInit == QuizInit => ProgressInv
<1> SUFFICES ASSUME QuizInit PROVE ProgressInv
  OBVIOUS
<1>1. /\ quiz = [z \in Quizzes |-> NewQuiz] /\ crowded = {}
      /\ moduleProgress = [m \in Modules |-> 0] /\ lessonProgress = [l \in Lessons |-> 0]
      /\ pathProgress = 0 /\ Active = {}
  BY DEF QuizInit, Active, Ended
<1>2. ASSUME NEW m \in Modules PROVE ModuleHolds(m)
  <2>1. Completed(quiz, QuizzesOf(m)) = {}
    BY <1>1 DEF Completed, NewQuiz, QuizzesOf
  <2>2. QED
    BY <1>1, <2>1 DEF ModuleHolds, Expected
<1>3. ASSUME NEW l \in Lessons PROVE LessonHolds(l)
  <2>1. ModulesOf(l) \in SUBSET Modules
    BY DEF ModulesOf
  <2>2. Average(moduleProgress, ModulesOf(l)) = 0
    BY <1>1, <2>1, TreeAssumption, AveragesOfNothing
  <2>3. QED
    BY <1>1, <2>2 DEF LessonHolds
<1>4. PathHolds
  BY <1>1, TreeAssumption, AveragesOfNothing DEF PathHolds
<1>5. QED
  BY <1>1, <1>2, <1>3, <1>4 DEF ProgressInv, LevelsInv, CrowdInv, AloneInv

LEMMA ProgressInvHolds == QuizSpec => [](QuizInv /\ ProgressInv)
<1>1. ASSUME QuizInv, ProgressInv, [QuizNext]_quizVars PROVE ProgressInv'
  <2>1. CASE QuizNext
    BY <1>1, <2>1, StepProgress DEF QuizInv
  <2>2. CASE UNCHANGED quizVars
    <3>1. UNCHANGED <<quiz, moduleProgress, lessonProgress, pathProgress, crowded, unsettled>>
      BY <2>2 DEF quizVars, quizRows, quizHistory
    <3>2. Active' = Active /\ \A o \in Active : local'[o] = local[o] /\ phase'[o] = phase[o]
      BY <2>2 DEF Active, quizVars
    <3>3. \A o \in crowded : phase'[o] \notin {"idle", "shown"}
      BY <1>1, <2>2 DEF quizVars, ProgressInv, CrowdInv
    <3>4. QED
      BY <1>1, <3>1, <3>2, <3>3, ProgressAside
  <2>3. QED
    BY <1>1, <2>1, <2>2
<1>2. QED
  BY <1>1, QuizInvHolds, ProgressInit, PTL DEF QuizSpec

-----------------------------------------------------------------------------

\* Progress settles: when no submission runs, the progress of each module, lesson and path is
\* the rounded average of the level below, except above a quiz whose last submissions ran at
\* the same time or failed (module.py:305, repositories/modules.py:6).
THEOREM ProgressSettles == QuizSpec => []SettledProgress
<1>1. ProgressInv => SettledProgress
  <2>1. SUFFICES ASSUME LevelsInv, Active = {} PROVE SettledProgress
    BY DEF ProgressInv, SettledProgress
  <2>2. /\ \A m \in Modules \ unsettled : ModuleHolds(m)
        /\ \A l \in Lessons \ unsettled : LessonHolds(l)
        /\ "path" \notin unsettled => PathHolds
    BY <2>1 DEF LevelsInv
  <2>3. QED
    BY <2>2 DEF SettledProgress, ModuleHolds, LessonHolds, PathHolds, Expected
<1>2. QED
  BY <1>1, ProgressInvHolds, PTL

-----------------------------------------------------------------------------
(* The scenes.                                                             *)

\* Whichever scene is played, lessons, paths, quizzes and their requests keep their types
\* (machine/api/v1/ai_routers.py, recommend.py, module.py): a scene is a behaviour of one
\* component beside which the others rest.
THEOREM ScenesKeepTypes == MCSpec => []TypesOK
<1>1. MCSpec => Spec
  <2>1. MCInit => Init
    BY DEF MCInit
  <2>2. [MCNext]_<<scene, vars, pathVars, quizVars>> => [Next]_vars
    BY DEF MCNext, LessonScene
  <2>3. QED
    BY <2>1, <2>2, PTL DEF MCSpec, Spec
<1>2. MCSpec => PathSpec
  <2>1. MCInit => PathInit
    BY DEF MCInit
  <2>2. [MCNext]_<<scene, vars, pathVars, quizVars>> => [PathNext]_pathVars
    BY DEF MCNext, PathScene
  <2>3. QED
    BY <2>1, <2>2, PTL DEF MCSpec, PathSpec
<1>3. MCSpec => QuizSpec
  <2>1. MCInit => QuizInit
    BY DEF MCInit
  <2>2. [MCNext]_<<scene, vars, pathVars, quizVars>> => [QuizNext]_quizVars
    BY DEF MCNext, QuizScene
  <2>3. QED
    BY <2>1, <2>2, PTL DEF MCSpec, QuizSpec
<1>4. TypeOK /\ PathTypeOK /\ QuizTypeOK => TypesOK
  BY DEF TypesOK
<1>5. QED
  BY <1>1, <1>2, <1>3, <1>4, TypeCorrect, PathTypesHold, QuizTypesHold, PTL

=============================================================================
