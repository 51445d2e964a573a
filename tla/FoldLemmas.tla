----------------------------- MODULE FoldLemmas -----------------------------
(***************************************************************************)
(* What a fold over a finite set or a sequence comes to.  The operators of *)
(* the community modules are recursive functions; that such a function is  *)
(* defined, and that what every step of it keeps is true of its result,    *)
(* follows by induction over a set of natural numbers, which the order of  *)
(* the natural numbers being well founded gives.  The step of the fold and *)
(* the choice of the next element are functions here, so that the lemmas   *)
(* can be used for any of them.                                            *)
(***************************************************************************)
EXTENDS Integers, Sequences, SequencesExt, Filtering, FiniteSetTheorems, SequenceTheorems, TLAPS

(* Induction over the natural numbers, for a set of them.                  *)
LEMMA SetInduction ==
  ASSUME NEW S \in SUBSET Nat, 0 \in S, \A n \in S : n + 1 \in S
  PROVE  S = Nat
<1> DEFINE T == Nat \ S
<1> SUFFICES ASSUME T # {} PROVE FALSE
  OBVIOUS
<1>1. PICK x \in T : \A y \in T : ~ (<<y, x>> \in OpToRel(<, Nat))
  <2> HIDE DEF T
  <2>1. T \subseteq Nat
    BY DEF T
  <2> QED BY <2>1, WFMin, NatLessThanWellFounded
<1>2. x \in Nat /\ x # 0 /\ x - 1 \in T
  OBVIOUS
<1>3. <<x - 1, x>> \in OpToRel(<, Nat)
  BY <1>2 DEF OpToRel
<1> QED BY <1>1, <1>2, <1>3

(* A fold over a finite set, one element at a time, is defined.            *)
Picks(pick, D) == \A s \in SUBSET D : s # {} => pick[s] \in s

FoldOf(g, D, base, pick, step) ==
  \A s \in SUBSET D :
     g[s] = IF s = {} THEN base ELSE step[<<pick[s], g[s \ {pick[s]}]>>]

LEMMA FoldDefined ==
  ASSUME NEW D, IsFiniteSet(D), NEW T, NEW base \in T, NEW pick, Picks(pick, D),
         NEW step \in [D \X T -> T]
  PROVE  \E g \in [SUBSET D -> T] : FoldOf(g, D, base, pick, step)
<1> DEFINE Up(n) == {s \in SUBSET D : Cardinality(s) <= n}
           Folds(g, n) == \A s \in Up(n) :
             g[s] = IF s = {} THEN base ELSE step[<<pick[s], g[s \ {pick[s]}]>>]
           Reached == {n \in Nat : \E g \in [Up(n) -> T] : Folds(g, n)}
<1>1. \A s \in SUBSET D : /\ IsFiniteSet(s) /\ Cardinality(s) \in Nat
                          /\ Cardinality(s) <= Cardinality(D)
                          /\ Cardinality(s) = 0 <=> s = {}
  BY FS_Subset, FS_CardinalityType, FS_EmptySet
<1>2. \A s \in SUBSET D : s # {} => /\ s \ {pick[s]} \in SUBSET D /\ pick[s] \in D
                                    /\ Cardinality(s \ {pick[s]}) = Cardinality(s) - 1
  BY <1>1, FS_RemoveElement DEF Picks
<1>3. 0 \in Reached
  <2> DEFINE g == [s \in Up(0) |-> base]
  <2>1. \A s \in Up(0) : s = {}
    BY <1>1
  <2>2. g \in [Up(0) -> T] /\ Folds(g, 0)
    BY <2>1
  <2> QED BY <2>2
<1>4. ASSUME NEW n \in Reached  PROVE n + 1 \in Reached
  <2>1. PICK g \in [Up(n) -> T] : Folds(g, n)
    OBVIOUS
  <2> DEFINE h == [s \in Up(n + 1) |-> IF s = {} THEN base
                                       ELSE step[<<pick[s], g[s \ {pick[s]}]>>]]
  <2>2. n \in Nat
    OBVIOUS
  <2>3. \A s \in Up(n + 1) : s # {} => s \ {pick[s]} \in Up(n) /\ pick[s] \in D
    BY <1>1, <1>2, <2>2
  <2>4. Up(n) \subseteq Up(n + 1)
    BY <1>1, <2>2
  <2> HIDE DEF Up
  <2>5. h \in [Up(n + 1) -> T]
    BY <2>3
  <2>6. \A s \in Up(n) : h[s] = g[s]
    BY <2>1, <2>4
  <2>7. \A s \in Up(n + 1) :
          h[s] = IF s = {} THEN base ELSE step[<<pick[s], h[s \ {pick[s]}]>>]
    BY <2>3, <2>6
  <2>8. Folds(h, n + 1)
    BY <2>7
  <2> HIDE DEF h, Folds
  <2> QED BY <2>2, <2>5, <2>8
<1> HIDE DEF Reached
<1>5. Reached = Nat
  <2>1. Reached \in SUBSET Nat
    BY DEF Reached
  <2> QED BY <1>3, <1>4, <2>1, SetInduction
<1>6. PICK g \in [Up(Cardinality(D)) -> T] : Folds(g, Cardinality(D))
  <2>1. Cardinality(D) \in Nat
    BY FS_CardinalityType
  <2> QED BY <1>5, <2>1 DEF Reached
<1>7. Up(Cardinality(D)) = SUBSET D
  BY <1>1
<1> QED BY <1>6, <1>7 DEF FoldOf

(* What every step of a fold keeps is true of what it comes to.            *)
LEMMA FoldKeeps ==
  ASSUME NEW D, IsFiniteSet(D), NEW T, NEW pick, NEW g,
         Picks(pick, D), g[{}] \in T,
         \A s \in SUBSET D : s # {} /\ g[s \ {pick[s]}] \in T => g[s] \in T
  PROVE  g[D] \in T
<1> DEFINE Kept == {n \in Nat : \A s \in SUBSET D : Cardinality(s) = n => g[s] \in T}
<1>1. \A s \in SUBSET D : /\ IsFiniteSet(s) /\ Cardinality(s) \in Nat
                          /\ Cardinality(s) = 0 <=> s = {}
  BY FS_Subset, FS_CardinalityType, FS_EmptySet
<1>2. \A s \in SUBSET D : s # {} => /\ s \ {pick[s]} \in SUBSET D /\ pick[s] \in D
                                    /\ Cardinality(s \ {pick[s]}) = Cardinality(s) - 1
  BY <1>1, FS_RemoveElement DEF Picks
<1>3. 0 \in Kept
  BY <1>1
<1>4. ASSUME NEW n \in Kept  PROVE n + 1 \in Kept
  <2>1. ASSUME NEW s \in SUBSET D, Cardinality(s) = n + 1  PROVE g[s] \in T
    <3>1. s # {} /\ Cardinality(s \ {pick[s]}) = n /\ s \ {pick[s]} \in SUBSET D
      BY <1>1, <1>2, <2>1
    <3> QED BY <3>1
  <2> QED BY <2>1
<1> HIDE DEF Kept
<1>5. Kept = Nat
  <2>1. Kept \in SUBSET Nat
    BY DEF Kept
  <2> QED BY <1>3, <1>4, <2>1, SetInduction
<1> QED BY <1>1, <1>5 DEF Kept

(* Max of a non-empty set of positions is one of them.                    *)
LEMMA Greatest ==
  ASSUME NEW S \in SUBSET Nat, NEW n \in Nat, S \subseteq 1..n, S # {}
  PROVE  Max(S) \in S
<1> DEFINE Below == {k \in Nat : \A T \in SUBSET (1..k) :
                                   T # {} => \E x \in T : \A y \in T : x >= y}
<1>1. 0 \in Below
  <2>1. 1..0 = {}
    OBVIOUS
  <2> QED BY <2>1
<1>2. ASSUME NEW k \in Below  PROVE k + 1 \in Below
  <2>1. ASSUME NEW T \in SUBSET (1..(k + 1)), T # {}
        PROVE  \E x \in T : \A y \in T : x >= y
    <3>1. CASE k + 1 \in T
      BY <3>1
    <3>2. CASE k + 1 \notin T
      <4>1. T \in SUBSET (1..k)
        BY <3>2
      <4> QED BY <2>1, <4>1
    <3> QED BY <3>1, <3>2
  <2> QED BY <2>1
<1> HIDE DEF Below
<1>3. Below = Nat
  <2>1. Below \in SUBSET Nat
    BY DEF Below
  <2> QED BY <1>1, <1>2, <2>1, SetInduction
<1>4. \E x \in S : \A y \in S : x >= y
  BY <1>3 DEF Below
<1> QED BY <1>4 DEF Max

(* A fold from the left stands at the last of the positions it went over.  *)
LeftFoldOf(g, n, base, step) ==
  \A s \in SUBSET (1..n) :
     g[s] = IF s = {} THEN base ELSE step[<<Max(s), g[s \ {Max(s)}]>>]

LEMMA LeftFoldDefined ==
  ASSUME NEW n \in Nat, NEW T, NEW base \in T, NEW step \in [(1..n) \X T -> T]
  PROVE  \E g \in [SUBSET (1..n) -> T] : LeftFoldOf(g, n, base, step)
<1> DEFINE pick == [s \in SUBSET (1..n) |-> Max(s)]
<1>1. Picks(pick, 1..n)
  <2>1. ASSUME NEW s \in SUBSET (1..n), s # {}  PROVE Max(s) \in s
    <3>1. s \in SUBSET Nat
      OBVIOUS
    <3> QED BY <2>1, <3>1, Greatest
  <2> QED BY <2>1 DEF Picks
<1>2. IsFiniteSet(1..n)
  <2>1. 1 \in Int /\ n \in Int
    OBVIOUS
  <2> QED BY <2>1, FS_Interval
<1>3. PICK g \in [SUBSET (1..n) -> T] : FoldOf(g, 1..n, base, pick, step)
  <2> HIDE DEF pick
  <2> QED BY <1>1, <1>2, FoldDefined
<1> QED BY <1>3 DEF FoldOf, LeftFoldOf

LEMMA LeftFoldKeeps ==
  ASSUME NEW n \in Nat, NEW T, NEW g, g[{}] \in T,
         \A s \in SUBSET (1..n) : s # {} /\ g[s \ {Max(s)}] \in T => g[s] \in T
  PROVE  g[1..n] \in T
<1> DEFINE pick == [s \in SUBSET (1..n) |-> Max(s)]
<1>1. Picks(pick, 1..n)
  <2>1. ASSUME NEW s \in SUBSET (1..n), s # {}  PROVE Max(s) \in s
    <3>1. s \in SUBSET Nat
      OBVIOUS
    <3> QED BY <2>1, <3>1, Greatest
  <2> QED BY <2>1 DEF Picks
<1>2. IsFiniteSet(1..n)
  <2>1. 1 \in Int /\ n \in Int
    OBVIOUS
  <2> QED BY <2>1, FS_Interval
<1>3. \A s \in SUBSET (1..n) : s # {} /\ g[s \ {pick[s]}] \in T => g[s] \in T
  OBVIOUS
<1> HIDE DEF pick
<1> QED BY <1>1, <1>2, <1>3, FoldKeeps

-----------------------------------------------------------------------------
(* A sum of natural numbers is one, and nothing but zeros sums to zero.    *)
LEMMA SumType ==
  ASSUME NEW S, IsFiniteSet(S), NEW f \in [S -> Nat]
  PROVE  /\ FoldFunction(+, 0, f) \in Nat
         /\ FoldFunction(+, 0, f) = 0 <=> \A x \in S : f[x] = 0
<1> DEFINE some(s) == CHOOSE x \in s : TRUE
           Folds(g) == g = [s \in SUBSET S |->
             IF s = {} THEN 0 ELSE f[some(s)] + g[s \ {some(s)}]]
           h == CHOOSE g : Folds(g)
           pick == [s \in SUBSET S |-> some(s)]
           step == [p \in S \X Nat |-> f[p[1]] + p[2]]
<1>1. FoldFunction(+, 0, f) = h[S]
  <2>1. DOMAIN f = S
    OBVIOUS
  <2>2. FoldFunction(+, 0, f) = FoldFunctionOnSet(+, 0, f, S)
    BY <2>1 DEF FoldFunction
  <2> QED BY <2>2 DEF FoldFunctionOnSet, MapThenFoldSet
<1>2. \A s \in SUBSET S : s # {} => some(s) \in s
  OBVIOUS
<1> HIDE DEF some
<1>3. Picks(pick, S) /\ \A s \in SUBSET S : pick[s] = some(s)
  BY <1>2 DEF Picks
<1>4. step \in [S \X Nat -> Nat]
  OBVIOUS
<1>5. PICK g \in [SUBSET S -> Nat] : FoldOf(g, S, 0, pick, step)
  <2>1. 0 \in Nat
    OBVIOUS
  <2> HIDE DEF pick, step
  <2> QED BY <1>3, <1>4, <2>1, FoldDefined
<1>6. Folds(g)
  <2>1. ASSUME NEW s \in SUBSET S, s # {}
        PROVE  g[s] = f[some(s)] + g[s \ {some(s)}]
    <3>1. some(s) \in S /\ s \ {some(s)} \in SUBSET S /\ pick[s] = some(s)
      BY <2>1, <1>2, <1>3
    <3>2. g[s \ {some(s)}] \in Nat
      BY <3>1
    <3>3. g[s] = step[<<some(s), g[s \ {some(s)}]>>]
      BY <1>5, <2>1, <3>1 DEF FoldOf
    <3> QED BY <3>1, <3>2, <3>3
  <2>2. g[{}] = 0
    BY <1>5 DEF FoldOf
  <2> HIDE DEF pick, step
  <2> QED BY <2>1, <2>2
<1>7. Folds(h)
  <2> HIDE DEF Folds
  <2> QED BY <1>6
<1> HIDE DEF h
<1> DEFINE Good(s) == h[s] \in Nat /\ (h[s] = 0 <=> \A x \in s : f[x] = 0)
           sums == [s \in SUBSET S |-> Good(s)]
<1>8. Good({})
  BY <1>7
<1>9. ASSUME NEW s \in SUBSET S, s # {}, Good(s \ {some(s)})
      PROVE  Good(s)
  <2>1. some(s) \in s /\ f[some(s)] \in Nat
    BY <1>2, <1>9
  <2>2. h[s] = f[some(s)] + h[s \ {some(s)}]
    BY <1>7, <1>9
  <2>3. h[s \ {some(s)}] \in Nat
        /\ (h[s \ {some(s)}] = 0 <=> \A x \in s \ {some(s)} : f[x] = 0)
    BY <1>9
  <2>4. h[s] \in Nat /\ (h[s] = 0 <=> f[some(s)] = 0 /\ h[s \ {some(s)}] = 0)
    <3> HIDE DEF Folds
    <3> QED BY <2>1, <2>2, <2>3
  <2> HIDE DEF Folds
  <2> QED BY <2>1, <2>3, <2>4
<1> HIDE DEF Good
<1>10. sums[S] \in {TRUE}
  <2>1. sums[{}] \in {TRUE}
    BY <1>8
  <2>2. \A s \in SUBSET S : s # {} /\ sums[s \ {pick[s]}] \in {TRUE} => sums[s] \in {TRUE}
    <3> TAKE s \in SUBSET S
    <3> HAVE s # {} /\ sums[s \ {pick[s]}] \in {TRUE}
    <3>1. pick[s] = some(s) /\ s \ {some(s)} \in SUBSET S
      BY <1>3
    <3>2. Good(s \ {some(s)})
      BY <3>1
    <3> QED BY <1>9, <3>2
  <2> HIDE DEF sums, pick
  <2> QED BY <1>3, <2>1, <2>2, FoldKeeps
<1>11. Good(S)
  BY <1>10
<1> QED BY <1>1, <1>11 DEF Good

(* A finite set of natural numbers has a largest.                          *)
LEMMA Largest ==
  ASSUME NEW S \in SUBSET Nat, IsFiniteSet(S), S # {}
  PROVE  Max(S) \in S /\ \A y \in S : y <= Max(S)
<1> DEFINE Topped == {k \in Nat : \A T \in SUBSET Nat :
               IsFiniteSet(T) /\ Cardinality(T) = k /\ T # {} => \E x \in T : \A y \in T : x >= y}
<1>1. 0 \in Topped
  BY FS_EmptySet
<1>2. ASSUME NEW k \in Topped  PROVE k + 1 \in Topped
  <2>1. ASSUME NEW T \in SUBSET Nat, IsFiniteSet(T), Cardinality(T) = k + 1, T # {}
        PROVE  \E x \in T : \A y \in T : x >= y
    <3>1. PICK z \in T : TRUE
      BY <2>1
    <3>2. IsFiniteSet(T \ {z}) /\ Cardinality(T \ {z}) = k
      <4>1. IsFiniteSet(T \ {z}) /\ Cardinality(T \ {z}) = Cardinality(T) - 1
        BY <2>1, <3>1, FS_RemoveElement
      <4>2. k \in Nat
        BY DEF Topped
      <4> HIDE DEF Topped
      <4> QED BY <2>1, <4>1, <4>2
    <3>3. CASE T \ {z} = {}
      BY <3>1, <3>3
    <3>4. CASE T \ {z} # {}
      <4>1. PICK x \in T \ {z} : \A y \in T \ {z} : x >= y
        BY <3>2, <3>4
      <4>2. CASE x >= z
        BY <4>1, <4>2
      <4>3. CASE ~ (x >= z)
        <5>1. \A y \in T : z >= y
          BY <4>1, <4>3, <3>1
        <5> QED BY <5>1, <3>1
      <4> QED BY <4>2, <4>3
    <3> QED BY <3>3, <3>4
  <2> QED BY <2>1
<1> HIDE DEF Topped
<1>3. Topped = Nat
  <2>1. Topped \in SUBSET Nat
    BY DEF Topped
  <2> QED BY <1>1, <1>2, <2>1, SetInduction
<1>4. PICK x \in S : \A y \in S : x >= y
  <2>1. Cardinality(S) \in Nat
    BY FS_CardinalityType
  <2> QED BY <1>3, <2>1 DEF Topped
<1>5. Max(S) \in S /\ \A y \in S : Max(S) >= y
  BY <1>4 DEF Max
<1> QED BY <1>5

(* A set of natural numbers has a least.                                   *)
LEMMA Least ==
  ASSUME NEW S \in SUBSET Nat, S # {}
  PROVE  Min(S) \in S /\ \A y \in S : Min(S) <= y
<1>1. PICK x \in S : \A y \in S : ~ (<<y, x>> \in OpToRel(<, Nat))
  BY WFMin, NatLessThanWellFounded
<1>2. \A y \in S : x <= y
  <2> TAKE y \in S
  <2>1. ~ (y < x)
    BY <1>1 DEF OpToRel
  <2> QED BY <2>1
<1> QED BY <1>2 DEF Min

LEMMA LeastOfTwo ==
  ASSUME NEW a \in Int, NEW b \in Int
  PROVE  Min({a, b}) = IF a <= b THEN a ELSE b
<1>1. a <= b => \A x \in {a, b} : (\A y \in {a, b} : x <= y) <=> x = a
  OBVIOUS
<1>2. ~ (a <= b) => \A x \in {a, b} : (\A y \in {a, b} : x <= y) <=> x = b
  OBVIOUS
<1> QED BY <1>1, <1>2 DEF Min

-----------------------------------------------------------------------------
(* The function FlattenSeq reads its result off.                           *)
Concatenated(g, seqs) ==
  g = [i \in 1..Len(seqs) |-> IF i = 1 THEN seqs[i] ELSE g[i - 1] \o seqs[i]]

LEMMA FlattenType ==
  ASSUME NEW T, NEW seqs \in Seq(Seq(T))
  PROVE  FlattenSeq(seqs) \in Seq(T)
<1> DEFINE n == Len(seqs)
           Joins(g, k) == \A i \in 1..k : g[i] = IF i = 1 THEN seqs[i] ELSE g[i - 1] \o seqs[i]
           Joined == {k \in Nat : k <= n => \E g \in [1..k -> Seq(T)] : Joins(g, k)}
<1>1. n \in Nat /\ \A i \in 1..n : seqs[i] \in Seq(T)
  OBVIOUS
<1>2. 0 \in Joined
  <2> DEFINE g == [i \in 1..0 |-> << >>]
  <2>1. g \in [1..0 -> Seq(T)] /\ Joins(g, 0)
    OBVIOUS
  <2> HIDE DEF g, Joins
  <2> QED BY <2>1
<1>3. ASSUME NEW k \in Joined  PROVE k + 1 \in Joined
  <2>1. k \in Nat
    OBVIOUS
  <2>2. CASE k + 1 <= n
    <3>1. PICK g \in [1..k -> Seq(T)] : Joins(g, k)
      <4>1. k <= n
        BY <1>1, <2>1, <2>2
      <4> HIDE DEF Joins, n
      <4> QED BY <4>1
    <3> DEFINE h == [i \in 1..(k + 1) |-> IF i \in 1..k THEN g[i]
                        ELSE IF i = 1 THEN seqs[i] ELSE g[i - 1] \o seqs[i]]
    <3>2. \A i \in 1..(k + 1) : i # 1 => i - 1 \in 1..k
      BY <2>1
    <3>3. h \in [1..(k + 1) -> Seq(T)]
      <4>1. ASSUME NEW i \in 1..(k + 1)  PROVE h[i] \in Seq(T)
        <5>1. seqs[i] \in Seq(T)
          BY <1>1, <2>1, <2>2
        <5>2. i # 1 => g[i - 1] \in Seq(T)
          BY <3>2
        <5>3. i # 1 => g[i - 1] \o seqs[i] \in Seq(T)
          BY <5>1, <5>2
        <5> QED BY <5>1, <5>3
      <4> QED BY <4>1
    <3>4. Joins(h, k + 1)
      <4>1. ASSUME NEW i \in 1..(k + 1)
            PROVE  h[i] = IF i = 1 THEN seqs[i] ELSE h[i - 1] \o seqs[i]
        <5>1. i # 1 => h[i - 1] = g[i - 1]
          BY <2>1, <3>2
        <5>2. i \in 1..k => g[i] = IF i = 1 THEN seqs[i] ELSE g[i - 1] \o seqs[i]
          BY <3>1
        <5> QED BY <5>1, <5>2
      <4> QED BY <4>1
    <3> HIDE DEF h, Joins
    <3> QED BY <2>1, <3>3, <3>4
  <2>3. CASE ~ (k + 1 <= n)
    BY <2>1, <2>3
  <2> QED BY <2>2, <2>3
<1>4. Joined = Nat
  <2> HIDE DEF Joined
  <2>1. Joined \in SUBSET Nat
    BY DEF Joined
  <2> QED BY <1>2, <1>3, <2>1, SetInduction
<1>5. \E g : Concatenated(g, seqs)
  <2>1. PICK g \in [1..n -> Seq(T)] : Joins(g, n)
    <3>1. n \in Joined /\ n <= n
      <4> HIDE DEF Joined
      <4> QED BY <1>1, <1>4
    <3> HIDE DEF Joins, n
    <3> QED BY <3>1
  <2>2. Concatenated(g, seqs)
    BY <2>1 DEF Concatenated
  <2> QED BY <2>2
<1> DEFINE h == CHOOSE g : Concatenated(g, seqs)
<1>6. Concatenated(h, seqs)
  BY <1>5
<1>7. n # 0 => FlattenSeq(seqs) = h[n]
  BY DEF FlattenSeq, Concatenated
<1>8. n = 0 => FlattenSeq(seqs) \in Seq(T)
  BY DEF FlattenSeq
<1> HIDE DEF h
<1> DEFINE Typed == {k \in Nat : k \in 1..n => h[k] \in Seq(T)}
<1>9. 0 \in Typed
  OBVIOUS
<1>10. ASSUME NEW k \in Typed  PROVE k + 1 \in Typed
  <2>1. ASSUME k + 1 \in 1..n  PROVE h[k + 1] \in Seq(T)
    <3>1. seqs[k + 1] \in Seq(T)
      BY <1>1, <2>1
    <3>2. k \in Nat /\ (k # 0 => k \in 1..n /\ h[k] \in Seq(T))
      BY <1>1, <2>1
    <3>3. h[k + 1] = IF k = 0 THEN seqs[k + 1] ELSE h[k] \o seqs[k + 1]
      <4>1. h[k + 1] = IF k + 1 = 1 THEN seqs[k + 1] ELSE h[k + 1 - 1] \o seqs[k + 1]
        <5> DEFINE i == k + 1
        <5>1. i \in 1..Len(seqs)
          BY <2>1
        <5> HIDE DEF i
        <5>2. h[i] = IF i = 1 THEN seqs[i] ELSE h[i - 1] \o seqs[i]
          BY <1>6, <5>1 DEF Concatenated
        <5> QED BY <5>2 DEF i
      <4>2. k + 1 - 1 = k /\ (k + 1 = 1 <=> k = 0)
        BY <3>2
      <4> QED BY <4>1, <4>2
    <3>4. k # 0 => h[k] \o seqs[k + 1] \in Seq(T)
      BY <3>1, <3>2
    <3> QED BY <3>1, <3>3, <3>4
  <2> QED BY <2>1
<1>11. Typed = Nat
  <2> HIDE DEF Typed
  <2>1. Typed \in SUBSET Nat
    BY DEF Typed
  <2> QED BY <1>9, <1>10, <2>1, SetInduction
<1> QED BY <1>1, <1>7, <1>8, <1>11
-----------------------------------------------------------------------------
(* What is left of a sequence: what of it the set holds and nothing else,  *)
(* in order, so that no element is farther from the end than it was.       *)
NoFarther(seq, k, kept, S) ==
  seq[k] \in S => \E j \in 1..Len(kept) : kept[j] = seq[k] /\ Len(kept) - j <= Len(seq) - k

ComesFrom(kept, seq) == \A j \in 1..Len(kept) : \E k \in 1..Len(seq) : kept[j] = seq[k]

LEMMA OnlyKeeps ==
  ASSUME NEW T, NEW seq \in Seq(T), NEW S
  PROVE  /\ Only(seq, S) \in Seq(T \cap S)
         /\ Len(Only(seq, S)) <= Len(seq)
         /\ \A k \in 1..Len(seq) : NoFarther(seq, k, Only(seq, S), S)
         /\ ComesFrom(Only(seq, S), seq)
<1> DEFINE n == Len(seq)
           U == Seq(T \cap S)
           Folds(g) == g = [s \in SUBSET (1..n) |->
             IF s = {} THEN << >> ELSE KeepIf(g[s \ {Max(s)}], seq[Max(s)], S)]
           h == CHOOSE g : Folds(g)
           step == [p \in (1..n) \X U |-> KeepIf(p[2], seq[p[1]], S)]
<1>1. n \in Nat /\ DOMAIN seq = 1..n /\ \A i \in 1..n : seq[i] \in T
  OBVIOUS
<1>2. Only(seq, S) = h[1..n]
  BY <1>1 DEF Only, FoldLeft, MapThenFoldSet
<1>3. ASSUME NEW kept \in U, NEW x \in T  PROVE KeepIf(kept, x, S) \in U
  BY DEF KeepIf
<1>4. step \in [(1..n) \X U -> U]
  BY <1>1, <1>3
<1>5. << >> \in U
  OBVIOUS
<1>6. PICK g \in [SUBSET (1..n) -> U] : LeftFoldOf(g, n, << >>, step)
  <2> HIDE DEF n, U, step
  <2> QED BY <1>1, <1>4, <1>5, LeftFoldDefined
<1>7. \A s \in SUBSET (1..n) : s # {} => Max(s) \in s
  <2> TAKE s \in SUBSET (1..n)
  <2> HAVE s # {}
  <2>1. s \in SUBSET Nat
    BY <1>1
  <2> QED BY <1>1, <2>1, Greatest
<1>8. Folds(g)
  <2>1. ASSUME NEW s \in SUBSET (1..n), s # {}
        PROVE  g[s] = KeepIf(g[s \ {Max(s)}], seq[Max(s)], S)
    <3>1. Max(s) \in 1..n /\ s \ {Max(s)} \in SUBSET (1..n)
      BY <2>1, <1>7
    <3>2. g[s \ {Max(s)}] \in U
      BY <3>1
    <3>3. g[s] = step[<<Max(s), g[s \ {Max(s)}]>>]
      BY <1>6, <2>1 DEF LeftFoldOf
    <3> HIDE DEF n, U
    <3> QED BY <3>1, <3>2, <3>3
  <2>2. g[{}] = << >>
    BY <1>6 DEF LeftFoldOf
  <2> HIDE DEF n, U, step
  <2> QED BY <2>1, <2>2
<1>9. Folds(h)
  <2> HIDE DEF Folds
  <2> QED BY <1>8
<1> HIDE DEF h
<1> DEFINE Good(kept, m) ==
             /\ kept \in U /\ Len(kept) <= m
             /\ \A k \in 1..m : seq[k] \in S =>
                  \E j \in 1..Len(kept) : kept[j] = seq[k] /\ Len(kept) - j <= m - k
             /\ \A j \in 1..Len(kept) : \E k \in 1..m : kept[j] = seq[k]
           Done == {m \in Nat : m <= n => Good(h[1..m], m)}
<1>10. 0 \in Done
  <2>1. 1..0 = {}
    OBVIOUS
  <2>2. h[{}] = << >>
    BY <1>9
  <2>3. Good(<< >>, 0)
    BY <1>5
  <2> HIDE DEF Good, Folds
  <2>4. Good(h[1..0], 0)
    BY <2>1, <2>2, <2>3
  <2> QED BY <2>4
<1>11. ASSUME NEW m \in Done  PROVE m + 1 \in Done
  <2>1. SUFFICES ASSUME m + 1 <= n PROVE Good(h[1..(m + 1)], m + 1)
    BY <1>11
  <2>2. m \in Nat /\ Good(h[1..m], m)
    BY <1>1, <2>1
  <2>3. h[1..(m + 1)] = KeepIf(h[1..m], seq[m + 1], S)
    <3> DEFINE s == 1..(m + 1)
    <3>1. s \in SUBSET (1..n) /\ s # {} /\ s \in SUBSET Nat
      <4>1. 1 \in s
        BY <2>2
      <4>2. \A i \in s : i \in 1..n
        BY <1>1, <2>1, <2>2
      <4>3. \A i \in s : i \in Nat
        OBVIOUS
      <4> QED BY <4>1, <4>2, <4>3, Zenon
    <3>2. Max(s) = m + 1
      <4>1. m + 1 \in s /\ \A y \in s : y \in Int /\ y <= m + 1
        BY <2>2
      <4>2. \A x \in s : (\A y \in s : x >= y) <=> x = m + 1
        BY <4>1
      <4> HIDE DEF s
      <4> QED BY <4>1, <4>2 DEF Max
    <3>3. s \ {m + 1} = 1..m
      BY <2>2
    <3>4. h[s] = KeepIf(h[s \ {Max(s)}], seq[Max(s)], S)
      BY <1>9, <3>1
    <3> QED BY <3>2, <3>3, <3>4
  <2>4. seq[m + 1] \in T
    BY <1>1, <2>1, <2>2
  <2> DEFINE kept == h[1..m]
  <2>5. Good(kept, m)
    BY <2>2
  <2> HIDE DEF kept
  <2>6. CASE seq[m + 1] \in S
    <3>1. h[1..(m + 1)] = Append(kept, seq[m + 1])
      BY <2>3, <2>6 DEF KeepIf, kept
    <3> DEFINE more == Append(kept, seq[m + 1])
    <3>2. kept \in U /\ seq[m + 1] \in T \cap S
      BY <2>4, <2>5, <2>6
    <3>3. more \in U /\ Len(more) = Len(kept) + 1 /\ Len(kept) \in Nat
          /\ (\A j \in 1..Len(kept) : more[j] = kept[j])
          /\ more[Len(kept) + 1] = seq[m + 1]
      <4> HIDE DEF U
      <4> QED BY <3>2, AppendProperties DEF U
    <3> HIDE DEF more, U
    <3>4. ASSUME NEW k \in 1..(m + 1), seq[k] \in S
          PROVE  \E j \in 1..Len(more) : more[j] = seq[k] /\ Len(more) - j <= m + 1 - k
      <4>1. CASE k = m + 1
        BY <3>3, <4>1, <2>2
      <4>2. CASE k \in 1..m
        <5>1. PICK j \in 1..Len(kept) : kept[j] = seq[k] /\ Len(kept) - j <= m - k
          BY <2>5, <3>4, <4>2
        <5>2. j \in 1..Len(more) /\ more[j] = seq[k] /\ Len(more) - j <= m + 1 - k
          BY <2>2, <3>3, <4>2, <5>1
        <5> QED BY <5>2
      <4> QED BY <2>2, <4>1, <4>2
    <3>5. ASSUME NEW j \in 1..Len(more)
          PROVE  \E k \in 1..(m + 1) : more[j] = seq[k]
      <4>1. CASE j = Len(kept) + 1
        BY <3>3, <4>1, <2>2
      <4>2. CASE j \in 1..Len(kept)
        <5>1. PICK k \in 1..m : kept[j] = seq[k]
          BY <2>5, <4>2
        <5>2. k \in 1..(m + 1) /\ more[j] = seq[k]
          BY <2>2, <3>3, <4>2, <5>1
        <5> QED BY <5>2
      <4> QED BY <3>3, <4>1, <4>2
    <3>6. Len(more) <= m + 1
      BY <2>2, <2>5, <3>3
    <3>7. h[1..(m + 1)] = more
      BY <3>1 DEF more
    <3> QED BY <3>3, <3>4, <3>5, <3>6, <3>7
  <2>7. CASE seq[m + 1] \notin S
    <3>1. h[1..(m + 1)] = kept
      BY <2>3, <2>7 DEF KeepIf, kept
    <3>2. Len(kept) \in Nat
      BY <2>5
    <3> HIDE DEF U
    <3>3. ASSUME NEW k \in 1..(m + 1), seq[k] \in S
          PROVE  \E j \in 1..Len(kept) : kept[j] = seq[k] /\ Len(kept) - j <= m + 1 - k
      <4>1. k \in 1..m
        BY <2>2, <2>7, <3>3
      <4>2. PICK j \in 1..Len(kept) : kept[j] = seq[k] /\ Len(kept) - j <= m - k
        BY <2>5, <3>3, <4>1
      <4>3. Len(kept) - j <= m + 1 - k
        BY <2>2, <3>2, <4>1, <4>2
      <4> QED BY <4>2, <4>3
    <3>4. ASSUME NEW j \in 1..Len(kept)
          PROVE  \E k \in 1..(m + 1) : kept[j] = seq[k]
      <4>1. PICK k \in 1..m : kept[j] = seq[k]
        BY <2>5
      <4> QED BY <2>2, <4>1
    <3>5. kept \in U /\ Len(kept) <= m + 1
      BY <2>2, <2>5, <3>2
    <3> QED BY <3>1, <3>3, <3>4, <3>5
  <2> QED BY <2>6, <2>7
<1>12. Done = Nat
  <2> HIDE DEF Done
  <2>1. Done \in SUBSET Nat
    BY DEF Done
  <2> QED BY <1>10, <1>11, <2>1, SetInduction
<1>13. Good(h[1..n], n)
  <2>1. n \in Done /\ n <= n
    <3> HIDE DEF Done
    <3> QED BY <1>1, <1>12
  <2> HIDE DEF n, Good
  <2> QED BY <2>1
<1> QED BY <1>2, <1>13 DEF NoFarther, ComesFrom
=============================================================================
