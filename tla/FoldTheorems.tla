---------------------------- MODULE FoldTheorems ----------------------------
(***************************************************************************)
(* Folds over finite sets and sequences.  The folds of the community       *)
(* modules are recursive functions on the sets of elements, or positions,  *)
(* that are left: such a function exists because the sets get smaller, and *)
(* what each step keeps holds of the whole.  Both are shown by a least     *)
(* counterexample.                                                         *)
(***************************************************************************)
EXTENDS Naturals, Sequences, FiniteSetsExt, TLAPS, FiniteSetTheorems, WellFoundedInduction

\* Numbers that are not none have a least one: a counterexample can be a least one.
LEMMA LeastNumber ==
  ASSUME NEW T \in SUBSET Nat, T # {}
  PROVE  \E n \in T : n \in Nat /\ \A m \in Nat : m < n => m \notin T
<1>1. PICK n \in T : \A m \in T : ~(<<m, n>> \in OpToRel(<, Nat))
  BY NatLessThanWellFounded, WFMin
<1>2. \A m \in T : ~(m < n) BY <1>1 DEF OpToRel
<1> QED BY <1>2

\* What is left when an element is taken.
LEMMA SmallerSet ==
  ASSUME NEW S, IsFiniteSet(S), NEW s \in SUBSET S, NEW x \in s
  PROVE  /\ s \ {x} \in SUBSET S
         /\ Cardinality(s) \in Nat /\ Cardinality(s \ {x}) \in Nat
         /\ Cardinality(s \ {x}) = Cardinality(s) - 1
<1>1. IsFiniteSet(s) BY FS_Subset
<1>2. IsFiniteSet(s \ {x}) /\ Cardinality(s \ {x}) = Cardinality(s) - 1
  BY <1>1, FS_RemoveElement
<1> QED BY <1>1, <1>2, FS_CardinalityType

Step(f, b, step, pick, s) == IF s = {} THEN b ELSE step[<<f[s \ {pick[s]}], pick[s]>>]

\* Each step stays in V, and takes one of the positions that are left.
Foldable(S, V, b, step, pick) ==
    /\ IsFiniteSet(S)
    /\ b \in V
    /\ \A v \in V, x \in S : step[<<v, x>>] \in V
    /\ \A s \in SUBSET S : s # {} => pick[s] \in s
Folds(f, S, V, b, step, pick) ==
    f \in [SUBSET S -> V] /\ \A s \in SUBSET S : f[s] = Step(f, b, step, pick, s)

\* The function exists: each step needs the value of a smaller set only.
LEMMA FoldExists ==
  ASSUME NEW S, NEW V, NEW b, NEW step, NEW pick, Foldable(S, V, b, step, pick)
  PROVE  \E f : Folds(f, S, V, b, step, pick)
<1> USE DEF Foldable
<1> DEFINE UpTo(f, n) ==
             \A s \in SUBSET S : Cardinality(s) <= n => f[s] = Step(f, b, step, pick, s)
           Missing == {n \in Nat : ~\E f \in [SUBSET S -> V] : UpTo(f, n)}
<1>1. \A s \in SUBSET S : IsFiniteSet(s) /\ Cardinality(s) \in Nat
                          /\ Cardinality(s) <= Cardinality(S)
  BY FS_Subset, FS_CardinalityType
<1>2. Cardinality(S) \in Nat BY FS_CardinalityType
<1>3. Missing = {}
  <2> SUFFICES ASSUME Missing # {} PROVE FALSE
    OBVIOUS
  <2>a. Missing \in SUBSET Nat OBVIOUS
  <2>1. PICK n \in Missing : n \in Nat /\ \A m \in Nat : m < n => m \notin Missing
    <3> HIDE DEF Missing
    <3> QED BY <2>a, LeastNumber
  <2>2. CASE n = 0
    <3> DEFINE f == [s \in SUBSET S |-> b]
    <3>1. \A s \in SUBSET S : Cardinality(s) <= 0 => s = {} BY <1>1, FS_EmptySet
    <3>2. UpTo(f, 0) BY <3>1 DEF Step
    <3>3. f \in [SUBSET S -> V] OBVIOUS
    <3> QED BY <2>1, <2>2, <3>2, <3>3
  <2>3. CASE n # 0
    <3>1. n - 1 \in Nat /\ n - 1 \notin Missing
      <4> HIDE DEF Missing
      <4>1. n \in Nat BY <2>1
      <4>2. n - 1 \in Nat /\ n - 1 < n BY <2>3, <4>1
      <4> QED BY <2>1, <4>2
    <3>2. PICK f \in [SUBSET S -> V] : UpTo(f, n - 1) BY <3>1
    <3> DEFINE g == [s \in SUBSET S |-> IF Cardinality(s) <= n - 1 THEN f[s]
                                        ELSE Step(f, b, step, pick, s)]
    <3>3. \A s \in SUBSET S : Step(f, b, step, pick, s) \in V
      <4> TAKE s \in SUBSET S
      <4>1. CASE s = {} BY <4>1 DEF Step
      <4>2. CASE s # {}
        <5>1. pick[s] \in S /\ s \ {pick[s]} \in SUBSET S BY <4>2
        <5>2. f[s \ {pick[s]}] \in V BY <5>1
        <5> QED BY <4>2, <5>1, <5>2 DEF Step
      <4> QED BY <4>1, <4>2
    <3>4. g \in [SUBSET S -> V] BY <3>3
    <3>5. ASSUME NEW s \in SUBSET S, Cardinality(s) <= n PROVE g[s] = Step(g, b, step, pick, s)
      <4>1. g[s] = Step(f, b, step, pick, s) BY <3>2
      <4>2. CASE s = {} BY <4>1, <4>2 DEF Step
      <4>3. CASE s # {}
        <5>1. s \ {pick[s]} \in SUBSET S /\ Cardinality(s \ {pick[s]}) <= n - 1
          <6>1. pick[s] \in s BY <4>3
          <6> QED BY <1>1, <3>1, <3>5, <6>1, SmallerSet
        <5>2. g[s \ {pick[s]}] = f[s \ {pick[s]}] BY <5>1
        <5> QED BY <4>1, <4>3, <5>2 DEF Step
      <4> QED BY <4>2, <4>3
    <3>6. UpTo(g, n) BY <3>5
    <3> QED BY <2>1, <3>4, <3>6
  <2> QED BY <2>2, <2>3
<1>4. PICK f \in [SUBSET S -> V] : UpTo(f, Cardinality(S)) BY <1>2, <1>3
<1>5. \A s \in SUBSET S : f[s] = Step(f, b, step, pick, s) BY <1>1, <1>4
<1> QED BY <1>5 DEF Folds

\* What each step keeps holds of the fold; V says for each set of positions
\* what its value may be.
LEMMA FoldWithin ==
  ASSUME NEW S, IsFiniteSet(S), NEW V, NEW f, f[{}] \in V[{}],
         NEW pick, \A s \in SUBSET S : s # {} => pick[s] \in s,
         \A s \in SUBSET S : s # {} /\ f[s \ {pick[s]}] \in V[s \ {pick[s]}] => f[s] \in V[s]
  PROVE  f[S] \in V[S]
<1> DEFINE Wrong == {n \in Nat : \E s \in SUBSET S : Cardinality(s) = n /\ f[s] \notin V[s]}
<1>1. Wrong = {}
  <2> SUFFICES ASSUME Wrong # {} PROVE FALSE
    OBVIOUS
  <2>1. PICK n \in Wrong : n \in Nat /\ \A m \in Nat : m < n => m \notin Wrong
    <3>1. Wrong \in SUBSET Nat OBVIOUS
    <3> HIDE DEF Wrong
    <3> QED BY <3>1, LeastNumber
  <2>2. PICK s \in SUBSET S : Cardinality(s) = n /\ f[s] \notin V[s] BY <2>1
  <2>3. s # {} BY <2>2
  <2>4. s \ {pick[s]} \in SUBSET S /\ Cardinality(s \ {pick[s]}) \in Nat
        /\ Cardinality(s \ {pick[s]}) < n
    <3>1. pick[s] \in s BY <2>3
    <3> QED BY <2>1, <2>2, <3>1, SmallerSet
  <2>5. f[s \ {pick[s]}] \notin V[s \ {pick[s]}] BY <2>2, <2>3
  <2>6. Cardinality(s \ {pick[s]}) \in Wrong BY <2>4, <2>5
  <2> QED BY <2>1, <2>4, <2>6
<1>2. Cardinality(S) \in Nat BY FS_CardinalityType
<1> QED BY <1>1, <1>2

\* The same for one set of values.
LEMMA FoldInside ==
  ASSUME NEW S, IsFiniteSet(S), NEW V, NEW f, f[{}] \in V,
         NEW pick, \A s \in SUBSET S : s # {} => pick[s] \in s,
         \A s \in SUBSET S : s # {} /\ f[s \ {pick[s]}] \in V => f[s] \in V
  PROVE  f[S] \in V
<1> DEFINE W == [s \in SUBSET S |-> V]
<1>1. \A s \in SUBSET S : W[s] = V /\ s \ {pick[s]} \in SUBSET S OBVIOUS
<1>2. {} \in SUBSET S /\ S \in SUBSET S OBVIOUS
<1> HIDE DEF W
<1>3. f[{}] \in W[{}] BY <1>1, <1>2
<1>4. \A s \in SUBSET S : s # {} /\ f[s \ {pick[s]}] \in W[s \ {pick[s]}] => f[s] \in W[s]
  BY <1>1
<1>5. f[S] \in W[S] BY <1>3, <1>4, FoldWithin
<1> QED BY <1>1, <1>2, <1>5

\* The positions of a sequence, taken from the last one.
LastOf(S) == [s \in SUBSET S |-> Max(s)]

\* Positions are finitely many, and there is a last one of any.
LEMMA Positions ==
  ASSUME NEW n \in Nat
  PROVE  /\ IsFiniteSet(1 .. n)
         /\ \A s \in SUBSET (1 .. n) : s # {} => Max(s) \in s /\ \A x \in s : x <= Max(s)
<1>1. IsFiniteSet(1 .. n) BY FS_Interval
<1>2. ASSUME NEW s \in SUBSET (1 .. n), s # {}
      PROVE  Max(s) \in s /\ \A x \in s : x <= Max(s)
  <2> DEFINE T == {m \in Nat : n - m \in s}
  <2>1. T \in SUBSET Nat /\ T # {}
    <3>1. PICK x \in s : TRUE BY <1>2
    <3>2. x \in 1 .. n BY <3>1
    <3>3. n - x \in Nat /\ n - (n - x) = x BY <3>2
    <3> QED BY <3>1, <3>3
  <2>2. PICK m \in T : m \in Nat /\ \A k \in Nat : k < m => k \notin T
    <3> HIDE DEF T
    <3> QED BY <2>1, LeastNumber
  <2>3. n - m \in s /\ n - m \in 1 .. n BY <2>2
  <2>4. \A x \in s : n - m >= x
    <3> TAKE x \in s
    <3>1. x \in 1 .. n OBVIOUS
    <3>2. n - x \in Nat /\ n - (n - x) = x BY <3>1
    <3>3. n - x \in T BY <3>2
    <3>4. ~(n - x < m) BY <2>2, <3>2, <3>3
    <3> QED BY <2>3, <3>1, <3>4
  <2>5. \E z \in s : \A x \in s : z >= x BY <2>3, <2>4
  <2>6. Max(s) \in s /\ \A x \in s : Max(s) >= x BY <2>5 DEF Max
  <2> QED BY <1>2, <2>6
<1> QED BY <1>1, <1>2
\* The first positions, each with its last one.
LEMMA FirstPositions ==
  ASSUME NEW n \in Nat, NEW i \in 1 .. n
  PROVE  /\ 1 .. i \in SUBSET (1 .. n) /\ 1 .. i # {}
         /\ Max(1 .. i) = i
         /\ (1 .. i) \ {i} = 1 .. (i - 1)
         /\ 1 .. (i - 1) \in SUBSET (1 .. n)
<1>1. i \in Nat /\ 1 <= i /\ i <= n OBVIOUS
<1>2. \A x \in 1 .. i : x \in 1 .. n BY <1>1
<1>3. 1 .. i \in SUBSET (1 .. n) BY <1>2, Zenon
<1>4. i \in 1 .. i BY <1>1
<1>5. Max(1 .. i) \in 1 .. i /\ \A x \in 1 .. i : x <= Max(1 .. i)
  BY <1>3, <1>4, Positions
<1>6. Max(1 .. i) = i
  <2> DEFINE m == Max(1 .. i)
  <2>1. m \in 1 .. i /\ i <= m BY <1>4, <1>5
  <2> HIDE DEF m
  <2>2. m = i BY <1>1, <2>1
  <2> QED BY <2>2 DEF m
<1>7. (1 .. i) \ {i} = 1 .. (i - 1) BY <1>1
<1> QED BY <1>3, <1>4, <1>6, <1>7

\* What each position keeps holds after all of them; V says for each number of
\* positions what the value after them may be.
LEMMA PrefixInduction ==
  ASSUME NEW n \in Nat, NEW V, NEW h, h[0] \in V[0],
         \A i \in 1 .. n : h[i - 1] \in V[i - 1] => h[i] \in V[i]
  PROVE  \A i \in 0 .. n : h[i] \in V[i]
<1> DEFINE Wrong == {i \in Nat : i \in 0 .. n /\ h[i] \notin V[i]}
<1>1. Wrong = {}
  <2> SUFFICES ASSUME Wrong # {} PROVE FALSE
    OBVIOUS
  <2>1. PICK i \in Wrong : i \in Nat /\ \A m \in Nat : m < i => m \notin Wrong
    <3>1. Wrong \in SUBSET Nat OBVIOUS
    <3> HIDE DEF Wrong
    <3> QED BY <3>1, LeastNumber
  <2>2. i \in 0 .. n /\ h[i] \notin V[i] BY <2>1
  <2>3. i \in 1 .. n BY <2>2
  <2>4. i - 1 \in Nat /\ i - 1 \in 0 .. n /\ i - 1 < i BY <2>3
  <2>5. h[i - 1] \in V[i - 1] BY <2>1, <2>4
  <2> QED BY <2>2, <2>3, <2>5
<1> QED BY <1>1

\* A fold from the last position is the value after all positions, each taken
\* after those before it.
TakesLast(f, n, V, b, step) ==
    /\ n \in Nat /\ b \in V
    /\ \A v \in V : \A i \in 1 .. n : step[<<v, i>>] \in V
    /\ f[{}] = b
    /\ \A s \in SUBSET (1 .. n) : s # {} /\ f[s \ {Max(s)}] \in V
                                 => f[s] = step[<<f[s \ {Max(s)}], Max(s)>>]
InOrder(h, n, V, b, step) ==
    /\ h \in [0 .. n -> V]
    /\ h[0] = b
    /\ \A i \in 1 .. n : h[i] = step[<<h[i - 1], i>>]

LEMMA FoldByPrefixes ==
  ASSUME NEW n, NEW V, NEW b, NEW step, NEW f, TakesLast(f, n, V, b, step)
  PROVE  \E h : InOrder(h, n, V, b, step) /\ f[1 .. n] = h[n]
<1> USE DEF TakesLast
<1> DEFINE h == [i \in 0 .. n |-> f[1 .. i]]
           W == [i \in 0 .. n |-> V]
<1>1. h[0] = b
  <2>1. 1 .. 0 = {} /\ 0 \in 0 .. n OBVIOUS
  <2> QED BY <2>1
<1>2. \A i \in 1 .. n : h[i - 1] \in V => h[i] = step[<<h[i - 1], i>>]
  <2> TAKE i \in 1 .. n
  <2>1. i \in 0 .. n /\ i - 1 \in 0 .. n OBVIOUS
  <2>2. /\ 1 .. i \in SUBSET (1 .. n) /\ 1 .. i # {} /\ Max(1 .. i) = i
        /\ (1 .. i) \ {i} = 1 .. (i - 1)
    BY FirstPositions
  <2>3. f[1 .. (i - 1)] \in V => f[1 .. i] = step[<<f[1 .. (i - 1)], i>>] BY <2>2
  <2> QED BY <2>1, <2>3
<1>3. f[1 .. n] = h[n] /\ h = [i \in 0 .. n |-> h[i]] OBVIOUS
<1>4. W[0] = V /\ \A i \in 1 .. n : W[i - 1] = V /\ W[i] = V OBVIOUS
<1>5. \A i \in 0 .. n : W[i] = V OBVIOUS
<1> HIDE DEF h, W
<1>6. ASSUME NEW i \in 1 .. n, h[i - 1] \in W[i - 1] PROVE h[i] \in W[i]
  <2>1. h[i - 1] \in V /\ W[i] = V BY <1>4, <1>6
  <2>2. h[i] = step[<<h[i - 1], i>>] BY <1>2, <2>1
  <2>3. step[<<h[i - 1], i>>] \in V BY <2>1
  <2> QED BY <2>1, <2>2, <2>3
<1>7. h[0] \in W[0] BY <1>1, <1>4
<1>8. \A i \in 0 .. n : h[i] \in V BY <1>5, <1>6, <1>7, PrefixInduction
<1>9. h \in [0 .. n -> V] BY <1>3, <1>8
<1>10. \A i \in 1 .. n : i - 1 \in 0 .. n OBVIOUS
<1>11. InOrder(h, n, V, b, step) BY <1>1, <1>2, <1>8, <1>9, <1>10 DEF InOrder
<1> QED BY <1>3, <1>11
=============================================================================
