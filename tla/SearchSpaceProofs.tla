------------------------- MODULE SearchSpaceProofs -------------------------
(***************************************************************************)
(* Proofs about SearchSpace for every program and every meaning of its     *)
(* parameters: what expressions are, how they are typed and how they may   *)
(* be modified.  Applications and patches have identifiers of their own,   *)
(* and the calls in the instrumented source match the generated functions. *)
(* The first part is about the lists that the operators of SearchSpace     *)
(* compute, the second about the arguments of one call, the third says     *)
(* what every stage has done.                                              *)
(***************************************************************************)
EXTENDS SearchSpace, FoldTheorems

---------------------------------------------------------------------------
(* Lists.                                                                  *)

\* What a list contains.
LEMMA ListFacts ==
  ASSUME NEW s, IsList(s)
  PROVE  /\ Len(s) \in Nat /\ DOMAIN s = 1 .. Len(s)
         /\ \A k \in 1 .. Len(s) : s[k] \in Range(s)
         /\ \A x \in Range(s) : \E k \in 1 .. Len(s) : x = s[k]
BY DEF IsList, Range

\* A sequence is a list.
LEMMA SequenceIsList ==
  ASSUME NEW W, NEW s \in Seq(W)
  PROVE  IsList(s) /\ \A x \in Range(s) : x \in W
<1>1. Len(s) \in Nat /\ DOMAIN s = 1 .. Len(s) /\ \A k \in 1 .. Len(s) : s[k] \in W
  OBVIOUS
<1>2. \A k \in 1 .. Len(s) : s[k] \in Range(s) BY <1>1 DEF Range
<1>3. s = [k \in 1 .. Len(s) |-> s[k]] BY <1>1
<1>4. s \in [1 .. Len(s) -> Range(s)] BY <1>2, <1>3
<1>5. s \in Seq(Range(s)) BY <1>1, <1>4
<1>6. \A x \in Range(s) : x \in W BY <1>1 DEF Range
<1> QED BY <1>5, <1>6 DEF IsList

\* The selection with one more element.
Select(acc, e, S) == IF e \in S THEN Append(acc, e) ELSE acc

\* Selected, element by element.
LEMMA SelectedInOrder ==
  ASSUME NEW s, IsList(s), NEW X
  PROVE  \E h \in [0 .. Len(s) -> Seq(Range(s))] :
            /\ h[0] = <<>>
            /\ \A i \in 1 .. Len(s) : h[i] = Select(h[i - 1], s[i], X)
            /\ Selected(s, X) = h[Len(s)]
<1> DEFINE n == Len(s)
           V == Seq(Range(s))
           S == DOMAIN s
           Body(f) == [t \in SUBSET S |-> IF t = {} THEN <<>>
                                          ELSE Select(f[t \ {Max(t)}], s[Max(t)], X)]
           fold == CHOOSE f : f = Body(f)
           step == [vi \in V \X S |-> Select(vi[1], s[vi[2]], X)]
<1>1. Selected(s, X) = fold[S] BY DEF Selected, FoldLeft, MapThenFoldSet, Select
<1>2. S = 1 .. n /\ n \in Nat /\ \A i \in S : s[i] \in Range(s) BY ListFacts
<1>3. IsFiniteSet(S) /\ \A t \in SUBSET S : t # {} => LastOf(S)[t] \in t
  BY <1>2, Positions DEF LastOf
<1>4. \A v \in V, i \in S : Select(v, s[i], X) \in V BY <1>2 DEF Select
<1>5. \A v \in V, i \in S : step[<<v, i>>] \in V
  <2> HIDE DEF V, S
  <2> QED BY <1>4
<1>6. <<>> \in V OBVIOUS
<1>v. V = Seq(Range(s)) OBVIOUS
<1>b. \A f : \A t \in SUBSET S : Body(f)[t] = IF t = {} THEN <<>>
                                              ELSE Select(f[t \ {Max(t)}], s[Max(t)], X)
  OBVIOUS
<1>d. \A f : Body(f) = [t \in SUBSET S |-> Body(f)[t]] OBVIOUS
<1>s. \A v \in V, i \in S : step[<<v, i>>] = Select(v, s[i], X)
  <2> HIDE DEF V, S
  <2> QED OBVIOUS
<1> HIDE DEF step, S, Body, n, V
<1>7. Foldable(S, V, <<>>, step, LastOf(S)) BY <1>3, <1>5, <1>6 DEF Foldable
<1>g. PICK g : Folds(g, S, V, <<>>, step, LastOf(S)) BY <1>7, FoldExists
<1>f. g \in [SUBSET S -> V]
      /\ \A t \in SUBSET S : g[t] = Step(g, <<>>, step, LastOf(S), t)
  BY <1>g DEF Folds
<1>8. \A t \in SUBSET S : g[t] = Body(g)[t]
  <2> TAKE t \in SUBSET S
  <2>1. CASE t = {} BY <1>f, <1>b, <2>1 DEF Step
  <2>2. CASE t # {}
    <3>1. LastOf(S)[t] = Max(t) /\ Max(t) \in S /\ t \ {Max(t)} \in SUBSET S
      BY <1>3, <2>2 DEF LastOf
    <3>2. g[t] = step[<<g[t \ {Max(t)}], Max(t)>>] BY <1>f, <2>2, <3>1 DEF Step
    <3>3. g[t \ {Max(t)}] \in V BY <1>f, <3>1
    <3> QED BY <1>b, <1>s, <2>2, <3>1, <3>2, <3>3
  <2> QED BY <2>1, <2>2
<1>9. g = Body(g)
  <2>1. g = [t \in SUBSET S |-> g[t]] BY <1>f
  <2> QED BY <1>8, <1>d, <2>1
<1>10. fold = Body(fold) BY <1>9
<1> HIDE DEF fold
<1>11. fold[{}] = <<>>
  <2>1. {} \in SUBSET S OBVIOUS
  <2> QED BY <1>10, <1>b, <2>1
<1>12. \A t \in SUBSET S : t # {} /\ fold[t \ {Max(t)}] \in V
                            => fold[t] = step[<<fold[t \ {Max(t)}], Max(t)>>]
  <2> SUFFICES ASSUME NEW t \in SUBSET S, t # {}, fold[t \ {Max(t)}] \in V
               PROVE  fold[t] = step[<<fold[t \ {Max(t)}], Max(t)>>]
    OBVIOUS
  <2>1. Max(t) \in S BY <1>3 DEF LastOf
  <2>2. fold[t] = Select(fold[t \ {Max(t)}], s[Max(t)], X) BY <1>10, <1>b
  <2>3. step[<<fold[t \ {Max(t)}], Max(t)>>] = Select(fold[t \ {Max(t)}], s[Max(t)], X)
    BY <1>s, <2>1
  <2> QED BY <2>2, <2>3
<1>13. TakesLast(fold, n, V, <<>>, step)
  <2>1. n \in Nat BY <1>2
  <2>2. \A v \in V : \A i \in 1 .. n : step[<<v, i>>] \in V
    <3>1. \A i \in 1 .. n : i \in S BY <1>2
    <3> QED BY <1>5, <3>1, Zenon
  <2>3. \A t \in SUBSET (1 .. n) : t # {} /\ fold[t \ {Max(t)}] \in V
                                  => fold[t] = step[<<fold[t \ {Max(t)}], Max(t)>>]
    BY <1>2, <1>12
  <2> QED BY <1>6, <1>11, <2>1, <2>2, <2>3 DEF TakesLast
<1>h. PICK h : InOrder(h, n, V, <<>>, step) /\ fold[1 .. n] = h[n] BY <1>13, FoldByPrefixes
<1>14. \A i \in 1 .. n : i - 1 \in 0 .. n /\ i \in S BY <1>2
<1>15. ASSUME NEW i \in 1 .. n PROVE h[i] = Select(h[i - 1], s[i], X)
  <2>1. i \in S /\ h[i - 1] \in V BY <1>h, <1>14 DEF InOrder
  <2>2. h[i] = step[<<h[i - 1], i>>] BY <1>h DEF InOrder
  <2> QED BY <1>s, <2>1, <2>2
<1>16. h \in [0 .. n -> V] /\ h[0] = <<>> BY <1>h DEF InOrder
<1> QED BY <1>1, <1>2, <1>h, <1>15, <1>16, <1>v DEF n

\* What is selected, and in which order.
LEMMA SelectedIs ==
  ASSUME NEW s, IsList(s), NEW X
  PROVE  IsList(Selected(s, X)) /\ Range(Selected(s, X)) = Range(s) \cap X
<1> DEFINE n == Len(s)
           V == [i \in 0 .. n |-> {q \in Seq(Range(s)) : Range(q) = {s[j] : j \in 1 .. i} \cap X}]
<1>1. PICK h \in [0 .. n -> Seq(Range(s))] :
         /\ h[0] = <<>>
         /\ \A i \in 1 .. n : h[i] = Select(h[i - 1], s[i], X)
         /\ Selected(s, X) = h[n]
  BY SelectedInOrder
<1>2. n \in Nat /\ DOMAIN s = 1 .. n /\ \A i \in 1 .. n : s[i] \in Range(s) BY ListFacts
<1>3. \A i \in 1 .. n : i \in 0 .. n /\ i - 1 \in 0 .. n BY <1>2
<1>4. \A i \in 0 .. n :
        V[i] = {q \in Seq(Range(s)) : Range(q) = {s[j] : j \in 1 .. i} \cap X}
  OBVIOUS
<1> HIDE DEF n, V
<1>5. h[0] \in V[0]
  <2>1. 0 \in 0 .. n /\ 1 .. 0 = {} BY <1>2
  <2>2. Range(<<>>) = {} BY DEF Range
  <2> QED BY <1>1, <1>4, <2>1, <2>2
<1>6. ASSUME NEW i \in 1 .. n, h[i - 1] \in V[i - 1] PROVE h[i] \in V[i]
  <2> DEFINE q == h[i - 1]
  <2>1. q \in Seq(Range(s)) /\ Range(q) = {s[j] : j \in 1 .. (i - 1)} \cap X
    BY <1>3, <1>4, <1>6
  <2>2. h[i] = Select(q, s[i], X) BY <1>1
  <2>3. 1 .. i = (1 .. (i - 1)) \cup {i} BY <1>2
  <2>4. {s[j] : j \in 1 .. i} = {s[j] : j \in 1 .. (i - 1)} \cup {s[i]} BY <2>3
  <2> HIDE DEF q
  <2>5. CASE s[i] \in X
    <3>1. h[i] = Append(q, s[i]) BY <2>2, <2>5 DEF Select
    <3>2. s[i] \in Range(s) BY <1>2
    <3>3. h[i] \in Seq(Range(s)) BY <2>1, <3>1, <3>2
    <3>4. Len(q) \in Nat /\ DOMAIN q = 1 .. Len(q) BY <2>1
    <3>5. DOMAIN h[i] = 1 .. (Len(q) + 1) /\ h[i][Len(q) + 1] = s[i]
          /\ \A j \in 1 .. Len(q) : h[i][j] = q[j]
      BY <2>1, <3>1, <3>2
    <3>6. 1 .. (Len(q) + 1) = (1 .. Len(q)) \cup {Len(q) + 1} BY <3>4
    <3>7. Range(h[i]) = Range(q) \cup {s[i]} BY <3>4, <3>5, <3>6 DEF Range
    <3>8. Range(h[i]) = {s[j] : j \in 1 .. i} \cap X BY <2>1, <2>4, <2>5, <3>7, Zenon
    <3> QED BY <1>3, <1>4, <3>3, <3>8
  <2>6. CASE s[i] \notin X
    <3>1. h[i] = q BY <2>2, <2>6 DEF Select
    <3>2. Range(q) = {s[j] : j \in 1 .. i} \cap X BY <2>1, <2>4, <2>6, Zenon
    <3> QED BY <1>3, <1>4, <2>1, <3>1, <3>2
  <2> QED BY <2>5, <2>6
<1>7. \A i \in 0 .. n : h[i] \in V[i] BY <1>2, <1>5, <1>6, PrefixInduction
<1>8. n \in 0 .. n BY <1>2
<1>9. h[n] \in Seq(Range(s)) /\ Range(h[n]) = {s[j] : j \in 1 .. n} \cap X
  BY <1>4, <1>7, <1>8
<1>10. {s[j] : j \in 1 .. n} = Range(s) BY <1>2 DEF Range
<1> QED BY <1>1, <1>9, <1>10, SequenceIsList

\* The components with one more.
Collect(acc, c) == IF c.repr \in ReprsOf(acc) THEN acc ELSE Append(acc, c)

\* The first of each name, as collectComponents takes them.
FirstOfEach(s) ==
    FoldLeft(LAMBDA acc, c : IF c.repr \in ReprsOf(acc) THEN acc ELSE Append(acc, c), <<>>, s)

\* FirstOfEach, component by component.
LEMMA CollectedInOrder ==
  ASSUME NEW s, IsList(s)
  PROVE  \E h \in [0 .. Len(s) -> Seq(Range(s))] :
            /\ h[0] = <<>>
            /\ \A i \in 1 .. Len(s) : h[i] = Collect(h[i - 1], s[i])
            /\ FirstOfEach(s) = h[Len(s)]
<1> DEFINE n == Len(s)
           V == Seq(Range(s))
           S == DOMAIN s
           Body(f) == [t \in SUBSET S |-> IF t = {} THEN <<>>
                                          ELSE Collect(f[t \ {Max(t)}], s[Max(t)])]
           fold == CHOOSE f : f = Body(f)
           step == [vi \in V \X S |-> Collect(vi[1], s[vi[2]])]
<1>1. FirstOfEach(s) = fold[S] BY DEF FirstOfEach, FoldLeft, MapThenFoldSet, Collect
<1>2. S = 1 .. n /\ n \in Nat /\ \A i \in S : s[i] \in Range(s) BY ListFacts
<1>3. IsFiniteSet(S) /\ \A t \in SUBSET S : t # {} => LastOf(S)[t] \in t
  BY <1>2, Positions DEF LastOf
<1>4. \A v \in V, i \in S : Collect(v, s[i]) \in V BY <1>2 DEF Collect
<1>5. \A v \in V, i \in S : step[<<v, i>>] \in V
  <2> HIDE DEF V, S
  <2> QED BY <1>4
<1>6. <<>> \in V OBVIOUS
<1>v. V = Seq(Range(s)) OBVIOUS
<1>b. \A f : \A t \in SUBSET S : Body(f)[t] = IF t = {} THEN <<>>
                                              ELSE Collect(f[t \ {Max(t)}], s[Max(t)])
  OBVIOUS
<1>d. \A f : Body(f) = [t \in SUBSET S |-> Body(f)[t]] OBVIOUS
<1>s. \A v \in V, i \in S : step[<<v, i>>] = Collect(v, s[i])
  <2> HIDE DEF V, S
  <2> QED OBVIOUS
<1> HIDE DEF step, S, Body, n, V
<1>7. Foldable(S, V, <<>>, step, LastOf(S)) BY <1>3, <1>5, <1>6 DEF Foldable
<1>g. PICK g : Folds(g, S, V, <<>>, step, LastOf(S)) BY <1>7, FoldExists
<1>f. g \in [SUBSET S -> V]
      /\ \A t \in SUBSET S : g[t] = Step(g, <<>>, step, LastOf(S), t)
  BY <1>g DEF Folds
<1>8. \A t \in SUBSET S : g[t] = Body(g)[t]
  <2> TAKE t \in SUBSET S
  <2>1. CASE t = {} BY <1>f, <1>b, <2>1 DEF Step
  <2>2. CASE t # {}
    <3>1. LastOf(S)[t] = Max(t) /\ Max(t) \in S /\ t \ {Max(t)} \in SUBSET S
      BY <1>3, <2>2 DEF LastOf
    <3>2. g[t] = step[<<g[t \ {Max(t)}], Max(t)>>] BY <1>f, <2>2, <3>1 DEF Step
    <3>3. g[t \ {Max(t)}] \in V BY <1>f, <3>1
    <3> QED BY <1>b, <1>s, <2>2, <3>1, <3>2, <3>3
  <2> QED BY <2>1, <2>2
<1>9. g = Body(g)
  <2>1. g = [t \in SUBSET S |-> g[t]] BY <1>f
  <2> QED BY <1>8, <1>d, <2>1
<1>10. fold = Body(fold) BY <1>9
<1> HIDE DEF fold
<1>11. fold[{}] = <<>>
  <2>1. {} \in SUBSET S OBVIOUS
  <2> QED BY <1>10, <1>b, <2>1
<1>12. \A t \in SUBSET S : t # {} /\ fold[t \ {Max(t)}] \in V
                            => fold[t] = step[<<fold[t \ {Max(t)}], Max(t)>>]
  <2> SUFFICES ASSUME NEW t \in SUBSET S, t # {}, fold[t \ {Max(t)}] \in V
               PROVE  fold[t] = step[<<fold[t \ {Max(t)}], Max(t)>>]
    OBVIOUS
  <2>1. Max(t) \in S BY <1>3 DEF LastOf
  <2>2. fold[t] = Collect(fold[t \ {Max(t)}], s[Max(t)]) BY <1>10, <1>b
  <2>3. step[<<fold[t \ {Max(t)}], Max(t)>>] = Collect(fold[t \ {Max(t)}], s[Max(t)])
    BY <1>s, <2>1
  <2> QED BY <2>2, <2>3
<1>13. TakesLast(fold, n, V, <<>>, step)
  <2>1. n \in Nat BY <1>2
  <2>2. \A v \in V : \A i \in 1 .. n : step[<<v, i>>] \in V
    <3>1. \A i \in 1 .. n : i \in S BY <1>2
    <3> QED BY <1>5, <3>1, Zenon
  <2>3. \A t \in SUBSET (1 .. n) : t # {} /\ fold[t \ {Max(t)}] \in V
                                  => fold[t] = step[<<fold[t \ {Max(t)}], Max(t)>>]
    BY <1>2, <1>12
  <2> QED BY <1>6, <1>11, <2>1, <2>2, <2>3 DEF TakesLast
<1>h. PICK h : InOrder(h, n, V, <<>>, step) /\ fold[1 .. n] = h[n] BY <1>13, FoldByPrefixes
<1>14. \A i \in 1 .. n : i - 1 \in 0 .. n /\ i \in S BY <1>2
<1>15. ASSUME NEW i \in 1 .. n PROVE h[i] = Collect(h[i - 1], s[i])
  <2>1. i \in S /\ h[i - 1] \in V BY <1>h, <1>14 DEF InOrder
  <2>2. h[i] = step[<<h[i - 1], i>>] BY <1>h DEF InOrder
  <2> QED BY <1>s, <2>1, <2>2
<1>16. h \in [0 .. n -> V] /\ h[0] = <<>> BY <1>h DEF InOrder
<1> QED BY <1>1, <1>2, <1>h, <1>15, <1>16, <1>v DEF n

\* Components have different names, and come from the expression or are visible.
Named(comps) == \A j, k \in DOMAIN comps : comps[j].repr = comps[k].repr => j = k

LEMMA CollectedIs ==
  ASSUME NEW e, NEW visible, IsList(Leaves(e)), IsList(visible)
  PROVE  LET comps == collectComponents(e, visible)
         IN  /\ IsList(comps) /\ Named(comps)
             /\ Range(comps) \subseteq Range(Leaves(e)) \cup Range(visible)
<1> DEFINE W == Range(Leaves(e)) \cup Range(visible)
           s == Leaves(e) \o visible
           n == Len(s)
           V == [i \in 0 .. n |-> {q \in Seq(Range(s)) : Named(q)}]
<1>1. s \in Seq(W)
  <2>1. Leaves(e) \in Seq(W) BY DEF IsList
  <2>2. visible \in Seq(W) BY DEF IsList
  <2> QED BY <2>1, <2>2
<1>2. IsList(s) /\ \A x \in Range(s) : x \in W BY <1>1, SequenceIsList
<1>v. collectComponents(e, visible) = FirstOfEach(s)
  BY DEF collectComponents, FirstOfEach
<1> HIDE DEF s
<1>3. PICK h \in [0 .. n -> Seq(Range(s))] :
         /\ h[0] = <<>>
         /\ \A i \in 1 .. n : h[i] = Collect(h[i - 1], s[i])
         /\ FirstOfEach(s) = h[n]
  BY <1>2, CollectedInOrder
<1>4. n \in Nat /\ DOMAIN s = 1 .. n /\ \A i \in 1 .. n : s[i] \in Range(s) BY <1>2, ListFacts
<1>5. \A i \in 1 .. n : i \in 0 .. n /\ i - 1 \in 0 .. n BY <1>4
<1>6. \A i \in 0 .. n : V[i] = {q \in Seq(Range(s)) : Named(q)} OBVIOUS
<1> HIDE DEF n, V
<1>7. h[0] \in V[0]
  <2>1. 0 \in 0 .. n BY <1>4
  <2>2. Named(<<>>) BY DEF Named
  <2> QED BY <1>3, <1>6, <2>1, <2>2
<1>8. ASSUME NEW i \in 1 .. n, h[i - 1] \in V[i - 1] PROVE h[i] \in V[i]
  <2> DEFINE q == h[i - 1]
  <2>1. q \in Seq(Range(s)) /\ Named(q) BY <1>5, <1>6, <1>8
  <2>2. h[i] = Collect(q, s[i]) BY <1>3
  <2> HIDE DEF q
  <2>3. CASE s[i].repr \in ReprsOf(q) BY <1>5, <1>6, <2>1, <2>2, <2>3 DEF Collect
  <2>4. CASE s[i].repr \notin ReprsOf(q)
    <3>1. h[i] = Append(q, s[i]) BY <2>2, <2>4 DEF Collect
    <3>2. s[i] \in Range(s) BY <1>4
    <3>3. h[i] \in Seq(Range(s)) BY <2>1, <3>1, <3>2
    <3>4. Len(q) \in Nat /\ DOMAIN q = 1 .. Len(q) BY <2>1
    <3>5. DOMAIN h[i] = 1 .. (Len(q) + 1) /\ h[i][Len(q) + 1] = s[i]
          /\ \A j \in 1 .. Len(q) : h[i][j] = q[j]
      BY <2>1, <3>1, <3>2
    <3>6. \A j \in 1 .. Len(q) : q[j].repr # s[i].repr BY <2>4, <3>4 DEF ReprsOf, Range
    <3>7. ASSUME NEW j \in DOMAIN h[i], NEW k \in DOMAIN h[i], h[i][j].repr = h[i][k].repr
          PROVE  j = k
      <4>1. CASE j \in 1 .. Len(q) /\ k \in 1 .. Len(q)
        BY <2>1, <3>4, <3>5, <3>7, <4>1 DEF Named
      <4>2. CASE j \in 1 .. Len(q) /\ k = Len(q) + 1 BY <3>5, <3>6, <3>7, <4>2
      <4>3. CASE j = Len(q) + 1 /\ k \in 1 .. Len(q) BY <3>5, <3>6, <3>7, <4>3
      <4>4. j \in (1 .. Len(q)) \cup {Len(q) + 1} /\ k \in (1 .. Len(q)) \cup {Len(q) + 1}
        BY <3>4, <3>5
      <4> QED BY <4>1, <4>2, <4>3, <4>4
    <3>8. Named(h[i]) BY <3>7 DEF Named
    <3> QED BY <1>5, <1>6, <3>3, <3>8
  <2> QED BY <2>3, <2>4
<1>9. \A i \in 0 .. n : h[i] \in V[i] BY <1>4, <1>7, <1>8, PrefixInduction
<1>10. n \in 0 .. n BY <1>4
<1>11. h[n] \in Seq(Range(s)) /\ Named(h[n]) BY <1>6, <1>9, <1>10
<1>12. IsList(h[n]) /\ \A x \in Range(h[n]) : x \in Range(s) BY <1>11, SequenceIsList
<1> QED BY <1>2, <1>3, <1>v, <1>11, <1>12

\* A list of a finite set, in the order in which CHOOSE takes its elements.
AnyOf(S) == [s \in SUBSET S |-> CHOOSE x \in s : TRUE]

LEMMA ListedIs ==
  ASSUME NEW S, IsFiniteSet(S)
  PROVE  IsList(Listed(S)) /\ Range(Listed(S)) = S
<1> DEFINE any(s) == CHOOSE x \in s : TRUE
           Q == Seq(S)
           step == [vx \in Q \X S |-> Append(vx[1], vx[2])]
           Body(f) == [s \in SUBSET S |-> IF s = {} THEN <<>>
                                          ELSE Append(f[s \ {any(s)}], any(s))]
           list == CHOOSE f : f = Body(f)
           V == [s \in SUBSET S |-> {q \in Q : Range(q) = s}]
<1>1. Listed(S) = list[S] BY DEF Listed, FoldSet, MapThenFoldSet
<1>2. \A s \in SUBSET S : s # {} => /\ any(s) \in s /\ AnyOf(S)[s] = any(s)
                                    /\ s \ {any(s)} \in SUBSET S /\ any(s) \in S
  BY DEF AnyOf
<1>3. \A q \in Q, x \in S : Append(q, x) \in Q OBVIOUS
<1>4. <<>> \in Q OBVIOUS
<1>b. \A f : \A s \in SUBSET S : Body(f)[s] = IF s = {} THEN <<>>
                                              ELSE Append(f[s \ {any(s)}], any(s))
  OBVIOUS
<1>d. \A f : Body(f) = [s \in SUBSET S |-> Body(f)[s]] OBVIOUS
<1>a. \A q \in Q, x \in S : Range(Append(q, x)) = Range(q) \cup {x}
  <2> TAKE q \in Q, x \in S
  <2>1. Len(q) \in Nat /\ DOMAIN q = 1 .. Len(q) OBVIOUS
  <2>2. DOMAIN Append(q, x) = 1 .. (Len(q) + 1) /\ Append(q, x)[Len(q) + 1] = x
        /\ \A j \in 1 .. Len(q) : Append(q, x)[j] = q[j]
    OBVIOUS
  <2>3. 1 .. (Len(q) + 1) = (1 .. Len(q)) \cup {Len(q) + 1} BY <2>1
  <2> QED BY <2>1, <2>2, <2>3 DEF Range
<1>q. Q = Seq(S) OBVIOUS
<1> HIDE DEF any, Body, Q
<1>s. \A v \in Q, x \in S : step[<<v, x>>] = Append(v, x) OBVIOUS
<1> HIDE DEF step
<1>5. Foldable(S, Q, <<>>, step, AnyOf(S))
  <2>1. \A v \in Q, x \in S : step[<<v, x>>] \in Q
    <3> TAKE v \in Q, x \in S
    <3> QED BY <1>3, <1>s
  <2> QED BY <1>2, <1>4, <2>1 DEF Foldable
<1>6. PICK g : Folds(g, S, Q, <<>>, step, AnyOf(S)) BY <1>5, FoldExists
<1>7. g \in [SUBSET S -> Q] /\ \A s \in SUBSET S : g[s] = Step(g, <<>>, step, AnyOf(S), s)
  BY <1>6 DEF Folds
<1>8. \A s \in SUBSET S : g[s] = Body(g)[s]
  <2> TAKE s \in SUBSET S
  <2>1. CASE s = {} BY <1>7, <1>b, <2>1 DEF Step
  <2>2. CASE s # {}
    <3>1. g[s] = step[<<g[s \ {any(s)}], any(s)>>] BY <1>2, <1>7, <2>2 DEF Step
    <3>2. g[s \ {any(s)}] \in Q BY <1>2, <1>7, <2>2
    <3>3. g[s] = Append(g[s \ {any(s)}], any(s)) BY <1>2, <1>s, <2>2, <3>1, <3>2
    <3> QED BY <1>b, <2>2, <3>3
  <2> QED BY <2>1, <2>2
<1>9. g = Body(g)
  <2>1. g = [s \in SUBSET S |-> g[s]] BY <1>7
  <2> QED BY <1>8, <1>d, <2>1
<1>10. list = Body(list) BY <1>9
<1> HIDE DEF list
<1>v. \A s \in SUBSET S : V[s] = {q \in Q : Range(q) = s} OBVIOUS
<1> HIDE DEF V
<1>11. list[{}] \in V[{}]
  <2>1. {} \in SUBSET S OBVIOUS
  <2>2. list[{}] = <<>> BY <1>10, <1>b, <2>1
  <2>3. Range(<<>>) = {} BY DEF Range
  <2> QED BY <1>4, <1>v, <2>1, <2>2, <2>3
<1>12. ASSUME NEW s \in SUBSET S, s # {}, list[s \ {AnyOf(S)[s]}] \in V[s \ {AnyOf(S)[s]}]
       PROVE  list[s] \in V[s]
  <2>1. any(s) \in s /\ any(s) \in S /\ AnyOf(S)[s] = any(s) /\ s \ {any(s)} \in SUBSET S
    BY <1>2, <1>12
  <2> DEFINE q == list[s \ {any(s)}]
  <2>2. q \in Q /\ Range(q) = s \ {any(s)} BY <1>12, <1>v, <2>1
  <2>3. list[s] = Append(q, any(s)) BY <1>10, <1>b, <1>12
  <2> HIDE DEF q
  <2>4. list[s] \in Q /\ Range(list[s]) = (s \ {any(s)}) \cup {any(s)}
    BY <1>3, <1>a, <2>1, <2>2, <2>3
  <2>5. (s \ {any(s)}) \cup {any(s)} = s BY <2>1
  <2> QED BY <1>v, <2>4, <2>5
<1>13. \A s \in SUBSET S : s # {} => AnyOf(S)[s] \in s BY <1>2
<1>14. list[S] \in V[S] BY <1>11, <1>12, <1>13, FoldWithin
<1>15. list[S] \in Seq(S) /\ Range(list[S]) = S BY <1>14, <1>v, <1>q
<1> QED BY <1>1, <1>15, SequenceIsList

---------------------------------------------------------------------------
(* The arguments of a call and the parameters of the function.             *)

\* The components of an application, as the code that is generated needs them.
Usable(comps) ==
    /\ IsList(comps) /\ Named(comps)
    /\ \A c \in Range(comps) : /\ ~IsPointer(c) => c.raw \in Range(NameOrder)
                               /\ IsDereference(c) => c.repr \in Range(NameOrder)

Reserved == {"__ptr_vals", "__ptr_sizes", "__nullderef"}
ParameterNames == Range(NameOrder) \cup Reserved

\* The array that is passed for the parameter of a name.
ArrayFor(comps, p) ==
    IF p = "__ptr_vals" THEN Array("void*", "value", PointersOf(comps))
    ELSE IF p = "__ptr_sizes" THEN Array("int", "size", completePointeeTypes(comps))
    ELSE IF p = "__nullderef" THEN Array("int", "null", Sorted(Dereferences(comps)))
    ELSE Array(p, "value", OfType(comps, p))

\* Lists of names and of what is passed for them.
Pairs(F, names, arrays) ==
    /\ names \in Seq(DOMAIN F) /\ IsList(arrays)
    /\ Len(arrays) = Len(names)
    /\ \A k \in 1 .. Len(names) : arrays[k] = F[names[k]]

LEMMA PairsAppend ==
  ASSUME NEW F, NEW l1, NEW l2, NEW a1, NEW a2, Pairs(F, l1, a1), Pairs(F, l2, a2)
  PROVE  Pairs(F, l1 \o l2, a1 \o a2)
<1> DEFINE N == DOMAIN F
           W == Range(a1) \cup Range(a2)
<1>1. l1 \in Seq(N) /\ l2 \in Seq(N) /\ l1 \o l2 \in Seq(N) BY DEF Pairs
<1>2. a1 \in Seq(W) /\ a2 \in Seq(W) /\ Len(a1) = Len(l1) /\ Len(a2) = Len(l2)
  BY DEF Pairs, IsList
<1> HIDE DEF N, W
<1>3. IsList(a1 \o a2)
  <2>1. a1 \o a2 \in Seq(W) BY <1>2
  <2> QED BY <2>1, SequenceIsList
<1>4. Len(a1 \o a2) = Len(l1 \o l2) BY <1>1, <1>2
<1>5. ASSUME NEW k \in 1 .. Len(l1 \o l2) PROVE (a1 \o a2)[k] = F[(l1 \o l2)[k]]
  <2>1. Len(l1) \in Nat /\ Len(l2) \in Nat /\ Len(l1 \o l2) = Len(l1) + Len(l2) BY <1>1
  <2>2. CASE k <= Len(l1)
    <3>1. k \in 1 .. Len(l1) BY <2>1, <2>2
    <3>2. (a1 \o a2)[k] = a1[k] /\ (l1 \o l2)[k] = l1[k] BY <1>1, <1>2, <2>1, <3>1
    <3> QED BY <3>1, <3>2 DEF Pairs
  <2>3. CASE k > Len(l1)
    <3>1. k - Len(l1) \in 1 .. Len(l2) BY <2>1, <2>3
    <3>2. (a1 \o a2)[k] = a2[k - Len(l1)] /\ (l1 \o l2)[k] = l2[k - Len(l1)]
      BY <1>1, <1>2, <2>1, <2>3
    <3> QED BY <3>1, <3>2 DEF Pairs
  <2>4. k \in Int /\ Len(l1) \in Int BY <2>1
  <2>5. k <= Len(l1) \/ k > Len(l1) BY <2>4
  <2> QED BY <2>2, <2>3, <2>5
<1> QED BY <1>1, <1>3, <1>4, <1>5 DEF Pairs, N

\* The names of types and of dereferences are ordered, and nothing is lost.
LEMMA SortedIs ==
  ASSUME NEW X, X \subseteq Range(NameOrder)
  PROVE  IsList(Sorted(X)) /\ Range(Sorted(X)) = X
<1>1. IsList(NameOrder) BY NamesAssumption
<1>2. IsList(Selected(NameOrder, X)) /\ Range(Selected(NameOrder, X)) = Range(NameOrder) \cap X
  BY <1>1, SelectedIs
<1> QED BY <1>2 DEF Sorted

\* Two lists of one element.
LEMMA TwoOf == ASSUME NEW a, NEW b PROVE <<a>> \o <<b>> = <<a, b>>
<1> DEFINE p == <<a>> \o <<b>>
           q == <<a, b>>
<1>1. p \in Seq({a, b}) /\ q \in Seq({a, b}) OBVIOUS
<1>2. Len(p) = 2 /\ Len(q) = 2 OBVIOUS
<1>3. p[1] = a /\ p[2] = b /\ q[1] = a /\ q[2] = b OBVIOUS
<1> HIDE DEF p, q
<1>4. p = [k \in 1 .. 2 |-> p[k]] /\ q = [k \in 1 .. 2 |-> q[k]] BY <1>1, <1>2
<1>5. \A k \in 1 .. 2 : k = 1 \/ k = 2 OBVIOUS
<1>6. \A k \in 1 .. 2 : p[k] = q[k] BY <1>3, <1>5
<1>7. p = q BY <1>4, <1>6
<1> QED BY <1>7 DEF p, q

\* A function on the first positions is a list.
LEMMA FunctionIsList ==
  ASSUME NEW n \in Nat, NEW f, f = [k \in 1 .. n |-> f[k]]
  PROVE  IsList(f) /\ Len(f) = n
<1> DEFINE W == {f[k] : k \in 1 .. n}
<1>1. \A k \in 1 .. n : f[k] \in W OBVIOUS
<1> HIDE DEF W
<1>2. f \in [1 .. n -> W] BY <1>1
<1>3. f \in Seq(W) /\ Len(f) = n BY <1>2
<1> QED BY <1>3, SequenceIsList

\* Every argument is the array for the name of the parameter at its place.
LEMMA ArgumentsPair ==
  ASSUME NEW comps, Usable(comps)
  PROVE  Pairs([p \in ParameterNames |-> ArrayFor(comps, p)],
               parameterList(comps), makeArgumentList(comps))
<1> DEFINE F == [p \in ParameterNames |-> ArrayFor(comps, p)]
           T == Sorted(IntegerTypes(comps))
           A == MapSeq(LAMBDA t : Array(t, "value", OfType(comps, t)), T)
           lp == IF PointersOf(comps) = <<>> THEN <<>> ELSE <<"__ptr_vals", "__ptr_sizes">>
           ap == IF PointersOf(comps) = <<>> THEN <<>>
                 ELSE <<Array("void*", "value", PointersOf(comps)),
                        Array("int", "size", completePointeeTypes(comps))>>
           ld == IF Dereferences(comps) = {} THEN <<>> ELSE <<"__nullderef">>
           ad == IF Dereferences(comps) = {} THEN <<>>
                 ELSE <<Array("int", "null", Sorted(Dereferences(comps)))>>
<1>1. parameterList(comps) = T \o lp \o ld BY DEF parameterList
<1>2. makeArgumentList(comps) = A \o ap \o ad BY DEF makeArgumentList
<1>3. IntegerTypes(comps) \subseteq Range(NameOrder) BY DEF Usable, IntegerTypes
<1>4. IsList(T) /\ Range(T) = IntegerTypes(comps) BY <1>3, SortedIs
<1>d. DOMAIN F = ParameterNames /\ \A p \in ParameterNames : F[p] = ArrayFor(comps, p) OBVIOUS
<1> HIDE DEF F, T
<1>5. Pairs(F, T, A)
  <2>1. Len(T) \in Nat /\ DOMAIN T = 1 .. Len(T) /\ \A k \in 1 .. Len(T) : T[k] \in Range(T)
    BY <1>4, ListFacts
  <2>2. T \in Seq(ParameterNames)
    <3>1. T \in Seq(Range(T)) BY <1>4 DEF IsList
    <3>2. Range(T) \subseteq ParameterNames BY <1>3, <1>4 DEF ParameterNames
    <3> QED BY <3>1, <3>2
  <2>3. A = [k \in 1 .. Len(T) |-> Array(T[k], "value", OfType(comps, T[k]))]
    BY <2>1 DEF MapSeq
  <2>4. Len(A) = Len(T) /\ IsList(A)
    <3>1. A = [k \in 1 .. Len(T) |-> A[k]] BY <2>3
    <3> HIDE DEF A
    <3> QED BY <2>1, <3>1, FunctionIsList
  <2>5. ASSUME NEW k \in 1 .. Len(T) PROVE A[k] = F[T[k]]
    <3>1. T[k] \in Range(NameOrder) BY <1>3, <1>4, <2>1
    <3>2. T[k] \notin Reserved BY <3>1, NamesAssumption DEF Reserved
    <3>3. ArrayFor(comps, T[k]) = Array(T[k], "value", OfType(comps, T[k]))
      BY <3>2 DEF ArrayFor, Reserved
    <3>4. F[T[k]] = ArrayFor(comps, T[k]) BY <1>d, <3>1 DEF ParameterNames
    <3>5. A[k] = Array(T[k], "value", OfType(comps, T[k])) BY <2>3
    <3> QED BY <3>3, <3>4, <3>5
  <2> HIDE DEF A
  <2> QED BY <1>d, <2>2, <2>4, <2>5 DEF Pairs
<1>e. Pairs(F, <<>>, <<>>)
  <2>1. <<>> \in Seq(DOMAIN F) /\ <<>> \in Seq({}) /\ Len(<<>>) = 0 OBVIOUS
  <2>2. IsList(<<>>) BY <2>1, SequenceIsList
  <2> QED BY <2>1, <2>2 DEF Pairs
<1>o. ASSUME NEW p \in ParameterNames PROVE Pairs(F, <<p>>, <<ArrayFor(comps, p)>>)
  <2> DEFINE a == ArrayFor(comps, p)
  <2>0. a = F[p] BY <1>d
  <2> HIDE DEF a
  <2>1. <<p>> \in Seq(DOMAIN F) BY <1>d
  <2>2. <<a>> \in Seq({a}) OBVIOUS
  <2>3. IsList(<<a>>) BY <2>2, SequenceIsList
  <2>4. Len(<<p>>) = 1 /\ Len(<<a>>) = 1 /\ <<p>>[1] = p /\ <<a>>[1] = a OBVIOUS
  <2>5. Pairs(F, <<p>>, <<a>>) BY <2>0, <2>1, <2>3, <2>4 DEF Pairs
  <2> QED BY <2>5 DEF a
<1>6. Pairs(F, lp, ap)
  <2>1. CASE PointersOf(comps) = <<>> BY <1>e, <2>1
  <2>2. CASE PointersOf(comps) # <<>>
    <3> DEFINE v == "__ptr_vals"
               z == "__ptr_sizes"
               x == Array("void*", "value", PointersOf(comps))
               y == Array("int", "size", completePointeeTypes(comps))
    <3>1. v \in ParameterNames /\ z \in ParameterNames /\ ArrayFor(comps, v) = x /\ ArrayFor(comps, z) = y
      BY DEF ParameterNames, Reserved, ArrayFor
    <3>2. lp = <<v, z>> /\ ap = <<x, y>> BY <2>2
    <3> HIDE DEF v, z, x, y
    <3>3. Pairs(F, <<v>>, <<x>>) /\ Pairs(F, <<z>>, <<y>>) BY <1>o, <3>1
    <3>4. Pairs(F, <<v>> \o <<z>>, <<x>> \o <<y>>) BY <3>3, PairsAppend
    <3>5. <<v>> \o <<z>> = <<v, z>> /\ <<x>> \o <<y>> = <<x, y>> BY TwoOf
    <3> QED BY <3>2, <3>4, <3>5
  <2> QED BY <2>1, <2>2
<1>7. Pairs(F, ld, ad)
  <2>1. CASE Dereferences(comps) = {} BY <1>e, <2>1
  <2>2. CASE Dereferences(comps) # {}
    <3>1. "__nullderef" \in ParameterNames BY DEF ParameterNames, Reserved
    <3>2. ArrayFor(comps, "__nullderef") = Array("int", "null", Sorted(Dereferences(comps)))
      BY DEF ArrayFor
    <3> QED BY <1>o, <2>2, <3>1, <3>2
  <2> QED BY <2>1, <2>2
<1> HIDE DEF A, lp, ap, ld, ad
<1>8. Pairs(F, T \o lp, A \o ap) BY <1>5, <1>6, PairsAppend
<1>9. Pairs(F, T \o lp \o ld, A \o ap \o ad) BY <1>7, <1>8, PairsAppend
<1> QED BY <1>1, <1>2, <1>9 DEF F

LEMMA RangeOfBoth ==
  ASSUME NEW W, NEW l1 \in Seq(W), NEW l2 \in Seq(W)
  PROVE  Range(l1) \cup Range(l2) \subseteq Range(l1 \o l2)
<1>1. Len(l1) \in Nat /\ Len(l2) \in Nat /\ DOMAIN l1 = 1 .. Len(l1) /\ DOMAIN l2 = 1 .. Len(l2)
      /\ DOMAIN (l1 \o l2) = 1 .. (Len(l1) + Len(l2))
  OBVIOUS
<1>2. ASSUME NEW k \in 1 .. Len(l1) PROVE l1[k] \in Range(l1 \o l2)
  <2>1. k \in 1 .. (Len(l1) + Len(l2)) /\ (l1 \o l2)[k] = l1[k] BY <1>1
  <2> QED BY <1>1, <2>1 DEF Range
<1>3. ASSUME NEW k \in 1 .. Len(l2) PROVE l2[k] \in Range(l1 \o l2)
  <2> DEFINE m == Len(l1) + k
  <2>1. m \in 1 .. (Len(l1) + Len(l2)) /\ (l1 \o l2)[m] = l2[k] BY <1>1
  <2> HIDE DEF m
  <2> QED BY <1>1, <2>1 DEF Range
<1> QED BY <1>1, <1>2, <1>3 DEF Range

\* The parameters that there are.
LEMMA ParametersAre ==
  ASSUME NEW comps, Usable(comps)
  PROVE  /\ IntegerTypes(comps) \subseteq Range(parameterList(comps))
         /\ PointersOf(comps) # <<>> => /\ "__ptr_vals" \in Range(parameterList(comps))
                                        /\ "__ptr_sizes" \in Range(parameterList(comps))
         /\ Dereferences(comps) # {} => "__nullderef" \in Range(parameterList(comps))
<1> DEFINE T == Sorted(IntegerTypes(comps))
           lp == IF PointersOf(comps) = <<>> THEN <<>> ELSE <<"__ptr_vals", "__ptr_sizes">>
           ld == IF Dereferences(comps) = {} THEN <<>> ELSE <<"__nullderef">>
           W == ParameterNames
<1>1. parameterList(comps) = T \o lp \o ld BY DEF parameterList
<1>2. IntegerTypes(comps) \subseteq Range(NameOrder) BY DEF Usable, IntegerTypes
<1>3. IsList(T) /\ Range(T) = IntegerTypes(comps) BY <1>2, SortedIs
<1> HIDE DEF T
<1>4. T \in Seq(W)
  <2>1. T \in Seq(Range(T)) BY <1>3 DEF IsList
  <2>2. Range(T) \subseteq W BY <1>2, <1>3 DEF ParameterNames
  <2> HIDE DEF W
  <2> QED BY <2>1, <2>2
<1>5. lp \in Seq(W) /\ ld \in Seq(W)
  <2>1. Reserved \subseteq W BY DEF ParameterNames
  <2>2. lp \in Seq(Reserved)
    <3>1. <<>> \in Seq(Reserved) OBVIOUS
    <3>2. <<"__ptr_vals", "__ptr_sizes">> \in Seq(Reserved) BY DEF Reserved
    <3> QED BY <3>1, <3>2
  <2>3. ld \in Seq(Reserved)
    <3>1. <<>> \in Seq(Reserved) OBVIOUS
    <3>2. <<"__nullderef">> \in Seq(Reserved) BY DEF Reserved
    <3> QED BY <3>1, <3>2
  <2> HIDE DEF lp, ld, W
  <2> QED BY <2>1, <2>2, <2>3
<1>6. PointersOf(comps) # <<>> => "__ptr_vals" \in Range(lp) /\ "__ptr_sizes" \in Range(lp)
  <2> SUFFICES ASSUME PointersOf(comps) # <<>>
               PROVE  "__ptr_vals" \in Range(lp) /\ "__ptr_sizes" \in Range(lp)
    OBVIOUS
  <2>1. lp = <<"__ptr_vals", "__ptr_sizes">> OBVIOUS
  <2>2. 1 \in DOMAIN lp /\ 2 \in DOMAIN lp /\ lp[1] = "__ptr_vals" /\ lp[2] = "__ptr_sizes"
    BY <2>1
  <2> HIDE DEF lp
  <2> QED BY <2>2 DEF Range
<1>7. Dereferences(comps) # {} => "__nullderef" \in Range(ld)
  <2> SUFFICES ASSUME Dereferences(comps) # {} PROVE "__nullderef" \in Range(ld)
    OBVIOUS
  <2>1. 1 \in DOMAIN ld /\ ld[1] = "__nullderef" OBVIOUS
  <2> HIDE DEF ld
  <2> QED BY <2>1 DEF Range
<1> HIDE DEF lp, ld, W
<1>8. Range(T) \cup Range(lp) \subseteq Range(T \o lp) BY <1>4, <1>5, RangeOfBoth
<1>9. T \o lp \in Seq(W) BY <1>4, <1>5
<1>10. Range(T \o lp) \cup Range(ld) \subseteq Range(T \o lp \o ld) BY <1>5, <1>9, RangeOfBoth
<1> QED BY <1>1, <1>3, <1>6, <1>7, <1>8, <1>10

\* The list of components, the call and the function of an application.
Calls(i, comps) ==
    Usable(comps) /\ sas[i].components = comps /\ calls[i] = makeArgumentList(comps)

\* What is found where the generated code looks.
LEMMA SlotIs ==
  ASSUME NEW i, NEW comps, Calls(i, comps), NEW p \in Range(parameterList(comps)), NEW k
  PROVE  Slot(i, [array |-> p, index |-> k]) = ArrayFor(comps, p).cells[k]
<1> DEFINE F == [q \in ParameterNames |-> ArrayFor(comps, q)]
           L == parameterList(comps)
           A == makeArgumentList(comps)
           slot == [array |-> p, index |-> k]
<1>1. Pairs(F, L, A) BY ArgumentsPair DEF Calls
<1>2. \A q \in ParameterNames : F[q] = ArrayFor(comps, q) OBVIOUS
<1>3. DOMAIN F = ParameterNames OBVIOUS
<1>s. slot.array = p /\ slot.index = k OBVIOUS
<1>4. Slot(i, slot) = A[CHOOSE m \in DOMAIN A : L[m] = slot.array].cells[slot.index]
  BY DEF Slot, Calls
<1> HIDE DEF F, L, A, slot
<1>5. L \in Seq(ParameterNames) /\ IsList(A) /\ Len(A) = Len(L)
      /\ \A m \in 1 .. Len(L) : A[m] = F[L[m]]
  BY <1>1, <1>3 DEF Pairs
<1>6. DOMAIN A = 1 .. Len(L) BY <1>5, ListFacts
<1>7. \E m \in 1 .. Len(L) : L[m] = p
  <2>1. p \in Range(L) BY DEF L
  <2> QED BY <1>5, <2>1 DEF Range
<1> DEFINE m == CHOOSE j \in DOMAIN A : L[j] = p
<1>8. m \in 1 .. Len(L) /\ L[m] = p BY <1>6, <1>7
<1>9. Slot(i, slot) = A[m].cells[k] BY <1>4, <1>s
<1> HIDE DEF m
<1>10. L[m] \in ParameterNames BY <1>5, <1>8
<1>11. A[m] = ArrayFor(comps, p) BY <1>2, <1>5, <1>8, <1>10
<1> QED BY <1>9, <1>11 DEF slot

\* A cell of an array.
LEMMA CellIs ==
  ASSUME NEW elem, NEW kind, NEW s, NEW k \in DOMAIN s
  PROVE  Array(elem, kind, s).cells[k] = [kind |-> kind, of |-> s[k]]
BY DEF Array

\* Every name is where the generated code looks for its component.
LEMMA NamesFound ==
  ASSUME NEW i, NEW comps, Calls(i, comps), NEW k \in DOMAIN comps
  PROVE  Slot(i, runtimeRenaming(comps)[comps[k].repr]) = [kind |-> "value", of |-> comps[k]]
<1> DEFINE c == comps[k]
           n == c.repr
           d == comps[CHOOSE j \in DOMAIN comps : comps[j].repr = n]
           peers == IF IsPointer(c) THEN PointersOf(comps) ELSE OfType(comps, c.raw)
           p == IF IsPointer(c) THEN "__ptr_vals" ELSE c.raw
           x == CHOOSE j \in DOMAIN peers : peers[j].repr = n
<1>1. Usable(comps) BY DEF Calls
<1>2. IsList(comps) /\ Named(comps) BY <1>1 DEF Usable
<1>3. c \in Range(comps) BY DEF Range
<1>4. \A e \in Range(comps) : e.repr = n => e = c BY <1>2 DEF Named, Range
<1>5. d = c
  <2> DEFINE j == CHOOSE j \in DOMAIN comps : comps[j].repr = n
  <2>1. j \in DOMAIN comps /\ comps[j].repr = n OBVIOUS
  <2> HIDE DEF j
  <2>2. comps[j] = c BY <1>2, <2>1 DEF Named
  <2> QED BY <2>2 DEF j
<1>6. n \in ReprsOf(comps) BY <1>3 DEF ReprsOf
<1>7. runtimeRenaming(comps)[n] = [array |-> p, index |-> x]
  <2>1. runtimeRenaming(comps)[n] =
          [array |-> IF IsPointer(d) THEN "__ptr_vals" ELSE d.raw,
           index |-> LET q == IF IsPointer(d) THEN PointersOf(comps) ELSE OfType(comps, d.raw)
                     IN  CHOOSE j \in DOMAIN q : q[j].repr = n]
    BY <1>6 DEF runtimeRenaming
  <2> HIDE DEF d
  <2> QED BY <1>5, <2>1
<1> DEFINE X == IF IsPointer(c) THEN {e \in Range(comps) : IsPointer(e)}
                ELSE {e \in Range(comps) : ~IsPointer(e) /\ e.raw = c.raw}
<1>8. IsList(peers) /\ Range(peers) = X
  <2>1. peers = Selected(comps, X) BY DEF PointersOf, OfType
  <2>2. Range(comps) \cap X = X OBVIOUS
  <2> HIDE DEF peers, X
  <2> QED BY <1>2, <2>1, <2>2, SelectedIs
<1>9. c \in X BY <1>3
<1>10. X \subseteq Range(comps) OBVIOUS
<1>11. ArrayFor(comps, p).cells = Array("int", "value", peers).cells
  <2>1. CASE IsPointer(c) BY <2>1 DEF ArrayFor, Array
  <2>2. CASE ~IsPointer(c)
    <3>1. c.raw \in Range(NameOrder) BY <1>1, <1>3, <2>2 DEF Usable
    <3>2. c.raw \notin Reserved BY <3>1, NamesAssumption DEF Reserved
    <3> QED BY <2>2, <3>2 DEF ArrayFor, Array, Reserved
  <2> QED BY <2>1, <2>2
<1>12. p \in Range(parameterList(comps))
  <2>1. CASE IsPointer(c)
    <3>1. peers = PointersOf(comps) BY <2>1
    <3>2. Range(peers) # {} BY <1>8, <1>9
    <3>3. Range(<<>>) = {} BY DEF Range
    <3>4. PointersOf(comps) # <<>> BY <3>1, <3>2, <3>3
    <3> QED BY <1>1, <2>1, <3>4, ParametersAre
  <2>2. CASE ~IsPointer(c)
    <3>1. c.raw \in IntegerTypes(comps) BY <1>3, <2>2 DEF IntegerTypes
    <3> QED BY <1>1, <2>2, <3>1, ParametersAre
  <2> QED BY <2>1, <2>2
<1>v. c = comps[k] /\ n = c.repr OBVIOUS
<1> HIDE DEF c, peers, p, X
<1>13. x \in DOMAIN peers /\ peers[x] = c
  <2>1. \E j \in DOMAIN peers : peers[j] = c BY <1>8, <1>9 DEF Range
  <2>2. x \in DOMAIN peers /\ peers[x].repr = n BY <2>1
  <2>3. peers[x] \in Range(comps) BY <1>8, <1>10, <2>2 DEF Range
  <2> HIDE DEF x
  <2> QED BY <1>4, <2>2, <2>3
<1> HIDE DEF x, n
<1>14. Slot(i, runtimeRenaming(comps)[n]) = ArrayFor(comps, p).cells[x]
  BY <1>7, <1>12, SlotIs
<1>15. Array("int", "value", peers).cells[x] = [kind |-> "value", of |-> peers[x]]
  BY <1>13, CellIs
<1> QED BY <1>v, <1>11, <1>13, <1>14, <1>15

\* So are the sizes of complete types.
LEMMA SizesFound ==
  ASSUME NEW i, NEW comps, Calls(i, comps), NEW t \in DOMAIN typeSizes(comps)
  PROVE  Slot(i, typeSizes(comps)[t]) = [kind |-> "size", of |-> t]
<1> DEFINE Z == completePointeeTypes(comps)
           x == CHOOSE k \in DOMAIN Z : Z[k] = t
           p == "__ptr_sizes"
<1>1. t \in Range(Z) /\ typeSizes(comps)[t] = [array |-> p, index |-> x] BY DEF typeSizes
<1>2. ArrayFor(comps, p) = Array("int", "size", Z) BY DEF ArrayFor
<1>3. p \in Range(parameterList(comps))
  <2> DEFINE Y == {c.raw : c \in {d \in Range(comps) : IsPointer(d)}} \ Incomplete
  <2>1. IsList(NameOrder) BY NamesAssumption
  <2>2. Z = Selected(NameOrder, Y) BY DEF completePointeeTypes, Sorted
  <2>y. \A y \in Y : \E c \in Range(comps) : IsPointer(c) OBVIOUS
  <2> HIDE DEF Y, Z
  <2>3. t \in Y BY <1>1, <2>1, <2>2, SelectedIs
  <2>4. PICK c \in Range(comps) : IsPointer(c) BY <2>3, <2>y
  <2> DEFINE X == {e \in Range(comps) : IsPointer(e)}
  <2>5. PointersOf(comps) = Selected(comps, X) BY DEF PointersOf
  <2>6. IsList(comps) /\ Usable(comps) BY DEF Calls, Usable
  <2>7. c \in Range(comps) \cap X BY <2>4
  <2> HIDE DEF X
  <2>8. c \in Range(PointersOf(comps)) BY <2>5, <2>6, <2>7, SelectedIs
  <2>9. Range(<<>>) = {} BY DEF Range
  <2>10. PointersOf(comps) # <<>> BY <2>8, <2>9
  <2> QED BY <2>6, <2>10, ParametersAre
<1> HIDE DEF p
<1> HIDE DEF Z
<1>5. x \in DOMAIN Z /\ Z[x] = t
  <2>1. \E k \in DOMAIN Z : Z[k] = t BY <1>1 DEF Range
  <2> QED BY <2>1
<1> HIDE DEF x
<1>4. Slot(i, typeSizes(comps)[t]) = ArrayFor(comps, p).cells[x]
  <2>1. Slot(i, [array |-> p, index |-> x]) = ArrayFor(comps, p).cells[x] BY <1>3, SlotIs
  <2> QED BY <1>1, <2>1
<1>6. Array("int", "size", Z).cells[x] = [kind |-> "size", of |-> Z[x]] BY <1>5, CellIs
<1> QED BY <1>2, <1>4, <1>5, <1>6

\* And what tells whether the base of a dereference is NULL.
LEMMA NullsFound ==
  ASSUME NEW i, NEW comps, Calls(i, comps), NEW n \in DOMAIN nullDerefCondition(comps)
  PROVE  Slot(i, nullDerefCondition(comps)[n]) = [kind |-> "null", of |-> n]
<1> DEFINE Z == Sorted(Dereferences(comps))
           x == CHOOSE k \in DOMAIN Z : Z[k] = n
           p == "__nullderef"
<1>1. n \in Range(Z) /\ nullDerefCondition(comps)[n] = [array |-> p, index |-> x]
  BY DEF nullDerefCondition
<1>2. ArrayFor(comps, p) = Array("int", "null", Z) BY DEF ArrayFor
<1>3. p \in Range(parameterList(comps))
  <2>1. Usable(comps) BY DEF Calls
  <2>2. Dereferences(comps) \subseteq Range(NameOrder) BY <2>1 DEF Usable, Dereferences
  <2>3. Range(Z) = Dereferences(comps) BY <2>2, SortedIs
  <2> HIDE DEF Z
  <2>4. Dereferences(comps) # {} BY <1>1, <2>3
  <2> QED BY <2>1, <2>4, ParametersAre
<1> HIDE DEF p
<1> HIDE DEF Z
<1>5. x \in DOMAIN Z /\ Z[x] = n
  <2>1. \E k \in DOMAIN Z : Z[k] = n BY <1>1 DEF Range
  <2> QED BY <2>1
<1> HIDE DEF x
<1>4. Slot(i, nullDerefCondition(comps)[n]) = ArrayFor(comps, p).cells[x]
  <2>1. Slot(i, [array |-> p, index |-> x]) = ArrayFor(comps, p).cells[x] BY <1>3, SlotIs
  <2> QED BY <1>1, <2>1
<1>6. Array("int", "null", Z).cells[x] = [kind |-> "null", of |-> Z[x]] BY <1>5, CellIs
<1> QED BY <1>2, <1>4, <1>5, <1>6

\* The types of the arguments are those of the parameters.
LEMMA TypesMatch ==
  ASSUME NEW i, NEW comps, Calls(i, comps)
  PROVE  MapSeq(LAMBDA a : a.elem, calls[i]) = declaration(i).parameters
<1> DEFINE F == [q \in ParameterNames |-> ArrayFor(comps, q)]
           L == parameterList(comps)
           A == makeArgumentList(comps)
<1>1. Pairs(F, L, A) BY ArgumentsPair DEF Calls
<1>2. \A q \in ParameterNames : F[q] = ArrayFor(comps, q) OBVIOUS
<1>3. DOMAIN F = ParameterNames OBVIOUS
<1>4. calls[i] = A /\ parameterList(sas[i].components) = L BY DEF Calls
<1>c. declaration(i).parameters = MapSeq(Element, L) BY <1>4 DEF declaration
<1> HIDE DEF F, L, A
<1>5. L \in Seq(ParameterNames) /\ IsList(A) /\ Len(A) = Len(L)
      /\ \A m \in 1 .. Len(L) : A[m] = F[L[m]]
  BY <1>1, <1>3 DEF Pairs
<1>6. DOMAIN A = 1 .. Len(L) /\ DOMAIN L = 1 .. Len(L) BY <1>5, ListFacts
<1>7. ASSUME NEW m \in 1 .. Len(L) PROVE A[m].elem = Element(L[m])
  <2>1. L[m] \in ParameterNames BY <1>5, <1>6
  <2>2. A[m] = ArrayFor(comps, L[m]) BY <1>2, <1>5, <2>1
  <2> DEFINE p == L[m]
  <2>3. ArrayFor(comps, p).elem = Element(p)
    <3> HIDE DEF p
    <3>1. CASE p = "__ptr_vals" BY <3>1 DEF ArrayFor, Array, Element
    <3>2. CASE p = "__ptr_sizes" BY <3>2 DEF ArrayFor, Array, Element
    <3>3. CASE p = "__nullderef" BY <3>3 DEF ArrayFor, Array, Element
    <3>4. CASE p \notin Reserved BY <3>4 DEF ArrayFor, Array, Element, Reserved
    <3> QED BY <3>1, <3>2, <3>3, <3>4 DEF Reserved
  <2> QED BY <2>2, <2>3
<1>8. MapSeq(LAMBDA a : a.elem, A) = [m \in 1 .. Len(L) |-> A[m].elem] BY <1>6 DEF MapSeq
<1>9. MapSeq(Element, L) = [m \in 1 .. Len(L) |-> Element(L[m])] BY <1>6 DEF MapSeq
<1>10. MapSeq(LAMBDA a : a.elem, A) = MapSeq(Element, L) BY <1>7, <1>8, <1>9
<1> QED BY <1>4, <1>c, <1>10

\* Every application was given its call.
CallsWritten == \A i \in DOMAIN sas : \E comps : Calls(i, comps)

LEMMA CallsMatch == CallsWritten => ArgumentsMatch
<1> SUFFICES ASSUME CallsWritten, NEW i \in DOMAIN sas
             PROVE  LET comps == sas[i].components
                    IN  /\ MapSeq(LAMBDA a : a.elem, calls[i]) = declaration(i).parameters
                        /\ \A k \in DOMAIN comps :
                             Slot(i, runtimeRenaming(comps)[comps[k].repr])
                               = [kind |-> "value", of |-> comps[k]]
                        /\ \A t \in DOMAIN typeSizes(comps) :
                             Slot(i, typeSizes(comps)[t]) = [kind |-> "size", of |-> t]
                        /\ \A n \in DOMAIN nullDerefCondition(comps) :
                             Slot(i, nullDerefCondition(comps)[n]) = [kind |-> "null", of |-> n]
  BY DEF ArgumentsMatch
<1> DEFINE comps == sas[i].components
<1>1. Calls(i, comps) BY DEF CallsWritten, Calls
<1> HIDE DEF comps
<1>2. MapSeq(LAMBDA a : a.elem, calls[i]) = declaration(i).parameters BY <1>1, TypesMatch
<1>3. \A k \in DOMAIN comps : Slot(i, runtimeRenaming(comps)[comps[k].repr])
                                = [kind |-> "value", of |-> comps[k]]
  BY <1>1, NamesFound
<1>4. \A t \in DOMAIN typeSizes(comps) :
        Slot(i, typeSizes(comps)[t]) = [kind |-> "size", of |-> t]
  BY <1>1, SizesFound
<1>5. \A n \in DOMAIN nullDerefCondition(comps) :
        Slot(i, nullDerefCondition(comps)[n]) = [kind |-> "null", of |-> n]
  BY <1>1, NullsFound
<1> QED BY <1>2, <1>3, <1>4, <1>5 DEF comps

---------------------------------------------------------------------------
(* What the stages have done.                                              *)

\* The statements of a program by file.
Laid(prog, n, start) ==
    /\ IsList(prog) /\ n \in 1 .. Len(prog) /\ start \in [0 .. n -> 1 .. Len(prog) + 1]
    /\ IsLayout(prog, n, start)
    /\ \A f \in 0 .. n - 1 : start[f + 1] - start[f] <= 2 ^ ValueBits

Comps(k) == collectComponents(program[k].expr, program[k].visible)

\* What is written for a statement, if its file starts at first.
App(k, first) ==
    [appId |-> f1xapp(k - first, program[k].file), schema |-> program[k].schema,
     context |-> program[k].context, expression |-> program[k].expr, components |-> Comps(k)]

\* What is loaded of it, with the original as it is or typed.
Entry(k, first, original) ==
    [id |-> f1xapp(k - first, program[k].file),
     schema |-> transformationSchemaByString[program[k].schema],
     context |-> contextByString(program[k].context),
     original |-> original, components |-> Comps(k)]
TypedOriginal(k) ==
    Corrected(program[k].expr, TypeFor(contextByString(program[k].context)))

\* The number of statements of a file before m.
Before(start, m, f) ==
    IF m <= start[f] THEN 0
    ELSE IF m <= start[f + 1] THEN m - start[f] ELSE start[f + 1] - start[f]

\* Each file has the applications of its statements before m.
Written(n, start, m) ==
    /\ DOMAIN documents = 0 .. n - 1
    /\ \A f \in 0 .. n - 1 :
         /\ IsList(documents[f]) /\ Len(documents[f]) = Before(start, m, f)
         /\ \A j \in 1 .. Len(documents[f]) :
              documents[f][j] = App(start[f] + j - 1, start[f])

\* The first count applications are loaded, and those before m are typed.
Applications(start, count, m) ==
    /\ IsList(sas) /\ Len(sas) = count
    /\ \A k \in 1 .. count :
         /\ k < m => ~IllTyped(program[k].expr)
         /\ sas[k] = Entry(k, start[program[k].file],
                           IF k < m THEN TypedOriginal(k) ELSE program[k].expr)

\* The calls of the statements before m are in the source.
Called(m) ==
    /\ IsList(calls) /\ Len(calls) = m - 1
    /\ \A k \in 1 .. m - 1 : calls[k] = makeArgumentList(Comps(k))

\* What each stage finds.
Stages(n, start) ==
    LET last == Len(program)
    IN  /\ Laid(program, n, start)
        /\ stage = "transform" =>
             /\ next \in 1 .. last /\ Called(next) /\ Written(n, start, next) /\ sas = <<>>
             /\ baseAppId = next - start[program[next].file]
        /\ stage # "transform" => Called(last + 1)
        /\ stage = "load" =>
             /\ next \in 1 .. n /\ Written(n, start, last + 1)
             /\ Applications(start, start[next - 1] - 1, 1)
        /\ stage \in {"types", "threw"} => next \in 1 .. last /\ Applications(start, last, next)
        /\ stage = "generate" => next \in 1 .. last
        /\ stage \in {"generate", "cost", "done"} => Applications(start, last, last + 1)

StageInv ==
    /\ program \in Programs
    /\ stage \in {"transform", "load", "types", "generate", "cost", "done", "threw"}
    /\ \E n : \E start : Stages(n, start)

\* Where the statements of a file are.
Bounds(prog, n, start) ==
    /\ Len(prog) \in Nat /\ n \in Nat /\ n >= 1 /\ DOMAIN prog = 1 .. Len(prog)
    /\ start[0] = 1 /\ start[n] = Len(prog) + 1
    /\ \A f \in 0 .. n : start[f] \in 1 .. Len(prog) + 1
    /\ \A f \in 0 .. n - 1 : f \in 0 .. n /\ f + 1 \in 0 .. n /\ start[f] < start[f + 1]
    /\ \A k \in 1 .. Len(prog) : /\ prog[k].file \in 0 .. n - 1
                                 /\ start[prog[k].file] <= k
                                 /\ k < start[prog[k].file + 1]
    /\ \A f \in 0 .. n - 1 : \A k \in 1 .. Len(prog) :
         start[f] <= k /\ k < start[f + 1] => prog[k].file = f

LEMMA LayoutFacts ==
  ASSUME NEW prog, NEW n, NEW start, Laid(prog, n, start)
  PROVE  Bounds(prog, n, start)
<1>1. IsList(prog) /\ n \in 1 .. Len(prog) /\ start \in [0 .. n -> 1 .. Len(prog) + 1]
      /\ IsLayout(prog, n, start)
  BY DEF Laid
<1>2. Len(prog) \in Nat /\ DOMAIN prog = 1 .. Len(prog) BY <1>1, ListFacts
<1>3. n \in Nat /\ n >= 1 /\ \A f \in 0 .. n - 1 : f \in 0 .. n /\ f + 1 \in 0 .. n BY <1>1
<1>4. \A f \in 0 .. n : start[f] \in 1 .. Len(prog) + 1 BY <1>1
<1>5. start[0] = 1 /\ start[n] = Len(prog) + 1 BY <1>1 DEF IsLayout
<1>6. \A f \in 0 .. n - 1 : start[f] < start[f + 1] BY <1>1 DEF IsLayout
<1>7. \A k \in 1 .. Len(prog) : prog[k].file \in 0 .. n - 1 BY <1>1, <1>2 DEF IsLayout
<1>8. \A f \in 0 .. n - 1 : \A k \in 1 .. Len(prog) :
        prog[k].file = f <=> start[f] <= k /\ k < start[f + 1]
  BY <1>1, <1>2 DEF IsLayout
<1>9. \A k \in 1 .. Len(prog) : start[prog[k].file] <= k /\ k < start[prog[k].file + 1]
  BY <1>7, <1>8
<1> QED BY <1>2, <1>3, <1>4, <1>5, <1>6, <1>7, <1>8, <1>9 DEF Bounds

LEMMA InitStages == Init => StageInv
<1> SUFFICES ASSUME Init PROVE StageInv
  OBVIOUS
<1>1. program \in Programs BY DEF Init
<1>2. IsList(program)
      /\ \E n \in 1 .. Len(program) : \E start \in [0 .. n -> 1 .. Len(program) + 1] :
           /\ IsLayout(program, n, start)
           /\ \A f \in 0 .. n - 1 : start[f + 1] - start[f] <= 2 ^ ValueBits
  BY <1>1, ProgramsAssumption
<1>3. PICK n \in 1 .. Len(program) : \E start \in [0 .. n -> 1 .. Len(program) + 1] :
           /\ IsLayout(program, n, start)
           /\ \A f \in 0 .. n - 1 : start[f + 1] - start[f] <= 2 ^ ValueBits
  BY <1>2
<1>4. PICK start \in [0 .. n -> 1 .. Len(program) + 1] :
           /\ IsLayout(program, n, start)
           /\ \A f \in 0 .. n - 1 : start[f + 1] - start[f] <= 2 ^ ValueBits
  BY <1>3
<1>5. Laid(program, n, start) BY <1>2, <1>4 DEF Laid
<1> DEFINE N == Len(program)
<1>b. Bounds(program, n, start) BY <1>5, LayoutFacts
<1>6. /\ N \in Nat /\ n \in Nat /\ n >= 1 /\ DOMAIN program = 1 .. N
      /\ start[0] = 1 /\ start[n] = N + 1
      /\ \A f \in 0 .. n : start[f] \in 1 .. N + 1
      /\ \A f \in 0 .. n - 1 : f \in 0 .. n /\ f + 1 \in 0 .. n /\ start[f] < start[f + 1]
      /\ \A k \in 1 .. N : /\ program[k].file \in 0 .. n - 1
                           /\ start[program[k].file] <= k /\ k < start[program[k].file + 1]
      /\ \A f \in 0 .. n - 1 : \A k \in 1 .. N :
           start[f] <= k /\ k < start[f + 1] => program[k].file = f
  BY <1>b DEF Bounds
<1> HIDE DEF N
<1>7. 1 \in 1 .. N BY <1>3, <1>6
<1>8. documents = [f \in {program[k].file : k \in DOMAIN program} |-> <<>>]
      /\ stage = "transform" /\ next = 1 /\ sas = <<>> /\ calls = <<>> /\ baseAppId = 0
  BY DEF Init
<1>9. {program[k].file : k \in DOMAIN program} = 0 .. n - 1
  <2>1. ASSUME NEW f \in 0 .. n - 1 PROVE \E k \in 1 .. N : program[k].file = f
    <3>1. start[f] \in 1 .. N + 1 /\ start[f + 1] \in 1 .. N + 1 /\ start[f] < start[f + 1]
      BY <1>6
    <3>2. start[f] \in 1 .. N BY <1>6, <3>1
    <3>3. start[f] <= start[f] BY <3>2
    <3> QED BY <1>6, <3>1, <3>2, <3>3
  <2>2. \A k \in DOMAIN program : program[k].file \in 0 .. n - 1 BY <1>6
  <2>3. \A f \in 0 .. n - 1 : \E k \in DOMAIN program : program[k].file = f BY <1>6, <2>1
  <2> QED BY <2>2, <2>3, Zenon
<1>e. IsList(<<>>) /\ Len(<<>>) = 0
  <2>1. <<>> \in Seq({}) OBVIOUS
  <2> QED BY <2>1, SequenceIsList
<1>10. Written(n, start, 1)
  <2>1. DOMAIN documents = 0 .. n - 1 /\ \A f \in 0 .. n - 1 : documents[f] = <<>>
    BY <1>8, <1>9
  <2>2. \A f \in 0 .. n - 1 : Before(start, 1, f) = 0
    <3> TAKE f \in 0 .. n - 1
    <3>1. start[f] \in 1 .. N + 1 BY <1>6
    <3>2. 1 <= start[f] BY <1>6, <3>1
    <3> QED BY <3>2 DEF Before
  <2>3. \A f \in 0 .. n - 1 : \A j \in 1 .. Len(documents[f]) : FALSE BY <1>e, <2>1
  <2> QED BY <1>e, <2>1, <2>2, <2>3 DEF Written
<1>11. Called(1) BY <1>8, <1>e DEF Called
<1>12. start[program[1].file] = 1
  <2>1. program[1].file \in 0 .. n - 1 /\ start[program[1].file] <= 1 BY <1>6, <1>7
  <2>2. start[program[1].file] \in 1 .. N + 1 BY <1>6, <2>1
  <2> QED BY <1>6, <2>1, <2>2
<1>13. Stages(n, start)
  <2> USE DEF N
  <2>1. baseAppId = next - start[program[next].file] BY <1>8, <1>12
  <2> QED BY <1>5, <1>7, <1>8, <1>10, <1>11, <2>1 DEF Stages
<1> QED BY <1>1, <1>8, <1>13 DEF StageInv

\* A list with one more element.
LEMMA AppendIs ==
  ASSUME NEW s, IsList(s), NEW x
  PROVE  /\ IsList(Append(s, x)) /\ Len(Append(s, x)) = Len(s) + 1
         /\ Append(s, x)[Len(s) + 1] = x
         /\ \A k \in 1 .. Len(s) : Append(s, x)[k] = s[k]
<1> DEFINE W == Range(s) \cup {x}
<1>1. s \in Seq(W) /\ x \in W BY DEF IsList
<1> HIDE DEF W
<1>2. Append(s, x) \in Seq(W) BY <1>1
<1>3. IsList(Append(s, x)) BY <1>2, SequenceIsList
<1> QED BY <1>1, <1>3

\* The statement at hand is the next one of its file, and of no other one.
LEMMA BeforeNext ==
  ASSUME NEW prog, NEW n, NEW start, Bounds(prog, n, start),
         NEW k \in 1 .. Len(prog), NEW f \in 0 .. n - 1
  PROVE  /\ Before(start, k, f) \in Nat
         /\ prog[k].file = f => /\ Before(start, k, f) = k - start[f]
                                /\ Before(start, k + 1, f) = Before(start, k, f) + 1
         /\ prog[k].file # f => Before(start, k + 1, f) = Before(start, k, f)
<1>1. Len(prog) \in Nat /\ f \in 0 .. n /\ f + 1 \in 0 .. n /\ start[f] < start[f + 1]
  BY DEF Bounds
<1>2. start[f] \in 1 .. Len(prog) + 1 /\ start[f + 1] \in 1 .. Len(prog) + 1
  BY <1>1 DEF Bounds
<1>3. k \in Int /\ start[f] \in Int /\ start[f + 1] \in Int BY <1>1, <1>2
<1>4. CASE prog[k].file = f
  <2>1. start[f] <= k /\ k < start[f + 1] BY <1>4 DEF Bounds
  <2> QED BY <1>3, <1>4, <2>1 DEF Before
<1>5. CASE prog[k].file # f
  <2>1. ~(start[f] <= k /\ k < start[f + 1]) BY <1>5 DEF Bounds
  <2>2. CASE k < start[f] BY <1>1, <1>3, <1>5, <2>2 DEF Before
  <2>3. CASE k >= start[f + 1] BY <1>1, <1>3, <1>5, <2>3 DEF Before
  <2> QED BY <1>3, <2>1, <2>2, <2>3
<1> QED BY <1>4, <1>5

\* The number of the next statement's application.
LEMMA NextNumber ==
  ASSUME NEW prog, NEW n, NEW start, Bounds(prog, n, start),
         NEW k \in 1 .. Len(prog), k + 1 \in 1 .. Len(prog)
  PROVE  (k + 1) - start[prog[k + 1].file] =
           IF prog[k + 1].file = prog[k].file THEN (k - start[prog[k].file]) + 1 ELSE 0
<1> DEFINE f == prog[k].file
           g == prog[k + 1].file
<1>1. f \in 0 .. n - 1 /\ g \in 0 .. n - 1 /\ start[g] <= k + 1 /\ k + 1 < start[g + 1]
  BY DEF Bounds
<1>2. start[f] \in Int /\ start[g] \in Int /\ start[g + 1] \in Int /\ k \in Int
  <2>1. f \in 0 .. n /\ g \in 0 .. n /\ g + 1 \in 0 .. n BY <1>1 DEF Bounds
  <2> QED BY <2>1 DEF Bounds
<1>3. start[g] <= k /\ k < start[g + 1] => f = g BY <1>1 DEF Bounds
<1>4. CASE f = g
  <2>1. (k + 1) - start[f] = (k - start[f]) + 1 BY <1>2
  <2> QED BY <1>4, <2>1
<1>5. CASE f # g
  <2> DEFINE a == start[g]
             b == start[g + 1]
  <2>1. ~(a <= k /\ k < b) /\ a <= k + 1 /\ k + 1 < b /\ a \in Int /\ b \in Int /\ k \in Int
    BY <1>1, <1>2, <1>3, <1>5
  <2> HIDE DEF a, b
  <2>2. a = k + 1 BY <2>1
  <2>3. (k + 1) - a = 0 BY <2>1, <2>2
  <2> QED BY <1>5, <2>3 DEF a
<1> QED BY <1>4, <1>5

LEMMA ApplySchemaStages ==
  ASSUME NEW n, NEW start, Stages(n, start), ApplySchema
  PROVE  Stages(n, start)' /\ stage' \in {"transform", "load"}
<1> DEFINE N == Len(program)
           g == program[next].file
           first == start[g]
<1>1. stage = "transform" /\ program' = program /\ sas' = sas BY DEF ApplySchema
<1>2. /\ Laid(program, n, start) /\ next \in 1 .. N /\ Called(next) /\ Written(n, start, next)
      /\ sas = <<>> /\ baseAppId = next - first
  BY <1>1 DEF Stages
<1>3. Bounds(program, n, start) BY <1>2, LayoutFacts
<1>4. N \in Nat /\ n \in Nat /\ n >= 1 /\ DOMAIN program = 1 .. N /\ g \in 0 .. n - 1 /\ start[0] = 1
  BY <1>2, <1>3 DEF Bounds
<1>5. /\ documents' = [documents EXCEPT ![g] = Append(@, App(next, first))]
      /\ calls' = Append(calls, makeArgumentList(Comps(next)))
      /\ baseAppId' = IF next < N /\ program[next + 1].file = program[next].file
                        THEN baseAppId + 1 ELSE 0
      /\ IF next < N THEN next' = next + 1 /\ stage' = stage ELSE next' = 1 /\ stage' = "load"
  BY <1>1, <1>2 DEF ApplySchema, Advance, App, Comps
<1> HIDE DEF N, g, first
<1>m. PICK m : m = next + 1 OBVIOUS
<1>w. Written(n, start, m)'
  <2>1. DOMAIN documents = 0 .. n - 1 BY <1>2 DEF Written
  <2>2. DOMAIN documents' = 0 .. n - 1 BY <1>5, <2>1
  <2>3. ASSUME NEW f \in 0 .. n - 1
        PROVE  /\ IsList(documents'[f]) /\ Len(documents'[f]) = Before(start, m, f)
               /\ \A j \in 1 .. Len(documents'[f]) :
                    documents'[f][j] = App(start[f] + j - 1, start[f])
    <3> DEFINE d == documents[f]
    <3>1. IsList(d) /\ Len(d) = Before(start, next, f)
          /\ \A j \in 1 .. Len(d) : d[j] = App(start[f] + j - 1, start[f])
      BY <1>2 DEF Written
    <3>2. /\ Before(start, next, f) \in Nat
          /\ g = f => /\ Before(start, next, f) = next - start[f]
                      /\ Before(start, m, f) = Before(start, next, f) + 1
          /\ g # f => Before(start, m, f) = Before(start, next, f)
      BY <1>2, <1>3, <1>m, BeforeNext DEF N, g
    <3>3. CASE g # f
      <4>1. documents'[f] = d BY <1>5, <2>1, <3>3
      <4> QED BY <3>1, <3>2, <3>3, <4>1
    <3>4. CASE g = f
      <4> DEFINE x == App(next, start[f])
      <4>1. documents'[f] = Append(d, x) BY <1>5, <2>1, <3>4 DEF first
      <4> HIDE DEF d, x
      <4>2. /\ IsList(Append(d, x)) /\ Len(Append(d, x)) = Len(d) + 1
            /\ Append(d, x)[Len(d) + 1] = x
            /\ \A k \in 1 .. Len(d) : Append(d, x)[k] = d[k]
        BY <3>1, AppendIs
      <4>3. start[f] \in Int
        <5>1. f \in 0 .. n BY <1>3 DEF Bounds
        <5> QED BY <1>3, <5>1 DEF Bounds
      <4>4. Len(d) = next - start[f] /\ Len(d) \in Nat /\ next \in Int BY <1>2, <3>1, <3>2, <3>4
      <4>5. start[f] + (Len(d) + 1) - 1 = next BY <4>3, <4>4
      <4>6. ASSUME NEW j \in 1 .. Len(Append(d, x))
            PROVE  Append(d, x)[j] = App(start[f] + j - 1, start[f])
        <5>1. j \in 1 .. Len(d) \/ j = Len(d) + 1 BY <4>2, <4>4
        <5>2. CASE j \in 1 .. Len(d) BY <3>1, <4>2, <5>2
        <5>3. CASE j = Len(d) + 1 BY <4>2, <4>5, <5>3 DEF x
        <5> QED BY <5>1, <5>2, <5>3
      <4> QED BY <3>1, <3>2, <3>4, <4>1, <4>2, <4>6
    <3> QED BY <3>3, <3>4
  <2>4. \A k, fst : App(k, fst)' = App(k, fst) BY <1>1 DEF App, Comps
  <2> QED BY <2>2, <2>3, <2>4 DEF Written
<1>c. Called(m)'
  <2>1. IsList(calls) /\ Len(calls) = next - 1
        /\ \A k \in 1 .. next - 1 : calls[k] = makeArgumentList(Comps(k))
    BY <1>2 DEF Called
  <2> DEFINE x == makeArgumentList(Comps(next))
  <2>v. calls' = Append(calls, x) /\ x = makeArgumentList(Comps(next)) BY <1>5
  <2> HIDE DEF x
  <2>2. /\ IsList(calls') /\ Len(calls') = Len(calls) + 1
        /\ calls'[Len(calls) + 1] = x
        /\ \A k \in 1 .. Len(calls) : calls'[k] = calls[k]
    BY <2>1, <2>v, AppendIs
  <2>3. next \in Int /\ m - 1 = next /\ Len(calls') = m - 1 /\ Len(calls) + 1 = next
    BY <1>2, <1>m, <2>1, <2>2
  <2>4. ASSUME NEW k \in 1 .. next PROVE calls'[k] = makeArgumentList(Comps(k))
    <3>1. k \in 1 .. next - 1 \/ k = next BY <2>3
    <3> QED BY <2>1, <2>2, <2>3, <2>v, <3>1
  <2>5. \A k : Comps(k)' = Comps(k) BY <1>1 DEF Comps
  <2>6. \A k \in 1 .. m - 1 : calls'[k] = makeArgumentList(Comps(k))' BY <2>3, <2>4, <2>5
  <2> QED BY <2>2, <2>3, <2>6 DEF Called
<1>l. Laid(program, n, start)' BY <1>1, <1>2 DEF Laid, IsLayout
<1>6. CASE next < N
  <2>1. next' = next + 1 /\ stage' = "transform" /\ next + 1 \in 1 .. N BY <1>1, <1>2, <1>4, <1>5, <1>6
  <2>2. baseAppId' = (next + 1) - start[program[next + 1].file]
    BY <1>2, <1>3, <1>5, <1>6, <2>1, NextNumber DEF N, g, first
  <2>3. (baseAppId = next - start[program[next].file])'
    <3> DEFINE h == program[next + 1].file
    <3>1. program'[next'].file = h BY <1>1, <2>1
    <3>2. baseAppId' = next' - start[h] BY <2>1, <2>2
    <3> HIDE DEF h
    <3>3. baseAppId' = next' - start[program'[next'].file] BY <3>1, <3>2, Zenon
    <3> QED BY <3>3
  <2>m. next' = m BY <1>m, <2>1
  <2>4. Called(next)' BY <1>c, <2>m DEF Called
  <2>5. Written(n, start, next)' BY <1>w, <2>m DEF Written
  <2>6. next' \in 1 .. Len(program)' /\ sas' = <<>> BY <1>1, <1>2, <2>1 DEF N
  <2> QED BY <1>l, <2>1, <2>3, <2>4, <2>5, <2>6 DEF Stages
<1>7. CASE ~(next < N)
  <2>1. next' = 1 /\ stage' = "load" /\ next = N BY <1>2, <1>4, <1>5, <1>7
  <2>m. Len(program)' + 1 = m BY <1>1, <1>m, <2>1 DEF N
  <2>2. Called(Len(program) + 1)' BY <1>c, <2>m DEF Called
  <2>w. Written(n, start, Len(program) + 1)' BY <1>w, <2>m DEF Written
  <2>3. Applications(start, start[next - 1] - 1, 1)'
    <3>1. start[next' - 1] - 1 = 0 BY <1>4, <2>1
    <3>2. sas' = <<>> BY <1>1, <1>2
    <3>3. IsList(<<>>) /\ Len(<<>>) = 0
      <4>1. <<>> \in Seq({}) OBVIOUS
      <4> QED BY <4>1, SequenceIsList
    <3> QED BY <3>1, <3>2, <3>3 DEF Applications
  <2>4. next' \in 1 .. n BY <1>4, <2>1
  <2> QED BY <1>l, <2>1, <2>2, <2>w, <2>3, <2>4 DEF Stages
<1> QED BY <1>6, <1>7

\* One list after another.
LEMMA ConcatIs ==
  ASSUME NEW s, IsList(s), NEW t, IsList(t)
  PROVE  /\ IsList(s \o t) /\ Len(s \o t) = Len(s) + Len(t)
         /\ \A k \in 1 .. Len(s) : (s \o t)[k] = s[k]
         /\ \A k \in 1 .. Len(t) : (s \o t)[Len(s) + k] = t[k]
<1> DEFINE W == Range(s) \cup Range(t)
<1>1. s \in Seq(W) /\ t \in Seq(W)
  <2>1. s \in Seq(Range(s)) /\ t \in Seq(Range(t)) BY DEF IsList
  <2> HIDE DEF W
  <2>2. \A x \in Range(s) : x \in W BY DEF W
  <2>3. \A x \in Range(t) : x \in W BY DEF W
  <2>4. s \in Seq(W) BY <2>1, <2>2
  <2>5. t \in Seq(W) BY <2>1, <2>3
  <2> QED BY <2>4, <2>5
<1> HIDE DEF W
<1>2. s \o t \in Seq(W) BY <1>1
<1>3. IsList(s \o t) BY <1>2, SequenceIsList
<1>4. Len(s) \in Nat /\ Len(t) \in Nat /\ Len(s \o t) = Len(s) + Len(t) BY <1>1
<1>5. \A k \in 1 .. Len(s) : (s \o t)[k] = s[k] BY <1>1
<1>6. \A k \in 1 .. Len(t) : (s \o t)[Len(s) + k] = t[k]
  <2> TAKE k \in 1 .. Len(t)
  <2>1. Len(s) + k \in 1 .. Len(s) + Len(t) /\ ~(Len(s) + k <= Len(s)) /\ (Len(s) + k) - Len(s) = k
    BY <1>4
  <2> QED BY <1>1, <1>4, <2>1
<1> QED BY <1>3, <1>4, <1>5, <1>6

\* What is loaded of a file: its statements, in their order.
LEMMA FileLoaded ==
  ASSUME NEW n, NEW start, Laid(program, n, start), Written(n, start, Len(program) + 1),
         NEW f \in 0 .. n - 1
  PROVE  LET loaded == loadSAFile(documents[f])
         IN  /\ IsList(loaded) /\ Len(loaded) = start[f + 1] - start[f]
             /\ \A j \in 1 .. Len(loaded) :
                  LET k == start[f] + j - 1
                  IN  loaded[j] = Entry(k, start[program[k].file], program[k].expr)
<1> DEFINE N == Len(program)
           d == documents[f]
           loaded == loadSAFile(d)
<1>1. Bounds(program, n, start) BY LayoutFacts
<1>2. f \in 0 .. n /\ f + 1 \in 0 .. n BY <1>1 DEF Bounds
<1>3. /\ start[f] \in 1 .. N + 1 /\ start[f + 1] \in 1 .. N + 1 /\ start[f] < start[f + 1]
      /\ N \in Nat
  BY <1>1, <1>2 DEF Bounds
<1>4. /\ IsList(d) /\ Len(d) = Before(start, N + 1, f)
      /\ \A j \in 1 .. Len(d) : d[j] = App(start[f] + j - 1, start[f])
  BY DEF Written
<1>5. Len(d) = start[f + 1] - start[f]
  <2>1. ~(N + 1 <= start[f]) BY <1>3
  <2>2. N + 1 <= start[f + 1] => N + 1 = start[f + 1] BY <1>3
  <2> QED BY <1>4, <2>1, <2>2 DEF Before
<1>6. Len(d) \in Nat /\ DOMAIN d = 1 .. Len(d) BY <1>4, ListFacts
<1> DEFINE Load(app) == [id |-> app.appId, schema |-> transformationSchemaByString[app.schema],
                         context |-> contextByString(app.context),
                         original |-> app.expression, components |-> app.components]
<1>7. loaded = [j \in 1 .. Len(d) |-> Load(d[j])] BY <1>6 DEF loadSAFile, MapSeq
<1>8. IsList(loaded) /\ Len(loaded) = Len(d)
  <2> HIDE DEF Load, d
  <2> QED BY <1>6, <1>7, FunctionIsList
<1>9. ASSUME NEW j \in 1 .. Len(loaded)
      PROVE  LET k == start[f] + j - 1
             IN  loaded[j] = Entry(k, start[program[k].file], program[k].expr)
  <2> DEFINE k == (start[f] + j) - 1
  <2>1. j \in 1 .. Len(d) BY <1>8
  <2>2. start[f] + j - 1 = k BY <1>3, <1>6, <2>1
  <2>3. k \in 1 .. N /\ start[f] <= k /\ k < start[f + 1] BY <1>3, <1>5, <1>6, <2>1
  <2>4. d[j] = App(k, start[f]) BY <1>4, <2>1, <2>2
  <2>5. loaded[j] = Load(d[j]) BY <1>7, <2>1
  <2> HIDE DEF k, d, loaded
  <2>6. program[k].file = f BY <1>1, <2>3 DEF Bounds
  <2>7. loaded[j] = Entry(k, start[f], program[k].expr) BY <2>4, <2>5 DEF App, Entry
  <2> QED BY <2>2, <2>6, <2>7
<1> QED BY <1>5, <1>8, <1>9

\* The applications of one file follow those of the files before it.
LEMMA LoadFileStages ==
  ASSUME NEW n, NEW start, Stages(n, start), LoadFile
  PROVE  Stages(n, start)' /\ stage' \in {"load", "types"}
<1> DEFINE N == Len(program)
           f == next - 1
           loaded == loadSAFile(documents[f])
<1>1. /\ stage = "load" /\ program' = program /\ documents' = documents /\ calls' = calls
      /\ sas' = sas \o loaded
  BY DEF LoadFile
<1>2. /\ Laid(program, n, start) /\ next \in 1 .. n /\ Written(n, start, N + 1)
      /\ Called(N + 1) /\ Applications(start, start[f] - 1, 1)
  BY <1>1 DEF Stages
<1>3. Bounds(program, n, start) BY <1>2, LayoutFacts
<1>4. /\ N \in Nat /\ n \in Nat /\ n >= 1 /\ f \in 0 .. n - 1 /\ next = f + 1
      /\ start[0] = 1 /\ start[n] = N + 1
  BY <1>2, <1>3 DEF Bounds
<1>5. f \in 0 .. n /\ f + 1 \in 0 .. n /\ start[f] < start[f + 1] BY <1>3, <1>4 DEF Bounds
<1>6. start[f] \in 1 .. N + 1 /\ start[f + 1] \in 1 .. N + 1 BY <1>3, <1>5 DEF Bounds
<1>7. Cardinality(DOMAIN documents) = n
  <2>1. DOMAIN documents = 0 .. n - 1 BY <1>2 DEF Written
  <2>2. 0 \in Int /\ n - 1 \in Int /\ ~(0 > n - 1) /\ (n - 1) - 0 + 1 = n BY <1>4
  <2> HIDE DEF N, f
  <2>3. Cardinality(0 .. n - 1) = (n - 1) - 0 + 1 BY <2>2, FS_Interval
  <2> QED BY <2>1, <2>2, <2>3
<1>8. IF next < n THEN next' = next + 1 /\ stage' = stage ELSE next' = 1 /\ stage' = "types"
  BY <1>7 DEF LoadFile, Advance
<1>9. /\ IsList(loaded) /\ Len(loaded) = start[f + 1] - start[f]
      /\ \A j \in 1 .. Len(loaded) :
           LET k == start[f] + j - 1
           IN  loaded[j] = Entry(k, start[program[k].file], program[k].expr)
  <2> HIDE DEF f
  <2> QED BY <1>2, <1>4, FileLoaded DEF N
<1>10. /\ IsList(sas) /\ Len(sas) = start[f] - 1
       /\ \A k \in 1 .. start[f] - 1 :
            sas[k] = Entry(k, start[program[k].file], program[k].expr)
  <2>1. \A k \in 1 .. start[f] - 1 : ~(k < 1) BY <1>6
  <2> QED BY <1>2, <2>1 DEF Applications
<1>11. PICK c : c = start[f + 1] - 1 OBVIOUS
<1> HIDE DEF N, f, loaded
<1>12. Applications(start, c, 1)'
  <2>1. /\ IsList(sas') /\ Len(sas') = Len(sas) + Len(loaded)
        /\ \A k \in 1 .. Len(sas) : sas'[k] = sas[k]
        /\ \A k \in 1 .. Len(loaded) : sas'[Len(sas) + k] = loaded[k]
    <3>1. IsList(sas) /\ IsList(loaded) BY <1>9, <1>10
    <3> DEFINE both == sas \o loaded
    <3>2. /\ IsList(both) /\ Len(both) = Len(sas) + Len(loaded)
          /\ \A k \in 1 .. Len(sas) : both[k] = sas[k]
          /\ \A k \in 1 .. Len(loaded) : both[Len(sas) + k] = loaded[k]
      BY <3>1, ConcatIs
    <3>3. sas' = both BY <1>1
    <3> HIDE DEF both
    <3> QED BY <3>2, <3>3
  <2>2. Len(sas') = c BY <1>6, <1>9, <1>10, <1>11, <2>1
  <2>3. ASSUME NEW k \in 1 .. c
        PROVE  sas'[k] = Entry(k, start[program[k].file], program[k].expr)
    <3>1. CASE k < start[f]
      <4>1. k \in 1 .. start[f] - 1 /\ k \in 1 .. Len(sas) BY <1>6, <1>10, <3>1
      <4> QED BY <1>10, <2>1, <4>1
    <3>2. CASE ~(k < start[f])
      <4> DEFINE j == (k - start[f]) + 1
      <4>1. j \in 1 .. Len(loaded) /\ Len(sas) + j = k /\ start[f] + j - 1 = k
        <5> DEFINE a == start[f]
                   b == start[f + 1]
        <5>1. /\ a \in Nat /\ b \in Nat /\ a >= 1 /\ k \in 1 .. b - 1 /\ ~(k < a)
              /\ Len(loaded) = b - a /\ Len(sas) = a - 1
          BY <1>6, <1>9, <1>10, <1>11, <3>2
        <5> HIDE DEF a, b
        <5>2. j = (k - a) + 1 BY DEF a
        <5> HIDE DEF j
        <5>3. j \in 1 .. Len(loaded) /\ Len(sas) + j = k /\ a + j - 1 = k BY <5>1, <5>2
        <5> QED BY <5>3 DEF a
      <4> HIDE DEF j
      <4> QED BY <1>9, <2>1, <4>1
    <3> QED BY <3>1, <3>2
  <2>4. \A k, first, o : Entry(k, first, o)' = Entry(k, first, o) BY <1>1 DEF Entry, Comps
  <2>5. \A k \in 1 .. c : ~(k < 1) BY <1>6, <1>11
  <2> QED BY <1>1, <2>1, <2>2, <2>3, <2>4, <2>5 DEF Applications
<1>l. Laid(program, n, start)' BY <1>1, <1>2 DEF Laid, IsLayout
<1>c. Called(Len(program) + 1)' BY <1>1, <1>2 DEF Called, Comps, N
<1>w. Written(n, start, Len(program) + 1)' BY <1>1, <1>2 DEF Written, App, Comps, N
<1>13. CASE next < n
  <2>1. next' \in 1 .. n /\ stage' = "load" BY <1>1, <1>2, <1>4, <1>8, <1>13
  <2>2. start[next' - 1] - 1 = c BY <1>4, <1>8, <1>11, <1>13
  <2>3. Applications(start, start[next - 1] - 1, 1)' BY <1>12, <2>2 DEF Applications
  <2> QED BY <1>l, <1>c, <1>w, <2>1, <2>3 DEF Stages
<1>14. CASE ~(next < n)
  <2>1. next' = 1 /\ stage' = "types" /\ f + 1 = n BY <1>2, <1>4, <1>8, <1>14
  <2>2. c = Len(program)' BY <1>1, <1>4, <1>11, <2>1 DEF N
  <2>3. next' \in 1 .. Len(program)' BY <1>1, <1>2, <1>3, <2>1 DEF Laid
  <2>4. Applications(start, Len(program), next)' BY <1>12, <2>1, <2>2 DEF Applications
  <2> QED BY <1>l, <1>c, <2>1, <2>3, <2>4 DEF Stages
<1> QED BY <1>1, <1>8, <1>13, <1>14

\* Either the application at hand cannot be typed, or it is typed now.
LEMMA InferTypesStages ==
  ASSUME NEW n, NEW start, Stages(n, start), InferTypes
  PROVE  Stages(n, start)' /\ stage' \in {"types", "threw", "generate"}
<1> DEFINE N == Len(program)
<1>1. stage = "types" /\ program' = program /\ calls' = calls BY DEF InferTypes
<1>2. Laid(program, n, start) /\ next \in 1 .. N /\ Called(N + 1) /\ Applications(start, N, next)
  BY <1>1 DEF Stages
<1>3. Bounds(program, n, start) BY <1>2, LayoutFacts
<1>4. N \in Nat BY <1>3 DEF Bounds
<1>5. /\ IsList(sas) /\ Len(sas) = N
      /\ \A k \in 1 .. N : /\ k < next => ~IllTyped(program[k].expr)
                           /\ sas[k] = Entry(k, start[program[k].file],
                                             IF k < next THEN TypedOriginal(k) ELSE program[k].expr)
  BY <1>2 DEF Applications
<1>6. sas[next] = Entry(next, start[program[next].file], program[next].expr)
  <2>1. ~(next < next) BY <1>2, <1>4
  <2> QED BY <1>2, <1>5, <2>1
<1>7. /\ sas[next].original = program[next].expr
      /\ sas[next].context = contextByString(program[next].context)
  BY <1>6 DEF Entry
<1>l. Laid(program, n, start)' BY <1>1, <1>2 DEF Laid, IsLayout
<1>c. Called(Len(program) + 1)' BY <1>1, <1>2 DEF Called, Comps
<1>e. /\ \A k, first, o : Entry(k, first, o)' = Entry(k, first, o)
      /\ \A k : TypedOriginal(k)' = TypedOriginal(k)
  BY <1>1 DEF Entry, Comps, TypedOriginal
<1>8. CASE IllTyped(sas[next].original)
  <2>1. stage' = "threw" /\ next' = next /\ sas' = sas BY <1>8 DEF InferTypes
  <2>2. Applications(start, Len(program), next)' BY <1>1, <1>2, <1>e, <2>1 DEF Applications
  <2>3. next' \in 1 .. Len(program)' BY <1>1, <1>2, <2>1
  <2> QED BY <1>l, <1>c, <2>1, <2>2, <2>3 DEF Stages
<1>9. CASE ~IllTyped(sas[next].original)
  <2>1. sas' = [sas EXCEPT ![next].original = TypedOriginal(next)]
    BY <1>7, <1>9 DEF InferTypes, TypedOriginal
  <2>2. IF next < N THEN next' = next + 1 /\ stage' = stage ELSE next' = 1 /\ stage' = "generate"
    BY <1>5, <1>9 DEF InferTypes, Advance
  <2>3. PICK m : m = next + 1 OBVIOUS
  <2>4. Applications(start, N, m)'
    <3>n. N' = N BY <1>1
    <3> HIDE DEF N
    <3>1. DOMAIN sas = 1 .. N BY <1>5, ListFacts
    <3>2. sas'[next] = Entry(next, start[program[next].file], TypedOriginal(next))
      <4>1. sas'[next] = [sas[next] EXCEPT !.original = TypedOriginal(next)]
        BY <1>2, <2>1, <3>1
      <4> QED BY <1>6, <4>1 DEF Entry
    <3>3. DOMAIN sas' = 1 .. N /\ \A k \in 1 .. N : k # next => sas'[k] = sas[k]
      BY <2>1, <3>1
    <3>4. IsList(sas') /\ Len(sas') = N
      <4>1. sas' = [k \in 1 .. N |-> sas'[k]] BY <2>1, <3>3
      <4> QED BY <1>4, <4>1, FunctionIsList
    <3>5. ASSUME NEW k \in 1 .. N
          PROVE  /\ k < m => ~IllTyped(program[k].expr)
                 /\ sas'[k] = Entry(k, start[program[k].file],
                                    IF k < m THEN TypedOriginal(k) ELSE program[k].expr)
      <4>1. k < m <=> k < next \/ k = next BY <1>2, <1>4, <2>3
      <4>2. CASE k = next BY <1>7, <1>9, <3>2, <4>1, <4>2
      <4>3. CASE k # next BY <1>5, <3>3, <4>1, <4>3
      <4> QED BY <4>2, <4>3
    <3> QED BY <1>1, <1>e, <3>n, <3>4, <3>5 DEF Applications
  <2>5. CASE next < N
    <3>1. next' = m /\ next' \in 1 .. Len(program)' /\ stage' = "types"
      BY <1>1, <1>2, <1>4, <2>2, <2>3, <2>5
    <3>2. Applications(start, Len(program), next)' BY <1>1, <2>4, <3>1 DEF Applications
    <3> QED BY <1>l, <1>c, <3>1, <3>2 DEF Stages
  <2>6. CASE ~(next < N)
    <3>1. next' \in 1 .. Len(program)' /\ stage' = "generate" /\ m = N + 1
      BY <1>1, <1>2, <1>4, <2>2, <2>3, <2>6
    <3>2. m = Len(program)' + 1 BY <1>1, <3>1
    <3>3. Applications(start, Len(program), Len(program) + 1)'
      BY <1>1, <2>4, <3>2 DEF Applications
    <3> QED BY <1>l, <1>c, <3>1, <3>3 DEF Stages
  <2> QED BY <1>1, <2>2, <2>5, <2>6
<1> QED BY <1>8, <1>9

\* The other steps leave the applications and the calls alone.
LEMMA LaterStages ==
  ASSUME NEW n, NEW start, Stages(n, start),
         GenerateFunction \/ AssignCosts \/ UNCHANGED vars
  PROVE  Stages(n, start)' /\ (stage' = stage \/ stage' \in {"generate", "cost", "done"})
<1>1. program' = program /\ calls' = calls /\ sas' = sas /\ documents' = documents
      /\ baseAppId' = baseAppId
  BY DEF GenerateFunction, AssignCosts, vars
<1>l. Laid(program, n, start) => Laid(program, n, start)' BY <1>1 DEF Laid, IsLayout
<1>2. CASE UNCHANGED vars
  <2>1. stage' = stage /\ next' = next BY <1>2 DEF vars
  <2> QED BY <1>1, <1>l, <2>1 DEF Stages, Called, Written, Applications, App, Entry, Comps, TypedOriginal
<1>3. CASE GenerateFunction \/ AssignCosts
  <2> DEFINE N == Len(program)
  <2>1. stage \in {"generate", "cost"} BY <1>3 DEF GenerateFunction, AssignCosts
  <2>2. Laid(program, n, start) /\ Called(N + 1) /\ Applications(start, N, N + 1)
    BY <2>1 DEF Stages
  <2>3. Called(Len(program) + 1)' BY <1>1, <2>2 DEF Called, Comps
  <2>4. Applications(start, Len(program), Len(program) + 1)'
    BY <1>1, <2>2 DEF Applications, Entry, Comps, TypedOriginal
  <2>5. stage' \in {"generate", "cost", "done"} /\ (stage' = "generate" => next' \in 1 .. Len(program)')
    <3>1. CASE AssignCosts BY <3>1 DEF AssignCosts
    <3>2. CASE GenerateFunction
      <4>1. stage = "generate" /\ next \in 1 .. N BY <3>2 DEF GenerateFunction, Stages
      <4>2. Len(sas) = N BY <2>2 DEF Applications
      <4>3. N \in Nat BY <2>2, ListFacts DEF Laid
      <4>4. Advance(N, "cost") BY <3>2, <4>2 DEF GenerateFunction
      <4> QED BY <1>1, <4>1, <4>3, <4>4 DEF Advance
    <3> QED BY <1>3, <3>1, <3>2
  <2> QED BY <1>l, <2>2, <2>3, <2>4, <2>5 DEF Stages
<1> QED BY <1>2, <1>3

LEMMA NextStages == StageInv /\ [Next]_vars => StageInv'
<1> SUFFICES ASSUME StageInv, [Next]_vars PROVE StageInv'
  OBVIOUS
<1>1. PICK n : \E start : Stages(n, start) BY DEF StageInv
<1>2. PICK start : Stages(n, start) BY <1>1
<1>3. program' = program
  BY DEF Next, ApplySchema, LoadFile, InferTypes, GenerateFunction, AssignCosts, vars
<1>4. /\ program \in Programs
      /\ stage \in {"transform", "load", "types", "generate", "cost", "done", "threw"}
  BY DEF StageInv
<1>5. CASE ApplySchema BY <1>2, <1>3, <1>4, <1>5, ApplySchemaStages DEF StageInv
<1>6. CASE LoadFile BY <1>2, <1>3, <1>4, <1>6, LoadFileStages DEF StageInv
<1>7. CASE InferTypes BY <1>2, <1>3, <1>4, <1>7, InferTypesStages DEF StageInv
<1>8. CASE GenerateFunction \/ AssignCosts \/ UNCHANGED vars
  BY <1>2, <1>3, <1>4, <1>8, LaterStages DEF StageInv
<1> QED BY <1>5, <1>6, <1>7, <1>8 DEF Next

\* The call and the components of an application that has been loaded.
LEMMA StatementCalls ==
  ASSUME NEW k \in DOMAIN program, program \in Programs, NEW i \in DOMAIN sas,
         sas[i].components = Comps(k), calls[i] = makeArgumentList(Comps(k))
  PROVE  \E comps : Calls(i, comps)
<1> DEFINE s == program[k]
           found == Range(Leaves(s.expr)) \cup Range(s.visible)
           comps == Comps(k)
<1>1. /\ IsList(Leaves(s.expr)) /\ IsList(s.visible)
      /\ \A c \in found : /\ ~IsPointer(c) => c.raw \in Range(NameOrder)
                          /\ IsDereference(c) => c.repr \in Range(NameOrder)
  BY StatementsAssumption
<1>2. IsList(comps) /\ Named(comps) /\ Range(comps) \subseteq found
  BY <1>1, CollectedIs DEF Comps
<1> HIDE DEF comps, found
<1>3. Usable(comps) BY <1>1, <1>2 DEF Usable
<1>4. Calls(i, comps) BY <1>3 DEF Calls, comps
<1> QED BY <1>4

\* An application that is loaded is that of a statement.
LEMMA Loaded ==
  ASSUME StageInv, NEW n, NEW start, Stages(n, start), NEW i \in DOMAIN sas
  PROVE  /\ stage # "transform"
         /\ \E count \in 0 .. Len(program) : \E m : Applications(start, count, m)
<1> DEFINE N == Len(program)
<1>1. Laid(program, n, start) BY DEF Stages
<1>2. Bounds(program, n, start) BY <1>1, LayoutFacts
<1>3. N \in Nat BY <1>2 DEF Bounds
<1>4. stage # "transform"
  <2> SUFFICES ASSUME stage = "transform" PROVE FALSE
    OBVIOUS
  <2> QED BY DEF Stages
<1>5. N \in 0 .. N BY <1>3
<1>6. CASE stage = "load"
  <2> DEFINE c == start[next - 1] - 1
  <2>1. Applications(start, c, 1) /\ next \in 1 .. n BY <1>6 DEF Stages
  <2>2. next - 1 \in 0 .. n BY <1>2, <2>1 DEF Bounds
  <2>3. start[next - 1] \in 1 .. N + 1 BY <1>2, <2>2 DEF Bounds
  <2>4. c \in 0 .. N BY <1>3, <2>3
  <2> HIDE DEF c, N
  <2> QED BY <1>4, <2>1, <2>4 DEF N
<1>7. CASE stage \in {"types", "threw"}
  <2>1. Applications(start, N, next) BY <1>7 DEF Stages
  <2> QED BY <1>4, <1>5, <2>1
<1>8. CASE stage \in {"generate", "cost", "done"}
  <2>1. Applications(start, N, N + 1) BY <1>8 DEF Stages
  <2> QED BY <1>4, <1>5, <2>1
<1> QED BY <1>4, <1>6, <1>7, <1>8 DEF StageInv

LEMMA StagesCalls == StageInv => CallsWritten
<1> SUFFICES ASSUME StageInv, NEW i \in DOMAIN sas PROVE \E comps : Calls(i, comps)
  BY DEF CallsWritten
<1>1. PICK n : \E start : Stages(n, start) BY DEF StageInv
<1>2. PICK start : Stages(n, start) BY <1>1
<1> DEFINE N == Len(program)
<1>3. program \in Programs BY DEF StageInv
<1>4. Laid(program, n, start) BY <1>2 DEF Stages
<1>5. Bounds(program, n, start) BY <1>4, LayoutFacts
<1>6. N \in Nat /\ DOMAIN program = 1 .. N BY <1>5 DEF Bounds
<1>7. stage # "transform" /\ \E count \in 0 .. N : \E m : Applications(start, count, m)
  BY <1>2, Loaded
<1>8. PICK count \in 0 .. N : \E m : Applications(start, count, m) BY <1>7
<1>9. PICK m : Applications(start, count, m) BY <1>8
<1>10. Called(N + 1) BY <1>2, <1>7 DEF Stages
<1>11. IsList(sas) /\ Len(sas) = count BY <1>9 DEF Applications
<1>12. i \in 1 .. count BY <1>11, ListFacts
<1>13. i \in 1 .. N /\ i \in 1 .. (N + 1) - 1 BY <1>6, <1>12
<1>14. sas[i].components = Comps(i) BY <1>9, <1>12 DEF Applications, Entry
<1>15. calls[i] = makeArgumentList(Comps(i)) BY <1>10, <1>13 DEF Called
<1> HIDE DEF N
<1> QED BY <1>3, <1>6, <1>13, <1>14, <1>15, StatementCalls

---------------------------------------------------------------------------
(* The search space.                                                       *)

\* The applications have different numbers, over all files.
LEMMA f1xappInjective ==
  ASSUME NEW M \in Nat, M = 2 ^ ValueBits, NEW f \in Nat, NEW g \in Nat,
         NEW i \in 0 .. M - 1, NEW j \in 0 .. M - 1, f1xapp(i, f) = f1xapp(j, g)
  PROVE  f = g /\ i = j
<1>1. f * M + i = g * M + j BY DEF f1xapp
<1>2. f * M \in Int /\ g * M \in Int /\ (f - g) * M = f * M - g * M OBVIOUS
<1>3. CASE f > g
  <2>1. f - g \in Nat /\ f - g >= 1 BY <1>3
  <2>2. (f - g) * M >= M
    <3>1. \A q \in Nat : q >= 1 => q * M >= M
      <4> TAKE q \in Nat
      <4> HAVE q >= 1
      <4>1. q = (q - 1) + 1 /\ q - 1 \in Nat OBVIOUS
      <4>2. q * M = (q - 1) * M + M BY <4>1
      <4>3. (q - 1) * M \in Nat BY <4>1
      <4> QED BY <4>2, <4>3
    <3> QED BY <2>1, <3>1
  <2> QED BY <1>1, <1>2, <2>2
<1>4. CASE g > f
  <2>1. g - f \in Nat /\ g - f >= 1 BY <1>4
  <2>2. (g - f) * M >= M /\ (g - f) * M = g * M - f * M
    <3>1. \A q \in Nat : q >= 1 => q * M >= M
      <4> TAKE q \in Nat
      <4> HAVE q >= 1
      <4>1. q = (q - 1) + 1 /\ q - 1 \in Nat OBVIOUS
      <4>2. q * M = (q - 1) * M + M BY <4>1
      <4>3. (q - 1) * M \in Nat BY <4>1
      <4> QED BY <4>2, <4>3
    <3> QED BY <2>1, <3>1
  <2> QED BY <1>1, <1>2, <2>2
<1>5. CASE f = g BY <1>1, <1>2, <1>5
<1>6. f > g \/ g > f \/ f = g OBVIOUS
<1> QED BY <1>3, <1>4, <1>5, <1>6

\* The values of a function of a finite set.
LEMMA FiniteImage ==
  ASSUME NEW S, IsFiniteSet(S), NEW f, f = [x \in S |-> f[x]]
  PROVE  IsFiniteSet({f[x] : x \in S})
<1> DEFINE T == {f[x] : x \in S}
<1>1. \A x \in S : f[x] \in T OBVIOUS
<1>2. \A y \in T : \E x \in S : f[x] = y OBVIOUS
<1> HIDE DEF T
<1>3. f \in [S -> T] BY <1>1
<1>4. f \in Surjection(S, T) BY <1>2, <1>3 DEF Surjection
<1>5. IsFiniteSet(T) BY <1>4, FS_Surjection
<1> QED BY <1>5 DEF T

\* The elements of a finite set with different identifiers.
LEMMA DifferentIds ==
  ASSUME NEW S, IsFiniteSet(S), \A p, q \in S : p.id = q.id => p = q
  PROVE  Cardinality({p.id : p \in S}) = Cardinality(S)
<1> DEFINE f == [p \in S |-> p.id]
           T == {p.id : p \in S}
<1>1. f \in [S -> T] OBVIOUS
<1>2. \A y \in T : \E x \in S : f[x] = y OBVIOUS
<1>3. f \in Surjection(S, T) BY <1>1, <1>2 DEF Surjection
<1>4. \A p, q \in S : f[p] = f[q] => p = q OBVIOUS
<1>5. f \in Injection(S, T) BY <1>1, <1>4 DEF Injection, IsInjective
<1> HIDE DEF f, T
<1>6. Cardinality(T) = Cardinality(S) BY <1>3, <1>5, FS_Surjection
<1> QED BY <1>6 DEF T

\* Applications that are loaded have different numbers.
LEMMA ApplicationsDiffer ==
  ASSUME StageInv, NEW i \in DOMAIN sas, NEW j \in DOMAIN sas, sas[i].id = sas[j].id
  PROVE  i = j
<1>1. PICK n : \E start : Stages(n, start) BY DEF StageInv
<1>2. PICK start : Stages(n, start) BY <1>1
<1> DEFINE N == Len(program)
           M == 2 ^ ValueBits
           file(k) == program[k].file
<1>3. program \in Programs BY DEF StageInv
<1>4. Laid(program, n, start) BY <1>2 DEF Stages
<1>5. Bounds(program, n, start) BY <1>4, LayoutFacts
<1>6. N \in Nat BY <1>5 DEF Bounds
<1>7. M \in Nat BY ProgramsAssumption
<1>8. ASSUME NEW k \in 1 .. N
      PROVE  /\ file(k) \in Nat /\ start[file(k)] \in Nat /\ k - start[file(k)] \in 0 .. M - 1
  <2> DEFINE f == file(k)
  <2>1. f \in 0 .. n - 1 /\ start[f] <= k /\ k < start[f + 1] BY <1>5 DEF Bounds
  <2>2. f \in 0 .. n /\ f + 1 \in 0 .. n /\ n \in Nat BY <1>5, <2>1 DEF Bounds
  <2>3. start[f] \in 1 .. N + 1 /\ start[f + 1] \in 1 .. N + 1 BY <1>5, <2>2 DEF Bounds
  <2>4. start[f + 1] - start[f] <= M BY <1>4, <2>1 DEF Laid
  <2> HIDE DEF M, f, N
  <2>5. k - start[f] \in 0 .. M - 1 BY <1>6, <1>7, <2>1, <2>3, <2>4
  <2>6. f \in Nat /\ start[f] \in Nat BY <1>6, <2>1, <2>2, <2>3
  <2> QED BY <2>5, <2>6 DEF f
<1>9. \E count \in 0 .. N : \E m : Applications(start, count, m) BY <1>2, Loaded
<1>10. PICK count \in 0 .. N : \E m : Applications(start, count, m) BY <1>9
<1>11. PICK m : Applications(start, count, m) BY <1>10
<1>12. DOMAIN sas = 1 .. count
  <2>1. IsList(sas) /\ Len(sas) = count BY <1>11 DEF Applications
  <2> QED BY <2>1, ListFacts
<1>13. i \in 1 .. count /\ j \in 1 .. count /\ i \in 1 .. N /\ j \in 1 .. N BY <1>6, <1>10, <1>12
<1>14. /\ sas[i].id = f1xapp(i - start[file(i)], file(i))
       /\ sas[j].id = f1xapp(j - start[file(j)], file(j))
  BY <1>11, <1>13 DEF Applications, Entry
<1>15. /\ file(i) \in Nat /\ start[file(i)] \in Nat /\ i - start[file(i)] \in 0 .. M - 1
       /\ file(j) \in Nat /\ start[file(j)] \in Nat /\ j - start[file(j)] \in 0 .. M - 1
  BY <1>8, <1>13
<1>16. f1xapp(i - start[file(i)], file(i)) = f1xapp(j - start[file(j)], file(j)) BY <1>14
<1>m. M = 2 ^ ValueBits OBVIOUS
<1> HIDE DEF file, M, N
<1>17. file(i) = file(j) /\ i - start[file(i)] = j - start[file(j)]
  BY <1>7, <1>15, <1>16, <1>m, f1xappInjective
<1>18. start[file(i)] = start[file(j)] /\ i \in Int /\ j \in Int BY <1>13, <1>17
<1> QED BY <1>15, <1>17, <1>18

\* The instances of a modification differ in the numbers that they add to its own.
LEMMA InstanceIds ==
  ASSUME NEW sa, NEW bool2s, NEW b, NEW e
  PROVE  LET S == instances(sa, bool2s, PatchID(b, 0, 0), e)
         IN  /\ \A p \in S : p.id.base = b
             /\ \A p, q \in S : p.id = q.id => p = q
<1> DEFINE id == PatchID(b, 0, 0)
           B == bool2Instances(bool2s, id, e)
           S == instances(sa, bool2s, id, e)
<1>1. /\ \A i \in B : i.id.base = b /\ i.id.param = 0 /\ i.id = PatchID(b, i.id.bool2, 0)
      /\ \A i, j \in B : i.id.bool2 = j.id.bool2 => i = j
  <2>1. CASE HasNode(e, "BOOL2")
    <3>1. B = {[id |-> [id EXCEPT !.bool2 = k], expr |-> Replaced(e, "BOOL2", bool2s[k])] :
                 k \in DOMAIN bool2s}
      BY <2>1 DEF bool2Instances
    <3>2. \A k : [id EXCEPT !.bool2 = k] = PatchID(b, k, 0) BY DEF PatchID
    <3>3. B = {[id |-> PatchID(b, k, 0), expr |-> Replaced(e, "BOOL2", bool2s[k])] :
                 k \in DOMAIN bool2s}
      BY <3>1, <3>2
    <3> HIDE DEF B
    <3>4. \A i \in B : \E k \in DOMAIN bool2s :
            i = [id |-> PatchID(b, k, 0), expr |-> Replaced(e, "BOOL2", bool2s[k])]
      BY <3>3
    <3>5. \A i \in B : /\ i.id.base = b /\ i.id.param = 0 /\ i.id = PatchID(b, i.id.bool2, 0)
                       /\ i = [id |-> PatchID(b, i.id.bool2, 0),
                               expr |-> Replaced(e, "BOOL2", bool2s[i.id.bool2])]
      <4> TAKE i \in B
      <4>1. PICK k \in DOMAIN bool2s :
              i = [id |-> PatchID(b, k, 0), expr |-> Replaced(e, "BOOL2", bool2s[k])]
        BY <3>4
      <4>2. i.id = PatchID(b, k, 0) BY <4>1
      <4>3. i.id.base = b /\ i.id.param = 0 /\ i.id.bool2 = k BY <4>2 DEF PatchID
      <4> QED BY <4>1, <4>2, <4>3
    <3> QED BY <3>5
  <2>2. CASE ~HasNode(e, "BOOL2")
    <3>1. B = {[id |-> id, expr |-> e]} BY <2>2 DEF bool2Instances
    <3> QED BY <3>1 DEF PatchID
  <2> QED BY <2>1, <2>2
<1> HIDE DEF B
<1>2. ASSUME NEW i \in B
      PROVE  /\ \A p \in parameterInstances(sa, i) : p.id.base = b /\ p.id.bool2 = i.id.bool2
             /\ \A p, q \in parameterInstances(sa, i) : p.id = q.id => p = q
  <2> DEFINE P == parameterInstances(sa, i)
             k == i.id.bool2
  <2>1. i.id = PatchID(b, k, 0) BY <1>1
  <2>2. CASE HasNode(i.expr, "PARAMETER")
    <3> DEFINE made(n) == Replaced(i.expr, "PARAMETER", IntegerConst(n))
    <3>1. P = {[id |-> [i.id EXCEPT !.param = n], modified |-> made(n)] :
                 n \in 0 .. paramBound(sa)}
      BY <2>2 DEF parameterInstances
    <3> HIDE DEF P, k, made
    <3>2. \A n : [i.id EXCEPT !.param = n] = PatchID(b, k, n) BY <2>1 DEF PatchID
    <3>3. \A p \in P : \E n : p = [id |-> PatchID(b, k, n), modified |-> made(n)]
      BY <3>1, <3>2
    <3>4. \A p \in P : /\ p.id.base = b /\ p.id.bool2 = k
                       /\ p = [id |-> p.id, modified |-> made(p.id.param)]
      <4> TAKE p \in P
      <4>1. PICK n : p = [id |-> PatchID(b, k, n), modified |-> made(n)] BY <3>3
      <4>2. p.id = PatchID(b, k, n) BY <4>1
      <4>3. p.id.base = b /\ p.id.bool2 = k /\ p.id.param = n BY <4>2 DEF PatchID
      <4> QED BY <4>1, <4>2, <4>3
    <3>5. \A p, q \in P : p.id = q.id => p = q BY <3>4
    <3> QED BY <3>4, <3>5 DEF P, k
  <2>3. CASE ~HasNode(i.expr, "PARAMETER")
    <3>1. P = {[id |-> i.id, modified |-> i.expr]} BY <2>3 DEF parameterInstances
    <3>2. i.id.base = b BY <1>1
    <3> QED BY <3>1, <3>2
  <2> QED BY <2>2, <2>3
<1>3. S = UNION {parameterInstances(sa, i) : i \in B} BY DEF instances, B
<1> HIDE DEF S
<1>4. \A p \in S : \E i \in B : p \in parameterInstances(sa, i) BY <1>3
<1>5. \A p \in S : p.id.base = b BY <1>2, <1>4
<1>6. ASSUME NEW p \in S, NEW q \in S, p.id = q.id PROVE p = q
  <2>1. PICK i \in B : p \in parameterInstances(sa, i) BY <1>4
  <2>2. PICK j \in B : q \in parameterInstances(sa, j) BY <1>4
  <2>3. p.id.bool2 = i.id.bool2 /\ q.id.bool2 = j.id.bool2 BY <1>2, <2>1, <2>2
  <2>4. i = j BY <1>1, <1>6, <2>3
  <2> QED BY <1>2, <1>6, <2>1, <2>2, <2>4
<1> QED BY <1>5, <1>6 DEF S

\* They are finitely many.
LEMMA InstancesFinite ==
  ASSUME NEW sa, NEW bool2s, IsList(bool2s), NEW id, NEW e
  PROVE  IsFiniteSet(instances(sa, bool2s, id, e))
<1> DEFINE B == bool2Instances(bool2s, id, e)
<1>1. IsFiniteSet(B)
  <2>1. CASE HasNode(e, "BOOL2")
    <3> DEFINE D == DOMAIN bool2s
               f == [k \in D |-> [id |-> [id EXCEPT !.bool2 = k],
                                  expr |-> Replaced(e, "BOOL2", bool2s[k])]]
    <3>1. D = 1 .. Len(bool2s) /\ Len(bool2s) \in Nat BY ListFacts
    <3>2. IsFiniteSet(D)
      <4> HIDE DEF D
      <4>1. 1 \in Int /\ Len(bool2s) \in Int BY <3>1
      <4> QED BY <3>1, <4>1, FS_Interval
    <3>3. B = {f[k] : k \in D} BY <2>1 DEF bool2Instances
    <3>4. f = [k \in D |-> f[k]] OBVIOUS
    <3> HIDE DEF B, D, f
    <3> QED BY <3>2, <3>3, <3>4, FiniteImage
  <2>2. CASE ~HasNode(e, "BOOL2")
    <3>1. B = {[id |-> id, expr |-> e]} BY <2>2 DEF bool2Instances
    <3> HIDE DEF B
    <3> QED BY <3>1, FS_Singleton
  <2> QED BY <2>1, <2>2
<1> HIDE DEF B
<1>2. ASSUME NEW i PROVE IsFiniteSet(parameterInstances(sa, i))
  <2> DEFINE P == parameterInstances(sa, i)
  <2>1. CASE HasNode(i.expr, "PARAMETER")
    <3> DEFINE D == 0 .. paramBound(sa)
               f == [n \in D |-> [id |-> [i.id EXCEPT !.param = n],
                                  modified |-> Replaced(i.expr, "PARAMETER", IntegerConst(n))]]
    <3>1. paramBound(sa) \in Int /\ 0 \in Int BY BoundsAssumption DEF paramBound
    <3>2. IsFiniteSet(D) BY <3>1, FS_Interval
    <3>3. P = {f[n] : n \in D} BY <2>1 DEF parameterInstances
    <3>4. f = [n \in D |-> f[n]] OBVIOUS
    <3> HIDE DEF P, D, f
    <3>5. IsFiniteSet(P) BY <3>2, <3>3, <3>4, FiniteImage
    <3> QED BY <3>5 DEF P
  <2>2. CASE ~HasNode(i.expr, "PARAMETER")
    <3>1. P = {[id |-> i.id, modified |-> i.expr]} BY <2>2 DEF parameterInstances
    <3> HIDE DEF P
    <3>2. IsFiniteSet(P) BY <3>1, FS_Singleton
    <3> QED BY <3>2 DEF P
  <2> QED BY <2>1, <2>2
<1> DEFINE f == [i \in B |-> parameterInstances(sa, i)]
           T == {f[i] : i \in B}
<1>3. f = [i \in B |-> f[i]] OBVIOUS
<1>4. \A X \in T : IsFiniteSet(X) BY <1>2
<1>5. instances(sa, bool2s, id, e) = UNION T BY DEF instances, B
<1> HIDE DEF f
<1>6. IsFiniteSet(T) BY <1>1, <1>3, FiniteImage
<1> HIDE DEF T
<1> QED BY <1>4, <1>5, <1>6, FS_UNION

\* The patches of one application whose modifications start at first.
Patch(i, p, m) ==
    [id |-> p.id, app |-> i, modified |-> p.modified, rule |-> m.rule, distance |-> m.distance]
Added(sa, i, bool2s, mods, first) ==
    UNION {{Patch(i, p, mods[k]) :
              p \in instances(sa, bool2s, PatchID(first + k - 1, 0, 0), mods[k].expr)} :
           k \in DOMAIN mods}

LEMMA AddedIs ==
  ASSUME NEW sa, NEW i, NEW bool2s, IsList(bool2s), NEW mods, IsList(mods), NEW first \in Nat
  PROVE  LET A == Added(sa, i, bool2s, mods, first)
         IN  /\ IsFiniteSet(A)
             /\ \A p \in A : p.id.base \in first .. first + Len(mods) - 1
             /\ \A p, q \in A : p.id = q.id => p = q
<1> DEFINE A == Added(sa, i, bool2s, mods, first)
           D == DOMAIN mods
           base(k) == first + k - 1
           I(k) == instances(sa, bool2s, PatchID(first + k - 1, 0, 0), mods[k].expr)
           f == [k \in D |-> {Patch(i, p, mods[k]) : p \in I(k)}]
           T == {f[k] : k \in D}
<1>1. D = 1 .. Len(mods) /\ Len(mods) \in Nat BY ListFacts
<1>2. A = UNION T BY DEF Added
<1>3. ASSUME NEW k \in D
      PROVE  /\ \A p \in I(k) : p.id.base = base(k)
             /\ \A p, q \in I(k) : p.id = q.id => p = q
             /\ IsFiniteSet(I(k))
  BY InstanceIds, InstancesFinite
<1>4. ASSUME NEW k \in D PROVE IsFiniteSet(f[k])
  <2> DEFINE J == I(k)
             g == [p \in J |-> Patch(i, p, mods[k])]
  <2>1. f[k] = {g[p] : p \in J} OBVIOUS
  <2>2. g = [p \in J |-> g[p]] OBVIOUS
  <2>3. IsFiniteSet(J) BY <1>3
  <2> HIDE DEF f, g, J
  <2> QED BY <2>1, <2>2, <2>3, FiniteImage
<1>5. IsFiniteSet(D)
  <2> HIDE DEF D
  <2>1. 1 \in Int /\ Len(mods) \in Int BY <1>1
  <2> QED BY <1>1, <2>1, FS_Interval
<1>6. IsFiniteSet(A)
  <2>1. f = [k \in D |-> f[k]] OBVIOUS
  <2> HIDE DEF f, D
  <2>2. IsFiniteSet(T) BY <1>5, <2>1, FiniteImage
  <2>3. \A X \in T : IsFiniteSet(X) BY <1>4
  <2> HIDE DEF T, A
  <2> QED BY <1>2, <2>2, <2>3, FS_UNION
<1>7. \A p \in A : \E k \in D : \E j \in I(k) : p = Patch(i, j, mods[k]) BY <1>2
<1> HIDE DEF A, I, f, T, D
<1>8. ASSUME NEW p \in A PROVE p.id.base \in first .. first + Len(mods) - 1
  <2>1. PICK k \in D : \E j \in I(k) : p = Patch(i, j, mods[k]) BY <1>7
  <2>2. PICK j \in I(k) : p = Patch(i, j, mods[k]) BY <2>1
  <2>3. p.id = j.id BY <2>2 DEF Patch
  <2>4. p.id.base = first + k - 1 BY <1>3, <2>3
  <2> QED BY <1>1, <2>4
<1>9. ASSUME NEW p \in A, NEW q \in A, p.id = q.id PROVE p = q
  <2>1. PICK k \in D : \E j \in I(k) : p = Patch(i, j, mods[k]) BY <1>7
  <2>2. PICK j \in I(k) : p = Patch(i, j, mods[k]) BY <2>1
  <2>3. PICK l \in D : \E h \in I(l) : q = Patch(i, h, mods[l]) BY <1>7
  <2>4. PICK h \in I(l) : q = Patch(i, h, mods[l]) BY <2>3
  <2>5. p.id = j.id /\ q.id = h.id BY <2>2, <2>4 DEF Patch
  <2>6. first + k - 1 = first + l - 1 BY <1>3, <1>9, <2>5
  <2>7. k = l BY <1>1, <2>6
  <2>8. j = h BY <1>3, <1>9, <2>5, <2>7
  <2> QED BY <2>2, <2>4, <2>7, <2>8
<1> QED BY <1>6, <1>8, <1>9 DEF A

\* The numbers of the patches that exist are used up.
PatchInv ==
    /\ baseId \in Nat \ {0}
    /\ IsFiniteSet(searchSpace)
    /\ \A p \in searchSpace : p.id.base \in 1 .. baseId - 1
    /\ \A p, q \in searchSpace : p.id = q.id => p = q

LEMMA GenerateFunctionPatches ==
  ASSUME StageInv, PatchInv, GenerateFunction
  PROVE  PatchInv'
<1> DEFINE sa == sas[next]
           bool2s == Comparisons2(sa.components)
           chosen == Modifications(sa.schema, sa.original, sa.components)
           mods == Listed(chosen)
           A == Added(sa, next, bool2s, mods, baseId)
<1>1. PICK n : \E start : Stages(n, start) BY DEF StageInv
<1>2. PICK start : Stages(n, start) BY <1>1
<1>3. stage = "generate" BY DEF GenerateFunction
<1> DEFINE N == Len(program)
<1>4. Laid(program, n, start) /\ next \in 1 .. N /\ Applications(start, N, N + 1)
  BY <1>2, <1>3 DEF Stages
<1>5. Bounds(program, n, start) BY <1>4, LayoutFacts
<1>6. N \in Nat /\ DOMAIN program = 1 .. N BY <1>5 DEF Bounds
<1>7. next < N + 1 BY <1>4, <1>6
<1>8. /\ ~IllTyped(program[next].expr)
      /\ sa = Entry(next, start[program[next].file], TypedOriginal(next))
  BY <1>4, <1>7 DEF Applications
<1>9. /\ sa.schema = transformationSchemaByString[program[next].schema]
      /\ sa.original = TypedOriginal(next) /\ sa.components = Comps(next)
  BY <1>8 DEF Entry
<1>10. next \in DOMAIN program /\ program \in Programs BY <1>4, <1>6 DEF StageInv
<1>11. IsList(bool2s) /\ IsFiniteSet(chosen)
  BY <1>8, <1>9, <1>10, StatementsAssumption DEF Comps, TypedOriginal
<1>12. IsList(mods) BY <1>11, ListedIs
<1>13. searchSpace' = searchSpace \cup A /\ baseId' = baseId + Len(mods)
  BY DEF GenerateFunction, FirstId, Added, Patch
<1>14. baseId \in Nat \ {0} /\ IsFiniteSet(searchSpace) BY DEF PatchInv
<1> HIDE DEF bool2s, mods, sa
<1>15. /\ IsFiniteSet(A)
       /\ \A p \in A : p.id.base \in baseId .. baseId + Len(mods) - 1
       /\ \A p, q \in A : p.id = q.id => p = q
  BY <1>11, <1>12, <1>14, AddedIs
<1> HIDE DEF A
<1>16. Len(mods) \in Nat BY <1>12, ListFacts
<1>17. IsFiniteSet(searchSpace') BY <1>13, <1>14, <1>15, FS_Union
<1>18. baseId' \in Nat \ {0} BY <1>13, <1>14, <1>16
<1>19. /\ \A p \in searchSpace : p.id.base \in 1 .. baseId - 1
       /\ \A p, q \in searchSpace : p.id = q.id => p = q
  BY DEF PatchInv
<1>20. \A p \in searchSpace' : p.id.base \in 1 .. baseId' - 1
  BY <1>13, <1>14, <1>15, <1>16, <1>19
<1>21. ASSUME NEW p \in searchSpace', NEW q \in searchSpace', p.id = q.id PROVE p = q
  <2>1. CASE p \in searchSpace /\ q \in searchSpace BY <1>19, <1>21, <2>1
  <2>2. CASE p \in A /\ q \in A BY <1>15, <1>21, <2>2
  <2>3. \A r \in searchSpace : \A t \in A : r.id # t.id
    <3> TAKE r \in searchSpace
    <3> TAKE t \in A
    <3>1. r.id.base \in 1 .. baseId - 1 /\ t.id.base \in baseId .. baseId + Len(mods) - 1
      BY <1>15, <1>19
    <3>2. r.id.base # t.id.base BY <1>14, <1>16, <3>1
    <3> QED BY <3>2
  <2> QED BY <1>13, <1>21, <2>1, <2>2, <2>3
<1> QED BY <1>17, <1>18, <1>20, <1>21 DEF PatchInv

---------------------------------------------------------------------------
(* The theorems.                                                           *)

Inv == StageInv /\ PatchInv

\* Every program is laid out by file, and nothing is numbered at first.
LEMMA InitInv == Init => Inv
<1> SUFFICES ASSUME Init PROVE Inv
  OBVIOUS
<1>1. StageInv BY InitStages
<1>2. baseId = 1 /\ searchSpace = {} BY DEF Init
<1>3. IsFiniteSet(searchSpace) BY <1>2, FS_EmptySet
<1>4. PatchInv BY <1>2, <1>3 DEF PatchInv
<1> QED BY <1>1, <1>4 DEF Inv

\* Every step keeps what the stages have done and the numbers of the patches.
LEMMA NextInv == Inv /\ [Next]_vars => Inv'
<1> SUFFICES ASSUME Inv, [Next]_vars PROVE Inv'
  OBVIOUS
<1>1. StageInv /\ PatchInv BY DEF Inv
<1>2. StageInv' BY <1>1, NextStages
<1>3. CASE GenerateFunction BY <1>1, <1>2, <1>3, GenerateFunctionPatches DEF Inv
<1>4. CASE ApplySchema \/ LoadFile \/ InferTypes \/ AssignCosts \/ UNCHANGED vars
  <2>1. baseId' = baseId /\ searchSpace' = searchSpace
    BY <1>4 DEF ApplySchema, LoadFile, InferTypes, AssignCosts, vars
  <2>2. PatchInv' BY <1>1, <2>1 DEF PatchInv
  <2> QED BY <1>2, <2>2 DEF Inv
<1> QED BY <1>3, <1>4 DEF Next

\* The number of an application, which the transformer processes of different
\* files give, and the number of a patch, which generateSearchSpace gives across
\* locations, belong to nothing else, and no patch has base 0.
THEOREM IdentifiersAreUnique == Spec => []IdentifiersUnique
<1>1. Inv => IdentifiersUnique
  <2> SUFFICES ASSUME Inv PROVE IdentifiersUnique
    OBVIOUS
  <2>1. StageInv /\ PatchInv BY DEF Inv
  <2>2. \A i, j \in DOMAIN sas : sas[i].id = sas[j].id => i = j BY <2>1, ApplicationsDiffer
  <2>3. Cardinality({p.id : p \in searchSpace}) = Cardinality(searchSpace)
    BY <2>1, DifferentIds DEF PatchInv
  <2> QED BY <2>1, <2>2, <2>3 DEF IdentifiersUnique, PatchInv
<1> QED BY <1>1, InitInv, NextInv, PTL DEF Spec

\* The argument list that the transformer writes into a file and the parameter
\* list that the generator declares for the same application agree in number,
\* type and meaning, whatever the components of the application are.
THEOREM CallsMatchFunctions == Spec => []ArgumentsMatch
<1>1. Inv => ArgumentsMatch BY StagesCalls, CallsMatch DEF Inv
<1> QED BY <1>1, InitInv, NextInv, PTL DEF Spec

=============================================================================
