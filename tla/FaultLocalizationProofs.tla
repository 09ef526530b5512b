---------------------- MODULE FaultLocalizationProofs ----------------------
(***************************************************************************)
(* Proofs about FaultLocalization for any number of tests, any statements  *)
(* and any failures of tests and of gcovr: whose executions the coverage   *)
(* of a test can contain.                                                  *)
(***************************************************************************)
EXTENDS FaultLocalization, FoldTheorems

Shapes ==
    /\ pc \in {"test", "extract", "done"} /\ i \in 0 .. NumTests
    /\ pc = "extract" => i \in Tests
    /\ counters \in SUBSET Statements
    /\ coverage \in [Tests -> SUBSET Statements]
    /\ executed \in [Tests -> SUBSET Statements]
    /\ skipped \in SUBSET Tests


\* The counters were written by the test at hand, or by skipped tests before it.
CountersAttributed ==
    \A s \in counters :
        \E u \in Tests : /\ s \in executed[u] /\ u .. i - 1 \subseteq skipped
                         /\ IF pc = "extract" THEN u <= i ELSE u < i

\* Tests that are still to come have no coverage.
NothingAhead == \A t \in Tests : (pc # "done" /\ t >= i) => coverage[t] = {}

IInv == Shapes /\ CoverageAttributed /\ CountersAttributed /\ NothingAhead

---------------------------------------------------------------------------
LEMMA InitInv == Init => IInv
BY LocalizationAssumption
DEF Init, IInv, Shapes, CoverageAttributed, CountersAttributed, NothingAhead, Tests

\* A test runs: its counters join those of the skipped tests before it.
LEMMA ExecuteTestInv ==
    ASSUME IInv, NEW result \in {"PASS", "FAIL", "TIMEOUT"},
           NEW ran \in SUBSET Statements, NEW flushed \in SUBSET Statements,
           ExecuteTest(result, ran, flushed)
    PROVE  IInv'
<1> USE DEF IInv
<1>1. /\ i \in Tests /\ pc = "test" /\ i \in Nat
      /\ flushed \subseteq ran
      /\ counters' = counters \cup flushed
      /\ executed' = [executed EXCEPT ![i] = ran]
      /\ coverage' = coverage
  BY LocalizationAssumption DEF ExecuteTest, MoreTests, Shapes, Tests
<1>2. \/ i' = i + 1 /\ pc' = "test" /\ skipped' = skipped \cup {i}
      \/ i' = i /\ pc' = "extract" /\ skipped' = skipped
  BY DEF ExecuteTest
<1>3. Shapes'
  <2>1. counters' \in SUBSET Statements /\ coverage' \in [Tests -> SUBSET Statements]
        /\ executed' \in [Tests -> SUBSET Statements]
    BY <1>1 DEF Shapes
  <2>2. i' \in 0 .. NumTests /\ pc' \in {"test", "extract"} /\ (pc' = "extract" => i' \in Tests)
    BY <1>1, <1>2, LocalizationAssumption DEF Tests
  <2>3. skipped' \in SUBSET Tests BY <1>1, <1>2 DEF Shapes
  <2> QED BY <2>1, <2>2, <2>3 DEF Shapes
<1>4. \A u \in Tests : u # i => executed'[u] = executed[u]
  BY <1>1 DEF Shapes
<1>5. executed'[i] = ran BY <1>1 DEF Shapes
<1>6. CoverageAttributed'
  <2> SUFFICES ASSUME NEW t \in Tests, NEW s \in coverage[t]
               PROVE  \E u \in 0 .. t : s \in executed'[u] /\ u .. t - 1 \subseteq skipped'
    BY <1>1 DEF CoverageAttributed
  <2>1. t < i BY <1>1 DEF NothingAhead, Tests
  <2>2. PICK u \in 0 .. t : s \in executed[u] /\ u .. t - 1 \subseteq skipped
    BY DEF CoverageAttributed
  <2>3. u \in Tests /\ u # i BY <1>1, <2>1, LocalizationAssumption DEF Tests
  <2> QED BY <1>2, <1>4, <2>2, <2>3
<1>7. CountersAttributed'
  <2> SUFFICES ASSUME NEW s \in counters'
               PROVE  \E u \in Tests : /\ s \in executed'[u] /\ u .. i' - 1 \subseteq skipped'
                                       /\ IF pc' = "extract" THEN u <= i' ELSE u < i'
    BY DEF CountersAttributed
  <2>1. CASE s \in flushed
    <3>1. s \in executed'[i] BY <1>1, <1>5, <2>1
    <3>2. CASE i' = i + 1 /\ pc' = "test" /\ skipped' = skipped \cup {i}
      <4>1. i .. i' - 1 \subseteq skipped' /\ i < i' BY <1>1, <3>2
      <4> QED BY <1>1, <3>1, <3>2, <4>1
    <3>3. CASE i' = i /\ pc' = "extract"
      <4>1. i .. i' - 1 = {} /\ i <= i' BY <1>1, <3>3
      <4> QED BY <1>1, <3>1, <3>3, <4>1
    <3> QED BY <1>2, <3>2, <3>3
  <2>2. CASE s \notin flushed
    <3>1. PICK u \in Tests : s \in executed[u] /\ u .. i - 1 \subseteq skipped /\ u < i
      BY <1>1, <2>2 DEF CountersAttributed
    <3>2. s \in executed'[u] BY <1>1, <1>4, <3>1 DEF Tests
    <3>3. u \in Nat BY DEF Tests
    <3>4. u .. i' - 1 \subseteq skipped' BY <1>1, <1>2, <3>1, <3>3
    <3>5. u < i' /\ u <= i' BY <1>1, <1>2, <3>1, <3>3
    <3> QED BY <3>2, <3>4, <3>5
  <2> QED BY <2>1, <2>2
<1>8. NothingAhead' BY <1>1, <1>2 DEF NothingAhead, Tests
<1> QED BY <1>3, <1>6, <1>7, <1>8

\* gcovr succeeds: the coverage is what the counters hold, and they are deleted.
LEMMA ExtractInv == IInv /\ ExtractCoverage => IInv'
<1> SUFFICES ASSUME IInv, ExtractCoverage PROVE IInv' OBVIOUS
<1> USE DEF IInv
<1>1. /\ i \in Tests /\ i \in Nat /\ pc = "extract"
      /\ coverage' = [coverage EXCEPT ![i] = Visited(counters)]
      /\ counters' = {} /\ i' = i + 1 /\ pc' = "test"
      /\ UNCHANGED <<executed, skipped>>
  BY DEF ExtractCoverage, DeletedCounters, histVars, Shapes, Tests
<1> Visited(counters) \subseteq counters BY DEF Visited
<1>2. Shapes' BY <1>1, LocalizationAssumption DEF Shapes, Tests
<1>3. CoverageAttributed'
  <2> SUFFICES ASSUME NEW t \in Tests, NEW s \in coverage'[t]
               PROVE  \E u \in 0 .. t : s \in executed[u] /\ u .. t - 1 \subseteq skipped
    BY <1>1 DEF CoverageAttributed
  <2>1. CASE t = i
    <3>1. PICK u \in Tests : s \in executed[u] /\ u .. i - 1 \subseteq skipped /\ u <= i
      BY <1>1, <2>1 DEF Shapes, CountersAttributed
    <3> QED BY <1>1, <2>1, <3>1 DEF Tests
  <2>2. CASE t # i BY <1>1, <2>2 DEF Shapes, CoverageAttributed
  <2> QED BY <2>1, <2>2
<1>4. CountersAttributed' BY <1>1 DEF CountersAttributed
<1>5. NothingAhead' BY <1>1 DEF NothingAhead, Shapes, Tests
<1> QED BY <1>2, <1>3, <1>4, <1>5

\* gcovr fails: the test joins the skipped ones, the counters may stay.
LEMMA ExtractionFailsInv == IInv /\ ExtractionFails => IInv'
<1> SUFFICES ASSUME IInv, ExtractionFails PROVE IInv' OBVIOUS
<1> USE DEF IInv
<1>1. /\ i \in Tests /\ i \in Nat /\ pc = "extract"
      /\ counters' \subseteq counters /\ skipped' = skipped \cup {i}
      /\ i' = i + 1 /\ pc' = "test"
      /\ UNCHANGED <<coverage, executed>>
  BY DEF ExtractionFails, Shapes, Tests
<1>2. Shapes' BY <1>1, LocalizationAssumption DEF Shapes, Tests
<1>3. CoverageAttributed' BY <1>1 DEF CoverageAttributed
<1>4. CountersAttributed'
  <2> SUFFICES ASSUME NEW s \in counters'
               PROVE  \E u \in Tests : s \in executed[u] /\ u .. i' - 1 \subseteq skipped' /\ u < i'
    BY <1>1 DEF CountersAttributed
  <2>1. PICK u \in Tests : s \in executed[u] /\ u .. i - 1 \subseteq skipped /\ u <= i
    BY <1>1 DEF CountersAttributed
  <2>2. u .. i' - 1 \subseteq skipped' /\ u < i' BY <1>1, <2>1 DEF Tests
  <2> QED BY <2>1, <2>2
<1>5. NothingAhead' BY <1>1 DEF NothingAhead, Tests
<1> QED BY <1>2, <1>3, <1>4, <1>5

LEMMA StepInv == IInv /\ [Next]_vars => IInv'
<1> SUFFICES ASSUME IInv, [Next]_vars PROVE IInv' OBVIOUS
<1>1. ASSUME NEW result \in {"PASS", "FAIL", "TIMEOUT"}, NEW ran \in SUBSET Statements,
             NEW flushed \in SUBSET Statements, ExecuteTest(result, ran, flushed)
      PROVE  IInv'
  BY <1>1, ExecuteTestInv
<1>2. CASE ExtractCoverage BY <1>2, ExtractInv
<1>3. CASE ExtractionFails BY <1>3, ExtractionFailsInv
<1>4. CASE Localize
  <2>1. /\ pc' = "done" /\ pc = "test"
        /\ UNCHANGED <<i, counters, coverage, executed, skipped>>
    BY <1>4 DEF Localize, histVars
  <2> QED BY <2>1 DEF IInv, Shapes, CoverageAttributed, CountersAttributed, NothingAhead
<1>5. CASE UNCHANGED vars
  BY <1>5 DEF vars, histVars, IInv, Shapes, CoverageAttributed, CountersAttributed, NothingAhead
<1> QED BY <1>1, <1>2, <1>3, <1>4, <1>5 DEF Next

\* The coverage of a test contains nothing but what it has executed itself, or
\* a run of skipped tests right before it.
THEOREM CoverageStaysAttributed == Spec => []CoverageAttributed
<1>1. IInv => CoverageAttributed BY DEF IInv
<1> QED BY InitInv, StepInv, <1>1, PTL DEF Spec

---------------------------------------------------------------------------
(* What the coverage of a test must contain, and what is returned for it.   *)

\* The counters of an extraction hold what a test that wrote them has executed.
CountersHold == pc = "extract" /\ i \notin lost => executed[i] \subseteq counters

\* A test that wrote its counters and had them read has the coverage of all it
\* has executed in the first package.
CoverageHolds ==
    \A t \in Tests : t < i /\ t \notin lost \cup skipped => Visited(executed[t]) \subseteq coverage[t]

\* All tests have run, and the files were ranked by their coverage.
Ranked == pc = "done" => i = NumTests /\ localized = SubSeq(Sorted, 1, KeptLength)

LInv == IInv /\ passedTests \subseteq Tests /\ CountersHold /\ CoverageHolds /\ Ranked

---------------------------------------------------------------------------
(* Sums over finite sets, and the list of files.                           *)

\* The elements of a set, taken in the order that MapThenSumSet takes them.
AnyOf(S) == [s \in SUBSET S |-> CHOOSE x \in s : TRUE]

\* A sum of scores is positive where a score is.
LEMMA SumOfScores ==
    ASSUME NEW S, IsFiniteSet(S), \A s \in S : LineScore(s) \in Nat
    PROVE  /\ MapThenSumSet(LineScore, S) \in Nat
           /\ (\E x \in S : LineScore(x) > 0) => MapThenSumSet(LineScore, S) > 0
<1> DEFINE w == [s \in S |-> LineScore(s)]
           step == [vx \in Nat \X S |-> w[vx[2]] + vx[1]]
           any(s) == CHOOSE x \in s : TRUE
           Body(f) == [s \in SUBSET S |-> IF s = {} THEN 0
                                          ELSE LineScore(any(s)) + f[s \ {any(s)}]]
           sum == CHOOSE f : f = Body(f)
           V == [s \in SUBSET S |-> IF \E x \in s : w[x] > 0 THEN Nat \ {0} ELSE Nat]
<1>1. MapThenSumSet(LineScore, S) = sum[S] BY DEF MapThenSumSet, MapThenFoldSet
<1>2. w \in [S -> Nat] OBVIOUS
<1>3. \A s \in SUBSET S : s # {} => /\ any(s) \in s /\ AnyOf(S)[s] = any(s)
                                    /\ s \ {any(s)} \in SUBSET S /\ any(s) \in S
  BY DEF AnyOf
<1>w. \A x \in S : w[x] = LineScore(x) OBVIOUS
<1>b. \A f : \A s \in SUBSET S : Body(f)[s] = IF s = {} THEN 0
                                              ELSE LineScore(any(s)) + f[s \ {any(s)}]
  OBVIOUS
<1>d. \A f : Body(f) = [s \in SUBSET S |-> Body(f)[s]] OBVIOUS
<1> HIDE DEF w, any, Body
<1>s. \A v \in Nat, x \in S : step[<<v, x>>] = w[x] + v OBVIOUS
<1> HIDE DEF step
<1>4. Foldable(S, Nat, 0, step, AnyOf(S))
  <2>1. \A x \in S : w[x] \in Nat BY <1>2
  <2>2. \A v \in Nat, x \in S : step[<<v, x>>] \in Nat
    <3> TAKE v \in Nat, x \in S
    <3>1. step[<<v, x>>] = w[x] + v BY <1>s
    <3>2. w[x] \in Nat BY <2>1
    <3> QED BY <3>1, <3>2
  <2> QED BY <1>3, <2>2 DEF Foldable
<1>5. PICK g : Folds(g, S, Nat, 0, step, AnyOf(S)) BY <1>4, FoldExists
<1>6. g \in [SUBSET S -> Nat] /\ \A s \in SUBSET S : g[s] = Step(g, 0, step, AnyOf(S), s)
  BY <1>5 DEF Folds
<1>7. \A s \in SUBSET S : g[s] = Body(g)[s]
  <2> TAKE s \in SUBSET S
  <2>1. CASE s = {} BY <1>6, <1>b, <2>1 DEF Step
  <2>2. CASE s # {}
    <3>1. g[s] = step[<<g[s \ {any(s)}], any(s)>>] BY <1>3, <1>6, <2>2 DEF Step
    <3>2. g[s \ {any(s)}] \in Nat BY <1>3, <1>6, <2>2
    <3>3. g[s] = w[any(s)] + g[s \ {any(s)}] BY <1>3, <1>s, <2>2, <3>1, <3>2
    <3>4. w[any(s)] = LineScore(any(s)) BY <1>3, <1>w, <2>2
    <3>5. Body(g)[s] = LineScore(any(s)) + g[s \ {any(s)}] BY <1>b, <2>2
    <3> QED BY <3>3, <3>4, <3>5
  <2> QED BY <2>1, <2>2
<1>8. g = Body(g)
  <2>1. g = [s \in SUBSET S |-> g[s]] BY <1>6
  <2> QED BY <1>7, <1>d, <2>1
<1>9. sum = Body(sum) BY <1>8
<1> HIDE DEF sum
<1>10. sum[{}] \in V[{}]
  <2>1. {} \in SUBSET S OBVIOUS
  <2>2. sum[{}] = 0 BY <1>9, <1>b, <2>1
  <2> QED BY <2>1, <2>2
<1>11. \A s \in SUBSET S : s # {} /\ sum[s \ {AnyOf(S)[s]}] \in V[s \ {AnyOf(S)[s]}] => sum[s] \in V[s]
  <2> SUFFICES ASSUME NEW s \in SUBSET S, s # {}, sum[s \ {any(s)}] \in V[s \ {any(s)}]
               PROVE  sum[s] \in V[s]
    BY <1>3
  <2>1. sum[s] = w[any(s)] + sum[s \ {any(s)}] BY <1>3, <1>9, <1>b, <1>w
  <2>2. w[any(s)] \in Nat /\ s \ {any(s)} \in SUBSET S BY <1>2, <1>3
  <2>3. sum[s \ {any(s)}] \in Nat
        /\ ((\E x \in s \ {any(s)} : w[x] > 0) => sum[s \ {any(s)}] > 0)
    BY <2>2
  <2>4. (\E x \in s : w[x] > 0) => w[any(s)] > 0 \/ \E x \in s \ {any(s)} : w[x] > 0 OBVIOUS
  <2> HIDE DEF V
  <2>5. sum[s] \in Nat /\ ((\E x \in s : w[x] > 0) => sum[s] > 0) BY <2>1, <2>2, <2>3, <2>4
  <2> QED BY <2>5 DEF V
<1> HIDE DEF V
<1>12. \A s \in SUBSET S : s # {} => AnyOf(S)[s] \in s BY <1>3
<1>13. sum[S] \in V[S] BY <1>10, <1>11, <1>12, FoldWithin
<1>14. sum[S] \in Nat /\ ((\E x \in S : w[x] > 0) => sum[S] > 0) BY <1>13 DEF V
<1> QED BY <1>1, <1>14, <1>w

\* The files of the compilation database that have a known extension.
LEMMA FilesCollected ==
    /\ AllFiles \in Seq(SourceFiles)
    /\ Range(AllFiles) = Range(CompileCommands) \cap SourceFiles
<1> DEFINE C == CompileCommands
           S == DOMAIN C
           op(files, f) == IF f \in SourceFiles THEN Append(files, f) ELSE files
           Body(f) == [s \in SUBSET S |-> IF s = {} THEN <<>> ELSE op(f[s \ {Max(s)}], C[Max(s)])]
           fold == CHOOSE f : f = Body(f)
           Q == Seq(SourceFiles)
           step == [vi \in Q \X S |-> op(vi[1], C[vi[2]])]
           V == [s \in SUBSET S |-> {q \in Q : Range(q) = {C[j] : j \in s} \cap SourceFiles}]
<1>1. AllFiles = fold[S] BY DEF AllFiles, FoldLeft, MapThenFoldSet
<1>2. S = 1 .. Len(C) /\ Len(C) \in Nat BY LocalizationAssumption
<1>3. IsFiniteSet(S) /\ \A s \in SUBSET S : s # {} => LastOf(S)[s] \in s
  BY <1>2, Positions DEF LastOf
<1>4. \A q \in Q, j \in S : op(q, C[j]) \in Q OBVIOUS
<1>5. <<>> \in Q OBVIOUS
<1>6. \A q \in Q, j \in S : Range(op(q, C[j])) = Range(q) \cup ({C[j]} \cap SourceFiles)
  <2> SUFFICES ASSUME NEW q \in Q, NEW f PROVE Range(op(q, f)) = Range(q) \cup ({f} \cap SourceFiles)
    OBVIOUS
  <2>1. CASE f \in SourceFiles
    <3>1. Len(q) \in Nat /\ DOMAIN q = 1 .. Len(q) OBVIOUS
    <3>2. DOMAIN Append(q, f) = 1 .. (Len(q) + 1) /\ Append(q, f)[Len(q) + 1] = f
          /\ \A j \in 1 .. Len(q) : Append(q, f)[j] = q[j]
      BY <2>1
    <3>3. 1 .. (Len(q) + 1) = (1 .. Len(q)) \cup {Len(q) + 1} BY <3>1
    <3>4. Range(Append(q, f)) = Range(q) \cup {f} BY <3>1, <3>2, <3>3 DEF Range
    <3> QED BY <2>1, <3>4
  <2>2. CASE f \notin SourceFiles BY <2>2
  <2> QED BY <2>1, <2>2
<1>b. \A f : \A s \in SUBSET S : Body(f)[s] = IF s = {} THEN <<>>
                                              ELSE op(f[s \ {Max(s)}], C[Max(s)])
  OBVIOUS
<1>d. \A f : Body(f) = [s \in SUBSET S |-> Body(f)[s]] OBVIOUS
<1> HIDE DEF op, S, Q, Body, C
<1>s. \A v \in Q, j \in S : step[<<v, j>>] = op(v, C[j]) OBVIOUS
<1> HIDE DEF step
<1>7. Foldable(S, Q, <<>>, step, LastOf(S)) BY <1>3, <1>4, <1>5, <1>s DEF Foldable
<1>8. PICK g : Folds(g, S, Q, <<>>, step, LastOf(S)) BY <1>7, FoldExists
<1>9. g \in [SUBSET S -> Q] /\ \A s \in SUBSET S : g[s] = Step(g, <<>>, step, LastOf(S), s)
  BY <1>8 DEF Folds
<1>10. \A s \in SUBSET S : g[s] = Body(g)[s]
  <2> TAKE s \in SUBSET S
  <2>1. CASE s = {} BY <1>9, <1>b, <2>1 DEF Step
  <2>2. CASE s # {}
    <3>1. LastOf(S)[s] = Max(s) /\ Max(s) \in S /\ s \ {Max(s)} \in SUBSET S
      BY <1>3, <2>2 DEF LastOf
    <3>2. g[s] = step[<<g[s \ {Max(s)}], Max(s)>>] BY <1>9, <2>2, <3>1 DEF Step
    <3>3. g[s \ {Max(s)}] \in Q BY <1>9, <3>1
    <3> QED BY <1>b, <1>s, <2>2, <3>1, <3>2, <3>3
  <2> QED BY <2>1, <2>2
<1>11. g = Body(g)
  <2>1. g = [s \in SUBSET S |-> g[s]] BY <1>9
  <2> QED BY <1>10, <1>d, <2>1
<1>12. fold = Body(fold) BY <1>11
<1> HIDE DEF fold
<1>13. fold[{}] \in V[{}]
  <2>1. {} \in SUBSET S OBVIOUS
  <2>2. fold[{}] = <<>> BY <1>12, <1>b, <2>1
  <2>3. Range(<<>>) = {} BY DEF Range
  <2> QED BY <1>5, <2>1, <2>2, <2>3
<1>14. \A s \in SUBSET S : s # {} /\ fold[s \ {LastOf(S)[s]}] \in V[s \ {LastOf(S)[s]}] => fold[s] \in V[s]
  <2> SUFFICES ASSUME NEW s \in SUBSET S, s # {}, fold[s \ {Max(s)}] \in V[s \ {Max(s)}]
               PROVE  fold[s] \in V[s]
    BY DEF LastOf
  <2>1. Max(s) \in s /\ Max(s) \in S /\ s \ {Max(s)} \in SUBSET S BY <1>3 DEF LastOf
  <2> DEFINE q == fold[s \ {Max(s)}]
  <2>2. q \in Q /\ Range(q) = {C[j] : j \in s \ {Max(s)}} \cap SourceFiles BY <2>1
  <2>3. fold[s] = op(q, C[Max(s)]) BY <1>12, <1>b
  <2>4. {C[j] : j \in s} = {C[j] : j \in s \ {Max(s)}} \cup {C[Max(s)]} BY <2>1
  <2> HIDE DEF q
  <2>5. fold[s] \in Q BY <1>4, <2>1, <2>2, <2>3
  <2>6. Range(fold[s]) = Range(q) \cup ({C[Max(s)]} \cap SourceFiles) BY <1>6, <2>1, <2>2, <2>3
  <2>7. Range(fold[s]) = {C[j] : j \in s} \cap SourceFiles BY <2>2, <2>4, <2>6, Zenon
  <2> QED BY <2>5, <2>7
<1>15. V[S] = {q \in Q : Range(q) = {C[j] : j \in S} \cap SourceFiles} OBVIOUS
<1> HIDE DEF V
<1>16. fold[S] \in V[S] BY <1>3, <1>13, <1>14, FoldWithin
<1>17. {C[j] : j \in S} = Range(C) BY DEF Range, S
<1> QED BY <1>1, <1>15, <1>16, <1>17 DEF Q, C

---------------------------------------------------------------------------
(* Scores and ranks of the files.                                          *)

\* What is known of the coverage when the files are ranked, and of the entries
\* of the compilation database.
Scored ==
    /\ coverage \in [Tests -> SUBSET Statements]
    /\ passedTests \subseteq Tests

\* The files of the statements are compiled and have a known extension.
FilesListed == \A s \in Statements : FileOf[s] \in Range(CompileCommands) \cap SourceFiles

LEMMA IntervalSize ==
    ASSUME NEW m \in Nat
    PROVE  IsFiniteSet(1 .. m) /\ Cardinality(1 .. m) = m
<1>1. 1 \in Int /\ m \in Int /\ (m = 0 <=> 1 > m) OBVIOUS
<1>2. IsFiniteSet(1 .. m) /\ Cardinality(1 .. m) = IF 1 > m THEN 0 ELSE m - 1 + 1
  BY <1>1, FS_Interval
<1> QED BY <1>1, <1>2

LEMMA TestsFinite ==
    IsFiniteSet(Tests) /\ Cardinality(Tests) = NumTests
<1>1. 0 \in Int /\ NumTests - 1 \in Int BY LocalizationAssumption
<1> QED BY <1>1, FS_Interval, LocalizationAssumption DEF Tests

\* A statement that all failing tests have in their coverage has a score.
LEMMA LineScores ==
    ASSUME Scored, NEW s
    PROVE  /\ LineScore(s) \in Nat
           /\ (FailedTests # {} /\ \A t \in FailedTests : s \in coverage[t]) => LineScore(s) > 0
<1>1. IsFiniteSet(passedTests) /\ totalPassed \in Nat /\ totalPassed <= NumTests
  BY TestsFinite, FS_Subset, FS_CardinalityType, LocalizationAssumption DEF Scored, totalPassed
<1>2. passedStmt(s) \in Nat /\ passedStmt(s) <= totalPassed
  <2>1. {t \in passedTests : s \in coverage[t]} \in SUBSET passedTests OBVIOUS
  <2> QED BY <1>1, <2>1, FS_Subset, FS_CardinalityType DEF passedStmt, totalPassed
<1>3. IsFiniteSet(FailedTests) /\ Cardinality(FailedTests) = totalFailed
  <2>1. FailedTests = Tests \ passedTests BY DEF FailedTests
  <2>2. Tests \cap passedTests = passedTests BY DEF Scored
  <2> QED BY <2>1, <2>2, TestsFinite, FS_Difference DEF totalFailed, totalPassed
<1>4. CASE FailureShare(s) = 0
  <2>1. LineScore(s) = 0 BY <1>4 DEF LineScore
  <2>2. failedStmt(s) # totalFailed BY <1>4 DEF FailureShare
  <2>3. ASSUME \A t \in FailedTests : s \in coverage[t] PROVE FALSE
    <3>1. {t \in FailedTests : s \in coverage[t]} = FailedTests BY <2>3
    <3> QED BY <1>3, <2>2, <3>1 DEF failedStmt
  <2> QED BY <2>1, <2>3
<1>5. CASE FailureShare(s) # 0 /\ totalPassed = 0
  BY <1>5, LocalizationAssumption DEF LineScore
<1>6. CASE FailureShare(s) # 0 /\ totalPassed # 0
  <2> DEFINE d == totalPassed + passedStmt(s)
  <2>1. LineScore(s) = (Scale * totalPassed) \div d BY <1>6 DEF LineScore
  <2>2. d \in Nat /\ d > 0 /\ d <= 2 * totalPassed BY <1>1, <1>2, <1>6
  <2>3. Scale \in Nat /\ Scale >= 2
    <3>1. NumTests \in Nat /\ NumTests >= 1 BY <1>1, <1>6, LocalizationAssumption
    <3>2. 2 \in 1 .. 2 * NumTests BY <3>1
    <3>3. Scale % 2 = 0 /\ Scale \in Nat /\ Scale # 0 BY <3>2, LocalizationAssumption
    <3> QED BY <3>3
  <2>4. Scale * totalPassed \in Nat /\ Scale * totalPassed >= 2 * totalPassed
    BY <1>1, <2>3
  <2> DEFINE a == Scale * totalPassed
  <2>5. a \in Nat /\ a >= d BY <1>1, <2>2, <2>4
  <2> HIDE DEF a, d
  <2>6. a \div d \in Nat /\ a \div d > 0 BY <2>2, <2>5
  <2> QED BY <2>1, <2>6 DEF a, d
<1> QED BY <1>4, <1>5, <1>6

\* So has its file.
LEMMA FileScores ==
    ASSUME Scored, NEW f
    PROVE  /\ FileScore(f) \in Nat
           /\ \A s \in AllLines(f) : LineScore(s) > 0 => FileScore(f) > 0
<1>1. AllLines(f) \in SUBSET Statements BY DEF AllLines
<1>2. IsFiniteSet(AllLines(f)) BY <1>1, FS_Subset, LocalizationAssumption
<1>3. \A s \in AllLines(f) : LineScore(s) \in Nat BY LineScores
<1> QED BY <1>2, <1>3, SumOfScores DEF FileScore

\* The entries before an entry are those before any entry after it, and fewer.
LEMMA BeforeGrows ==
    ASSUME Scored, NEW j \in DOMAIN AllFiles, NEW k \in DOMAIN AllFiles
    PROVE  /\ IsFiniteSet(Before(k)) /\ Cardinality(Before(k)) \in Nat
           /\ Cardinality(Before(k)) < Len(AllFiles)
           /\ j \in Before(k) => Cardinality(Before(j)) < Cardinality(Before(k))
           /\ j # k => j \in Before(k) \/ k \in Before(j)
<1> DEFINE D == DOMAIN AllFiles
           sc(l) == FileScore(AllFiles[l])
<1>1. D = 1 .. Len(AllFiles) /\ Len(AllFiles) \in Nat BY FilesCollected
<1>2. IsFiniteSet(D) /\ Cardinality(D) = Len(AllFiles)
  BY <1>1, IntervalSize
<1>3. \A l : sc(l) \in Nat BY FileScores
<1>4. \A l, m \in D : l \in Before(m) <=> sc(l) > sc(m) \/ (sc(l) = sc(m) /\ l < m)
  BY DEF Before
<1> HIDE DEF sc
<1>5. \A m \in D : Before(m) \in SUBSET (D \ {m})
  <2> SUFFICES ASSUME NEW m \in D, NEW l \in Before(m) PROVE l \in D /\ l # m
    OBVIOUS
  <2>1. l \in D BY DEF Before
  <2>2. sc(m) \in Nat /\ m \in Nat BY <1>1, <1>3
  <2> QED BY <1>4, <2>1, <2>2
<1>6. \A m \in D : IsFiniteSet(Before(m)) /\ Cardinality(Before(m)) \in Nat
                   /\ Cardinality(Before(m)) < Len(AllFiles)
  <2> TAKE m \in D
  <2>1. IsFiniteSet(D \ {m}) /\ Cardinality(D \ {m}) = Len(AllFiles) - 1
    BY <1>2, FS_RemoveElement
  <2> QED BY <1>1, <1>5, <2>1, FS_Subset, FS_CardinalityType
<1>7. j \in Before(k) => Cardinality(Before(j)) < Cardinality(Before(k))
  <2> SUFFICES ASSUME j \in Before(k) PROVE Cardinality(Before(j)) < Cardinality(Before(k))
    OBVIOUS
  <2>1. Before(j) \subseteq Before(k)
    <3> SUFFICES ASSUME NEW l \in Before(j) PROVE l \in Before(k)
      OBVIOUS
    <3>1. l \in D BY <1>5
    <3>2. sc(l) \in Nat /\ sc(j) \in Nat /\ sc(k) \in Nat BY <1>3
    <3> QED BY <1>1, <1>4, <3>1, <3>2
  <2>2. Before(j) # Before(k) BY <1>5
  <2> QED BY <1>6, <2>1, <2>2, FS_Subset
<1>8. j # k => j \in Before(k) \/ k \in Before(j)
  <2>1. sc(j) \in Nat /\ sc(k) \in Nat /\ j \in Nat /\ k \in Nat BY <1>1, <1>3
  <2> QED BY <1>4, <2>1
<1> QED BY <1>6, <1>7, <1>8

\* The sort finds an entry for every rank.
LEMMA RanksAreTaken ==
    ASSUME Scored, NEW r \in DOMAIN AllFiles
    PROVE  \E k \in DOMAIN AllFiles : /\ Cardinality(Before(k)) = r - 1
                                      /\ Sorted[r] = AllFiles[k]
<1> DEFINE D == DOMAIN AllFiles
           rank == [k \in D |-> Cardinality(Before(k)) + 1]
<1>1. D = 1 .. Len(AllFiles) /\ Len(AllFiles) \in Nat BY FilesCollected
<1>2. IsFiniteSet(D) BY <1>1, FS_Interval
<1>3. rank \in [D -> D]
  <2> SUFFICES ASSUME NEW k \in D PROVE Cardinality(Before(k)) + 1 \in D
    OBVIOUS
  <2>1. Cardinality(Before(k)) \in Nat /\ Cardinality(Before(k)) < Len(AllFiles)
    BY BeforeGrows
  <2> QED BY <1>1, <2>1
<1>4. \A j, k \in D : rank[j] = rank[k] => j = k
  <2> SUFFICES ASSUME NEW j \in D, NEW k \in D, j # k PROVE rank[j] # rank[k]
    OBVIOUS
  <2>1. Cardinality(Before(j)) \in Nat /\ Cardinality(Before(k)) \in Nat BY BeforeGrows
  <2>2. \/ Cardinality(Before(j)) < Cardinality(Before(k))
        \/ Cardinality(Before(k)) < Cardinality(Before(j))
    BY BeforeGrows
  <2> QED BY <2>1, <2>2
<1>5. rank \in Injection(D, D) BY <1>3, <1>4 DEF Injection, IsInjective
<1>6. rank \in Surjection(D, D) BY <1>2, <1>5, FS_Injection
<1>7. PICK k \in D : rank[k] = r BY <1>6 DEF Surjection
<1>8. Cardinality(Before(k)) \in Nat BY BeforeGrows
<1>9. Cardinality(Before(k)) = r - 1 BY <1>7, <1>8
<1> DEFINE c == CHOOSE k_1 \in D : Cardinality(Before(k_1)) = r - 1
<1>10. c \in D /\ Cardinality(Before(c)) = r - 1 BY <1>9
<1>11. Sorted[r] = AllFiles[c] BY DEF Sorted
<1> QED BY <1>10, <1>11

---------------------------------------------------------------------------
\* What is returned: the file with the position r + 1 of the ranking, or as many
\* files as the limit allows.
LEMMA RankedFilesReturned ==
    ASSUME Scored, NEW k \in DOMAIN AllFiles,
           FileScore(AllFiles[k]) > 0, localized = SubSeq(Sorted, 1, KeptLength)
    PROVE  AllFiles[k] \in Range(localized) \/ Len(localized) = FilesToLocalize
<1> DEFINE D == DOMAIN AllFiles
           n == Len(AllFiles)
           score(l) == FileScore(AllFiles[l])
           Kept == {q \in D : q <= FilesToLocalize /\ FileScore(Sorted[q]) > 0}
           r == Cardinality(Before(k)) + 1
<1>1. D = 1 .. n /\ n \in Nat /\ FilesToLocalize \in Nat BY LocalizationAssumption
<1>2. r \in D
  <2>1. Cardinality(Before(k)) \in Nat /\ Cardinality(Before(k)) < n BY BeforeGrows
  <2> QED BY <1>1, <2>1
\* Every position up to that of the file has a score.
<1>3. \A q \in 1 .. r : q \in D /\ FileScore(Sorted[q]) > 0
  <2> SUFFICES ASSUME NEW q \in 1 .. r PROVE q \in D /\ FileScore(Sorted[q]) > 0
    OBVIOUS
  <2>1. q \in D BY <1>1, <1>2
  <2>2. PICK l \in D : Cardinality(Before(l)) = q - 1 /\ Sorted[q] = AllFiles[l]
    BY <2>1, RanksAreTaken
  <2>3. score(l) \in Nat /\ score(k) \in Nat BY FileScores
  <2>4. ~(score(l) < score(k))
    <3> SUFFICES ASSUME score(l) < score(k) PROVE FALSE
      OBVIOUS
    <3>1. k \in Before(l) BY <2>3 DEF Before
    <3>2. Cardinality(Before(k)) < Cardinality(Before(l)) BY <3>1, BeforeGrows
    <3>3. Cardinality(Before(k)) \in Nat BY BeforeGrows
    <3> QED BY <2>2, <3>2, <3>3
  <2> QED BY <2>1, <2>2, <2>3, <2>4
<1>4. IsFiniteSet(Kept) /\ Cardinality(Kept) \in Nat /\ KeptLength = Cardinality(Kept)
      /\ Cardinality(Kept) <= n
  <2>1. IsFiniteSet(1 .. n) /\ Cardinality(1 .. n) = n
    BY <1>1, IntervalSize
  <2>2. Kept \in SUBSET (1 .. n) BY <1>1
  <2> QED BY <2>1, <2>2, FS_Subset, FS_CardinalityType DEF KeptLength
\* The positions within the limit are kept, and no others.
<1>5. ASSUME NEW m \in Nat, 1 .. m \subseteq Kept PROVE m <= KeptLength
  <2>1. IsFiniteSet(1 .. m) /\ Cardinality(1 .. m) = m
    BY IntervalSize
  <2> QED BY <1>4, <1>5, <2>1, FS_Subset
<1>6. KeptLength <= FilesToLocalize
  <2>1. IsFiniteSet(1 .. FilesToLocalize) /\ Cardinality(1 .. FilesToLocalize) = FilesToLocalize
    BY <1>1, IntervalSize
  <2>2. Kept \in SUBSET (1 .. FilesToLocalize) BY <1>1
  <2> QED BY <1>4, <2>1, <2>2, FS_Subset
<1>7. DOMAIN localized = 1 .. KeptLength /\ Len(localized) = KeptLength
      /\ \A q \in 1 .. KeptLength : localized[q] = Sorted[q]
  <2>1. Sorted \in Seq(Range(AllFiles))
    <3>1. \A q \in D : Sorted[q] \in Range(AllFiles)
      <4> SUFFICES ASSUME NEW q \in D PROVE Sorted[q] \in Range(AllFiles)
        OBVIOUS
      <4>1. PICK l \in D : Sorted[q] = AllFiles[l] BY RanksAreTaken
      <4> QED BY <4>1 DEF Range
    <3>2. Sorted = [q \in 1 .. n |-> Sorted[q]] BY <1>1 DEF Sorted
    <3> QED BY <1>1, <3>1, <3>2
  <2>2. Len(Sorted) = n BY <1>1 DEF Sorted
  <2>3. KeptLength \in Nat /\ KeptLength <= n BY <1>4
  <2> HIDE DEF n
  <2> QED BY <2>1, <2>2, <2>3
<1>8. CASE r <= FilesToLocalize
  <2>1. 1 .. r \subseteq Kept BY <1>1, <1>2, <1>3, <1>8
  <2>2. r <= KeptLength BY <1>1, <1>2, <1>5, <2>1
  <2>3. PICK l \in D : Cardinality(Before(l)) = r - 1 /\ Sorted[r] = AllFiles[l]
    BY <1>2, RanksAreTaken
  <2>4. l = k
    <3> SUFFICES ASSUME l # k PROVE FALSE
      OBVIOUS
    <3>1. Cardinality(Before(l)) < Cardinality(Before(k))
          \/ Cardinality(Before(k)) < Cardinality(Before(l))
      BY BeforeGrows
    <3>2. Cardinality(Before(k)) \in Nat BY BeforeGrows
    <3> QED BY <2>3, <3>1, <3>2
  <2>5. r \in 1 .. KeptLength BY <1>1, <1>2, <1>4, <2>2
  <2>6. localized[r] = AllFiles[k] /\ r \in DOMAIN localized
    BY <1>7, <2>3, <2>4, <2>5
  <2> QED BY <2>6 DEF Range
<1>9. CASE ~(r <= FilesToLocalize)
  <2>1. 1 .. FilesToLocalize \subseteq Kept BY <1>1, <1>2, <1>3, <1>9
  <2>2. FilesToLocalize <= KeptLength BY <1>1, <1>5, <2>1
  <2> QED BY <1>1, <1>4, <1>6, <1>7, <2>2
<1> QED BY <1>8, <1>9

---------------------------------------------------------------------------
\* The ranking depends on the coverage and on the verdicts.
LEMMA RankingKept ==
    ASSUME UNCHANGED <<coverage, passedTests>>
    PROVE  Sorted' = Sorted /\ KeptLength' = KeptLength
<1>1. \A s : LineScore(s)' = LineScore(s)
  BY DEF LineScore, FailureShare, passedStmt, failedStmt, totalPassed, totalFailed, FailedTests
<1>2. \A f : AllLines(f)' = AllLines(f) BY DEF AllLines
<1>3. \A f : FileScore(f)' = FileScore(f)
  BY <1>1, <1>2 DEF FileScore, MapThenSumSet, MapThenFoldSet
<1>4. \A k : Before(k)' = Before(k) BY <1>3 DEF Before
<1>5. Sorted' = Sorted
  <2> DEFINE place(r) == CHOOSE k \in DOMAIN AllFiles : Cardinality(Before(k)) = r - 1
  <2>1. \A r : place(r)' = place(r) BY <1>4
  <2>2. Sorted = [r \in DOMAIN AllFiles |-> AllFiles[place(r)]]
        /\ Sorted' = [r \in DOMAIN AllFiles |-> AllFiles[place(r)']]
    BY DEF Sorted
  <2> HIDE DEF place
  <2> QED BY <2>1, <2>2
<1> QED BY <1>3, <1>5 DEF KeptLength

LEMMA InitLInv == Init => LInv
BY InitInv, LocalizationAssumption
DEF Init, LInv, CountersHold, CoverageHolds, Ranked, Tests

LEMMA StepLInv == LInv /\ [Next]_vars => LInv'
<1> SUFFICES ASSUME LInv, [Next]_vars PROVE LInv'
  OBVIOUS
<1>i. IInv /\ IInv' BY StepInv DEF LInv
<1>s. Shapes /\ Shapes' BY <1>i DEF IInv
<1>1. ASSUME NEW result \in {"PASS", "FAIL", "TIMEOUT"}, NEW ran \in SUBSET Statements,
             NEW flushed \in SUBSET Statements, ExecuteTest(result, ran, flushed)
      PROVE  LInv'
  <2>1. /\ i \in Tests /\ i \in Nat /\ pc = "test"
        /\ counters' = counters \cup flushed
        /\ executed' = [executed EXCEPT ![i] = ran]
        /\ lost' = IF flushed = ran THEN lost ELSE lost \cup {i}
        /\ passedTests' = IF result = "PASS" THEN passedTests \cup {i} ELSE passedTests
        /\ UNCHANGED <<coverage, localized, firstPackage>>
    BY <1>1, <1>s, LocalizationAssumption DEF ExecuteTest, MoreTests, Shapes, Tests
  <2>2. \/ i' = i + 1 /\ pc' = "test" /\ skipped' = skipped \cup {i}
        \/ i' = i /\ pc' = "extract" /\ skipped' = skipped
    BY <1>1 DEF ExecuteTest
  <2>3. executed'[i] = ran /\ \A t \in Tests : t # i => executed'[t] = executed[t]
    BY <2>1, <1>s DEF Shapes
  <2>4. CountersHold' BY <1>1, <2>1, <2>2, <2>3 DEF CountersHold, ExecuteTest
  <2>5. CoverageHolds'
    <3> SUFFICES ASSUME NEW t \in Tests, t < i', t \notin lost' \cup skipped'
                 PROVE  Visited(executed'[t]) \subseteq coverage[t]
      BY <2>1 DEF CoverageHolds, Visited
    <3>1. t < i /\ t # i BY <2>1, <2>2 DEF Tests
    <3> QED BY <2>1, <2>2, <2>3, <3>1 DEF LInv, CoverageHolds
  <2>6. Ranked' BY <2>2 DEF Ranked
  <2> QED BY <1>i, <2>1, <2>4, <2>5, <2>6 DEF LInv
<1>2. CASE ExtractCoverage
  <2>1. /\ i \in Tests /\ i \in Nat /\ pc = "extract" /\ pc' = "test" /\ i' = i + 1
        /\ coverage' = [coverage EXCEPT ![i] = Visited(counters)]
        /\ UNCHANGED <<executed, lost, skipped, passedTests, firstPackage>>
    BY <1>2, <1>s DEF ExtractCoverage, histVars, Shapes, Tests
  <2>2. CoverageHolds'
    <3> SUFFICES ASSUME NEW t \in Tests, t < i + 1, t \notin lost \cup skipped
                 PROVE  Visited(executed[t]) \subseteq coverage'[t]
      BY <2>1 DEF CoverageHolds, Visited
    <3>1. CASE t = i
      BY <2>1, <3>1, <1>s DEF LInv, CountersHold, Visited, Shapes
    <3>2. CASE t # i
      <4>1. t < i BY <2>1, <3>2 DEF Tests
      <4> QED BY <2>1, <3>2, <4>1, <1>s DEF LInv, CoverageHolds, Shapes
    <3> QED BY <3>1, <3>2
  <2> QED BY <1>i, <2>1, <2>2 DEF LInv, CountersHold, Ranked
<1>3. CASE ExtractionFails
  <2>1. /\ i \in Tests /\ i \in Nat /\ pc' = "test" /\ i' = i + 1 /\ skipped' = skipped \cup {i}
        /\ UNCHANGED <<coverage, executed, lost, passedTests, firstPackage>>
    BY <1>3, <1>s DEF ExtractionFails, Shapes, Tests
  <2>2. CoverageHolds'
    <3> SUFFICES ASSUME NEW t \in Tests, t < i + 1, t \notin lost \cup skipped \cup {i}
                 PROVE  Visited(executed[t]) \subseteq coverage[t]
      BY <2>1 DEF CoverageHolds, Visited
    <3>1. t < i BY <2>1 DEF Tests
    <3> QED BY <3>1 DEF LInv, CoverageHolds
  <2> QED BY <1>i, <2>1, <2>2 DEF LInv, CountersHold, Ranked
<1>4. CASE Localize
  <2>1. /\ i' = i /\ i = NumTests /\ pc' = "done"
        /\ localized' = SubSeq(Sorted, 1, KeptLength)
        /\ UNCHANGED <<coverage, passedTests, executed, lost, skipped, firstPackage>>
    BY <1>4, <1>s, LocalizationAssumption DEF Localize, MoreTests, histVars, Shapes
  <2>2. Ranked'
    <3>1. Sorted' = Sorted /\ KeptLength' = KeptLength BY <2>1, RankingKept
    <3> QED BY <2>1, <3>1 DEF Ranked
  <2> QED BY <1>i, <2>1, <2>2 DEF LInv, CountersHold, CoverageHolds, Visited
<1>5. CASE UNCHANGED vars
  <2>1. UNCHANGED <<pc, i, counters, coverage, passedTests, localized, firstPackage, executed,
                    lost, skipped>>
    BY <1>5 DEF vars, histVars
  <2>2. Sorted' = Sorted /\ KeptLength' = KeptLength BY <2>1, RankingKept
  <2> QED BY <1>i, <2>1, <2>2 DEF LInv, CountersHold, CoverageHolds, Visited, Ranked
<1> QED BY <1>1, <1>2, <1>3, <1>4, <1>5 DEF Next

LEMMA InvLocalized == FilesListed /\ LInv => FaultLocalizedWhenEnding
<1> SUFFICES ASSUME FilesListed, LInv, timedOut = {},
                    \A s \in Statements : FileOf[s] \in firstPackage,
                    pc = "done", lost \subseteq timedOut, skipped \subseteq timedOut,
                    FailedTests # {}, NEW s \in Statements, Fault(s)
             PROVE  FileOf[s] \in Range(localized) \/ Len(localized) = FilesToLocalize
  BY DEF FaultLocalizedWhenEnding, FaultLocalized
<1>1. Scored BY DEF LInv, IInv, Shapes, Scored
<1>2. \A t \in FailedTests : s \in coverage[t]
  <2> SUFFICES ASSUME NEW t \in FailedTests PROVE s \in coverage[t]
    OBVIOUS
  <2>1. t \in Tests /\ t < i BY LocalizationAssumption DEF FailedTests, LInv, Ranked, Tests
  <2>2. s \in executed[t] BY DEF Fault
  <2>3. Visited(executed[t]) \subseteq coverage[t] BY <2>1 DEF LInv, CoverageHolds
  <2>4. executed[t] \subseteq Statements BY <2>1 DEF LInv, IInv, Shapes
  <2> QED BY <2>2, <2>3, <2>4 DEF Visited
<1>3. LineScore(s) > 0 BY <1>1, <1>2, LineScores
<1>4. s \in AllLines(FileOf[s]) BY <1>2 DEF AllLines, FailedTests
<1>5. FileScore(FileOf[s]) > 0 BY <1>1, <1>3, <1>4, FileScores
<1>6. PICK k \in DOMAIN AllFiles : AllFiles[k] = FileOf[s] BY FilesCollected DEF FilesListed, Range
<1> QED BY <1>1, <1>5, <1>6, RankedFilesReturned DEF LInv, Ranked

\* When the tests end by themselves, their counters are written and read, and
\* the files are of one directory and of the compilation database, the file of a
\* statement that every failing test has executed is returned, or the limit is
\* full: for any number of tests, statements and files, and any ties.
THEOREM FaultIsLocalized == FilesListed /\ Spec => []FaultLocalizedWhenEnding
<1> SUFFICES ASSUME FilesListed PROVE Spec => []FaultLocalizedWhenEnding
  OBVIOUS
<1>1. LInv => FaultLocalizedWhenEnding BY InvLocalized
<1> QED BY InitLInv, StepLInv, <1>1, PTL DEF Spec
===========================================================================
