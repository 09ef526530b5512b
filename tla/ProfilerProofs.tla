--------------------------- MODULE ProfilerProofs ---------------------------
(***************************************************************************)
(* Proofs about Profiler for any number of tests, processes and traces:    *)
(* what the lists of tests hold, and in which order.                       *)
(***************************************************************************)
EXTENDS Profiler, TLAPS

\* Failing tests merged so far.
Known == {t \in negative : t < i}

Shapes ==
    /\ pc \in {"clear", "run", "lines", "done", "noNegative"}
    /\ i \in 0 .. NumTests /\ (pc \in {"run", "lines"} => i \in Tests)
    /\ (pc = "done" => i = NumTests)
    /\ trace \in Seq(Locations) /\ isPassing \in BOOLEAN
    /\ line \in Nat \ {0} /\ (pc = "lines" => line <= Len(trace) + 1)
    /\ covered \in SUBSET Locations
    /\ related \in [Locations -> Seq(Tests)]
    /\ interesting \in SUBSET Locations /\ profile \in SUBSET Locations
    /\ coverage \in [Tests -> SUBSET Locations] /\ negative \in SUBSET Tests
    /\ fault \in SUBSET Locations

\* The trace is what the test at hand has covered, and covered what of it has
\* been merged.
TraceIsCoverage ==
    /\ pc \in {"run", "lines"} => coverage[i] = {trace[k] : k \in 1 .. Len(trace)}
    /\ pc = "lines" => covered = {trace[k] : k \in 1 .. line - 1}

\* Tests that are still to come have failed nowhere and are in no list.
NothingAhead ==
    /\ \A t \in Tests : t > i \/ (t = i /\ pc = "clear") => coverage[t] = {}
    /\ \A t \in negative : t < i \/ (t = i /\ pc = "lines" /\ ~isPassing)
    /\ pc = "lines" /\ ~isPassing => i \in negative
    /\ \A l \in Locations : \A t \in TestsOf(related[l]) : t < i \/ (t = i /\ pc = "lines")

\* The lists of the locations merged so far hold the test.
Merged == pc = "lines" => \A l \in covered : i \in TestsOf(related[l])

\* An interesting location has a list that begins with a failing test.
InterestingTested ==
    \A l \in interesting : related[l] # <<>> /\ related[l][1] \in negative

\* What the lists hold if the failing tests have a location in common.
Complete ==
    fault # {} =>
        \A l \in Locations : (Known = {} \/ l \in interesting) =>
            \A t \in 0 .. i - 1 : l \in coverage[t] => t \in TestsOf(related[l])
Intersection ==
    fault # {} =>
        /\ Known = {} => interesting = {}
        /\ Known # {} => interesting = {l \in Locations : \A t \in Known : l \in coverage[t]}
FaultReached == \A t \in negative : fault \subseteq coverage[t]

IInv ==
    /\ Shapes /\ TraceIsCoverage /\ NothingAhead /\ Merged
    /\ FailingFirst /\ RelatedSound /\ InterestingTested /\ ProfileTested
    /\ Complete /\ Intersection /\ FaultReached

---------------------------------------------------------------------------
\* Insert adds the test and nothing else, to the end that its outcome asks for.
LEMMA InsertAdds ==
    ASSUME i \in Tests, isPassing \in BOOLEAN, NEW s \in Seq(Tests)
    PROVE  Insert(s) \in Seq(Tests) /\ TestsOf(Insert(s)) = TestsOf(s) \cup {i}
<1>1. CASE i \in TestsOf(s)
  BY <1>1 DEF Insert
<1>2. CASE i \notin TestsOf(s) /\ isPassing
  <2>1. Insert(s) = Append(s, i) BY <1>2 DEF Insert
  <2>2. /\ Append(s, i) \in Seq(Tests) /\ Len(Append(s, i)) = Len(s) + 1
        /\ \A k \in 1 .. Len(s) : Append(s, i)[k] = s[k]
        /\ Append(s, i)[Len(s) + 1] = i
    OBVIOUS
  <2> QED BY <2>1, <2>2 DEF TestsOf
<1>3. CASE i \notin TestsOf(s) /\ ~isPassing
  <2>1. Insert(s) = <<i>> \o s BY <1>3 DEF Insert
  <2>2. /\ <<i>> \o s \in Seq(Tests) /\ Len(<<i>> \o s) = Len(s) + 1
        /\ (<<i>> \o s)[1] = i
        /\ \A k \in 1 .. Len(s) : (<<i>> \o s)[k + 1] = s[k]
    OBVIOUS
  <2>3. \A k \in 2 .. Len(s) + 1 : (<<i>> \o s)[k] = s[k - 1]
    <3> TAKE k \in 2 .. Len(s) + 1
    <3>1. k - 1 \in 1 .. Len(s) /\ (k - 1) + 1 = k OBVIOUS
    <3> QED BY <3>1, <2>2
  <2>4. TestsOf(<<i>> \o s) \subseteq TestsOf(s) \cup {i}
    <3> SUFFICES ASSUME NEW k \in 1 .. Len(s) + 1
                 PROVE  (<<i>> \o s)[k] \in TestsOf(s) \cup {i}
      BY <2>2 DEF TestsOf
    <3>1. k = 1 \/ (k \in 2 .. Len(s) + 1 /\ k - 1 \in 1 .. Len(s)) OBVIOUS
    <3> QED BY <3>1, <2>2, <2>3 DEF TestsOf
  <2>5. TestsOf(s) \cup {i} \subseteq TestsOf(<<i>> \o s)
    <3>1. SUFFICES ASSUME NEW t \in TestsOf(s) \cup {i}
                   PROVE  \E k \in 1 .. Len(s) + 1 : t = (<<i>> \o s)[k]
      BY <2>2 DEF TestsOf
    <3>2. CASE t = i BY <3>2, <2>2
    <3>3. CASE t # i
      <4>1. PICK k \in 1 .. Len(s) : t = s[k] BY <3>3 DEF TestsOf
      <4>2. k + 1 \in 1 .. Len(s) + 1 OBVIOUS
      <4> QED BY <4>1, <4>2, <2>2
    <3> QED BY <3>2, <3>3
  <2> QED BY <2>1, <2>2, <2>4, <2>5
<1> QED BY <1>1, <1>2, <1>3

Ordered(s) == \A j, k \in 1 .. Len(s) :
                  j < k => s[j] # s[k] /\ (s[k] \in negative => s[j] \in negative)

\* Insert keeps failing tests in front and no test twice.
LEMMA InsertOrders ==
    ASSUME i \in Tests, isPassing \in BOOLEAN, NEW s \in Seq(Tests), Ordered(s),
           isPassing => i \notin negative, ~isPassing => i \in negative
    PROVE  Ordered(Insert(s))
<1>1. CASE i \in TestsOf(s)
  BY <1>1 DEF Insert
<1>2. CASE i \notin TestsOf(s) /\ isPassing
  <2>1. Insert(s) = Append(s, i) BY <1>2 DEF Insert
  <2>2. /\ Len(Append(s, i)) = Len(s) + 1
        /\ \A k \in 1 .. Len(s) : Append(s, i)[k] = s[k]
        /\ Append(s, i)[Len(s) + 1] = i
    OBVIOUS
  <2>3. SUFFICES ASSUME NEW j \in 1 .. Len(s) + 1, NEW k \in 1 .. Len(s) + 1, j < k
                 PROVE  /\ Append(s, i)[j] # Append(s, i)[k]
                        /\ Append(s, i)[k] \in negative => Append(s, i)[j] \in negative
    BY <2>1, <2>2 DEF Ordered
  <2>4. j \in 1 .. Len(s) /\ (k \in 1 .. Len(s) \/ k = Len(s) + 1) BY <2>3
  <2>5. CASE k \in 1 .. Len(s) BY <2>2, <2>3, <2>4, <2>5 DEF Ordered
  <2>6. CASE k = Len(s) + 1 BY <2>2, <2>4, <2>6, <1>2 DEF TestsOf
  <2> QED BY <2>4, <2>5, <2>6
<1>3. CASE i \notin TestsOf(s) /\ ~isPassing
  <2>1. Insert(s) = <<i>> \o s BY <1>3 DEF Insert
  <2>2. /\ Len(<<i>> \o s) = Len(s) + 1 /\ (<<i>> \o s)[1] = i
        /\ \A k \in 1 .. Len(s) : (<<i>> \o s)[k + 1] = s[k]
    OBVIOUS
  <2>3. SUFFICES ASSUME NEW j \in 1 .. Len(s) + 1, NEW k \in 1 .. Len(s) + 1, j < k
                 PROVE  /\ (<<i>> \o s)[j] # (<<i>> \o s)[k]
                        /\ (<<i>> \o s)[k] \in negative => (<<i>> \o s)[j] \in negative
    BY <2>1, <2>2 DEF Ordered
  <2>4. k - 1 \in 1 .. Len(s) /\ (k - 1) + 1 = k BY <2>3
  <2>5. (<<i>> \o s)[k] = s[k - 1] BY <2>2, <2>4
  <2>6. CASE j = 1 BY <2>2, <2>4, <2>5, <2>6, <1>3 DEF TestsOf
  <2>7. CASE j # 1
    <3>1. j - 1 \in 1 .. Len(s) /\ (j - 1) + 1 = j /\ j - 1 < k - 1 BY <2>3, <2>7
    <3>2. (<<i>> \o s)[j] = s[j - 1] BY <2>2, <3>1
    <3> QED BY <2>4, <2>5, <3>1, <3>2 DEF Ordered
  <2> QED BY <2>6, <2>7
<1> QED BY <1>1, <1>2, <1>3
---------------------------------------------------------------------------
LEMMA InitInv == Init => IInv
<1> SUFFICES ASSUME Init PROVE IInv
  OBVIOUS
<1>1. Shapes
  <2>1. <<>> \in Seq(Locations) /\ <<>> \in Seq(Tests) OBVIOUS
  <2>2. related \in [Locations -> Seq(Tests)] BY <2>1 DEF Init
  <2>3. coverage \in [Tests -> SUBSET Locations] BY DEF Init
  <2>4. i \in 0 .. NumTests BY ProfilerAssumption DEF Init
  <2>5. trace \in Seq(Locations) /\ line \in Nat \ {0} BY <2>1 DEF Init
  <2>6. pc \notin {"run", "lines", "done"} /\ pc = "clear" BY DEF Init
  <2>7. /\ isPassing \in BOOLEAN /\ covered \in SUBSET Locations /\ interesting \in SUBSET Locations
        /\ profile \in SUBSET Locations /\ negative \in SUBSET Tests /\ fault \in SUBSET Locations
    BY DEF Init
  <2> QED BY <2>2, <2>3, <2>4, <2>5, <2>6, <2>7 DEF Shapes
<1>5. TraceIsCoverage /\ Merged
  BY DEF Init, TraceIsCoverage, Merged
<1>2. \A l \in Locations : TestsOf(related[l]) = {} /\ Len(related[l]) = 0
  BY DEF Init, TestsOf
<1>3. NothingAhead /\ FailingFirst /\ RelatedSound /\ InterestingTested /\ ProfileTested
  BY <1>2 DEF Init, NothingAhead, FailingFirst, RelatedSound, InterestingTested, ProfileTested
<1>4. Complete /\ Intersection /\ FaultReached
  BY DEF Init, Complete, Intersection, FaultReached, Known
<1> QED BY <1>1, <1>3, <1>4, <1>5 DEF IInv

\* Nothing that the lists say of the tests merged so far changes.
LEMMA TablesKept ==
    ASSUME IInv, UNCHANGED <<i, tableVars, fault>>,
           pc \notin {"lines", "done"}, pc' # "done", pc' = "lines" => covered' = {},
           \A t \in 0 .. i - 1 : coverage'[t] = coverage[t],
           negative' \in SUBSET Tests, negative \subseteq negative', negative' \subseteq negative \cup {i}
    PROVE  /\ Merged' /\ FailingFirst' /\ RelatedSound' /\ InterestingTested' /\ ProfileTested'
           /\ Complete' /\ Intersection' /\ Known' = Known
           /\ \A l \in Locations : \A t \in TestsOf(related'[l]) : t < i
<1> USE DEF IInv, tableVars
<1>0. i \in Nat BY ProfilerAssumption DEF Shapes
<1>1. \A l \in Locations : \A t \in TestsOf(related[l]) : t \in 0 .. i - 1
  <2>1. \A l \in Locations : \A t \in TestsOf(related[l]) : t \in Tests
    BY DEF TestsOf, Shapes
  <2> QED BY <2>1, <1>0, ProfilerAssumption DEF NothingAhead, Tests
<1>2. Known' = Known
  <2>1. \A t \in Tests : t < i => (t \in negative' <=> t \in negative)
    BY <1>0, ProfilerAssumption DEF Tests
  <2> QED BY <2>1 DEF Known, Shapes
<1>3. Merged' BY DEF Merged, TestsOf
<1>4. FailingFirst'
  <2> SUFFICES ASSUME NEW l \in Locations, NEW j \in 1 .. Len(related[l]),
                      NEW k \in 1 .. Len(related[l]), j < k
               PROVE  /\ related[l][j] # related[l][k]
                      /\ related[l][k] \in negative' => related[l][j] \in negative'
    BY DEF FailingFirst
  <2>1. related[l][k] \in 0 .. i - 1 BY <1>1 DEF TestsOf
  <2>2. related[l][k] \in negative' => related[l][k] \in negative BY <2>1, <1>0
  <2> QED BY <2>2 DEF FailingFirst
<1>5. RelatedSound' BY <1>1 DEF RelatedSound
<1>6. InterestingTested' BY DEF InterestingTested
<1>7. ProfileTested' BY DEF ProfileTested
<1>8. Complete' BY <1>2 DEF Complete
<1>9. Intersection'
  <2>1. \A t \in Known : t \in 0 .. i - 1 BY <1>0, ProfilerAssumption DEF Known, Shapes, Tests
  <2> QED BY <1>2, <2>1 DEF Intersection
<1>10. \A l \in Locations : \A t \in TestsOf(related'[l]) : t < i BY <1>0, <1>1
<1> QED BY <1>2, <1>3, <1>4, <1>5, <1>6, <1>7, <1>8, <1>9, <1>10

LEMMA ClearTraceInv == ASSUME IInv, ClearTrace PROVE IInv'
<1> USE DEF IInv, ClearTrace, tableVars, histVars
<1>1. i \in Tests /\ i < NumTests /\ i \in Nat
  BY ProfilerAssumption DEF AllProfiled, Shapes, Tests
<1>2. Shapes' BY <1>1 DEF Shapes, ClearedTrace
<1>3. coverage[i] = {} BY <1>1 DEF NothingAhead
<1>4. TraceIsCoverage'
  BY <1>3 DEF TraceIsCoverage, ClearedTrace
<1>5. negative \in SUBSET Tests BY DEF Shapes
<1>6. /\ Merged' /\ FailingFirst' /\ RelatedSound' /\ InterestingTested' /\ ProfileTested'
      /\ Complete' /\ Intersection'
      /\ \A l \in Locations : \A t \in TestsOf(related'[l]) : t < i
  BY <1>5, TablesKept
<1>7. NothingAhead' BY <1>1, <1>6, ProfilerAssumption DEF NothingAhead, Shapes, Tests
<1>8. FaultReached' BY DEF FaultReached
<1> QED BY <1>2, <1>4, <1>6, <1>7, <1>8

LEMMA TraceInv == ASSUME IInv, NEW l \in Locations, Trace(l) PROVE IInv'
<1> USE DEF IInv, Trace, tableVars
<1>1. i \in Tests /\ i \in Nat BY ProfilerAssumption DEF Shapes, Tests
<1>2. /\ coverage' \in [Tests -> SUBSET Locations] /\ coverage'[i] = coverage[i] \cup {l}
      /\ \A t \in Tests : t # i => coverage'[t] = coverage[t]
  BY <1>1 DEF Shapes
<1>3. \A t \in 0 .. i - 1 : t \in Tests /\ t # i BY <1>1, ProfilerAssumption DEF Tests
<1>4. Shapes' BY <1>2 DEF Shapes
<1>5. TraceIsCoverage'
  <2>1. /\ trace' \in Seq(Locations) /\ Len(trace') = Len(trace) + 1 /\ Len(trace) \in Nat
        /\ \A k \in 1 .. Len(trace) : trace'[k] = trace[k]
        /\ trace'[Len(trace) + 1] = l
    BY DEF Shapes
  <2>2. {trace'[k] : k \in 1 .. Len(trace')} = {trace[k] : k \in 1 .. Len(trace)} \cup {l}
    BY <2>1
  <2> QED BY <1>2, <2>2 DEF TraceIsCoverage
<1>6. negative \in SUBSET Tests BY DEF Shapes
<1>7. /\ Merged' /\ FailingFirst' /\ RelatedSound' /\ InterestingTested' /\ ProfileTested'
      /\ Complete' /\ Intersection'
      /\ \A m \in Locations : \A t \in TestsOf(related'[m]) : t < i
  BY <1>2, <1>3, <1>6, TablesKept
<1>8. NothingAhead' BY <1>1, <1>2, <1>7, ProfilerAssumption DEF NothingAhead, Shapes, Tests
<1>9. FaultReached' BY <1>2, <1>6 DEF FaultReached
<1> QED BY <1>4, <1>5, <1>7, <1>8, <1>9

LEMMA NewProcessInv == ASSUME IInv, NewProcess PROVE IInv'
<1> USE DEF IInv, NewProcess, tableVars, histVars
<1>1. Shapes' /\ TraceIsCoverage' /\ FaultReached' BY DEF Shapes, TraceIsCoverage, FaultReached
<1>2. negative \in SUBSET Tests BY DEF Shapes
<1>3. /\ Merged' /\ FailingFirst' /\ RelatedSound' /\ InterestingTested' /\ ProfileTested'
      /\ Complete' /\ Intersection'
  BY <1>2, TablesKept
<1>4. NothingAhead' BY DEF NothingAhead
<1> QED BY <1>1, <1>3, <1>4

LEMMA TestEndsInv == ASSUME IInv, NEW passes \in BOOLEAN, TestEnds(passes) PROVE IInv'
<1> USE DEF IInv, TestEnds, tableVars, progVars
<1>1. i \in Tests /\ i \in Nat BY ProfilerAssumption DEF Shapes, Tests
<1>2. negative' \in SUBSET Tests /\ negative \subseteq negative' /\ negative' \subseteq negative \cup {i}
  BY <1>1 DEF Shapes
<1>3. Shapes' BY <1>1, <1>2 DEF Shapes
<1>4. TraceIsCoverage' BY DEF TraceIsCoverage
<1>5. /\ Merged' /\ FailingFirst' /\ RelatedSound' /\ InterestingTested' /\ ProfileTested'
      /\ Complete' /\ Intersection'
      /\ \A l \in Locations : \A t \in TestsOf(related'[l]) : t < i
  BY <1>2, TablesKept
<1>6. NothingAhead'
  <2>1. \A t \in negative : t < i BY <1>1 DEF NothingAhead
  <2>2. \A t \in negative' : t < i \/ (t = i /\ ~passes) BY <2>1
  <2> QED BY <1>1, <1>5, <2>2 DEF NothingAhead, Shapes
<1>7. FaultReached' BY <1>2 DEF FaultReached
<1> QED BY <1>3, <1>4, <1>5, <1>6, <1>7

LEMMA MergeLineInv == ASSUME IInv, MergeLine PROVE IInv'
<1> USE DEF IInv, MergeLine, progVars, histVars
<1>1. i \in Tests /\ i \in Nat /\ isPassing \in BOOLEAN
  BY ProfilerAssumption DEF Shapes, Tests
<1> DEFINE l == trace[line]
           old == related[l]
<1>2. line \in 1 .. Len(trace) /\ Len(trace) \in Nat /\ l \in Locations /\ old \in Seq(Tests)
  BY DEF Shapes
<1>3. /\ related' \in [Locations -> Seq(Tests)] /\ related'[l] = Insert(old)
      /\ \A m \in Locations : m # l => related'[m] = related[m]
  BY <1>1, <1>2, InsertAdds DEF Shapes
<1>4. TestsOf(related'[l]) = TestsOf(old) \cup {i} BY <1>1, <1>2, <1>3, InsertAdds
<1>5. \A m \in Locations : /\ TestsOf(related[m]) \subseteq TestsOf(related'[m])
                           /\ TestsOf(related'[m]) \subseteq TestsOf(related[m]) \cup {i}
  BY <1>3, <1>4
<1>6. Shapes'
  <2>1. line' \in Nat \ {0} /\ line' <= Len(trace) + 1 BY <1>2
  <2>2. covered' \in SUBSET Locations BY <1>2 DEF Shapes
  <2> QED BY <1>3, <2>1, <2>2 DEF Shapes
<1>7. TraceIsCoverage'
  <2>1. covered' = {trace[k] : k \in 1 .. line' - 1}
    <3>1. \A k : k \in 1 .. line' - 1 <=> (k \in 1 .. line - 1 \/ k = line) BY <1>2
    <3> QED BY <3>1 DEF TraceIsCoverage
  <2> QED BY <2>1 DEF TraceIsCoverage
<1>8. NothingAhead' BY <1>5 DEF NothingAhead
<1>9. Merged' BY <1>4, <1>5, <1>6 DEF Merged, Shapes
<1>10. FailingFirst'
  <2>1. (isPassing => i \notin negative) /\ (~isPassing => i \in negative)
    BY <1>1 DEF NothingAhead
  <2>2. \A m \in Locations : Ordered(related[m]) BY DEF FailingFirst, Ordered
  <2>3. Ordered(Insert(old)) BY <1>1, <1>2, <2>1, <2>2, InsertOrders
  <2>4. \A m \in Locations : Ordered(related'[m])
    <3> TAKE m \in Locations
    <3>1. CASE m = l BY <1>3, <2>3, <3>1
    <3>2. CASE m # l BY <1>3, <2>2, <3>2
    <3> QED BY <3>1, <3>2
  <2> QED BY <2>4 DEF FailingFirst, Ordered
<1>11. RelatedSound'
  <2>1. l \in coverage[i] BY <1>2 DEF TraceIsCoverage
  <2> SUFFICES ASSUME NEW m \in Locations, NEW t \in TestsOf(related'[m])
               PROVE  m \in coverage[t]
    BY DEF RelatedSound
  <2>2. CASE t \in TestsOf(related[m]) BY <2>2 DEF RelatedSound
  <2>3. CASE t \notin TestsOf(related[m]) BY <1>3, <1>4, <2>1, <2>3
  <2> QED BY <2>2, <2>3
<1>12. InterestingTested'
  <2> SUFFICES ASSUME NEW m \in interesting
               PROVE  related'[m] # <<>> /\ related'[m][1] \in negative
    BY DEF InterestingTested
  <2>1. related[m] # <<>> /\ related[m][1] \in negative /\ m \in Locations
    BY DEF InterestingTested, Shapes
  <2>2. CASE m # l BY <1>3, <2>1, <2>2
  <2>3. CASE m = l
    <3>1. related'[m] = Insert(old) /\ old # <<>> /\ old[1] \in negative BY <1>3, <2>1, <2>3
    <3>2. CASE i \in TestsOf(old) BY <3>1, <3>2 DEF Insert
    <3>3. CASE i \notin TestsOf(old) /\ isPassing
      <4>1. Insert(old) = Append(old, i) BY <3>3 DEF Insert
      <4>2. Append(old, i) # <<>> /\ Append(old, i)[1] = old[1] BY <1>1, <1>2, <3>1
      <4> QED BY <3>1, <4>1, <4>2
    <3>4. CASE i \notin TestsOf(old) /\ ~isPassing
      <4>1. Insert(old) = <<i>> \o old BY <3>4 DEF Insert
      <4>2. <<i>> \o old # <<>> /\ (<<i>> \o old)[1] = i BY <1>1, <1>2
      <4>3. i \in negative BY <3>4 DEF NothingAhead
      <4> QED BY <3>1, <4>1, <4>2, <4>3
    <3> QED BY <3>2, <3>3, <3>4
  <2> QED BY <2>2, <2>3
<1>13. ProfileTested' BY DEF ProfileTested
<1>14. Known' = Known BY DEF Known
<1>15. Complete' BY <1>5, <1>14 DEF Complete
<1>16. Intersection' /\ FaultReached' BY <1>14 DEF Intersection, FaultReached
<1> QED BY <1>6, <1>7, <1>8, <1>9, <1>10, <1>11, <1>12, <1>13, <1>15, <1>16

\* What MergeTest leaves of a list is the list or nothing.
LEMMA MergeTestInv == ASSUME IInv, MergeTest PROVE IInv'
<1> USE DEF IInv, progVars, histVars
<1>1. /\ pc = "lines" /\ line > Len(trace) /\ i' = i + 1 /\ pc' = "clear"
      /\ UNCHANGED <<trace, isPassing, line, covered, profile, coverage, negative, fault>>
  BY DEF MergeTest
<1>2. i \in Tests /\ i \in Nat /\ i' \in 0 .. NumTests /\ isPassing \in BOOLEAN
  BY <1>1, ProfilerAssumption DEF Shapes, Tests
<1>3. covered = coverage[i]
  <2>1. Len(trace) \in Nat /\ line = Len(trace) + 1 BY <1>1 DEF Shapes
  <2>2. \A k : k \in 1 .. line - 1 <=> k \in 1 .. Len(trace) BY <2>1
  <2> QED BY <1>1, <2>2 DEF TraceIsCoverage
<1>4. \A l \in Locations : related'[l] = related[l] \/ related'[l] = <<>>
  BY <1>1 DEF MergeTest, Keep, Shapes
<1>5. related' \in [Locations -> Seq(Tests)]
  <2>1. <<>> \in Seq(Tests) OBVIOUS
  <2> QED BY <2>1 DEF MergeTest, Keep, Shapes
<1>6. interesting' \in SUBSET Locations BY DEF MergeTest, Narrowed, Shapes
<1>7. Shapes' BY <1>1, <1>2, <1>5, <1>6 DEF Shapes
<1>8. TraceIsCoverage' /\ Merged' /\ ProfileTested' BY <1>1 DEF TraceIsCoverage, Merged, ProfileTested
<1>9. TestsOf(<<>>) = {} /\ Len(<<>>) = 0 BY DEF TestsOf
<1>10. \A l \in Locations : TestsOf(related'[l]) \subseteq TestsOf(related[l]) BY <1>4, <1>9
<1>11. \A t \in Tests : t \in Int BY ProfilerAssumption DEF Tests
<1>12. NothingAhead'
  <2>1. \A t \in Tests : t > i' \/ t = i' => coverage[t] = {} BY <1>1, <1>2, <1>11 DEF NothingAhead
  <2>2. \A t \in negative : t < i' BY <1>1, <1>2, <1>11 DEF NothingAhead, Shapes
  <2>3. \A l \in Locations : \A t \in TestsOf(related'[l]) : t < i'
    <3> TAKE l \in Locations
    <3> TAKE t \in TestsOf(related'[l])
    <3>1. t \in TestsOf(related[l]) BY <1>10
    <3>2. related[l] \in Seq(Tests) BY DEF Shapes
    <3>3. t \in Int BY <1>11, <3>1, <3>2 DEF TestsOf
    <3>4. t < i \/ t = i BY <1>1, <3>1 DEF NothingAhead
    <3> QED BY <1>1, <1>2, <3>3, <3>4
  <2> QED BY <1>1, <2>1, <2>2, <2>3 DEF NothingAhead
<1>13. FailingFirst' BY <1>1, <1>4, <1>9 DEF FailingFirst
<1>14. RelatedSound' BY <1>1, <1>10 DEF RelatedSound
<1>15. FaultReached' BY <1>1 DEF FaultReached
<1>16. CASE isPassing
  <2>1. UNCHANGED <<related, interesting>> BY <1>16 DEF MergeTest
  <2>2. i \notin negative BY <1>1, <1>2, <1>16 DEF NothingAhead
  <2>3. Known' = Known
    <3>1. \A t \in negative : t < i' <=> t < i BY <1>1, <1>2, <1>11, <2>2 DEF Shapes
    <3> QED BY <1>1, <3>1 DEF Known
  <2>4. InterestingTested' BY <1>1, <2>1 DEF InterestingTested
  <2>5. \A l \in Locations : l \in coverage[i] => i \in TestsOf(related[l])
    BY <1>1, <1>3 DEF Merged
  <2>6. Complete'
    <3>1. \A t \in 0 .. i' - 1 : t \in 0 .. i - 1 \/ t = i BY <1>1, <1>2
    <3> QED BY <1>1, <2>1, <2>3, <2>5, <3>1 DEF Complete
  <2>7. Intersection' BY <1>1, <2>1, <2>3 DEF Intersection
  <2> QED BY <1>7, <1>8, <1>12, <1>13, <1>14, <1>15, <2>4, <2>6, <2>7
<1>17. CASE ~isPassing
  <2>1. i \in negative BY <1>1, <1>17 DEF NothingAhead
  <2>2. Known' = Known \cup {i}
    <3>1. \A t \in negative : t < i' <=> (t < i \/ t = i) BY <1>1, <1>2, <1>11 DEF Shapes
    <3> QED BY <1>1, <2>1, <3>1 DEF Known
  <2>3. \A l \in covered : related[l] # <<>> /\ related[l][1] \in negative
    <3> TAKE l \in covered
    <3>1. l \in Locations /\ related[l] \in Seq(Tests) BY DEF Shapes
    <3>2. PICK k \in 1 .. Len(related[l]) : i = related[l][k] BY <1>1 DEF Merged, TestsOf
    <3>3. Len(related[l]) \in Nat /\ 1 \in 1 .. Len(related[l]) BY <3>1, <3>2
    <3>4. related[l] # <<>> BY <3>3
    <3>5. CASE k = 1 BY <2>1, <3>2, <3>4, <3>5
    <3>6. CASE k # 1 BY <2>1, <3>1, <3>2, <3>3, <3>4, <3>6 DEF FailingFirst
    <3> QED BY <3>5, <3>6
  <2>4. interesting' \subseteq covered BY <1>17 DEF MergeTest, Narrowed
  <2>5. \A l \in interesting' : related'[l] = related[l]
    BY <1>6, <1>17, <2>4 DEF MergeTest, Keep
  <2>6. InterestingTested' BY <1>1, <2>3, <2>4, <2>5 DEF InterestingTested
  <2>7. \A t \in 0 .. i' - 1 : t \in 0 .. i - 1 \/ t = i BY <1>1, <1>2
  <2>8. \A t \in Known : t \in negative BY DEF Known
  <2>9. fault # {} /\ interesting = {} => Known = {}
    BY <2>8 DEF Intersection, FaultReached, Shapes
  <2>10. fault # {} /\ interesting # {} => Known # {} BY DEF Intersection
  <2>11. Complete'
    <3> SUFFICES ASSUME fault # {}, NEW l \in interesting', NEW t \in 0 .. i' - 1,
                        l \in coverage[t]
                 PROVE  t \in TestsOf(related[l])
      BY <1>1, <1>6, <2>2, <2>5 DEF Complete
    <3>1. l \in Locations BY <1>6
    <3>2. CASE t = i BY <1>1, <2>4, <3>2 DEF Merged
    <3>3. CASE t \in 0 .. i - 1
      <4>1. Known = {} \/ l \in interesting BY <1>17, <2>9 DEF MergeTest, Narrowed
      <4> QED BY <3>1, <3>3, <4>1 DEF Complete
    <3> QED BY <2>7, <3>2, <3>3
  <2>12. Intersection'
    <3> SUFFICES ASSUME fault # {}
                 PROVE  interesting' = {l \in Locations : \A t \in Known \cup {i} : l \in coverage[t]}
      BY <1>1, <2>2 DEF Intersection
    <3>1. covered = {l \in Locations : l \in coverage[i]} BY <1>3 DEF Shapes
    <3>2. CASE interesting = {}
      <4>1. interesting' = covered BY <1>17, <3>2 DEF MergeTest
      <4>2. Known = {} BY <2>9, <3>2
      <4> QED BY <3>1, <4>1, <4>2
    <3>3. CASE interesting # {}
      <4>1. interesting' = interesting \cap covered BY <1>17, <3>3 DEF MergeTest, Narrowed
      <4>2. interesting = {l \in Locations : \A t \in Known : l \in coverage[t]}
        BY <2>10, <3>3 DEF Intersection
      <4> QED BY <3>1, <4>1, <4>2
    <3> QED BY <3>2, <3>3
  <2> QED BY <1>7, <1>8, <1>12, <1>13, <1>14, <1>15, <2>6, <2>11, <2>12
<1> QED BY <1>2, <1>16, <1>17

LEMMA NoNegativeTestsInv == ASSUME IInv, NoNegativeTests PROVE IInv'
<1> USE DEF IInv, NoNegativeTests, progVars, tableVars, histVars
<1>1. Shapes' /\ TraceIsCoverage' /\ FaultReached' BY DEF Shapes, TraceIsCoverage, FaultReached
<1>2. negative \in SUBSET Tests BY DEF Shapes
<1>3. /\ Merged' /\ FailingFirst' /\ RelatedSound' /\ InterestingTested' /\ ProfileTested'
      /\ Complete' /\ Intersection'
  BY <1>2, TablesKept
<1>4. NothingAhead' BY DEF NothingAhead
<1> QED BY <1>1, <1>3, <1>4

LEMMA GetProfileInv == ASSUME IInv, GetProfile PROVE IInv'
<1> USE DEF IInv, GetProfile, progVars, histVars
<1>1. i = NumTests /\ i \in Nat BY ProfilerAssumption DEF Shapes, AllProfiled
<1>2. /\ related' \in [Locations -> Seq(Tests)]
      /\ \A l \in interesting : related'[l] = related[l]
      /\ \A l \in Locations : l \notin interesting => related'[l] = <<>>
  <2>1. <<>> \in Seq(Tests) OBVIOUS
  <2> QED BY <2>1 DEF Keep, Shapes
<1>3. TestsOf(<<>>) = {} /\ Len(<<>>) = 0 BY DEF TestsOf
<1>4. \A l \in Locations : related'[l] = related[l] \/ related'[l] = <<>> BY <1>2
<1>5. Shapes' BY <1>1, <1>2 DEF Shapes
<1>6. TraceIsCoverage' /\ Merged' /\ FaultReached' BY DEF TraceIsCoverage, Merged, FaultReached
<1>7. NothingAhead'
  <2>1. \A l \in Locations : \A t \in TestsOf(related'[l]) : t < i
    BY <1>3, <1>4 DEF NothingAhead
  <2> QED BY <2>1 DEF NothingAhead
<1>8. FailingFirst' BY <1>3, <1>4 DEF FailingFirst
<1>9. RelatedSound' BY <1>3, <1>4 DEF RelatedSound
<1>10. InterestingTested' BY <1>2 DEF InterestingTested
<1>11. ProfileTested' BY <1>2 DEF ProfileTested, InterestingTested, Shapes
<1>12. Known' = Known /\ Known # {}
  <2>1. \A t \in negative : t < i BY <1>1, ProfilerAssumption DEF Shapes, Tests
  <2> QED BY <2>1 DEF Known
<1>13. Complete' BY <1>2, <1>12 DEF Complete, Shapes
<1>14. Intersection' BY <1>12 DEF Intersection
<1> QED BY <1>5, <1>6, <1>7, <1>8, <1>9, <1>10, <1>11, <1>13, <1>14

LEMMA StepInv == IInv /\ [Next]_vars => IInv'
<1> SUFFICES ASSUME IInv, [Next]_vars PROVE IInv'
  OBVIOUS
<1>1. CASE ClearTrace BY <1>1, ClearTraceInv
<1>2. CASE NewProcess BY <1>2, NewProcessInv
<1>3. CASE MergeLine BY <1>3, MergeLineInv
<1>4. CASE MergeTest BY <1>4, MergeTestInv
<1>5. CASE NoNegativeTests BY <1>5, NoNegativeTestsInv
<1>6. CASE GetProfile BY <1>6, GetProfileInv
<1>7. CASE \E l \in Locations : Trace(l) BY <1>7, TraceInv
<1>8. CASE \E passes \in BOOLEAN : TestEnds(passes) BY <1>8, TestEndsInv
<1>9. CASE UNCHANGED vars
  <2> USE <1>9 DEF vars, progVars, tableVars, histVars, IInv
  <2>1. Shapes' BY DEF Shapes
  <2>2. TraceIsCoverage' /\ NothingAhead' /\ Merged' BY DEF TraceIsCoverage, NothingAhead, Merged
  <2>3. FailingFirst' BY DEF FailingFirst
  <2>4. RelatedSound' /\ InterestingTested' BY DEF RelatedSound, InterestingTested
  <2>5. ProfileTested' BY DEF ProfileTested
  <2>6. Known' = Known BY DEF Known
  <2>7. Complete' /\ Intersection' /\ FaultReached' BY <2>6 DEF Complete, Intersection, FaultReached
  <2> QED BY <2>1, <2>2, <2>3, <2>4, <2>5, <2>7
<1> QED BY <1>1, <1>2, <1>3, <1>4, <1>5, <1>6, <1>7, <1>8, <1>9 DEF Next

LEMMA Inductive == Spec => []IInv
BY InitInv, StepInv, PTL DEF Spec
---------------------------------------------------------------------------
\* relatedTestIndexes holds no test of a location twice, and a failing test
\* stands before every passing one, in the middle of a merge too: a candidate
\* is run on the tests that f1x wants it to fail first.
THEOREM FailingTestsFirst == Spec => []FailingFirst
<1>1. IInv => FailingFirst BY DEF IInv
<1> QED BY <1>1, Inductive, PTL

\* No candidate is run on a test that does not reach its location, however
\* many processes a test runs and however often the lists are erased.
THEOREM RelatedTestsReach == Spec => []RelatedSound
<1>1. IInv => RelatedSound BY DEF IInv
<1> QED BY <1>1, Inductive, PTL

\* If all failing tests reach a common location, mergeTrace's intersection
\* never starts again, and the list of an interesting location holds every
\* profiled test that reaches it: no candidate is accepted untested.
THEOREM RelatedTestsComplete == Spec => []RelatedCompleteWithFault
<1>1. IInv => RelatedCompleteWithFault
  BY DEF IInv, RelatedCompleteWithFault, RelatedComplete, Complete, Shapes
<1> QED BY <1>1, Inductive, PTL

\* Then the interesting locations are those that all failing tests cover, as
\* Profiler.cpp intends.
THEOREM InterestingIsIntersectionAlways == Spec => []InterestingIsIntersection
<1>1. IInv => InterestingIsIntersection
  <2> SUFFICES ASSUME IInv, pc \in {"clear", "done"}, negative # {}, fault # {}
               PROVE  interesting = {l \in Locations : \A t \in negative : l \in coverage[t]}
    BY DEF InterestingIsIntersection
  <2>1. Known = negative BY DEF IInv, NothingAhead, Known, Shapes
  <2> QED BY <2>1 DEF IInv, Intersection
<1> QED BY <1>1, Inductive, PTL

\* The locations of the profile are those with a list, and each list begins
\* with a failing test: the search runs a test for every location.
THEOREM ProfileIsTested == Spec => []ProfileTested
<1>1. IInv => ProfileTested BY DEF IInv
<1> QED BY <1>1, Inductive, PTL
=============================================================================
