---------------------- MODULE TestEquivalenceProofs ----------------------
(***************************************************************************)
(* Proofs about SearchEngine for every search space, every set of tests    *)
(* and locations, every profile and every configuration: whatever          *)
(* partitions are read, tests are only permuted and no recorded outcome is *)
(* recomputed; and if partitions are sound, so are the tables, and the     *)
(* search yields exactly the plausible candidates (it implements           *)
(* PlausibleSearch).  Partitions are sound under SoundPartitions, where no *)
(* test is killed, and under what is proved of the buffer.                 *)
(*                                                                         *)
(* Proofs about TestEquivalence, for every deterministic program, search   *)
(* space and buffer: what findNext reads back from the buffer after a test *)
(* is a partition that SearchEngine may draw, so that the two together     *)
(* implement SearchEngine; and unless a test is killed inside the          *)
(* generated function, all candidates of it have the outcome of the        *)
(* executed one, so that exactly the plausible candidates are found.       *)
(***************************************************************************)
EXTENDS TestEquivalence, TLAPS


\* The list the candidate at hand is run over is its location's list as it is
\* now, and its outcome was not known when it was started.
ListAtHand ==
    pc = "tests" => /\ testOrder = related[LocationOf[index]]
                    /\ cfg.valueTEQ => index \notin failing

\* Every candidate some partition contained is in a table.
MergedRecorded ==
    \A t \in Tests : /\ merged[t] \subseteq passing[t] \cup failing
                     /\ ~cfg.valueTEQ => merged[t] = {}

\* What holds for any partitions.
Bookkeeping == TypeOK /\ RelatedPermuted /\ ListAtHand /\ MergedRecorded

\* The candidate at hand passed the tests before the current position.
PassedSoFar ==
    pc = "tests" => \A k \in 1 .. orderIndex - 1 : verdict[index][testOrder[k]] = "PASS"

\* Between what findNext has returned and the loop variable lie only
\* candidates that are not plausible.
Progress ==
    /\ \A c \in found : c < next
    /\ pc \in {"caller", "explore", "tests"} =>
          next <= index /\ \A c \in next .. index - 1 : ~Plausible(c)
    /\ pc = "found" => next = index + 1

\* What holds while partitions are sound.
Sound == TablesSound /\ FoundExactly /\ PassedSoFar /\ Progress

\* The partition read for the test at hand holds candidates of the application
\* that have the outcome of the executed one.
SoundPartition(part) ==
    /\ part \subseteq Partitionable(index)
    /\ cfg.valueTEQ => \A d \in part : verdict[d][NextTest] = verdict[index][NextTest]

---------------------------------------------------------------------------
\* prioritizeTest permutes: same length, same tests, position i in front.
LEMMA MoveToFrontPermutes ==
    ASSUME NEW S, NEW s \in Seq(S), NEW i \in 1 .. Len(s)
    PROVE  /\ MoveToFront(s, i) \in Seq(S)
           /\ Len(MoveToFront(s, i)) = Len(s)
           /\ TestsOf(MoveToFront(s, i)) = TestsOf(s)
           /\ MoveToFront(s, i)[1] = s[i]
<1> DEFINE m == MoveToFront(s, i)
<1>1. /\ m = [j \in 1 .. Len(s) |-> IF j = 1 THEN s[i] ELSE IF j <= i THEN s[j - 1] ELSE s[j]]
      /\ Len(s) \in Nat
  BY DEF MoveToFront
<1>2. \A j \in 1 .. Len(s) : m[j] \in S BY <1>1
<1>3. m \in Seq(S) /\ Len(m) = Len(s) BY <1>1, <1>2
<1>4. ASSUME NEW x \in TestsOf(m) PROVE x \in TestsOf(s)
  <2>1. PICK j \in 1 .. Len(s) : x = m[j] BY <1>3, <1>4 DEF TestsOf
  <2>2. \E k \in 1 .. Len(s) : m[j] = s[k] BY <1>1
  <2> QED BY <2>1, <2>2 DEF TestsOf
<1>5. ASSUME NEW x \in TestsOf(s) PROVE x \in TestsOf(m)
  <2>1. PICK j \in 1 .. Len(s) : x = s[j] BY <1>5 DEF TestsOf
  <2>2. CASE j = i
    <3>1. m[1] = s[j] /\ 1 \in 1 .. Len(m) BY <1>1, <1>3, <2>2
    <3> QED BY <2>1, <3>1 DEF TestsOf
  <2>3. CASE j < i
    <3>1. m[j + 1] = s[j] /\ j + 1 \in 1 .. Len(m) BY <1>1, <1>3, <2>3
    <3> QED BY <2>1, <3>1 DEF TestsOf
  <2>4. CASE j > i
    <3>1. m[j] = s[j] /\ j \in 1 .. Len(m) BY <1>1, <1>3, <2>4
    <3> QED BY <2>1, <3>1 DEF TestsOf
  <2> QED BY <2>2, <2>3, <2>4
<1>6. m[1] = s[i] BY <1>1
<1> QED BY <1>3, <1>4, <1>5, <1>6

\* A candidate that is in a partition of c has c's location and c's outcome.
LEMMA PartitionAgrees ==
    ASSUME NEW c, NEW t, NEW part \in Partitions(c, t), NEW d \in part,
           verdict[c][t] # "TIMEOUT"
    PROVE  d \in Candidates /\ LocationOf[d] = LocationOf[c] /\ verdict[d][t] = verdict[c][t]
BY DEF Partitions, Partitionable

\* Counting a candidate keeps the counters natural numbers.
LEMMA CountersType ==
    ASSUME NEW st \in [exploration : Nat, execution : Nat, timeout : Nat, nonTimeout : Nat]
    PROVE  [st EXCEPT !.exploration = @ + 1]
              \in [exploration : Nat, execution : Nat, timeout : Nat, nonTimeout : Nat]
OBVIOUS

\* What depends only on the oracle and the profile does not change.
LEMMA PlausibleStable ==
    ASSUME UNCHANGED <<cfg, verdict, initial>>, NEW c
    PROVE  RelatedTests(c)' = RelatedTests(c) /\ Plausible(c)' = Plausible(c)
BY DEF RelatedTests, Plausible

---------------------------------------------------------------------------
LEMMA InitBooks == Init => Bookkeeping
<1> SUFFICES ASSUME Init PROVE Bookkeeping OBVIOUS
<1> USE DEF Init
<1>1. related = initial /\ initial \in [Locations -> Seq(Tests)]
  BY SearchAssumption DEF TestOrders
<1>2. <<>> \in Seq(Tests) /\ Len(<<>>) = 0 OBVIOUS
<1>3. TypeOK BY <1>1, <1>2, SearchAssumption DEF TypeOK
<1>4. RelatedPermuted BY <1>1 DEF RelatedPermuted
<1>5. ListAtHand BY DEF ListAtHand
<1>6. MergedRecorded BY DEF MergedRecorded
<1> QED BY <1>3, <1>4, <1>5, <1>6 DEF Bookkeeping

LEMMA InitSound == Init => Sound
BY DEF Init, Sound, TablesSound, FoundExactly, PassedSoFar, Progress

\* Where a test is run.
LEMMA TestAtHand ==
    ASSUME Bookkeeping, MustExecute
    PROVE  /\ pc = "tests" /\ index \in Candidates /\ NextTest \in Tests
           /\ LocationOf[index] \in Locations /\ orderIndex \in 1 .. Len(testOrder)
           /\ testOrder = related[LocationOf[index]] /\ testOrder \in Seq(Tests)
           /\ NextTest \in RelatedTests(index)
<1>1. /\ pc = "tests" /\ index \in Candidates /\ NextTest \in Tests
      /\ LocationOf[index] \in Locations /\ orderIndex \in 1 .. Len(testOrder)
      /\ testOrder = related[LocationOf[index]] /\ testOrder \in Seq(Tests)
  BY SearchAssumption DEF Bookkeeping, MustExecute, TypeOK, ListAtHand, NextTest
<1>2. NextTest \in RelatedTests(index)
  BY <1>1 DEF Bookkeeping, RelatedPermuted, RelatedTests, TestsOf, NextTest
<1> QED BY <1>1, <1>2

\* What an execution records, for a passing and for a failing test.
LEMMA RecordCases ==
    ASSUME MustExecute, NEW part, RecordOutcome(part)
    PROVE  LET t == NextTest
               record == Recorded(index, part)
           IN
           /\ UNCHANGED <<testOrder, cfg, verdict, initial, next, found>>
           /\ merged' = [merged EXCEPT ![t] = @ \cup record]
           /\ \/ /\ verdict[index][t] = "PASS"
                 /\ passing' = [passing EXCEPT ![t] = @ \cup record]
                 /\ orderIndex' = orderIndex + 1
                 /\ UNCHANGED <<failing, related, index, pc>>
              \/ /\ verdict[index][t] # "PASS"
                 /\ failing' = failing \cup record
                 /\ related' = IF cfg.maxFailing
                                 THEN [related EXCEPT ![LocationOf[index]] =
                                         MoveToFront(@, orderIndex)]
                                 ELSE related
                 /\ index' = index + 1 /\ pc' = "explore"
                 /\ UNCHANGED <<passing, orderIndex>>
BY DEF RecordOutcome, Passes

\* The step that runs a test, whatever candidates of the application it reads
\* back.
LEMMA RecordBooks ==
    ASSUME Bookkeeping, MustExecute, NEW part \in SUBSET Partitionable(index), RecordOutcome(part)
    PROVE  Bookkeeping'
<1> DEFINE t == NextTest
           l == LocationOf[index]
           record == Recorded(index, part)
<1>1. /\ pc = "tests" /\ index \in Candidates /\ t \in Tests
      /\ orderIndex \in 1 .. Len(testOrder) /\ l \in Locations
      /\ testOrder = related[l] /\ testOrder \in Seq(Tests)
  BY TestAtHand
<1>2. record \subseteq Candidates BY <1>1 DEF Recorded, Partitionable
<1>3. stat' \in [exploration : Nat, execution : Nat, timeout : Nat, nonTimeout : Nat]
  BY DEF RecordOutcome, CountExecution, Bookkeeping, TypeOK
<1>4. UNCHANGED <<testOrder, cfg, verdict, initial, next, found>> BY RecordCases
<1>5. merged' = [merged EXCEPT ![t] = @ \cup record] BY RecordCases
<1>6. merged' \in [Tests -> SUBSET Candidates] BY <1>1, <1>2, <1>5 DEF Bookkeeping, TypeOK
<1> USE DEF Bookkeeping
<1>7. CASE verdict[index][t] = "PASS"
  <2>1. /\ passing' = [passing EXCEPT ![t] = @ \cup record]
        /\ orderIndex' = orderIndex + 1 /\ UNCHANGED <<failing, related, index, pc>>
    BY <1>7, RecordCases
  <2>2. passing' \in [Tests -> SUBSET Candidates] BY <1>1, <1>2, <2>1 DEF TypeOK
  <2>3. orderIndex' \in 1 .. Len(testOrder') + 1 BY <1>1, <1>4, <2>1
  <2>4. TypeOK' BY <1>1, <1>3, <1>4, <1>6, <2>1, <2>2, <2>3 DEF TypeOK
  <2>5. RelatedPermuted' /\ ListAtHand' BY <1>4, <2>1 DEF RelatedPermuted, ListAtHand
  <2>6. MergedRecorded' BY <1>1, <1>4, <1>5, <2>1 DEF MergedRecorded, TypeOK, Recorded
  <2> QED BY <2>4, <2>5, <2>6
<1>8. CASE verdict[index][t] # "PASS"
  <2>1. /\ failing' = failing \cup record
        /\ related' = IF cfg.maxFailing
                        THEN [related EXCEPT ![l] = MoveToFront(@, orderIndex)]
                        ELSE related
        /\ index' = index + 1 /\ pc' = "explore"
        /\ UNCHANGED <<passing, orderIndex>>
    BY <1>8, RecordCases
  <2>2. /\ related' \in [Locations -> Seq(Tests)] /\ RelatedPermuted'
    <3>1. /\ MoveToFront(related[l], orderIndex) \in Seq(Tests)
          /\ Len(MoveToFront(related[l], orderIndex)) = Len(related[l])
          /\ TestsOf(MoveToFront(related[l], orderIndex)) = TestsOf(related[l])
      BY <1>1, MoveToFrontPermutes
    <3> QED BY <1>1, <1>4, <2>1, <3>1 DEF TypeOK, RelatedPermuted
  <2>3. failing' \in SUBSET Candidates BY <1>2, <2>1 DEF TypeOK
  <2>4. index' \in 0 .. SpaceSize BY <1>1, <2>1, SearchAssumption DEF Candidates
  <2>5. TypeOK' BY <1>1, <1>3, <1>4, <1>6, <2>1, <2>2, <2>3, <2>4 DEF TypeOK
  <2>6. ListAtHand' BY <2>1 DEF ListAtHand
  <2>7. MergedRecorded' BY <1>1, <1>4, <1>5, <2>1 DEF MergedRecorded, TypeOK, Recorded
  <2> QED BY <2>2, <2>5, <2>6, <2>7
<1> QED BY <1>7, <1>8

\* If the partition is sound, the outcome recorded is the outcome of every
\* candidate in it, and a failing candidate is decided.
LEMMA RecordSound ==
    ASSUME Bookkeeping, Sound, MustExecute, NEW part, SoundPartition(part), RecordOutcome(part)
    PROVE  Sound'
<1> DEFINE t == NextTest
           l == LocationOf[index]
           record == Recorded(index, part)
<1>1. /\ pc = "tests" /\ index \in Candidates /\ t \in Tests /\ t \in RelatedTests(index)
      /\ orderIndex \in 1 .. Len(testOrder) /\ l \in Locations
      /\ testOrder = related[l] /\ testOrder \in Seq(Tests)
  BY TestAtHand
<1>2. \A d \in record : /\ d \in Candidates /\ LocationOf[d] = l
                        /\ verdict[d][t] = verdict[index][t]
  BY <1>1 DEF SoundPartition, Partitionable, Recorded
<1>3. UNCHANGED <<testOrder, cfg, verdict, initial, next, found>> BY RecordCases
<1>4. /\ \A c : RelatedTests(c)' = RelatedTests(c)
      /\ \A c : Plausible(c)' = Plausible(c)
  BY <1>3, PlausibleStable
<1>5. FoundExactly' BY <1>3, <1>4 DEF Sound, FoundExactly
<1> USE DEF Sound, Bookkeeping
<1>6. CASE verdict[index][t] = "PASS"
  <2>1. /\ passing' = [passing EXCEPT ![t] = @ \cup record]
        /\ orderIndex' = orderIndex + 1 /\ UNCHANGED <<failing, related, index, pc>>
    BY <1>6, RecordCases
  <2>2. TablesSound' BY <1>1, <1>2, <1>3, <1>4, <1>6, <2>1 DEF TablesSound, TypeOK
  <2>3. PassedSoFar' BY <1>1, <1>3, <1>6, <2>1 DEF PassedSoFar, TypeOK, NextTest
  <2>4. Progress' BY <1>1, <1>3, <1>4, <2>1 DEF Progress
  <2> QED BY <1>5, <2>2, <2>3, <2>4
<1>7. CASE verdict[index][t] # "PASS"
  <2>1. /\ failing' = failing \cup record /\ index' = index + 1 /\ pc' = "explore"
        /\ UNCHANGED passing
    BY <1>7, RecordCases
  <2>2. ~Plausible(index) BY <1>1, <1>7 DEF Plausible
  <2>3. \A d \in record : ~Plausible(d)
    BY <1>1, <1>2, <1>7 DEF Plausible, RelatedTests
  <2>4. TablesSound' BY <1>3, <1>4, <2>1, <2>3 DEF TablesSound
  <2>5. PassedSoFar' BY <2>1 DEF PassedSoFar
  <2>6. Progress'
    <3>1. index \in Int /\ next \in Int /\ next' = next /\ index' = index + 1 /\ next <= index
      BY <1>1, <1>3, <2>1 DEF Progress, TypeOK, Candidates
    <3>2. \A c \in next .. index : ~Plausible(c)
      BY <1>1, <2>2, <3>1 DEF Progress
    <3>3. index' - 1 = index /\ next' <= index' BY <3>1
    <3> QED BY <1>3, <1>4, <2>1, <3>1, <3>2, <3>3 DEF Progress
  <2> QED BY <1>5, <2>4, <2>5, <2>6
<1> QED BY <1>6, <1>7

\* The steps that record nothing leave the books in order.
LEMMA OtherBooks == ASSUME Bookkeeping, [Next]_vars, ~ExecuteTest PROVE Bookkeeping'
<1> USE DEF Bookkeeping, RelatedPermuted, ListAtHand, MergedRecorded
<1>1. CASE FindNext BY <1>1 DEF FindNext, TypeOK
<1>2. CASE PatchSaved
  <2>1. index \in Candidates BY <1>2 DEF PatchSaved, TypeOK
  <2>2. index' \in 0 .. SpaceSize /\ pc' \in {"caller", "done"}
    BY <1>2, <2>1, SearchAssumption DEF PatchSaved, Candidates
  <2> QED BY <1>2, <2>2 DEF PatchSaved, TypeOK
<1>3. CASE SearchEnds BY <1>3 DEF SearchEnds, TypeOK
<1>4. CASE SkipFailing
  <2>1. stat' \in [exploration : Nat, execution : Nat, timeout : Nat, nonTimeout : Nat]
    BY <1>4, CountersType DEF SkipFailing, TypeOK
  <2>2. index' \in 0 .. SpaceSize BY <1>4, SearchAssumption DEF SkipFailing, TypeOK
  <2> QED BY <1>4, <2>1, <2>2 DEF SkipFailing, TypeOK
<1>5. CASE StartCandidate
  <2>1. index \in Candidates
    BY <1>5, SearchAssumption DEF StartCandidate, TypeOK, Candidates
  <2>2. related[LocationOf[index]] \in Seq(Tests) BY <2>1, SearchAssumption DEF TypeOK
  <2>3. stat' \in [exploration : Nat, execution : Nat, timeout : Nat, nonTimeout : Nat]
    BY <1>5, CountersType DEF StartCandidate, TypeOK
  <2>4. testOrder' \in Seq(Tests) /\ orderIndex' \in 1 .. Len(testOrder') + 1
    BY <1>5, <2>2 DEF StartCandidate, FirstPosition
  <2>5. TypeOK' BY <1>5, <2>1, <2>3, <2>4 DEF StartCandidate, TypeOK
  <2> QED BY <1>5, <2>5 DEF StartCandidate
<1>6. CASE SkipPassing BY <1>6 DEF SkipPassing, TypeOK
<1>7. CASE ReturnFound
  <2>1. found' \in SUBSET Candidates /\ next' \in 0 .. SpaceSize
    BY <1>7, SearchAssumption DEF ReturnFound, TypeOK, Candidates
  <2> QED BY <1>7, <2>1 DEF ReturnFound, TypeOK
<1>8. CASE ReturnExhausted BY <1>8, SearchAssumption DEF ReturnExhausted, TypeOK
<1>9. CASE UNCHANGED vars BY <1>9 DEF vars, TypeOK
<1> QED BY <1>1, <1>2, <1>3, <1>4, <1>5, <1>6, <1>7, <1>8, <1>9 DEF Next

LEMMA StepBooks == Bookkeeping /\ [Next]_vars => Bookkeeping'
<1> SUFFICES ASSUME Bookkeeping, [Next]_vars PROVE Bookkeeping' OBVIOUS
<1>1. CASE ExecuteTest
  <2>1. PICK part \in Partitions(index, NextTest) : RecordOutcome(part) BY <1>1 DEF ExecuteTest
  <2>2. part \in SUBSET Partitionable(index) BY DEF Partitions
  <2> QED BY <1>1, <2>1, <2>2, RecordBooks DEF ExecuteTest
<1> QED BY <1>1, OtherBooks

\* Where findNext returns a candidate.
LEMMA ReturnsAtEnd ==
    ASSUME Bookkeeping, ReturnFound
    PROVE  /\ pc = "tests" /\ testOrder \in Seq(Tests) /\ index \in Candidates
           /\ orderIndex = Len(testOrder) + 1 /\ TestsOf(testOrder) = RelatedTests(index)
<1>1. pc = "tests" /\ orderIndex > Len(testOrder) BY DEF ReturnFound
<1>2. /\ testOrder \in Seq(Tests) /\ orderIndex \in 1 .. Len(testOrder) + 1
      /\ index \in Candidates
  BY <1>1 DEF Bookkeeping, TypeOK
<1>3. Len(testOrder) \in Nat BY <1>2
<1>4. orderIndex = Len(testOrder) + 1 BY <1>1, <1>2, <1>3
<1>5. LocationOf[index] \in Locations BY <1>2, SearchAssumption
<1>6. TestsOf(testOrder) = RelatedTests(index)
  BY <1>1, <1>5 DEF Bookkeeping, ListAtHand, RelatedPermuted, RelatedTests
<1> QED BY <1>1, <1>2, <1>4, <1>6

\* findNext returns a candidate that has passed its whole list, and the list
\* has the tests that were profiled for its location.
LEMMA FoundIsPlausible == ASSUME Bookkeeping, Sound, ReturnFound PROVE Plausible(index)
<1>1. testOrder \in Seq(Tests) /\ orderIndex = Len(testOrder) + 1 BY ReturnsAtEnd
<1>2. \A k \in 1 .. Len(testOrder) : verdict[index][testOrder[k]] = "PASS"
  BY <1>1 DEF ReturnFound, Sound, PassedSoFar
<1>3. TestsOf(testOrder) = RelatedTests(index) BY ReturnsAtEnd
<1> QED BY <1>2, <1>3 DEF Plausible, TestsOf

LEMMA ReturnFoundSound == ASSUME Bookkeeping, Sound, ReturnFound PROVE Sound'
<1>1. Plausible(index) BY FoundIsPlausible
<1>2. \A c : Plausible(c)' = Plausible(c) BY PlausibleStable DEF ReturnFound
<1> USE DEF Bookkeeping, Sound
<1>3. index \in Candidates BY DEF ReturnFound, TypeOK
<1>4. TablesSound' /\ PassedSoFar' BY <1>2 DEF ReturnFound, TablesSound, PassedSoFar
<1>5. FoundExactly'
  BY <1>1, <1>2, <1>3, SearchAssumption
  DEF ReturnFound, FoundExactly, Progress, TypeOK, Candidates
<1>6. Progress'
  BY <1>2, <1>3, SearchAssumption DEF ReturnFound, Progress, TypeOK, Candidates
<1> QED BY <1>4, <1>5, <1>6

\* The steps that record nothing keep the tables sound.
LEMMA OtherSound == ASSUME Bookkeeping, Sound, [Next]_vars, ~ExecuteTest PROVE Sound'
<1> USE DEF Bookkeeping, Sound
<1>0. UNCHANGED <<verdict, initial, cfg>>
  BY DEF Next, vars, FindNext, PatchSaved, SearchEnds, SkipFailing, StartCandidate, SkipPassing,
         ReturnFound, ReturnExhausted
<1>1. \A c : Plausible(c)' = Plausible(c) BY <1>0, PlausibleStable
<1>2. CASE ReturnFound BY <1>2, ReturnFoundSound
<1>3. CASE FindNext
  BY <1>1, <1>3 DEF FindNext, TablesSound, FoundExactly, PassedSoFar, Progress
<1>4. CASE PatchSaved
  <2>1. Progress'
    BY <1>1, <1>4, SearchAssumption DEF PatchSaved, Progress, TypeOK, Candidates
  <2> QED BY <1>1, <1>4, <2>1 DEF PatchSaved, TablesSound, FoundExactly, PassedSoFar
<1>5. CASE SearchEnds
  BY <1>1, <1>5 DEF SearchEnds, TablesSound, FoundExactly, PassedSoFar, Progress
<1>6. CASE SkipFailing
  <2>1. ~Plausible(index) BY <1>6 DEF SkipFailing, TablesSound
  <2>2. Progress' BY <1>1, <1>6, <2>1, SearchAssumption DEF SkipFailing, Progress, TypeOK
  <2> QED BY <1>1, <1>6, <2>2 DEF SkipFailing, TablesSound, FoundExactly, PassedSoFar
<1>7. CASE StartCandidate
  <2>1. PassedSoFar' BY <1>7 DEF StartCandidate, FirstPosition, PassedSoFar
  <2> QED BY <1>1, <1>7, <2>1 DEF StartCandidate, TablesSound, FoundExactly, Progress
<1>8. CASE SkipPassing
  <2>1. NextTest \in Tests BY <1>8 DEF SkipPassing, TypeOK, NextTest
  <2>2. verdict[index][NextTest] = "PASS"
    BY <1>8, <2>1 DEF SkipPassing, KnownToPass, TablesSound
  <2>3. PassedSoFar' BY <1>8, <2>2 DEF SkipPassing, PassedSoFar, TypeOK, NextTest
  <2> QED BY <1>1, <1>8, <2>3 DEF SkipPassing, TablesSound, FoundExactly, Progress
<1>9. CASE ReturnExhausted
  <2>1. index = SpaceSize
    BY <1>9, SearchAssumption DEF ReturnExhausted, Exhausted, TypeOK
  <2>2. FoundExactly'
    BY <1>1, <1>9, <2>1, SearchAssumption
    DEF ReturnExhausted, FoundExactly, Progress, TypeOK
  <2>3. Progress'
    BY <1>1, <1>9, <2>1, SearchAssumption
    DEF ReturnExhausted, Progress, TypeOK, Candidates
  <2> QED BY <1>1, <1>9, <2>2, <2>3 DEF ReturnExhausted, TablesSound, PassedSoFar
<1>10. CASE UNCHANGED vars
  BY <1>1, <1>10 DEF vars, TablesSound, FoundExactly, PassedSoFar, Progress
<1> QED BY <1>2, <1>3, <1>4, <1>5, <1>6, <1>7, <1>8, <1>9, <1>10 DEF Next

\* Without timeouts, the partitions of SearchEngine are sound.
LEMMA StepSound == SoundPartitions /\ Bookkeeping /\ Sound /\ [Next]_vars => Sound'
<1> SUFFICES ASSUME SoundPartitions, Bookkeeping, Sound, [Next]_vars PROVE Sound' OBVIOUS
<1>1. CASE ExecuteTest
  <2>1. MustExecute BY <1>1 DEF ExecuteTest
  <2>2. PICK part \in Partitions(index, NextTest) : RecordOutcome(part) BY <1>1 DEF ExecuteTest
  <2>3. index \in Candidates /\ NextTest \in Tests BY <2>1, TestAtHand
  <2>4. cfg.valueTEQ => verdict[index][NextTest] # "TIMEOUT"
    <3>1. cfg \in Configs /\ verdict \in [Candidates -> [Tests -> Verdicts[cfg]]]
      BY DEF Bookkeeping, TypeOK
    <3>2. verdict[index][NextTest] \in Verdicts[cfg] BY <2>3, <3>1
    <3> QED BY <3>1, <3>2 DEF SoundPartitions
  <2>5. SoundPartition(part) BY <2>4, PartitionAgrees DEF SoundPartition, Partitions
  <2> QED BY <2>1, <2>2, <2>5, RecordSound
<1> QED BY <1>1, OtherSound

---------------------------------------------------------------------------
\* The books are in order in every reachable state, whatever partitions are
\* read.
THEOREM BookInvariance == Spec => []Bookkeeping
BY InitBooks, StepBooks, PTL DEF Spec

\* With sound partitions, the tables and what was found are right.
THEOREM SoundInvariance == SoundPartitions /\ Spec => []Sound
<1> DEFINE I == SoundPartitions /\ Sound
<1>1. SoundPartitions /\ Init => I BY InitSound
<1>2. I /\ Bookkeeping /\ [Next]_vars => I'
  <2> SUFFICES ASSUME SoundPartitions, Sound, Bookkeeping, [Next]_vars PROVE I' OBVIOUS
  <2>1. Sound' BY StepSound
  <2>2. SoundPartitions' BY DEF SoundPartitions
  <2> QED BY <2>1, <2>2
<1> QED BY <1>1, <1>2, BookInvariance, PTL DEF Spec

\* Every variable of the search keeps its type.
THEOREM TypeCorrect == Spec => []TypeOK
<1>1. Bookkeeping => TypeOK BY DEF Bookkeeping
<1> QED BY BookInvariance, <1>1, PTL

\* The tables never record an outcome that an execution would not give, for
\* any sound partitions.
THEOREM TablesAreSound == SoundPartitions /\ Spec => []TablesSound
<1>1. Sound => TablesSound BY DEF Sound
<1> QED BY SoundInvariance, <1>1, PTL

\* The engine yields every plausible candidate and nothing else, with and
\* without test-equivalence and test prioritisation.
THEOREM YieldsExactlyPlausible == SoundPartitions /\ Spec => []FoundExactly
<1>1. Sound => FoundExactly BY DEF Sound
<1> QED BY SoundInvariance, <1>1, PTL

\* Prioritising the tests of a location only permutes them, whatever partitions
\* are read.
THEOREM RelatedOnlyPermuted == Spec => []RelatedPermuted
<1>1. Bookkeeping => RelatedPermuted BY DEF Bookkeeping
<1> QED BY BookInvariance, <1>1, PTL

\* The test that is moved to the front is one the candidate at hand fails.
THEOREM MovesFailingTest == Spec => PrioritizesFailing
<1> DEFINE A == \A l \in Locations : related'[l] # related[l] =>
                   verdict[index][related'[l][1]] # "PASS"
<1>1. Bookkeeping /\ [Next]_vars => [A]_vars
  <2> SUFFICES ASSUME Bookkeeping, [Next]_vars, NEW l \in Locations, related'[l] # related[l]
               PROVE  verdict[index][related'[l][1]] # "PASS"
    OBVIOUS
  <2>1. ExecuteTest /\ verdict[index][NextTest] # "PASS"
        /\ related' = [related EXCEPT ![LocationOf[index]] = MoveToFront(@, orderIndex)]
    BY DEF Next, vars, FindNext, PatchSaved, SearchEnds, SkipFailing, StartCandidate,
           SkipPassing, ExecuteTest, RecordOutcome, Passes, ReturnFound, ReturnExhausted
  <2>2. /\ l = LocationOf[index] /\ testOrder = related[l] /\ testOrder \in Seq(Tests)
        /\ orderIndex \in 1 .. Len(testOrder)
    BY <2>1, TestAtHand DEF Bookkeeping, TypeOK, ExecuteTest
  <2>3. MoveToFront(related[l], orderIndex)[1] = related[l][orderIndex]
    BY <2>2, MoveToFrontPermutes
  <2>4. related'[l] = MoveToFront(related[l], orderIndex)
    BY <2>1, <2>2 DEF Bookkeeping, TypeOK
  <2> QED BY <2>1, <2>2, <2>3, <2>4 DEF NextTest
<1> QED BY BookInvariance, <1>1, PTL DEF Spec, PrioritizesFailing

\* A candidate is never executed on a test for which a partition has already
\* recorded its outcome, whatever partitions are read.
THEOREM NeverRecomputes == Spec => NoRedundantExecution
<1> DEFINE A == stat'.execution # stat.execution => index \notin merged[NextTest]
<1>1. Bookkeeping /\ [Next]_vars => [A]_vars
  <2> SUFFICES ASSUME Bookkeeping, [Next]_vars, stat'.execution # stat.execution
               PROVE  index \notin merged[NextTest]
    OBVIOUS
  <2>1. MustExecute
    BY DEF Next, vars, FindNext, PatchSaved, SearchEnds, SkipFailing, StartCandidate,
           SkipPassing, ExecuteTest, ReturnFound, ReturnExhausted, Bookkeeping, TypeOK
  <2>2. NextTest \in Tests /\ pc = "tests" BY <2>1, TestAtHand
  <2>3. CASE cfg.valueTEQ
    BY <2>1, <2>2, <2>3 DEF MustExecute, KnownToPass, Bookkeeping, ListAtHand, MergedRecorded
  <2>4. CASE ~cfg.valueTEQ BY <2>2, <2>4 DEF Bookkeeping, MergedRecorded
  <2> QED BY <2>3, <2>4
<1> QED BY BookInvariance, <1>1, PTL DEF Spec, NoRedundantExecution

\* Every step of the engine is a step of the abstract search or changes nothing
\* of it: the tables and the reordering of tests are optimisations only.
THEOREM Refinement == SoundPartitions /\ Spec => Abstract!Spec
<1> DEFINE P == {c \in Candidates : Plausible(c)}
<1>1. Init => Abstract!Init
  BY DEF Init, Abstract!Init, Abstract!Indexes, Candidates
<1>2. Bookkeeping /\ Sound /\ [Next]_vars => [Abstract!Next]_(Abstract!searchVars)
  <2> SUFFICES ASSUME Bookkeeping, Sound, [Next]_vars
               PROVE  Abstract!Next \/ UNCHANGED Abstract!searchVars
    OBVIOUS
  <2>1. UNCHANGED <<cfg, verdict, initial>>
    BY DEF Next, vars, FindNext, PatchSaved, SearchEnds, SkipFailing, StartCandidate,
           SkipPassing, ExecuteTest, MustExecute, RecordOutcome, ReturnFound, ReturnExhausted
  <2>2. P' = P BY <2>1, PlausibleStable
  <2>3. CASE ReturnFound
    <3>1. /\ index \in Candidates /\ Plausible(index)
          /\ index \in Int /\ next \in Int /\ next <= index
          /\ \A c \in next .. index - 1 : ~Plausible(c)
      BY <2>3, FoundIsPlausible DEF ReturnFound, Bookkeeping, Sound, TypeOK, Progress, Candidates
    <3>2. Abstract!Yield(index)
      BY <2>2, <2>3, <3>1, SearchAssumption DEF Abstract!Yield, ReturnFound, Candidates
    <3> QED BY <3>1, <3>2 DEF Abstract!Next, Abstract!Indexes, Candidates
  <2>4. CASE ReturnExhausted
    <3>1. \A c \in next .. SpaceSize - 1 : ~Plausible(c)
      BY <2>4, SearchAssumption DEF ReturnExhausted, Exhausted, Bookkeeping, Sound, TypeOK, Progress
    <3>2. Abstract!Exhaust
      BY <2>2, <2>4, <3>1 DEF Abstract!Exhaust, ReturnExhausted
    <3> QED BY <3>2 DEF Abstract!Next
  <2>5. CASE ~ReturnFound /\ ~ReturnExhausted
    <3>1. UNCHANGED <<next, found>>
      BY <2>5 DEF Next, vars, FindNext, PatchSaved, SearchEnds, SkipFailing, StartCandidate,
                  SkipPassing, ExecuteTest, MustExecute, RecordOutcome
    <3> QED BY <2>2, <3>1 DEF Abstract!searchVars
  <2> QED BY <2>3, <2>4, <2>5
<1> QED BY BookInvariance, SoundInvariance, <1>1, <1>2, PTL DEF Spec, Abstract!Spec

---------------------------------------------------------------------------
\* What is recorded as passing was in a partition, and the candidate at hand is
\* recorded for the tests it has passed so far.
CoveredSoFar ==
    cfg.valueTEQ =>
        /\ \A t \in Tests : passing[t] \subseteq merged[t]
        /\ pc = "tests" => \A k \in 1 .. orderIndex - 1 : index \in merged[testOrder[k]]
        /\ FoundCovered

LEMMA CoveredInit == Init => CoveredSoFar
BY DEF Init, CoveredSoFar, FoundCovered

LEMMA CoveredStep == Bookkeeping /\ CoveredSoFar /\ [Next]_vars => CoveredSoFar'
<1> SUFFICES ASSUME Bookkeeping, CoveredSoFar, [Next]_vars, cfg'.valueTEQ
             PROVE  /\ \A t \in Tests : passing'[t] \subseteq merged'[t]
                    /\ pc' = "tests" => \A k \in 1 .. orderIndex' - 1 :
                                          index' \in merged'[testOrder'[k]]
                    /\ FoundCovered'
  BY DEF CoveredSoFar
<1>1. UNCHANGED <<cfg, verdict, initial>>
  BY DEF Next, vars, FindNext, PatchSaved, SearchEnds, SkipFailing, StartCandidate,
         SkipPassing, ExecuteTest, RecordOutcome, ReturnFound, ReturnExhausted
<1>2. /\ cfg.valueTEQ /\ FoundCovered
      /\ \A t \in Tests : passing[t] \subseteq merged[t]
      /\ pc = "tests" => \A k \in 1 .. orderIndex - 1 : index \in merged[testOrder[k]]
  BY <1>1 DEF CoveredSoFar
<1>3. \A c : RelatedTests(c)' = RelatedTests(c) BY <1>1, PlausibleStable
<1>4. CASE ExecuteTest
  <2> DEFINE t == NextTest
  <2>1. /\ pc = "tests" /\ t \in Tests /\ orderIndex \in 1 .. Len(testOrder)
        /\ testOrder \in Seq(Tests) /\ t = testOrder[orderIndex]
    BY <1>4 DEF ExecuteTest, MustExecute, Bookkeeping, TypeOK, NextTest
  <2>2. PICK record : /\ index \in record /\ merged' = [merged EXCEPT ![t] = @ \cup record]
                      /\ UNCHANGED <<testOrder, found>>
                      /\ \/ /\ passing' = [passing EXCEPT ![t] = @ \cup record]
                            /\ orderIndex' = orderIndex + 1 /\ UNCHANGED <<index, pc>>
                         \/ UNCHANGED passing /\ pc' = "explore"
    BY <1>2, <1>4 DEF ExecuteTest, RecordOutcome, Recorded
  <2>3. merged \in [Tests -> SUBSET Candidates] /\ passing \in [Tests -> SUBSET Candidates]
    BY DEF Bookkeeping, TypeOK
  <2>4. \A u \in Tests : merged[u] \subseteq merged'[u] /\ passing'[u] \subseteq merged'[u]
    BY <1>2, <2>1, <2>2, <2>3
  <2>5. index \in merged'[t] BY <2>1, <2>2, <2>3
  <2>6. pc' = "tests" => \A k \in 1 .. orderIndex' - 1 : index' \in merged'[testOrder'[k]]
    <3> SUFFICES ASSUME pc' = "tests", NEW k \in 1 .. orderIndex' - 1
                 PROVE  index' \in merged'[testOrder'[k]]
      OBVIOUS
    <3>1. orderIndex' = orderIndex + 1 /\ index' = index /\ testOrder' = testOrder BY <2>2
    <3>2. CASE k = orderIndex BY <2>1, <2>5, <3>1, <3>2
    <3>3. CASE k # orderIndex
      <4>1. k \in 1 .. orderIndex - 1 /\ testOrder[k] \in Tests BY <2>1, <3>1, <3>3
      <4> QED BY <1>2, <2>1, <2>4, <3>1, <4>1
    <3> QED BY <3>2, <3>3
  <2>7. FoundCovered'
    <3>1. \A c \in found : RelatedTests(c) \subseteq Tests
      <4> SUFFICES ASSUME NEW c \in found PROVE RelatedTests(c) \subseteq Tests OBVIOUS
      <4>1. initial[LocationOf[c]] \in Seq(Tests) BY SearchAssumption DEF Bookkeeping, TypeOK
      <4> QED BY <4>1 DEF RelatedTests, TestsOf
    <3> QED BY <1>2, <1>3, <2>2, <2>4, <3>1 DEF FoundCovered
  <2> QED BY <2>4, <2>6, <2>7
<1>5. CASE ReturnFound
  <2>1. /\ pc = "tests" /\ orderIndex = Len(testOrder) + 1 /\ testOrder \in Seq(Tests)
        /\ index \in Candidates /\ TestsOf(testOrder) = RelatedTests(index)
    BY <1>5, ReturnsAtEnd
  <2>2. \A u \in RelatedTests(index) : index \in merged[u]
    BY <1>2, <2>1 DEF TestsOf
  <2>3. FoundCovered'
    BY <1>2, <1>3, <1>5, <2>2 DEF ReturnFound, FoundCovered
  <2> QED BY <1>2, <1>5, <2>3 DEF ReturnFound
<1>6. CASE SkipPassing
  <2>1. /\ NextTest \in Tests /\ index \in passing[NextTest] /\ NextTest = testOrder[orderIndex]
    BY <1>2, <1>6 DEF SkipPassing, KnownToPass, Bookkeeping, TypeOK, NextTest
  <2>2. \A k \in 1 .. orderIndex : index \in merged[testOrder[k]]
    BY <1>2, <1>6, <2>1 DEF SkipPassing, Bookkeeping, TypeOK
  <2>3. FoundCovered' BY <1>2, <1>3, <1>6 DEF SkipPassing, FoundCovered
  <2>4. orderIndex' - 1 = orderIndex BY <1>6 DEF SkipPassing, Bookkeeping, TypeOK
  <2> QED BY <1>2, <1>6, <2>2, <2>3, <2>4 DEF SkipPassing
<1>7. CASE ~ExecuteTest /\ ~ReturnFound /\ ~SkipPassing
  <2>1. UNCHANGED <<passing, merged, found>>
    BY <1>7 DEF Next, vars, FindNext, PatchSaved, SearchEnds, SkipFailing, StartCandidate,
                ReturnExhausted
  <2>2. FoundCovered' BY <1>2, <1>3, <1>1, <2>1 DEF FoundCovered
  <2>3. pc' = "tests" => \A k \in 1 .. orderIndex' - 1 : index' \in merged'[testOrder'[k]]
    BY <1>2, <1>7 DEF Next, vars, FindNext, PatchSaved, SearchEnds, SkipFailing,
                      StartCandidate, FirstPosition, ReturnExhausted
  <2> QED BY <1>2, <2>1, <2>2, <2>3
<1> QED BY <1>4, <1>5, <1>6, <1>7

\* Every patch found has a coverage entry for each test that is related to it.
THEOREM PatchesFoundAreCovered == Spec => []FoundCovered
<1>1. CoveredSoFar /\ Bookkeeping => FoundCovered BY DEF CoveredSoFar, FoundCovered
<1> QED BY BookInvariance, CoveredInit, CoveredStep, <1>1, PTL DEF Spec

---------------------------------------------------------------------------
(* The engine with the buffer.                                             *)


\* What is proved about the protocol by itself.
P == INSTANCE PartitionRuntimeProofs
       WITH Ids <- Candidates, Procs <- {Process}, WithTimeout <- TRUE, pc <- callPc

Own == program.calls[index][NextTest]

\* Candidate d returned in its first k calls what the current one did.
AgreesSoFar(d, k) ==
    LET s == program.calls[d][NextTest] IN k <= Len(s) /\ AgreeUpTo(s, Own, k)

Oracle ==
    /\ program \in Programs /\ Deterministic(program)
    /\ verdict = program.verdict

\* While the test runs, it is the one findNext stands at; the ids that are left
\* have agreed so far, and without a call nothing will be read back.
Testing ==
    phase = "testing" =>
        /\ MustExecute /\ candidate = index /\ given = Partitionable(index)
        /\ ~overlapped
        /\ completed \in Nat
        /\ calls[Process] = completed + (IF callPc[Process] = "idle" THEN 0 ELSE 1)
        /\ calls[Process] <= Len(Own)
        /\ \A d \in equivalent : d \in Partitionable(index) /\ AgreesSoFar(d, calls[Process])
        /\ calls[Process] = 0 => P!Contents(partition) = {}

\* Wherever the test is killed, there are only ids of the application in front
\* of the terminator.
GivenKept ==
    phase # "ready" =>
        /\ given \subseteq Candidates
        /\ \A j \in 0 .. inputSize - 1 : partition[j] \in given \cup P!Terminators
        /\ callPc[Process] # "idle" => id[Process] \in given \cup P!Terminators

\* What is about to be read back.
Reading ==
    phase = "read" =>
        /\ MustExecute
        /\ P!Contents(partition) \in Partitions(index, NextTest)
        /\ ~cut => SoundPartition(P!Contents(partition))

RuntimeInv == P!IInv /\ P!ExactInv
TestInv    == Testing /\ GivenKept /\ Reading
EInv       == Oracle /\ Bookkeeping /\ (~cut => Sound) /\ RuntimeInv /\ TestInv

---------------------------------------------------------------------------
\* The protocol is instantiated twice, with and without its proofs.
LEMMA SameAssumption == P!RuntimeAssumption
BY EquivalenceAssumption
DEF P!RuntimeAssumption, Runtime!RuntimeAssumption, P!Slots, Runtime!Slots, P!Cells,
    Runtime!Cells, P!Terminators, Runtime!Terminators, P!IsFiniteSet, Runtime!IsFiniteSet,
    P!Cardinality, Runtime!Cardinality

LEMMA SameCardinality == \A S : Runtime!Cardinality(S) = P!Cardinality(S)
BY DEF Runtime!Cardinality, P!Cardinality

LEMMA SameInit == Runtime!Init => P!Init
BY DEF Runtime!Init, P!Init, Runtime!NoOutcome, P!NoOutcome

LEMMA SameContents == \A buf : Runtime!Contents(buf) = P!Contents(buf)
BY DEF Runtime!Contents, P!Contents, Runtime!FirstStop, P!FirstStop, Runtime!Stops, P!Stops,
       Runtime!Slots, P!Slots, Runtime!Terminators, P!Terminators

LEMMA SameSetPartition == Runtime!SetPartition => P!SetPartition
<1>1. \A S : Runtime!Orderings(S) = P!Orderings(S)
  BY SameCardinality DEF Runtime!Orderings, P!Orderings
<1>2. \A buf, q, n : Runtime!Written(buf, q, n) = P!Written(buf, q, n)
  BY DEF Runtime!Written, P!Written, Runtime!Slots, P!Slots
<1> SUFFICES ASSUME Runtime!SetPartition PROVE P!SetPartition
  OBVIOUS
<1>3. PICK S \in SUBSET Candidates, c \in Candidates :
        /\ c \in S
        /\ \E q \in Runtime!Orderings(S) :
             partition' = Runtime!Written(partition, q, Runtime!Cardinality(S))
        /\ candidate' = c /\ given' = S /\ equivalent' = S
        /\ inputSize' = Runtime!Cardinality(S)
  BY DEF Runtime!SetPartition
<1>4. \E q \in P!Orderings(S) : partition' = P!Written(partition, q, P!Cardinality(S))
  BY <1>1, <1>2, <1>3, SameCardinality
<1>5. inputSize' = P!Cardinality(S) BY <1>3, SameCardinality
<1>6. /\ phase = "ready" /\ rounds < MaxRounds
      /\ phase' = "testing" /\ rounds' = rounds + 1
      /\ result' = {} /\ killed' = FALSE /\ completed' = 0 /\ overlapped' = FALSE
      /\ calls' = [r \in {Process} |-> 0]
  BY Zenon DEF Runtime!SetPartition
<1>7. UNCHANGED <<callPc, P!frameVars>>
  BY DEF Runtime!SetPartition, Runtime!frameVars, P!frameVars
<1> QED BY <1>3, <1>4, <1>5, <1>6, <1>7, Zenon DEF P!SetPartition

LEMMA SameBeginCall == Runtime!BeginCall(Process) => P!BeginCall(Process)
BY DEF Runtime!BeginCall, P!BeginCall, Runtime!Outcomes, P!Outcomes, Runtime!Impact, P!Impact,
       Runtime!NoOutcome, P!NoOutcome, Runtime!engineVars, P!engineVars

LEMMA SameCallStep == Runtime!CallStep(Process) => P!CallStep(Process)
<1> USE DEF Runtime!engineVars, P!engineVars, Runtime!historyVars, P!historyVars,
            Runtime!frameVars, P!frameVars
<1>1. Runtime!Dispatch(Process) => P!Dispatch(Process) BY DEF Runtime!Dispatch, P!Dispatch
<1>2. Runtime!Compare(Process) => P!Compare(Process)
  BY DEF Runtime!Compare, P!Compare, Runtime!Records, P!Records, Runtime!SameOutput, P!SameOutput
<1>3. Runtime!CheckInput(Process) => P!CheckInput(Process)
  BY DEF Runtime!CheckInput, P!CheckInput, Runtime!Terminators, P!Terminators
<1>4. Runtime!LoadInput(Process) => P!LoadInput(Process)
  BY DEF Runtime!LoadInput, P!LoadInput, Runtime!Advance, P!Advance
<1>5. Runtime!Terminate(Process) => P!Terminate(Process) BY DEF Runtime!Terminate, P!Terminate
<1> QED BY <1>1, <1>2, <1>3, <1>4, <1>5 DEF Runtime!CallStep, P!CallStep

LEMMA SameEnds ==
    /\ Runtime!TestEnds => P!TestEnds
    /\ Runtime!Timeout => P!Timeout
    /\ Runtime!GetPartition => P!GetPartition
BY SameContents
DEF Runtime!TestEnds, P!TestEnds, Runtime!Timeout, P!Timeout, Runtime!GetPartition, P!GetPartition,
    Runtime!historyVars, P!historyVars, Runtime!frameVars, P!frameVars

\* Every step is a step of the protocol, or none of its business.
LEMMA ProtocolStep == [EquivalenceNext]_allVars => [P!Next]_(P!vars)
<1> SUFFICES ASSUME [EquivalenceNext]_allVars PROVE P!Next \/ UNCHANGED P!vars
  OBVIOUS
<1>1. CASE SearchStep \/ UNCHANGED allVars
  <2>1. UNCHANGED runtimeVars BY <1>1 DEF SearchStep, allVars
  <2> QED BY <2>1 DEF runtimeVars, P!vars, P!engineVars, P!historyVars, P!frameVars
<1>2. CASE StartTest BY <1>2, SameSetPartition DEF StartTest, P!Next
<1>3. CASE Call BY <1>3, SameBeginCall DEF Call, P!Next
<1>4. CASE InsideCall BY <1>4, SameCallStep DEF InsideCall, P!Next
<1>5. CASE TestEnds BY <1>5, SameEnds DEF TestEnds, P!Next
<1>6. CASE Timeout BY <1>6, SameEnds DEF Timeout, P!Next
<1>7. CASE Record BY <1>7, SameEnds DEF Record, P!Next
<1> QED BY <1>1, <1>2, <1>3, <1>4, <1>5, <1>6, <1>7 DEF EquivalenceNext

LEMMA RuntimeStep == RuntimeInv /\ [EquivalenceNext]_allVars => RuntimeInv'
<1> SUFFICES ASSUME RuntimeInv, [EquivalenceNext]_allVars PROVE RuntimeInv'
  OBVIOUS
<1>1. [P!Next]_(P!vars) BY ProtocolStep
<1>2. P!IInv' BY <1>1, P!StepInv, SameAssumption DEF RuntimeInv
<1>3. P!ExactInv' BY <1>1, <1>2, P!StepExact, SameAssumption DEF RuntimeInv
<1> QED BY <1>2, <1>3 DEF RuntimeInv

---------------------------------------------------------------------------
\* Types of the program and of the protocol's state at the test at hand.
LEMMA ProgramType ==
    ASSUME Oracle, NEW c \in Candidates, NEW t \in Tests
    PROVE  program.calls[c][t] \in Seq(Runtime!Outcomes) /\ Len(program.calls[c][t]) \in Nat
<1>1. program.calls \in [Candidates -> [Tests -> Seq(Runtime!Outcomes)]]
  BY EquivalenceAssumption DEF Oracle
<1> QED BY <1>1

\* A candidate that has agreed in all calls of the test has the same outcome.
LEMMA AgreedThroughout ==
    ASSUME Oracle, index \in Candidates, NextTest \in Tests, NEW d \in Partitionable(index),
           AgreesSoFar(d, Len(Own))
    PROVE  verdict[d][NextTest] = verdict[index][NextTest]
<1>1. LET u == program.calls[d][NextTest] IN
        Len(Own) <= Len(u) /\ AgreeUpTo(Own, u, Len(Own)) =>
            program.verdict[index][NextTest] = program.verdict[d][NextTest]
  BY DEF Oracle, Deterministic, Own
<1>2. AgreeUpTo(Own, program.calls[d][NextTest], Len(Own)) BY DEF AgreesSoFar, AgreeUpTo
<1> QED BY <1>1, <1>2 DEF AgreesSoFar, Oracle

\* One that has agreed so far does not end before the current candidate.
LEMMA CallsOn ==
    ASSUME Oracle, index \in Candidates, NextTest \in Tests, NEW d \in Partitionable(index),
           NEW k \in Nat, k < Len(Own), AgreesSoFar(d, k)
    PROVE  k + 1 <= Len(program.calls[d][NextTest])
<1> DEFINE u == program.calls[d][NextTest]
<1>1. d \in Candidates /\ index \in Partitionable(d) BY DEF Partitionable
<1>2. Len(u) \in Nat /\ Len(Own) \in Nat BY <1>1, ProgramType DEF Own
<1>3. Len(u) <= Len(Own) /\ AgreeUpTo(u, Own, Len(u)) => Len(u) = Len(Own)
  BY <1>1 DEF Oracle, Deterministic, Own
<1>4. k <= Len(u) /\ AgreeUpTo(u, Own, k) BY DEF AgreesSoFar
<1>5. k # Len(u) BY <1>2, <1>3, <1>4
<1> QED BY <1>2, <1>4, <1>5

\* The search does not see the steps of the protocol.
LEMMA SearchKept ==
    ASSUME UNCHANGED searchVars
    PROVE  /\ Bookkeeping' = Bookkeeping /\ Sound' = Sound
           /\ MustExecute' = MustExecute /\ NextTest' = NextTest
           /\ Partitionable(index)' = Partitionable(index)
           /\ Partitions(index, NextTest)' = Partitions(index, NextTest)
           /\ UNCHANGED <<index, verdict, cfg>>
<1> USE DEF searchVars, vars
<1>1. \A c : Plausible(c)' = Plausible(c) BY PlausibleStable
<1>2. Bookkeeping' = Bookkeeping
  BY DEF Bookkeeping, TypeOK, RelatedPermuted, ListAtHand, MergedRecorded
<1>3. Sound' = Sound
  BY <1>1 DEF Sound, TablesSound, FoundExactly, PassedSoFar, Progress
<1>4. MustExecute' = MustExecute /\ NextTest' = NextTest
  BY DEF MustExecute, KnownToPass, NextTest
<1>5. /\ Partitionable(index)' = Partitionable(index)
      /\ Partitions(index, NextTest)' = Partitions(index, NextTest)
  BY <1>4 DEF Partitionable, Partitions
<1> QED BY <1>2, <1>3, <1>4, <1>5

\* In front of the terminator there are only ids of the application.
LEMMA ContentsGiven ==
    ASSUME P!IInv, GivenKept, phase # "ready"
    PROVE  P!Contents(partition) \subseteq given
<1> SUFFICES ASSUME NEW k \in P!Slots, NEW i \in P!FirstStop(partition), k < i
             PROVE  partition[k] \in given
  BY DEF P!Contents
<1>1. /\ inputSize \in P!Slots /\ Capacity \in Nat
      /\ partition[inputSize] \in P!Terminators
  BY SameAssumption
  DEF P!IInv, P!TypeOK, P!EngineAlone, P!TerminatorKept, P!RuntimeAssumption
<1>2. /\ i \in P!Slots /\ i <= inputSize
      /\ \A j \in P!Slots : partition[j] \in P!Terminators => i <= j
  BY <1>1 DEF P!FirstStop, P!Stops
<1>3. k \in 0 .. inputSize - 1 /\ partition[k] \notin P!Terminators
  BY <1>1, <1>2 DEF P!Slots
<1> QED BY <1>3 DEF GivenKept

\* What setPartition has written reads as nothing.
LEMMA WrittenReadsNothing ==
    ASSUME NEW S \in SUBSET Candidates, NEW q \in P!Orderings(S), NEW buf \in [P!Slots -> P!Cells]
    PROVE  P!Contents(P!Written(buf, q, P!Cardinality(S))) = {}
<1> DEFINE n == P!Cardinality(S)
           new == P!Written(buf, q, n)
<1>1. n \in P!Slots /\ Capacity \in Nat
  BY SameAssumption, P!InputFits DEF P!RuntimeAssumption
<1>2. new[n] = InputTerminator /\ \A j \in P!Slots : j < n => new[j] \in Candidates
  BY <1>1 DEF P!Written, P!Orderings, P!Slots
<1>3. InputTerminator # OutputTerminator BY SameAssumption DEF P!RuntimeAssumption
<1>4. \A c \in Candidates : c \notin P!Terminators
  BY SameAssumption DEF P!RuntimeAssumption, P!Terminators
<1> HIDE DEF new, n
<1>5. n \in P!Stops(new) BY <1>1, <1>2 DEF P!Stops, P!Terminators
<1>6. \A j \in P!Stops(new) : n <= j BY <1>1, <1>2, <1>4 DEF P!Stops, P!Slots
<1>7. \A i \in P!FirstStop(new) : i = n
  <2> TAKE i \in P!FirstStop(new)
  <2>1. i \in P!Slots /\ i <= n /\ n <= i BY <1>5, <1>6 DEF P!FirstStop, P!Stops
  <2> QED BY <1>1, <2>1 DEF P!Slots
<1>8. P!Contents(new) = {} BY <1>2, <1>3, <1>7 DEF P!Contents
<1> QED BY <1>8 DEF new, n

---------------------------------------------------------------------------
LEMMA InitEquivalence == EquivalenceInit => EInv
<1> SUFFICES ASSUME EquivalenceInit PROVE EInv
  OBVIOUS
<1>1. Oracle BY DEF EquivalenceInit, Oracle
<1>2. Bookkeeping /\ Sound BY InitBooks, InitSound DEF EquivalenceInit
<1>3. P!Init BY SameInit DEF EquivalenceInit
<1>4. RuntimeInv BY <1>3, P!InitInv, P!InitExact, SameAssumption DEF RuntimeInv
<1>5. phase = "ready" BY <1>3 DEF P!Init
<1>6. TestInv BY <1>5 DEF TestInv, Testing, GivenKept, Reading
<1> QED BY <1>1, <1>2, <1>4, <1>6 DEF EInv

LEMMA StartTestInv == ASSUME EInv, StartTest PROVE TestInv'
<1>1. UNCHANGED <<searchVars, program, cut>> BY DEF StartTest
<1>2. MustExecute /\ Bookkeeping BY DEF StartTest, EInv
<1>3. /\ index \in Candidates /\ NextTest \in Tests
  BY <1>2, TestAtHand
<1>4. /\ MustExecute' /\ NextTest' = NextTest /\ index' = index
      /\ Partitionable(index)' = Partitionable(index)
  BY <1>1, <1>2, SearchKept
<1>5. P!SetPartition BY SameSetPartition DEF StartTest
<1>6. PICK S \in SUBSET Candidates, c \in Candidates :
        /\ \E q \in P!Orderings(S) : partition' = P!Written(partition, q, P!Cardinality(S))
        /\ candidate' = c /\ given' = S /\ equivalent' = S /\ inputSize' = P!Cardinality(S)
  BY <1>5 DEF P!SetPartition
<1>7. PICK q \in P!Orderings(S) : partition' = P!Written(partition, q, P!Cardinality(S))
  BY <1>6
<1>8. /\ phase = "ready" /\ phase' = "testing" /\ completed' = 0 /\ ~overlapped'
      /\ calls'[Process] = 0 /\ callPc' = callPc
  BY <1>5 DEF P!SetPartition
<1>9. callPc[Process] = "idle" BY <1>8 DEF EInv, RuntimeInv, P!IInv, P!EngineAlone
<1>10. partition \in [P!Slots -> P!Cells] BY DEF EInv, RuntimeInv, P!IInv, P!TypeOK
<1>11. given' = Partitionable(index) /\ candidate' = index BY DEF StartTest
<1>12. \A d \in equivalent' : d \in Partitionable(index) /\ AgreesSoFar(d, 0)'
  <2> TAKE d \in equivalent'
  <2>1. d \in Partitionable(index) /\ d \in Candidates BY <1>6, <1>11
  <2>2. Len(program.calls[d][NextTest]) \in Nat BY <1>3, <2>1, ProgramType DEF EInv
  <2> QED BY <1>1, <1>4, <2>1, <2>2 DEF AgreesSoFar, AgreeUpTo
<1>13. P!Contents(partition') = {} BY <1>7, <1>10, WrittenReadsNothing
<1>14. 0 <= Len(Own)' BY <1>1, <1>3, <1>4, ProgramType DEF Own, EInv
<1>15. Testing'
  BY <1>4, <1>8, <1>9, <1>11, <1>12, <1>13, <1>14 DEF Testing
<1>16. GivenKept'
  <2>1. P!Cardinality(S) \in P!Slots /\ Capacity \in Nat
    BY SameAssumption, P!InputFits DEF P!RuntimeAssumption
  <2>2. \A j \in 0 .. inputSize' - 1 : partition'[j] \in S
    BY <1>6, <1>7, <2>1 DEF P!Written, P!Orderings, P!Slots
  <2> QED BY <1>6, <1>8, <1>9, <2>2 DEF GivenKept
<1>17. Reading' BY <1>8 DEF Reading
<1> QED BY <1>15, <1>16, <1>17 DEF TestInv

\* A call keeps the candidates that return what the current one returns.
LEMMA CallInv == ASSUME EInv, Call PROVE TestInv'
<1> DEFINE k == calls[Process] + 1
<1>1. /\ phase = "testing" /\ ~CallsBegun /\ UNCHANGED <<searchVars, program, cut>>
      /\ P!BeginCall(Process) /\ eval'[Process] = NextOutcomes
  BY SameBeginCall DEF Call
<1>2. /\ MustExecute /\ candidate = index /\ given = Partitionable(index) /\ ~overlapped
      /\ completed \in Nat /\ calls[Process] <= Len(Own)
      /\ \A d \in equivalent : d \in Partitionable(index) /\ AgreesSoFar(d, calls[Process])
      /\ calls[Process] = completed + (IF callPc[Process] = "idle" THEN 0 ELSE 1)
  BY <1>1 DEF EInv, TestInv, Testing
<1>3. index \in Candidates /\ NextTest \in Tests BY <1>2, TestAtHand DEF EInv
<1>4. /\ MustExecute' /\ NextTest' = NextTest /\ index' = index
      /\ Partitionable(index)' = Partitionable(index)
  BY <1>1, <1>2, SearchKept
<1>5. PICK f \in [Candidates -> P!Outcomes] :
        /\ eval' = [eval EXCEPT ![Process] = f]
        /\ equivalent' = {q \in equivalent : P!Impact(f[q]) = P!Impact(f[candidate])}
  BY <1>1 DEF P!BeginCall
<1>6. /\ callPc[Process] = "idle" /\ callPc' = [callPc EXCEPT ![Process] = "dispatch"]
      /\ overlapped' = (overlapped \/ \E q \in {Process} : callPc[q] # "idle")
      /\ calls' = [calls EXCEPT ![Process] = @ + 1]
      /\ id' = [id EXCEPT ![Process] = candidate]
      /\ UNCHANGED <<partition, phase, candidate, inputSize, given, completed>>
  BY <1>1 DEF P!BeginCall, P!engineVars
<1>7. /\ calls \in [{Process} -> Nat] /\ eval \in [{Process} -> [Candidates -> P!Outcomes]]
      /\ callPc \in [{Process} -> {"idle", "dispatch", "compare", "check", "load", "terminate"}]
      /\ id \in [{Process} -> P!Cells]
  BY DEF EInv, RuntimeInv, P!IInv, P!TypeOK
<1>8. f = NextOutcomes BY <1>1, <1>5, <1>7
<1>9. /\ ~overlapped' /\ calls'[Process] = k /\ callPc'[Process] = "dispatch"
      /\ id'[Process] = index /\ calls[Process] = completed
  <2>1. ~overlapped' BY <1>2, <1>6, Zenon
  <2>2. callPc'[Process] = "dispatch" BY <1>6, <1>7
  <2>3. calls'[Process] = k BY <1>6, <1>7
  <2>4. id'[Process] = index BY <1>2, <1>6, <1>7
  <2>5. calls[Process] = completed BY <1>2, <1>6
  <2> QED BY <2>1, <2>2, <2>3, <2>4, <2>5
<1>10. /\ Len(Own) \in Nat /\ k \in Nat /\ calls[Process] < Len(Own) /\ k <= Len(Own)
  <2>1. Len(Own) \in Nat BY <1>3, ProgramType DEF EInv, Own
  <2>2. calls[Process] # Len(Own) BY <1>1 DEF CallsBegun, Own
  <2> QED BY <1>2, <1>7, <2>1, <2>2
<1>11. \A d \in equivalent' : d \in Partitionable(index) /\ AgreesSoFar(d, k)
  <2> TAKE d \in equivalent'
  <2> DEFINE u == program.calls[d][NextTest]
  <2>1. /\ d \in Partitionable(index) /\ d \in Candidates /\ AgreesSoFar(d, k - 1)
        /\ P!Impact(f[d]) = P!Impact(f[index])
    <3>1. k - 1 = calls[Process] BY <1>7
    <3> QED BY <1>2, <1>5, <3>1 DEF Partitionable
  <2>2. k <= Len(u) BY <1>3, <1>7, <1>10, <2>1, CallsOn DEF EInv
  <2>3. AgreeUpTo(u, Own, k - 1) /\ AgreeUpTo(Own, Own, k - 1)
    BY <2>1 DEF AgreesSoFar, AgreeUpTo
  <2>4. f[d] = u[k] BY <1>8, <2>1, <2>2, <2>3 DEF NextOutcomes, Own
  <2>5. f[index] = Own[k] BY <1>3, <1>8, <1>10, <2>3 DEF NextOutcomes, Own
  <2>6. Runtime!Impact(u[k]) = Runtime!Impact(Own[k])
    BY <2>1, <2>4, <2>5 DEF Runtime!Impact, P!Impact
  <2>7. \A i \in 1 .. k : i \in 1 .. k - 1 \/ i = k BY <1>10
  <2>8. AgreeUpTo(u, Own, k) BY <2>3, <2>6, <2>7 DEF AgreeUpTo
  <2> QED BY <2>1, <2>2, <2>8 DEF AgreesSoFar
<1>12. Own' = Own /\ \A d, n : AgreesSoFar(d, n)' = AgreesSoFar(d, n)
  BY <1>1, <1>4 DEF Own, AgreesSoFar, AgreeUpTo
<1>13. Testing'
  <2>1. k # 0 /\ k = completed + 1 BY <1>2, <1>9
  <2>2. \A d \in equivalent' : d \in Partitionable(index)' /\ AgreesSoFar(d, calls[Process])'
    <3>1. \A d : AgreesSoFar(d, calls[Process])' = AgreesSoFar(d, k)
      BY <1>1, <1>4, <1>9 DEF Own, AgreesSoFar, AgreeUpTo
    <3> QED BY <1>4, <1>11, <3>1
  <2> QED BY <1>2, <1>4, <1>6, <1>9, <1>10, <1>12, <2>1, <2>2 DEF Testing
<1>14. GivenKept'
  <2>1. index \in given BY <1>2, <1>3 DEF Partitionable
  <2> QED BY <1>1, <1>6, <1>9, <2>1 DEF GivenKept, EInv, TestInv
<1>15. Reading' BY <1>1, <1>6 DEF Reading
<1> QED BY <1>13, <1>14, <1>15 DEF TestInv

\* The steps inside a call move ids of the application to the front.
LEMMA InsideCallInv == ASSUME EInv, InsideCall PROVE TestInv'
<1>1. P!CallStep(Process) /\ UNCHANGED <<searchVars, program, cut>>
  BY SameCallStep DEF InsideCall
<1> USE DEF P!engineVars, P!historyVars, P!frameVars
<1>2. /\ callPc[Process] # "idle"
      /\ UNCHANGED <<phase, candidate, inputSize, given, calls, equivalent, overlapped>>
      /\ \/ completed' = completed /\ callPc'[Process] # "idle"
         \/ completed' = completed + 1 /\ callPc'[Process] = "idle"
  <2>1. callPc \in [{Process} -> {"idle", "dispatch", "compare", "check", "load", "terminate"}]
    BY DEF EInv, RuntimeInv, P!IInv, P!TypeOK
  <2> QED BY <1>1, <2>1
          DEF P!CallStep, P!Dispatch, P!Compare, P!CheckInput, P!LoadInput, P!Terminate
<1>3. phase = "testing" BY <1>2 DEF EInv, RuntimeInv, P!IInv, P!EngineAlone
<1>4. /\ MustExecute' = MustExecute /\ NextTest' = NextTest /\ index' = index
      /\ Partitionable(index)' = Partitionable(index)
  BY <1>1, SearchKept
<1>5. Own' = Own /\ \A d, n : AgreesSoFar(d, n)' = AgreesSoFar(d, n)
  BY <1>1, <1>4 DEF Own, AgreesSoFar, AgreeUpTo
<1>6. Testing'
  <2>1. Testing BY DEF EInv, TestInv
  <2>2. /\ completed \in Nat /\ calls[Process] = completed + 1 BY <1>2, <1>3, <2>1 DEF Testing
  <2>3. \A d \in equivalent' : d \in Partitionable(index)' /\ AgreesSoFar(d, calls[Process])'
    <3>1. \A d : AgreesSoFar(d, calls[Process])' = AgreesSoFar(d, calls[Process])
      BY <1>1, <1>2, <1>4 DEF Own, AgreesSoFar, AgreeUpTo
    <3> QED BY <1>2, <1>3, <1>4, <2>1, <3>1 DEF Testing
  <2>4. calls'[Process] # 0 /\ completed' \in Nat BY <1>2, <2>2
  <2>5. calls'[Process] = completed' + (IF callPc'[Process] = "idle" THEN 0 ELSE 1)
    BY <1>2, <2>2
  <2> QED BY <1>2, <1>3, <1>4, <1>5, <2>1, <2>3, <2>4, <2>5 DEF Testing
<1>7. GivenKept'
  <2> DEFINE G == given \cup P!Terminators
  <2>1. /\ given \subseteq Candidates /\ \A j \in 0 .. inputSize - 1 : partition[j] \in G
        /\ id[Process] \in G
    BY <1>2, <1>3 DEF EInv, TestInv, GivenKept
  <2>2. /\ partition \in [P!Slots -> P!Cells] /\ id \in [{Process} -> P!Cells]
        /\ input_index \in [{Process} -> Nat] /\ output_index \in [{Process} -> Nat]
        /\ inputSize \in P!Slots /\ Capacity \in Nat
    BY SameAssumption DEF EInv, RuntimeInv, P!IInv, P!TypeOK, P!RuntimeAssumption
  <2>3. UNCHANGED P!Terminators BY DEF P!Terminators
  <2>4. \A j \in 0 .. inputSize - 1 : partition'[j] \in G
    <3>1. \/ partition' = partition
          \/ partition' = [partition EXCEPT ![output_index[Process]] = id[Process]]
          \/ partition' = [partition EXCEPT ![output_index[Process]] = OutputTerminator]
      BY <1>1 DEF P!CallStep, P!Dispatch, P!Compare, P!CheckInput, P!LoadInput, P!Terminate
    <3>2. OutputTerminator \in G BY DEF P!Terminators
    <3>3. \A j \in 0 .. inputSize - 1 : j \in P!Slots BY <2>2 DEF P!Slots
    <3> QED BY <2>1, <2>2, <3>1, <3>2, <3>3
  <2>5. id'[Process] \in G
    <3>1. CASE UNCHANGED id BY <2>1, <3>1
    <3>2. CASE P!LoadInput(Process)
      <4>1. callPc[Process] = "load" /\ id' = [id EXCEPT ![Process] = partition[input_index[Process]]]
        BY <3>2 DEF P!LoadInput
      <4>2. input_index[Process] < inputSize
        BY <4>1 DEF EInv, RuntimeInv, P!IInv, P!Frames, P!InCall
      <4>3. input_index[Process] \in 0 .. inputSize - 1 BY <2>2, <4>2 DEF P!Slots
      <4> QED BY <2>1, <2>2, <4>1, <4>3
    <3> QED BY <1>1, <3>1, <3>2
            DEF P!CallStep, P!Dispatch, P!Compare, P!CheckInput, P!Terminate
  <2> QED BY <1>2, <2>1, <2>3, <2>4, <2>5 DEF GivenKept
<1>8. Reading' BY <1>2, <1>3 DEF Reading
<1> QED BY <1>6, <1>7, <1>8 DEF TestInv

\* When the program has made all its calls, what is in the buffer has the
\* outcome of the current candidate.
LEMMA AllCallsMade ==
    ASSUME EInv, phase = "testing", callPc[Process] = "idle", CallsBegun
    PROVE  SoundPartition(P!Contents(partition))
<1>1. /\ MustExecute /\ ~overlapped /\ completed = calls[Process] /\ completed \in Nat
      /\ \A d \in equivalent : d \in Partitionable(index) /\ AgreesSoFar(d, Len(Own))
      /\ calls[Process] = 0 => P!Contents(partition) = {}
  BY DEF EInv, TestInv, Testing, CallsBegun, Own
<1>2. index \in Candidates /\ NextTest \in Tests BY <1>1, TestAtHand DEF EInv
<1>3. \A d \in equivalent : verdict[d][NextTest] = verdict[index][NextTest]
  BY <1>1, <1>2, AgreedThroughout DEF EInv
<1>4. completed > 0 => P!Contents(partition) = equivalent
  BY <1>1 DEF EInv, RuntimeInv, P!ExactInv, P!Alone, P!BetweenExact, P!InCall
<1>5. P!Contents(partition) = {} \/ P!Contents(partition) = equivalent BY <1>1, <1>4
<1> QED BY <1>1, <1>3, <1>5 DEF SoundPartition

\* A test that ends by itself has made all its calls.
LEMMA TestEndsInv == ASSUME EInv, TestEnds PROVE TestInv'
<1>1. /\ P!TestEnds /\ CallsBegun /\ verdict[index][NextTest] # "TIMEOUT"
      /\ UNCHANGED <<searchVars, program, cut>>
  BY SameEnds DEF TestEnds
<1>2. /\ phase = "testing" /\ callPc[Process] = "idle" /\ phase' = "read"
      /\ UNCHANGED <<partition, given, inputSize, callPc, id>>
  BY <1>1 DEF P!TestEnds, P!frameVars
<1>3. MustExecute BY <1>2 DEF EInv, TestInv, Testing
<1>4. SoundPartition(P!Contents(partition)) BY <1>1, <1>2, AllCallsMade
<1>5. cfg.valueTEQ BY EquivalenceAssumption DEF EInv, Bookkeeping, TypeOK
<1>6. P!Contents(partition) \in Partitions(index, NextTest)
  BY <1>4, <1>5 DEF SoundPartition, Partitions
<1>7. P!Contents(partition)' = P!Contents(partition)
  BY <1>2 DEF P!Contents, P!FirstStop, P!Stops, P!Terminators
<1>8. Reading' BY <1>1, <1>3, <1>4, <1>6, <1>7, SearchKept DEF Reading, SoundPartition
<1>9. Testing' BY <1>2 DEF Testing
<1>10. GivenKept' BY <1>2 DEF GivenKept, EInv, TestInv, P!Terminators
<1> QED BY <1>8, <1>9, <1>10 DEF TestInv

\* A test that is killed leaves ids of the application, and sound ones unless
\* it is killed inside the generated function.
LEMMA TimeoutInv == ASSUME EInv, Timeout PROVE TestInv'
<1>1. /\ P!Timeout /\ CallsBegun /\ verdict[index][NextTest] = "TIMEOUT"
      /\ cut' = (cut \/ callPc[Process] # "idle")
      /\ UNCHANGED <<searchVars, program>>
  BY SameEnds DEF Timeout, Runtime!InCall
<1>2. /\ phase = "testing" /\ phase' = "read"
      /\ callPc' = [r \in {Process} |-> "idle"]
      /\ UNCHANGED <<partition, given, inputSize, id>>
  BY <1>1 DEF P!Timeout, P!frameVars
<1>3. MustExecute /\ given = Partitionable(index) BY <1>2 DEF EInv, TestInv, Testing
<1>4. P!Contents(partition) \subseteq Partitionable(index)
  BY <1>2, <1>3, ContentsGiven DEF EInv, RuntimeInv, TestInv
<1>5. P!Contents(partition) \in Partitions(index, NextTest) BY <1>1, <1>4 DEF Partitions
<1>6. ~cut' => SoundPartition(P!Contents(partition)) BY <1>1, <1>2, AllCallsMade
<1>7. P!Contents(partition)' = P!Contents(partition)
  BY <1>2 DEF P!Contents, P!FirstStop, P!Stops, P!Terminators
<1>8. Reading' BY <1>1, <1>3, <1>5, <1>6, <1>7, SearchKept DEF Reading, SoundPartition
<1>9. Testing' BY <1>2 DEF Testing
<1>10. GivenKept' BY <1>2 DEF GivenKept, EInv, TestInv, P!Terminators
<1> QED BY <1>8, <1>9, <1>10 DEF TestInv

\* The partition read back is one that SearchEngine may draw.
LEMMA RecordIsExecution == ASSUME EInv, Record PROVE ExecuteTest /\ Reads = P!Contents(partition)
<1>1. phase = "read" BY SameEnds DEF Record, P!GetPartition
<1>2. Reads = P!Contents(partition) BY SameContents DEF Reads
<1>3. MustExecute /\ Reads \in Partitions(index, NextTest)
  BY <1>1, <1>2 DEF EInv, TestInv, Reading
<1> QED BY <1>2, <1>3 DEF Record, ExecuteTest

LEMMA RecordInv ==
    ASSUME EInv, Record
    PROVE  Bookkeeping' /\ (~cut' => Sound') /\ TestInv' /\ UNCHANGED verdict
<1>1. /\ P!GetPartition /\ RecordOutcome(Reads) /\ UNCHANGED <<program, cut>>
  BY SameEnds DEF Record
<1>2. phase = "read" /\ phase' = "ready" BY <1>1 DEF P!GetPartition
<1>3. ExecuteTest /\ MustExecute /\ Reads = P!Contents(partition)
  BY RecordIsExecution DEF ExecuteTest
<1>4. Bookkeeping' BY <1>3, StepBooks DEF Next, EInv
<1>5. ~cut' => Sound'
  <2> SUFFICES ASSUME ~cut PROVE Sound' BY <1>1
  <2>1. SoundPartition(Reads) BY <1>2, <1>3 DEF EInv, TestInv, Reading
  <2> QED BY <1>1, <1>3, <2>1, RecordSound DEF EInv
<1>6. TestInv' BY <1>2 DEF TestInv, Testing, GivenKept, Reading
<1>7. UNCHANGED verdict BY <1>1 DEF RecordOutcome
<1> QED BY <1>4, <1>5, <1>6, <1>7

\* Between tests, the search takes steps of its own.
LEMMA SearchStepInv ==
    ASSUME EInv, SearchStep
    PROVE  Bookkeeping' /\ (~cut' => Sound') /\ TestInv' /\ UNCHANGED verdict
<1>1. phase = "ready" /\ UNCHANGED <<runtimeVars, program, cut>> BY DEF SearchStep
<1>2. phase' = "ready" BY <1>1 DEF runtimeVars
<1>3. Next /\ UNCHANGED verdict
  BY DEF SearchStep, Next, FindNext, PatchSaved, SearchEnds, SkipFailing, StartCandidate,
         SkipPassing, ReturnFound, ReturnExhausted
<1>4. Bookkeeping' BY <1>3, StepBooks DEF EInv
<1>5. ~ExecuteTest
  <2>1. orderIndex \in Nat /\ Len(testOrder) \in Nat BY DEF EInv, Bookkeeping, TypeOK
  <2> QED BY <2>1 DEF SearchStep, ExecuteTest, MustExecute, FindNext, PatchSaved, SearchEnds,
              SkipFailing, StartCandidate, SkipPassing, ReturnFound, ReturnExhausted
<1>6. ~cut' => Sound' BY <1>1, <1>3, <1>5, OtherSound DEF EInv
<1>7. TestInv' BY <1>2 DEF TestInv, Testing, GivenKept, Reading
<1> QED BY <1>3, <1>4, <1>6, <1>7

\* Steps of the protocol alone.
LEMMA TestStepInv ==
    ASSUME EInv, StartTest \/ Call \/ InsideCall \/ TestEnds \/ Timeout
    PROVE  Bookkeeping' /\ (~cut' => Sound') /\ TestInv' /\ UNCHANGED verdict
<1>1. UNCHANGED searchVars /\ (~cut' => ~cut)
  <2>1. UNCHANGED searchVars BY DEF StartTest, Call, InsideCall, TestEnds, Timeout
  <2>2. cut' = cut \/ cut' = (cut \/ Runtime!InCall(Process))
    BY Zenon DEF StartTest, Call, InsideCall, TestEnds, Timeout
  <2>3. ~cut' => ~cut BY <2>2, Zenon
  <2> QED BY <2>1, <2>3
<1>2. Bookkeeping' /\ (~cut' => Sound') /\ UNCHANGED verdict BY <1>1, SearchKept DEF EInv
<1>3. TestInv' BY StartTestInv, CallInv, InsideCallInv, TestEndsInv, TimeoutInv
<1> QED BY <1>2, <1>3

LEMMA StutterInv ==
    ASSUME EInv, UNCHANGED allVars
    PROVE  Bookkeeping' /\ (~cut' => Sound') /\ TestInv' /\ UNCHANGED verdict
<1>1. UNCHANGED <<searchVars, runtimeVars, program, cut>> BY DEF allVars
<1>2. /\ Bookkeeping' = Bookkeeping /\ Sound' = Sound
      /\ MustExecute' = MustExecute /\ NextTest' = NextTest
      /\ Partitionable(index)' = Partitionable(index)
      /\ Partitions(index, NextTest)' = Partitions(index, NextTest)
      /\ UNCHANGED <<index, verdict, cfg>>
  BY <1>1, SearchKept
<1>3. P!Contents(partition)' = P!Contents(partition)
  BY <1>1 DEF runtimeVars, P!Contents, P!FirstStop, P!Stops, P!Terminators
<1>4. Testing' = Testing
  BY <1>1, <1>2, <1>3 DEF runtimeVars, Testing, AgreesSoFar, Own, AgreeUpTo
<1>5. GivenKept' = GivenKept BY <1>1 DEF runtimeVars, GivenKept, P!Terminators
<1>6. Reading' = Reading BY <1>1, <1>2, <1>3 DEF runtimeVars, Reading, SoundPartition
<1> QED BY <1>1, <1>2, <1>4, <1>5, <1>6 DEF EInv, TestInv

LEMMA StepEquivalence == EInv /\ [EquivalenceNext]_allVars => EInv'
<1> SUFFICES ASSUME EInv, [EquivalenceNext]_allVars PROVE EInv'
  OBVIOUS
<1>1. Bookkeeping' /\ (~cut' => Sound') /\ TestInv' /\ UNCHANGED verdict
  BY SearchStepInv, TestStepInv, RecordInv, StutterInv DEF EquivalenceNext
<1>2. RuntimeInv' BY RuntimeStep DEF EInv
<1>3. UNCHANGED program
  BY DEF EquivalenceNext, allVars, SearchStep, StartTest, Call, InsideCall, TestEnds, Timeout, Record
<1>4. Oracle' BY <1>1, <1>3 DEF EInv, Oracle, Deterministic, AgreeUpTo
<1> QED BY <1>1, <1>2, <1>4 DEF EInv

---------------------------------------------------------------------------
\* In every reachable state, for every deterministic program: the books are in
\* order, the tables are sound unless a test was cut, and the buffer holds what
\* the calls so far have left of the application.
THEOREM EquivalenceInvariance == EquivalenceSpec => []EInv
BY InitEquivalence, StepEquivalence, PTL DEF EquivalenceSpec

\* Unless a test is killed inside the generated function, findNext returns
\* exactly the plausible candidates, reading every outcome but the executed one
\* from the buffer.
THEOREM FindsExactlyUnlessCut == EquivalenceSpec => []FoundUnlessCut
<1>1. EInv => FoundUnlessCut BY DEF EInv, Sound, FoundUnlessCut
<1> QED BY EquivalenceInvariance, <1>1, PTL

\* A step of the two together is a step of the search that draws the partition.
LEMMA StepImplements == EInv /\ [EquivalenceNext]_allVars => [Next]_vars
<1> SUFFICES ASSUME EInv, [EquivalenceNext]_allVars PROVE [Next]_vars
  OBVIOUS
<1>1. CASE SearchStep BY <1>1 DEF SearchStep, Next
<1>2. CASE Record BY <1>2, RecordIsExecution DEF Next
<1>3. CASE StartTest \/ Call \/ InsideCall \/ TestEnds \/ Timeout
  BY <1>3 DEF StartTest, Call, InsideCall, TestEnds, Timeout, searchVars
<1>4. CASE UNCHANGED allVars BY <1>4 DEF allVars, searchVars
<1> QED BY <1>1, <1>2, <1>3, <1>4 DEF EquivalenceNext

\* Executing the protocol implements drawing a partition: with the code that
\* fills and reads the buffer, findNext is the search of SearchEngine.
THEOREM ExecutingImplementsDrawing == EquivalenceSpec => ImplementsSearchEngine
<1>1. EquivalenceInit => Init BY DEF EquivalenceInit
<1> QED BY <1>1, EquivalenceInvariance, StepImplements, PTL
        DEF EquivalenceSpec, ImplementsSearchEngine, Spec

===========================================================================
