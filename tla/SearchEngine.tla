--------------------------- MODULE SearchEngine ---------------------------
(***************************************************************************)
(* SearchEngine::findNext and its caller's loop in repair(): candidates    *)
(* are evaluated in the order of the prioritised search space, each on the *)
(* tests related to its location, until one passes all of them.  With      *)
(* value-based test-equivalence (cfg.valueTEQ) the outcome of one test     *)
(* execution is recorded for a whole partition of candidates, and recorded *)
(* outcomes stand for executions.                                          *)
(*                                                                         *)
(* Data abstraction: a candidate is its index in the search space, a       *)
(* schema application is the location it stands at (the generated function *)
(* is named after the location, so an application per location).  Tests    *)
(* are deterministic: the outcome of a candidate on a test is drawn once.  *)
(* After a test that ended by itself, getPartition returns some candidates *)
(* of the application that have the outcome of the executed one            *)
(* (PartitionExact of PartitionRuntime, for tests of one process); after a *)
(* killed test it may return any of the application (PartitionKilled).     *)
(***************************************************************************)
EXTENDS Integers, Sequences

CONSTANTS
    SpaceSize,          \* size of the search space
    Tests,
    Locations,
    LocationOf,         \* location of each candidate
    InitialRelated,     \* relatedTestIndexes as profiled: possible values
    Configs,            \* configurations of f1x: possible values of cfg
    Verdicts            \* per configuration, verdicts that tests can have

Candidates == 0 .. SpaceSize - 1

\* A test occurs once in the list of a location (Profiler::mergeTrace).
TestOrders == {s \in Seq(Tests) :
                 \A i, j \in 1 .. Len(s) : s[i] = s[j] => i = j}

ASSUME SearchAssumption ==
    /\ SpaceSize \in Nat
    /\ LocationOf \in [Candidates -> Locations]
    /\ InitialRelated \subseteq [Locations -> TestOrders]
    /\ Configs \subseteq [valueTEQ : BOOLEAN, maxFailing : BOOLEAN, generateAll : BOOLEAN]
    /\ Verdicts \in [Configs -> SUBSET {"PASS", "FAIL", "TIMEOUT"}]

VARIABLES
    cfg,                \* valueTEQ, maxFailing (testPrioritization is MAX_FAILING),
                        \* generateAll (the caller resumes after a patch)
    related,            \* relatedTestIndexes
    passing, failing,   \* tables of recorded outcomes
    pc,                 \* "caller", "explore" (loop head), "tests" (inner loop),
                        \* "found" (returned a patch), "done"
    index,              \* the loop variable of findNext, last of its caller
    testOrder,          \* copy of the related tests of the candidate
    orderIndex,
    stat,               \* SearchStatistics
    verdict,            \* oracle: outcome of each candidate on each test
    initial,            \* history: relatedTestIndexes as profiled
    next,               \* history: first candidate findNext has not decided
    found,              \* history: indexes that findNext returned
    merged              \* per test, candidates some partition contained: history,
                        \* and with SEMANTIC_DIFF the keys of coverageSet[test]

vars == <<cfg, related, passing, failing, pc, index, testOrder, orderIndex, stat,
          verdict, initial, next, found, merged>>

---------------------------------------------------------------------------
TestsOf(s) == {s[i] : i \in 1 .. Len(s)}

\* Mutant: off by one, the test in front is lost and the moved one is twice in.
MoveToFrontLossy(s, i) ==
    [j \in 1 .. Len(s) |-> IF j = 1 THEN s[i] ELSE IF j < i THEN s[j - 1] ELSE s[j]]

\* prioritizeTest: the test at position i is moved to the front.
MoveToFront(s, i) ==
    [j \in 1 .. Len(s) |-> IF j = 1 THEN s[i] ELSE IF j <= i THEN s[j - 1] ELSE s[j]]

\* Mutant: one partitionable set for all applications.
PartitionableAnywhere(c) == Candidates

\* (*partitionable)[app]: the candidates of the same application.
Partitionable(c) == {d \in Candidates : LocationOf[d] = LocationOf[c]}

\* What getPartition may return for an execution of candidate c on test t.
Partitions(c, t) ==
    SUBSET {d \in Partitionable(c) :
              verdict[c][t] = "TIMEOUT" \/ verdict[d][t] = verdict[c][t]}

NextTest == testOrder[orderIndex]

\* orderIndex = 0, as positions of TLA+ sequences.
FirstPosition == 1

\* Mutant: the passing table is not consulted.
KnownNever == FALSE

\* passing[test].count(elem.id), with value-based test-equivalence.
KnownToPass == cfg.valueTEQ /\ index \in passing[NextTest]

\* passAll = (status == TestStatus::PASS)
Passes(v) == v = "PASS"

\* Mutant: the end of the search space is missed.
ExhaustedLate == index > SpaceSize

\* index < searchSpace.size() and last < searchSpace.size() fail.
Exhausted == index >= SpaceSize

---------------------------------------------------------------------------
\* The constructor: empty tables, zero statistics.
Init ==
    /\ cfg \in Configs
    /\ initial \in InitialRelated /\ related = initial
    /\ passing = [t \in Tests |-> {}] /\ failing = {}
    /\ pc = "caller" /\ index = 0 /\ testOrder = <<>> /\ orderIndex = 1
    /\ stat = [exploration |-> 0, execution |-> 0, timeout |-> 0, nonTimeout |-> 0]
    /\ verdict \in [Candidates -> [Tests -> Verdicts[cfg]]]
    /\ next = 0 /\ found = {} /\ merged = [t \in Tests |-> {}]

\* while (last < searchSpace.size()) last = engine.findNext(searchSpace, last);
FindNext ==
    /\ pc = "caller" /\ ~Exhausted
    /\ pc' = "explore"
    /\ UNCHANGED <<related, passing, failing, index, testOrder, orderIndex, stat,
                   cfg, verdict, initial, next, found, merged>>

\* The caller saved the returned patch: it resumes behind it, or one is enough.
PatchSaved ==
    /\ pc = "found"
    /\ IF cfg.generateAll THEN index' = index + 1 /\ pc' = "caller"
                          ELSE index' = index /\ pc' = "done"
    /\ UNCHANGED <<related, passing, failing, testOrder, orderIndex, stat,
                   cfg, verdict, initial, next, found, merged>>

\* The caller's loop ends, by its condition or by last == searchSpace.size().
SearchEnds ==
    /\ pc = "caller" /\ Exhausted
    /\ pc' = "done"
    /\ UNCHANGED <<related, passing, failing, index, testOrder, orderIndex, stat,
                   cfg, verdict, initial, next, found, merged>>

\* if (failing.count(elem.id)) continue;
SkipFailing ==
    /\ pc = "explore" /\ index < SpaceSize
    /\ cfg.valueTEQ /\ index \in failing
    /\ stat' = [stat EXCEPT !.exploration = @ + 1]
    /\ index' = index + 1
    /\ UNCHANGED <<related, passing, failing, pc, testOrder, orderIndex,
                   cfg, verdict, initial, next, found, merged>>

\* The candidate's ids go into the environment, its tests are copied.
StartCandidate ==
    /\ pc = "explore" /\ index < SpaceSize
    /\ ~(cfg.valueTEQ /\ index \in failing)
    /\ stat' = [stat EXCEPT !.exploration = @ + 1]
    /\ testOrder' = related[LocationOf[index]]
    /\ orderIndex' = FirstPosition
    /\ pc' = "tests"
    /\ UNCHANGED <<related, passing, failing, index, cfg, verdict, initial, next, found, merged>>

\* if (passing[test].count(elem.id)) continue;
SkipPassing ==
    /\ pc = "tests" /\ orderIndex <= Len(testOrder)
    /\ KnownToPass
    /\ orderIndex' = orderIndex + 1
    /\ UNCHANGED <<related, passing, failing, pc, index, testOrder, stat,
                   cfg, verdict, initial, next, found, merged>>

CountExecution(v) ==
    stat' = [exploration |-> stat.exploration,
             execution   |-> stat.execution + 1,
             timeout     |-> stat.timeout + (IF v = "TIMEOUT" THEN 1 ELSE 0),
             nonTimeout  |-> stat.nonTimeout + (IF v = "TIMEOUT" THEN 0 ELSE 1)]

\* Mutant: the candidate itself is left out.
RecordedPartition(c, part) == IF cfg.valueTEQ THEN part ELSE {}

\* What an execution's outcome is recorded for.
Recorded(c, part) == IF cfg.valueTEQ THEN part \cup {c} ELSE {}

\* The outcome is counted, and recorded for the partition; a failing test may be
\* moved to the front of its location's list and ends the candidate.
RecordOutcome(part) ==
    LET record == Recorded(index, part)
    IN  /\ CountExecution(verdict[index][NextTest])
        /\ merged' = [merged EXCEPT ![NextTest] = @ \cup record]
        /\ \/ /\ Passes(verdict[index][NextTest])
              /\ passing' = [passing EXCEPT ![NextTest] = @ \cup record]
              /\ orderIndex' = orderIndex + 1
              /\ UNCHANGED <<failing, related, index, pc>>
           \/ /\ ~Passes(verdict[index][NextTest])
              /\ failing' = failing \cup record
              /\ related' = IF cfg.maxFailing
                              THEN [related EXCEPT ![LocationOf[index]] =
                                      MoveToFront(@, orderIndex)]
                              ELSE related
              /\ index' = index + 1
              /\ pc' = "explore"
              /\ UNCHANGED <<passing, orderIndex>>
        /\ UNCHANGED <<testOrder, cfg, verdict, initial, next, found>>

\* The inner loop is at a test whose outcome is not known.
MustExecute == pc = "tests" /\ orderIndex <= Len(testOrder) /\ ~KnownToPass

\* setPartition, execute, getPartition, and what the outcome changes.
ExecuteTest ==
    /\ MustExecute
    /\ \E part \in Partitions(index, NextTest) : RecordOutcome(part)

\* if (passAll) return index;
ReturnFound ==
    /\ pc = "tests" /\ orderIndex > Len(testOrder)
    /\ found' = found \cup {index}
    /\ next' = index + 1
    /\ pc' = "found"
    /\ UNCHANGED <<related, passing, failing, index, testOrder, orderIndex, stat,
                   cfg, verdict, initial, merged>>

\* return index with index = searchSpace.size().
ReturnExhausted ==
    /\ pc = "explore" /\ Exhausted
    /\ next' = SpaceSize
    /\ pc' = "caller"
    /\ UNCHANGED <<related, passing, failing, index, testOrder, orderIndex, stat,
                   cfg, verdict, initial, found, merged>>

Next == \/ FindNext \/ PatchSaved \/ SearchEnds \/ SkipFailing \/ StartCandidate
        \/ SkipPassing \/ ExecuteTest \/ ReturnFound \/ ReturnExhausted

Spec == Init /\ [][Next]_vars

\* The engine is one thread that nothing blocks (every test execution ends,
\* by itself or by the timeout).
FairSpec == Spec /\ WF_vars(Next)
---------------------------------------------------------------------------
TypeOK ==
    /\ related \in [Locations -> Seq(Tests)] /\ initial \in [Locations -> Seq(Tests)]
    /\ passing \in [Tests -> SUBSET Candidates] /\ failing \in SUBSET Candidates
    /\ merged \in [Tests -> SUBSET Candidates] /\ found \in SUBSET Candidates
    /\ pc \in {"caller", "explore", "tests", "found", "done"}
    /\ index \in 0 .. SpaceSize /\ next \in 0 .. SpaceSize
    /\ testOrder \in Seq(Tests) /\ orderIndex \in 1 .. Len(testOrder) + 1
    /\ stat \in [exploration : Nat, execution : Nat, timeout : Nat, nonTimeout : Nat]
    /\ cfg \in Configs /\ verdict \in [Candidates -> [Tests -> Verdicts[cfg]]]
    /\ pc \in {"tests", "found"} => index \in Candidates

\* No test is killed while partitions are recorded: what a killed test leaves
\* in the buffer may name candidates that would have passed it.
SoundPartitions == \A c \in Configs : c.valueTEQ => "TIMEOUT" \notin Verdicts[c]

\* The tests a candidate must pass are those profiled for its location,
\* whatever order prioritizeTest has given them since.
RelatedTests(c) == TestsOf(initial[LocationOf[c]])
Plausible(c)    == \A t \in RelatedTests(c) : verdict[c][t] = "PASS"

\* The recorded outcomes are the ones executions would give: a candidate is in
\* passing[t] only if it passes t, and in failing only if it fails a test that
\* is related to its own location.
TablesSound ==
    /\ \A t \in Tests : \A c \in passing[t] : verdict[c][t] = "PASS"
    /\ \A c \in failing : ~Plausible(c)

\* Of the candidates decided so far, findNext returned exactly those that pass
\* all their related tests: none is lost to a skip, none gets through unproven.
FoundExactly == \A c \in 0 .. next - 1 : c \in found <=> Plausible(c)

\* Reordering the tests of a location never drops or duplicates one.
RelatedPermuted ==
    \A l \in Locations : /\ Len(related[l]) = Len(initial[l])
                         /\ TestsOf(related[l]) = TestsOf(initial[l])

\* With SEMANTIC_DIFF the coverage of the patches found is listed for every test:
\* each has an entry for the tests related to its own location, executed or
\* skipped.  (The listing also looks for the tests of other locations, where
\* there may be none.)
FoundCovered ==
    cfg.valueTEQ => \A c \in found : \A t \in RelatedTests(c) : c \in merged[t]

\* The test moved to the front is one the candidate fails: the position in the
\* copy the loop runs over is also its position in the list that is reordered.
PrioritizesFailing ==
    [][\A l \in Locations : related'[l] # related[l] =>
          verdict[index][related'[l][1]] # "PASS"]_vars

\* README.md: it can detect that p3 has the same result on t2 as p1 and skip a
\* redundant execution.  A candidate that some partition of a test contained is
\* never executed on this test.
NoRedundantExecution ==
    [][stat'.execution # stat.execution => index \notin merged[NextTest]]_vars

\* The search implements the abstract one.
Abstract == INSTANCE PlausibleSearch
              WITH plausible <- {c \in Candidates : Plausible(c)}
ImplementsPlausibleSearch == Abstract!Spec

\* The search ends, after the first patch or after the whole space.
SearchTerminates == <>(pc = "done")
===========================================================================
