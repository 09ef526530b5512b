------------------------- MODULE FaultLocalization -------------------------
(***************************************************************************)
(* FaultLocalization::localize chooses the files to repair when the user   *)
(* names none: every test runs once on the program built with coverage     *)
(* counters, gcovr reads the counters into coverage[test] and deletes      *)
(* them, and files are ranked by the statements that every failing test    *)
(* executes.                                                               *)
(*                                                                         *)
(* Data abstraction: a statement is a line of a file.  The counters are    *)
(* the set of statements with a positive count: a process adds what it has *)
(* executed when it exits, and nothing when it is killed or aborts.        *)
(* Scores are multiplied by Scale, a multiple of all denominators, which   *)
(* makes the quotients exact (the code adds doubles).                      *)
(***************************************************************************)
EXTENDS Integers, SequencesExt

CONSTANTS
    NumTests,           \* tests.size()
    Statements,
    FileOf,             \* file of each statement
    CompileCommands,    \* files of the entries of compile_commands.json, in order
    SourceFiles,        \* the files with an extension of SOURCE_FILE_EXTENSIONS
    FilesToLocalize,    \* cfg.filesToLocalize
    FirstPackages,      \* possible values of firstPackage
    Scale               \* of the scores: a common multiple of the numbers up to
                        \* totalPassed + passedStmt

Tests == 0 .. NumTests - 1

ASSUME LocalizationAssumption ==
    /\ NumTests \in Nat /\ FilesToLocalize \in Nat
    /\ IsFiniteSet(Statements)
    /\ DOMAIN FileOf = Statements
    /\ CompileCommands \in Seq(Range(CompileCommands))
    /\ Scale \in Nat \ {0} /\ \A d \in 1 .. 2 * NumTests : Scale % d = 0

\* filesFromCompilationDB: an entry each, whatever the entries before it.
AllFiles == FoldLeft(LAMBDA files, f : IF f \in SourceFiles THEN Append(files, f) ELSE files,
                     <<>>, CompileCommands)

VARIABLES
    pc,             \* "test", "extract", "score", "done"
    i,              \* the test at hand
    status,         \* of the test at hand
    counters,       \* the .gcda files
    coverage,       \* per test, {} when there is no entry
    passedTests,
    localized,      \* the files returned
    firstPackage,   \* oracle: files of the first package in gcovr's output
                    \* (a package is a directory of the project)
    executed,       \* history: statements each test has executed
    lost,           \* history: tests with a process that left no counters
    skipped,        \* history: tests without an extraction that succeeded
    timedOut        \* history: tests that the timeout has killed

histVars == <<firstPackage, executed, lost, skipped, timedOut>>
vars == <<pc, i, status, counters, coverage, passedTests, localized, histVars>>

---------------------------------------------------------------------------
Init ==
    /\ pc = "test" /\ i = 0 /\ status = "PASS"
    /\ counters = {} /\ coverage = [t \in Tests |-> {}] /\ passedTests = {}
    /\ localized = <<>> /\ firstPackage \in FirstPackages
    /\ executed = [t \in Tests |-> {}]
    /\ lost = {} /\ skipped = {} /\ timedOut = {}

\* for (auto &test : tests)
MoreTests == i < NumTests

\* tester.execute(test).  Only the counters of processes that exit are written.
\* The case of TIMEOUT has neither an extraction nor a reset of the counters.
ExecuteTest(result, ran, flushed) ==
    /\ pc = "test" /\ MoreTests
    /\ flushed \subseteq ran
    /\ status' = result
    /\ counters' = counters \cup flushed
    /\ executed' = [executed EXCEPT ![i] = ran]
    /\ lost' = IF flushed = ran THEN lost ELSE lost \cup {i}
    /\ passedTests' = IF result = "PASS" THEN passedTests \cup {i} ELSE passedTests
    /\ IF result = "TIMEOUT"
         THEN /\ i' = i + 1 /\ pc' = "test"
              /\ skipped' = skipped \cup {i} /\ timedOut' = timedOut \cup {i}
         ELSE /\ pc' = "extract"
              /\ UNCHANGED <<i, skipped, timedOut>>
    /\ UNCHANGED <<coverage, localized, firstPackage>>

\* Mutant: gcovr without --delete.
KeepCounters == counters

\* gcovr --delete
DeletedCounters == {}

\* The nodes extractAndSaveCoverage visits: the classes of the first package.
Visited(S) == {s \in S : FileOf[s] \in firstPackage}

\* extractAndSaveCoverage: the counters accumulated since the last deletion,
\* which gcovr deletes for all packages.
ExtractCoverage ==
    /\ pc = "extract"
    /\ coverage' = [coverage EXCEPT ![i] = Visited(counters)]
    /\ counters' = DeletedCounters
    /\ i' = i + 1 /\ pc' = "test"
    /\ UNCHANGED <<status, passedTests, localized, histVars>>

\* gcovr fails, or there is no package in its output: the exception is caught
\* and the test has no coverage, but stays passed or failed.
ExtractionFails ==
    /\ pc = "extract"
    /\ counters' \in {counters, {}}
    /\ skipped' = skipped \cup {i}
    /\ i' = i + 1 /\ pc' = "test"
    /\ UNCHANGED <<status, coverage, passedTests, localized, firstPackage, executed,
                   lost, timedOut>>

---------------------------------------------------------------------------
totalPassed == Cardinality(passedTests)
totalFailed == NumTests - totalPassed
FailedTests == Tests \ passedTests

passedStmt(s) == Cardinality({t \in passedTests : s \in coverage[t]})
failedStmt(s) == Cardinality({t \in FailedTests : s \in coverage[t]})

\* a = (totalFailed == failedStmt ? 1 : 0)
FailureShare(s) == IF failedStmt(s) = totalFailed THEN 1 ELSE 0

\* tarantula_custom: a / (a + b) with b = passedStmt / totalPassed.
LineScore(s) ==
    IF FailureShare(s) = 0 THEN 0
    ELSE IF totalPassed = 0 THEN Scale
    ELSE (Scale * totalPassed) \div (totalPassed + passedStmt(s))

\* Only the lines that some test has covered have a score.
AllLines(f) == {s \in Statements : FileOf[s] = f /\ \E t \in Tests : s \in coverage[t]}
FileScore(f) == MapThenSumSet(LineScore, AllLines(f))

\* std::stable_sort by decreasing score: how many entries stand before entry k.
Before(k) ==
    {j \in DOMAIN AllFiles : \/ FileScore(AllFiles[j]) > FileScore(AllFiles[k])
                             \/ /\ FileScore(AllFiles[j]) = FileScore(AllFiles[k])
                                /\ j < k}
Sorted ==
    [r \in DOMAIN AllFiles |->
       AllFiles[CHOOSE k \in DOMAIN AllFiles : Cardinality(Before(k)) = r - 1]]

\* Mutant: the last file within the limit is left out.
KeptLengthShort ==
    Cardinality({r \in DOMAIN AllFiles : r < FilesToLocalize /\ FileScore(Sorted[r]) > 0})

\* The loop over length: the entries within the limit that have a score.
KeptLength ==
    Cardinality({r \in DOMAIN AllFiles : r <= FilesToLocalize /\ FileScore(Sorted[r]) > 0})

Localize ==
    /\ pc = "test" /\ ~MoreTests
    /\ localized' = SubSeq(Sorted, 1, KeptLength)
    /\ pc' = "done"
    /\ UNCHANGED <<i, status, counters, coverage, passedTests, histVars>>

Next ==
    \/ \E result \in {"PASS", "FAIL", "TIMEOUT"}, ran, flushed \in SUBSET Statements :
          ExecuteTest(result, ran, flushed)
    \/ ExtractCoverage \/ ExtractionFails \/ Localize

Spec == Init /\ [][Next]_vars
---------------------------------------------------------------------------

TypeOK ==
    /\ pc \in {"test", "extract", "done"} /\ i \in 0 .. NumTests
    /\ pc = "extract" => i \in Tests
    /\ status \in {"PASS", "FAIL", "TIMEOUT"}
    /\ counters \in SUBSET Statements
    /\ coverage \in [Tests -> SUBSET Statements]
    /\ executed \in [Tests -> SUBSET Statements]
    /\ passedTests \in SUBSET Tests /\ localized \in Seq(Range(AllFiles))
    /\ firstPackage \in FirstPackages
    /\ lost \in SUBSET Tests /\ skipped \in SUBSET Tests /\ timedOut \in SUBSET Tests

\* A test is never credited with a statement that neither it has executed nor
\* one of the skipped tests right before it, whose counters nothing deleted.
CoverageAttributed ==
    \A t \in Tests : \A s \in coverage[t] :
        \E u \in 0 .. t : s \in executed[u] /\ u .. t - 1 \subseteq skipped

\* A statement that every test that did not pass has executed.
Fault(s) == \A t \in FailedTests : s \in executed[t]

\* FaultLocalization.cpp, "assuming statement should be executed by all failing
\* tests": when all counters of the tests that end are written and read, the
\* file of such a statement is returned, or the limit is full.
FaultLocalized ==
    (pc = "done" /\ lost \subseteq timedOut /\ skipped \subseteq timedOut /\ FailedTests # {}) =>
        \A s \in Statements :
            Fault(s) => \/ FileOf[s] \in Range(localized)
                        \/ Len(localized) = FilesToLocalize

\* The same for tests that all end by themselves and files of one directory.
FaultLocalizedWhenEnding ==
    (timedOut = {} /\ \A s \in Statements : FileOf[s] \in firstPackage) => FaultLocalized
===========================================================================
