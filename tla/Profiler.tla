------------------------------ MODULE Profiler ------------------------------
(***************************************************************************)
(* The profiling phase of repair(): every test runs once on the program    *)
(* instrumented with __f1x_trace, and its trace is merged into two tables: *)
(* relatedTestIndexes, the tests to run for a candidate at a location, and *)
(* interestingLocations, the locations that candidates are generated for.  *)
(*                                                                         *)
(* Data abstraction: a location is a model value.  An entry that           *)
(* relatedTestIndexes does not have is the empty list (an entry that it    *)
(* has always holds a test).                                               *)
(***************************************************************************)
EXTENDS Integers, Sequences

CONSTANTS
    NumTests,       \* tests.size()
    Locations,
    MaxProcesses,   \* bound: processes that a test runs
    MaxLines        \* bound: length of the trace file

ASSUME ProfilerAssumption ==
    /\ NumTests \in Nat /\ MaxProcesses \in Nat \ {0} /\ MaxLines \in Nat

Tests == 0 .. NumTests - 1

VARIABLES
    pc,             \* "clear", "run", "lines", "done", "noNegative"
    i,              \* index of the test being profiled
    trace,          \* the trace file
    processes,      \* processes of the test so far
    locs,           \* __f1x_locs of the running process
    isPassing,      \* status of the test
    line,           \* next line of mergeTrace's loop
    covered,        \* locations read from the trace so far
    related,        \* relatedTestIndexes
    interesting,    \* interestingLocations
    profile,        \* the profile file
    coverage,       \* history: locations each test has traced
    negative,       \* history: tests that did not pass
    fault           \* oracle: locations that every failing test reaches

progVars  == <<trace, processes, locs>>
tableVars == <<related, interesting, profile>>
histVars  == <<coverage, negative, fault>>
vars == <<pc, i, progVars, isPassing, line, covered, tableVars, histVars>>

TestsOf(s) == {s[k] : k \in 1 .. Len(s)}

---------------------------------------------------------------------------
Init ==
    /\ pc = "clear" /\ i = 0
    /\ trace = <<>> /\ processes = 0 /\ locs = {}
    /\ isPassing = FALSE /\ line = 1 /\ covered = {}
    /\ related = [l \in Locations |-> <<>>] /\ interesting = {} /\ profile = {}
    /\ coverage = [t \in Tests |-> {}] /\ negative = {}
    /\ fault \in SUBSET Locations

\* i < tests.size() fails.
AllProfiled == i >= NumTests

\* Mutant: the file is opened without truncation.
KeptTrace == trace

\* clearTrace opens the file with trunc.
ClearedTrace == <<>>

\* clearTrace truncates the file, then the test is started.
ClearTrace ==
    /\ pc = "clear" /\ ~AllProfiled
    /\ trace' = ClearedTrace /\ processes' = 1 /\ locs' = {}
    /\ pc' = "run"
    /\ UNCHANGED <<i, isPassing, line, covered, tableVars, histVars>>

\* __f1x_trace: the process appends a location the first time it reaches it.
Trace(l) ==
    /\ pc = "run" /\ Len(trace) < MaxLines
    /\ l \notin locs
    /\ trace' = Append(trace, l)
    /\ locs' = locs \cup {l}
    /\ coverage' = [coverage EXCEPT ![i] = @ \cup {l}]
    /\ UNCHANGED <<pc, i, processes, isPassing, line, covered, tableVars, negative, fault>>

\* The driver runs the program again: a new process, with empty __f1x_locs.
NewProcess ==
    /\ pc = "run" /\ processes < MaxProcesses
    /\ processes' = processes + 1 /\ locs' = {}
    /\ UNCHANGED <<pc, i, trace, isPassing, line, covered, tableVars, histVars>>

\* The driver exits, or is killed by the timeout (which is not a PASS).
TestEnds(passes) ==
    /\ pc = "run"
    /\ ~passes => fault \subseteq coverage[i]
    /\ isPassing' = passes
    /\ negative' = IF passes THEN negative ELSE negative \cup {i}
    /\ line' = 1 /\ covered' = {}
    /\ pc' = "lines"
    /\ UNCHANGED <<i, progVars, tableVars, coverage, fault>>

\* Mutant: no look whether the test is in the list already.
InsertAgain(s) == IF isPassing THEN Append(s, i) ELSE <<i>> \o s

\* Mutant: a failing test starts a new list.
InsertFresh(s) == IF isPassing THEN Append(s, i) ELSE <<i>>

\* Failing tests go to the beginning of the location's list, passing ones to
\* the end, and none goes in twice.
Insert(s) == IF i \in TestsOf(s) THEN s
             ELSE IF isPassing THEN Append(s, i) ELSE <<i>> \o s

\* One line of the trace.
MergeLine ==
    /\ pc = "lines" /\ line <= Len(trace)
    /\ LET l == trace[line] IN
         /\ related' = [related EXCEPT ![l] = Insert(@)]
         /\ covered' = covered \cup {l}
    /\ line' = line + 1
    /\ UNCHANGED <<pc, i, progVars, isPassing, interesting, profile, histVars>>

\* The lists of the locations outside S are erased.
Keep(S) == [l \in Locations |-> IF l \in S THEN related[l] ELSE <<>>]

\* The intersection with what this failing test covers.
Narrowed == interesting \cap covered

\* The rest of mergeTrace, and the next iteration of repair()'s loop.
MergeTest ==
    /\ pc = "lines" /\ line > Len(trace)
    /\ \/ isPassing /\ UNCHANGED <<related, interesting>>
       \/ ~isPassing /\ interesting = {}
          /\ interesting' = covered /\ UNCHANGED related
       \/ ~isPassing /\ interesting # {}
          /\ interesting' = Narrowed
          /\ related' = Keep(covered)
    /\ i' = i + 1 /\ pc' = "clear"
    /\ UNCHANGED <<progVars, isPassing, line, covered, profile, histVars>>

\* if (numNegative == 0) return NO_NEGATIVE_TESTS
NoNegativeTests ==
    /\ pc = "clear" /\ AllProfiled /\ negative = {}
    /\ pc' = "noNegative"
    /\ UNCHANGED <<i, progVars, isPassing, line, covered, tableVars, histVars>>

\* getProfile: lists of uninteresting locations are erased, the interesting
\* locations are written out.
GetProfile ==
    /\ pc = "clear" /\ AllProfiled /\ negative # {}
    /\ related' = Keep(interesting) /\ profile' = interesting
    /\ pc' = "done"
    /\ UNCHANGED <<i, progVars, isPassing, line, covered, interesting, histVars>>

Next ==
    \/ ClearTrace \/ NewProcess \/ MergeLine \/ MergeTest \/ NoNegativeTests \/ GetProfile
    \/ \E l \in Locations : Trace(l)
    \/ \E passes \in BOOLEAN : TestEnds(passes)

Spec == Init /\ [][Next]_vars

---------------------------------------------------------------------------
TypeOK ==
    /\ pc \in {"clear", "run", "lines", "done", "noNegative"}
    /\ i \in 0 .. NumTests /\ (pc \in {"run", "lines"} => i \in Tests)
    /\ trace \in Seq(Locations) /\ processes \in Nat /\ locs \in SUBSET Locations
    /\ isPassing \in BOOLEAN
    /\ line \in Nat \ {0} /\ (pc = "lines" => line <= Len(trace) + 1)
    /\ covered \in SUBSET Locations
    /\ related \in [Locations -> Seq(Tests)]
    /\ interesting \in SUBSET Locations /\ profile \in SUBSET Locations
    /\ coverage \in [Tests -> SUBSET Locations] /\ negative \in SUBSET Tests
    /\ fault \in SUBSET Locations

\* README.md: f1x validates programs until it finds one that passes all the
\* tests.  A candidate at an interesting location is run on the tests in its
\* list, so each profiled test that reaches the location has to be in it.
RelatedComplete ==
    pc \in {"clear", "done"} =>
        \A l \in interesting : \A t \in 0 .. i - 1 :
            l \in coverage[t] => t \in TestsOf(related[l])

\* The same when every failing test reaches the fault: then the intersection
\* never becomes empty.
RelatedCompleteWithFault == fault # {} => RelatedComplete

\* Profiler.cpp: interesting locations are, intentionally, the intersection of
\* what the failing tests cover.
InterestingIsIntersection ==
    (pc \in {"clear", "done"} /\ negative # {} /\ fault # {}) =>
        interesting = {l \in Locations : \A t \in negative : l \in coverage[t]}

\* A list holds no test twice, and no passing test stands before a failing one,
\* also while a test with repeated lines in its trace is being merged.
FailingFirst ==
    \A l \in Locations : \A j, k \in 1 .. Len(related[l]) :
        j < k => /\ related[l][j] # related[l][k]
                 /\ related[l][k] \in negative => related[l][j] \in negative

\* The search space is generated for the locations of the profile: each has a
\* failing test to run, so no candidate is plausible without an execution, and
\* no other location keeps a list.
ProfileTested ==
    pc = "done" =>
        /\ profile = {l \in Locations : related[l] # <<>>}
        /\ \A l \in profile : related[l][1] \in negative

\* Only tests that reach a location are run for its candidates.
RelatedSound ==
    \A l \in Locations : \A t \in TestsOf(related[l]) : l \in coverage[t]
=============================================================================
