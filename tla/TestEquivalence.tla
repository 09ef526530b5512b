-------------------------- MODULE TestEquivalence --------------------------
(***************************************************************************)
(* The search engine together with the partitions it reads: findNext of    *)
(* SearchEngine, whose every test execution runs the protocol of           *)
(* PartitionRuntime on the shared buffer instead of drawing a partition.   *)
(*                                                                         *)
(* The program under repair is deterministic, and sees of a candidate only *)
(* what the generated function returns: two candidates that have returned  *)
(* the same so far are followed by the same call, by the same end of the   *)
(* test or by the same timeout.  A test has one process, and value-based   *)
(* test-equivalence is enabled (no other setting reads the buffer).        *)
(***************************************************************************)
EXTENDS SearchEngine, FiniteSets

CONSTANTS
    InputTerminator, OutputTerminator, Capacity, InitialPartitions, Values,
    MaxCalls,
    Process,            \* the process of a test
    Programs            \* programs under repair: outcomes in calls, and verdicts

VARIABLES
    partition, phase, candidate, inputSize, result, rounds, callPc, id, input_index,
    output_index, output, output_initialized, current, eval, calls, given, completed,
    equivalent, overlapped, killed,
    program,            \* oracle: for each candidate and test, the outcomes of the calls
    cut                 \* history: some test was killed inside the generated function

\* Tests are bounded by the search: a candidate runs a test once.
MaxRounds == SpaceSize * Cardinality(Tests)

Runtime == INSTANCE PartitionRuntime
             WITH Ids <- Candidates, Procs <- {Process}, WithTimeout <- TRUE, pc <- callPc

searchVars  == vars
runtimeVars == <<partition, phase, candidate, inputSize, result, rounds, callPc, id,
                 input_index, output_index, output, output_initialized, current, eval,
                 calls, given, completed, equivalent, overlapped, killed>>
allVars     == <<searchVars, runtimeVars, program, cut>>

ASSUME EquivalenceAssumption ==
    /\ Runtime!RuntimeAssumption
    /\ \A c \in Configs : c.valueTEQ
    /\ Programs \subseteq
         [calls   : [Candidates -> [Tests -> Seq(Runtime!Outcomes)]],
          verdict : [Candidates -> [Tests -> {"PASS", "FAIL", "TIMEOUT"}]]]

---------------------------------------------------------------------------
\* What the program sees of two candidates up to the k-th call.
AgreeUpTo(s, u, k) == \A i \in 1 .. k : Runtime!Impact(s[i]) = Runtime!Impact(u[i])

\* A panic aborts the process, so it is the outcome of the last call.
PanicsLast(s) == \A i \in 1 .. Len(s) - 1 : ~s[i].panic

\* Where candidates agree in all calls of one of them, they agree in everything.
Deterministic(p) ==
    \A t \in Tests : \A c \in Candidates :
        LET s == p.calls[c][t] IN
        /\ Len(s) <= MaxCalls /\ PanicsLast(s)
        /\ \A d \in Partitionable(c) :
             LET u == p.calls[d][t] IN
             Len(s) <= Len(u) /\ AgreeUpTo(s, u, Len(s)) =>
                 Len(s) = Len(u) /\ p.verdict[c][t] = p.verdict[d][t]

\* Outcomes of all candidates in the next call of the running test.  One that
\* did not agree with the current candidate in every call before would see
\* another state: its outcome is none of its own calls.
NextOutcomes ==
    LET own == program.calls[index][NextTest]
        k   == calls[Process] + 1
    IN  [c \in Candidates |->
           LET s == program.calls[c][NextTest]
           IN  IF k <= Len(s) /\ AgreeUpTo(s, own, k - 1) THEN s[k] ELSE Runtime!NoOutcome]

\* An order of the ids: the one of the unordered_set, any will do.
InOrder(S) == CHOOSE q \in Runtime!Orderings(S) : TRUE

---------------------------------------------------------------------------
EquivalenceInit ==
    /\ program \in {p \in Programs : Deterministic(p)}
    /\ verdict = program.verdict
    /\ candidate = 0 /\ Init /\ Runtime!Init
    /\ cut = FALSE

\* The steps of findNext and its caller that run no test.
SearchStep ==
    /\ phase = "ready"
    /\ FindNext \/ PatchSaved \/ SearchEnds \/ SkipFailing \/ StartCandidate
         \/ SkipPassing \/ ReturnFound \/ ReturnExhausted
    /\ UNCHANGED <<runtimeVars, program, cut>>

\* runtime.setPartition((*partitionable)[elem.app->id]); tester.execute(test)
StartTest ==
    /\ MustExecute
    /\ Runtime!SetPartition
    /\ candidate' = index /\ given' = Partitionable(index)
    /\ partition' = Runtime!Written(partition, InOrder(given'), Cardinality(given'))
    /\ UNCHANGED <<searchVars, program, cut>>

CallsBegun == calls[Process] = Len(program.calls[index][NextTest])

\* The program reaches the patched expression.
Call ==
    /\ phase = "testing" /\ ~CallsBegun
    /\ Runtime!BeginCall(Process) /\ eval'[Process] = NextOutcomes
    /\ UNCHANGED <<searchVars, program, cut>>

InsideCall ==
    /\ Runtime!CallStep(Process)
    /\ UNCHANGED <<searchVars, program, cut>>

\* The driver exits; a test that would run on is killed instead, in its last
\* call or behind it.
TestEnds ==
    /\ Runtime!TestEnds
    /\ CallsBegun /\ verdict[index][NextTest] # "TIMEOUT"
    /\ UNCHANGED <<searchVars, program, cut>>

Timeout ==
    /\ Runtime!Timeout
    /\ CallsBegun /\ verdict[index][NextTest] = "TIMEOUT"
    /\ cut' = (cut \/ Runtime!InCall(Process))
    /\ UNCHANGED <<searchVars, program>>

\* Mutant: the partition is not read back, the whole application is recorded.
ReadsAll == Partitionable(index)

\* runtime.getPartition()
Reads == Runtime!Contents(partition)

\* runtime.getPartition(), and findNext records the outcome.
Record ==
    /\ Runtime!GetPartition
    /\ RecordOutcome(Reads)
    /\ UNCHANGED <<program, cut>>

EquivalenceNext ==
    SearchStep \/ StartTest \/ Call \/ InsideCall \/ TestEnds \/ Timeout \/ Record

EquivalenceSpec == EquivalenceInit /\ [][EquivalenceNext]_allVars

---------------------------------------------------------------------------
\* The partitions that SearchEngine draws are the ones the buffer gives, for
\* tests that end and for tests that are killed: executing the protocol
\* implements drawing.
ImplementsSearchEngine == Spec

\* README.md: f1x finds one that passes all the tests.  Timeouts alone do no
\* harm: unless one falls into the generated function, while the buffer is
\* refined, exactly the plausible candidates are found.
FoundUnlessCut == ~cut => FoundExactly /\ TablesSound

===========================================================================
