------------------------- MODULE PartitionRuntime -------------------------
(***************************************************************************)
(* The value-based test-equivalence analysis of f1x: the engine writes the *)
(* candidate ids of a schema application into a shared-memory buffer       *)
(* (Runtime::setPartition), the test runs the instrumented program, whose  *)
(* generated function (synthesis::partitioningFunctions) overwrites the    *)
(* buffer in place on every call with the ids that returned the same value *)
(* as the current candidate, and the engine reads the rest back            *)
(* (Runtime::getPartition).                                                *)
(*                                                                         *)
(* Data abstraction: an id is a model value, an evaluation is an outcome   *)
(* (a value, or the panic flag with value 0).  A slot of the buffer is     *)
(* written in one step.                                                    *)
(***************************************************************************)
EXTENDS Integers, FiniteSets

CONSTANTS
    Ids,                \* PatchIDs of one schema application (base # 0)
    InputTerminator,    \* {0,0,0,0,0}
    OutputTerminator,   \* {0,0,0,0,1}
    Capacity,           \* MAX_PARTITION_SIZE
    InitialPartitions,  \* what the shared memory object can hold at the start:
                        \* zeroes, or what an earlier run of f1x left in it
    Values,             \* values an expression can return, 0 included
    Procs,              \* processes of the program that one test runs
    WithTimeout,        \* may "timeout" kill the test?
    MaxCalls,           \* bound: calls per process in one test
    MaxRounds           \* bound: tests executed

Slots       == 0 .. Capacity - 1
Terminators == {InputTerminator, OutputTerminator}   \* base = 0
Cells       == Ids \cup Terminators

ASSUME RuntimeAssumption ==
    /\ InputTerminator \notin Ids /\ OutputTerminator \notin Ids
    /\ InputTerminator # OutputTerminator
    /\ Capacity \in Nat \ {0}
    /\ IsFiniteSet(Ids) /\ Cardinality(Ids) < Capacity
    /\ 0 \in Values
    /\ WithTimeout \in BOOLEAN
    /\ MaxCalls \in Nat /\ MaxRounds \in Nat
    /\ InitialPartitions \subseteq [Slots -> Cells]

Outcomes    == [panic : {FALSE}, value : Values] \cup [panic : {TRUE}, value : {0}]
NoOutcome   == [panic |-> FALSE, value |-> 0]

VARIABLES
    partition,      \* the shared buffer, Slots -> Cells
    phase,          \* the engine: "ready", "testing" (inside execute), "read"
    candidate,      \* F1X_ID_* in the environment of the test
    inputSize,      \* number of ids setPartition wrote
    result,         \* what getPartition returned last
    rounds,         \* tests executed
    pc,             \* per process: where it is in the generated function
    id, input_index, output_index, output, output_initialized, current,
    eval,           \* per process: outcome of every candidate in this call
    calls,          \* per process: calls begun in this test
    given,          \* history: the ids setPartition wrote
    completed,      \* history: calls that returned in this test
    equivalent,     \* history: ids with the candidate's outcome in every call begun
    overlapped,     \* history: two calls of this test overlapped in time
    killed          \* history: the test was killed by the timeout

engineVars  == <<phase, candidate, inputSize, result, rounds, given, killed>>
historyVars == <<completed, equivalent, overlapped>>
frameVars   == <<id, input_index, output_index, output, output_initialized, current, eval>>
vars == <<partition, engineVars, historyVars, pc, frameVars, calls>>

---------------------------------------------------------------------------
\* Mutant: the panic flags are left out of the comparison.
SameOutputNoPanic(out, cur) == out.value = cur.value

\* The comparison the generated function makes between the first outcome of
\* the call and the outcome of the id at hand.
SameOutput(out, cur) ==
    \/ out.panic /\ cur.panic
    \/ ~out.panic /\ ~cur.panic /\ out.value = cur.value

\* What a caller of the patched expression observes: a crash or a value.
Impact(out) == IF out.panic THEN <<>> ELSE <<out.value>>

\* Where getPartition stops reading.
Stops(buf) == {i \in Slots : buf[i] \in Terminators}
FirstStop(buf) == {i \in Stops(buf) : \A j \in Stops(buf) : i <= j}

\* getPartition: the ids before the first terminator when that is the output
\* terminator, nothing when it is the input terminator.
Contents(buf) ==
    {buf[j] : j \in {k \in Slots : \E i \in FirstStop(buf) :
                        buf[i] = OutputTerminator /\ k < i}}

\* Mutant: the input is not terminated.
WrittenUnterminated(buf, q, n) == [i \in Slots |-> IF i < n THEN q[i] ELSE buf[i]]

\* The buffer after setPartition wrote the n ids in the order q.
Written(buf, q, n) ==
    [i \in Slots |-> IF i < n THEN q[i] ELSE IF i = n THEN InputTerminator ELSE buf[i]]

Orderings(S) ==
    {q \in [0 .. Cardinality(S) - 1 -> S] : {q[i] : i \in DOMAIN q} = S}

---------------------------------------------------------------------------
\* The constructor opens or creates the object and sets its size, which zeroes
\* only what it adds; nothing ever unlinks it.
Init ==
    /\ partition \in InitialPartitions
    /\ phase = "ready" /\ candidate \in Ids /\ inputSize = 0 /\ result = {}
    /\ rounds = 0 /\ given = {} /\ killed = FALSE
    /\ completed = 0 /\ equivalent = {} /\ overlapped = FALSE
    /\ pc = [p \in Procs |-> "idle"]
    /\ id = [p \in Procs |-> candidate]
    /\ input_index = [p \in Procs |-> 0]
    /\ output_index = [p \in Procs |-> 0]
    /\ output = [p \in Procs |-> NoOutcome]
    /\ output_initialized = [p \in Procs |-> FALSE]
    /\ current = [p \in Procs |-> NoOutcome]
    /\ eval = [p \in Procs |-> [q \in Ids |-> NoOutcome]]
    /\ calls = [p \in Procs |-> 0]

\* Runtime::setPartition with the ids of the candidate's application (any set
\* with the candidate in it, in any order: it is an unordered_set), then the
\* test is started.
SetPartition ==
    /\ phase = "ready" /\ rounds < MaxRounds
    /\ \E S \in SUBSET Ids, c \in Ids :
         /\ c \in S
         /\ \E q \in Orderings(S) : partition' = Written(partition, q, Cardinality(S))
         /\ candidate' = c /\ given' = S /\ equivalent' = S
         /\ inputSize' = Cardinality(S)
    /\ phase' = "testing" /\ rounds' = rounds + 1
    /\ result' = {} /\ killed' = FALSE /\ completed' = 0 /\ overlapped' = FALSE
    /\ calls' = [p \in Procs |-> 0]
    /\ UNCHANGED <<pc, frameVars>>

\* The program reaches the patched expression with the values of its variables
\* giving each candidate an outcome; the locals are initialised.
BeginCall(p) ==
    /\ phase = "testing" /\ pc[p] = "idle" /\ calls[p] < MaxCalls
    /\ \E f \in [Ids -> Outcomes] :
         /\ eval' = [eval EXCEPT ![p] = f]
         /\ equivalent' = {q \in equivalent : Impact(f[q]) = Impact(f[candidate])}
    /\ overlapped' = (overlapped \/ \E q \in Procs : pc[q] # "idle")
    /\ calls' = [calls EXCEPT ![p] = @ + 1]
    /\ id' = [id EXCEPT ![p] = candidate]
    /\ input_index' = [input_index EXCEPT ![p] = 0]
    /\ output_index' = [output_index EXCEPT ![p] = 0]
    /\ output' = [output EXCEPT ![p] = NoOutcome]
    /\ output_initialized' = [output_initialized EXCEPT ![p] = FALSE]
    /\ pc' = [pc EXCEPT ![p] = "dispatch"]
    /\ UNCHANGED <<partition, engineVars, completed, current>>

\* candidateDispatch: the switch evaluates id.  An id of no case (a terminator
\* read because another process rewrote the slot) leaves base_value as it was.
Dispatch(p) ==
    /\ pc[p] = "dispatch"
    /\ current' = [current EXCEPT ![p] =
                     IF id[p] \in Ids THEN eval[p][id[p]]
                                      ELSE [panic |-> FALSE, value |-> @.value]]
    /\ pc' = [pc EXCEPT ![p] = "compare"]
    /\ UNCHANGED <<partition, engineVars, historyVars, id, input_index, output_index,
                   output, output_initialized, eval, calls>>

\* } else if (both panic, or neither does and the values are equal) {
Records(p) == output_initialized[p] /\ SameOutput(output[p], current[p])

\* if (!output_initialized) ... else if (same) __f1xids[output_index++] = id
Compare(p) ==
    /\ pc[p] = "compare"
    /\ IF output_initialized[p]
         THEN UNCHANGED <<output, output_initialized>>
         ELSE /\ output' = [output EXCEPT ![p] = current[p]]
              /\ output_initialized' = [output_initialized EXCEPT ![p] = TRUE]
    /\ IF Records(p)
         THEN /\ partition' = [partition EXCEPT ![output_index[p]] = id[p]]
              /\ output_index' = [output_index EXCEPT ![p] = @ + 1]
         ELSE UNCHANGED <<partition, output_index>>
    /\ pc' = [pc EXCEPT ![p] = "check"]
    /\ UNCHANGED <<engineVars, historyVars, id, input_index, current, eval, calls>>

\* if (__f1xids[input_index].base != 0)
CheckInput(p) ==
    /\ pc[p] = "check"
    /\ pc' = [pc EXCEPT ![p] = IF partition[input_index[p]] \in Terminators
                                 THEN "terminate" ELSE "load"]
    /\ UNCHANGED <<partition, engineVars, historyVars, frameVars, calls>>

\* Mutant: input_index is not incremented.
StandStill(i) == i

\* input_index++
Advance(i) == i + 1

\* id = __f1xids[input_index++]; goto label
LoadInput(p) ==
    /\ pc[p] = "load"
    /\ id' = [id EXCEPT ![p] = partition[input_index[p]]]
    /\ input_index' = [input_index EXCEPT ![p] = Advance(@)]
    /\ pc' = [pc EXCEPT ![p] = "dispatch"]
    /\ UNCHANGED <<partition, engineVars, historyVars, output_index, output,
                   output_initialized, current, eval, calls>>

\* __f1xids[output_index] = output terminator; abort() or return: either way
\* the call is over, and the process or a later one may call again.
Terminate(p) ==
    /\ pc[p] = "terminate"
    /\ partition' = [partition EXCEPT ![output_index[p]] = OutputTerminator]
    /\ completed' = completed + 1
    /\ pc' = [pc EXCEPT ![p] = "idle"]
    /\ UNCHANGED <<engineVars, equivalent, overlapped, frameVars, calls>>

\* TestingFramework::execute returns with the driver's own exit code.
TestEnds ==
    /\ phase = "testing" /\ \A p \in Procs : pc[p] = "idle"
    /\ phase' = "read"
    /\ UNCHANGED <<partition, candidate, inputSize, result, rounds, given, killed,
                   historyVars, pc, frameVars, calls>>

\* "timeout" kills the driver and the processes it started, wherever they are.
Timeout ==
    /\ WithTimeout /\ phase = "testing"
    /\ phase' = "read" /\ killed' = TRUE
    /\ pc' = [p \in Procs |-> "idle"]
    /\ UNCHANGED <<partition, candidate, inputSize, result, rounds, given,
                   historyVars, frameVars, calls>>

\* Runtime::getPartition.
GetPartition ==
    /\ phase = "read"
    /\ result' = Contents(partition)
    /\ phase' = "ready"
    /\ UNCHANGED <<partition, candidate, inputSize, rounds, given, killed,
                   historyVars, pc, frameVars, calls>>

CallStep(p) == Dispatch(p) \/ Compare(p) \/ CheckInput(p) \/ LoadInput(p) \/ Terminate(p)

Next ==
    \/ SetPartition \/ TestEnds \/ Timeout \/ GetPartition
    \/ \E p \in Procs : BeginCall(p) \/ CallStep(p)

Spec == Init /\ [][Next]_vars

\* A running process is scheduled until its call returns; nothing makes the
\* program reach the patched expression again or the driver end.
FairSpec == Spec /\ \A p \in Procs : WF_vars(CallStep(p))

---------------------------------------------------------------------------
InCall(p) == pc[p] # "idle"

TypeOK ==
    /\ partition \in [Slots -> Cells]
    /\ phase \in {"ready", "testing", "read"}
    /\ candidate \in Ids /\ given \in SUBSET Ids /\ equivalent \in SUBSET Ids
    /\ inputSize \in Slots /\ rounds \in Nat /\ completed \in Nat
    /\ result \in SUBSET Ids /\ killed \in BOOLEAN /\ overlapped \in BOOLEAN
    /\ pc \in [Procs -> {"idle", "dispatch", "compare", "check", "load", "terminate"}]
    /\ id \in [Procs -> Cells]
    /\ input_index \in [Procs -> Nat] /\ output_index \in [Procs -> Nat]
    /\ output \in [Procs -> [panic : BOOLEAN, value : Values]]
    /\ current \in [Procs -> [panic : BOOLEAN, value : Values]]
    /\ output_initialized \in [Procs -> BOOLEAN]
    /\ eval \in [Procs -> [Ids -> Outcomes]]
    /\ calls \in [Procs -> Nat]

\* However many processes of a test share the buffer, and wherever they are
\* killed, the slot that setPartition terminated stays a terminator: the loop
\* of the generated function and getPartition both stop at it, so the limit
\* check of getPartition (which reads one slot past the buffer) is never met.
TerminatorKept == rounds > 0 => partition[inputSize] \in Terminators

\* A call never reads past the terminator, and never writes a slot it has not
\* read yet: refining the buffer in place loses none of its own input.
InPlace ==
    \A p \in Procs : InCall(p) =>
        /\ input_index[p] <= inputSize
        /\ output_index[p] <= input_index[p]

\* After a test in which every call returned before the next one began, in
\* whichever process, getPartition gives exactly the ids that agreed with the
\* current candidate in all calls of the test.
PartitionExact ==
    (phase = "ready" /\ ~killed /\ ~overlapped /\ completed > 0) => result = equivalent

\* Every call of the generated function returns (or is killed), even with
\* other processes rewriting the buffer under it.
CallsReturn == \A p \in Procs : InCall(p) ~> ~InCall(p)
===========================================================================
