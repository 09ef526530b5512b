---------------------- MODULE PartitionRuntimeProofs ----------------------
(***************************************************************************)
(* Proofs about PartitionRuntime, for every set of ids, every capacity and *)
(* every number of processes: the buffer always keeps a terminator, the    *)
(* generated function only ever touches slots up to it, and what is read   *)
(* back is exact when calls neither overlap nor are cut.                   *)
(***************************************************************************)
EXTENDS PartitionRuntime, FiniteSetTheorems, TLAPS

\* The engine is inside setPartition or getPartition only when no process of
\* the test is inside the generated function; a test has an input.
EngineAlone ==
    /\ phase # "testing" => \A p \in Procs : pc[p] = "idle"
    /\ phase # "ready" => rounds > 0

\* InPlace made inductive: where the call stands decides how far the indices
\* may be apart.
Frames ==
    \A p \in Procs : InCall(p) =>
        /\ input_index[p] <= inputSize
        /\ output_index[p] <= input_index[p]
        /\ pc[p] = "load" => input_index[p] < inputSize
        /\ (pc[p] \in {"dispatch", "compare"} /\ output_initialized[p])
              => output_index[p] < input_index[p]

IInv == TypeOK /\ TerminatorKept /\ EngineAlone /\ Frames

---------------------------------------------------------------------------
\* A set of ids of one application always leaves room for the terminator.
LEMMA InputFits ==
    ASSUME NEW S \in SUBSET Ids
    PROVE  Cardinality(S) \in Slots
<1>1. IsFiniteSet(S) /\ Cardinality(S) <= Cardinality(Ids)
  BY FS_Subset, RuntimeAssumption
<1>2. Cardinality(S) \in Nat /\ Cardinality(Ids) \in Nat
  BY <1>1, FS_CardinalityType, RuntimeAssumption
<1> QED BY <1>1, <1>2, RuntimeAssumption DEF Slots

\* What setPartition leaves in the buffer: cells, with a terminator at n.
LEMMA WrittenBuffer ==
    ASSUME NEW S \in SUBSET Ids, NEW q \in Orderings(S),
           NEW buf \in [Slots -> Cells]
    PROVE  /\ Written(buf, q, Cardinality(S)) \in [Slots -> Cells]
           /\ Written(buf, q, Cardinality(S))[Cardinality(S)] = InputTerminator
<1>1. Cardinality(S) \in Slots BY InputFits
<1>2. \A i \in Slots : i < Cardinality(S) => q[i] \in Ids
  BY <1>1 DEF Orderings, Slots
<1> QED BY <1>1, <1>2 DEF Written, Cells, Terminators, Slots

\* What getPartition reads are ids: it stops before the first terminator.
LEMMA ReadBuffer ==
    ASSUME NEW buf \in [Slots -> Cells]
    PROVE  Contents(buf) \in SUBSET Ids
<1> SUFFICES ASSUME NEW k \in Slots, NEW i \in FirstStop(buf), k < i
             PROVE  buf[k] \in Ids
  BY DEF Contents
<1>1. i \in Slots /\ \A j \in Stops(buf) : i <= j BY DEF FirstStop, Stops
<1>2. k \notin Stops(buf) BY <1>1, RuntimeAssumption DEF Slots
<1> QED BY <1>2 DEF Stops, Cells

LEMMA NoOutcomeType == NoOutcome \in [panic : BOOLEAN, value : Values]
BY RuntimeAssumption DEF NoOutcome

LEMMA OutcomesType == Outcomes \subseteq [panic : BOOLEAN, value : Values]
BY RuntimeAssumption DEF Outcomes

---------------------------------------------------------------------------
LEMMA InitInv == Init => IInv
<1> SUFFICES ASSUME Init PROVE IInv OBVIOUS
<1> USE DEF Init
<1>1. NoOutcome \in Outcomes BY RuntimeAssumption DEF NoOutcome, Outcomes
<1>2. 0 \in Slots BY RuntimeAssumption DEF Slots
<1>3. TypeOK
  <2>1. partition \in [Slots -> Cells] BY RuntimeAssumption
  <2> QED BY <1>1, <1>2, <2>1, NoOutcomeType DEF TypeOK, Cells, Terminators
<1>4. TerminatorKept BY DEF TerminatorKept
<1>5. EngineAlone /\ Frames BY DEF EngineAlone, Frames, InCall
<1> QED BY <1>3, <1>4, <1>5 DEF IInv

LEMMA StepInv == IInv /\ [Next]_vars => IInv'
<1> SUFFICES ASSUME IInv, [Next]_vars PROVE IInv' OBVIOUS
<1> USE DEF IInv, engineVars, historyVars, frameVars
<1>1. CASE SetPartition
  <2>1. PICK S \in SUBSET Ids, c \in Ids :
          /\ \E q \in Orderings(S) : partition' = Written(partition, q, Cardinality(S))
          /\ candidate' = c /\ given' = S /\ equivalent' = S
          /\ inputSize' = Cardinality(S)
    BY <1>1 DEF SetPartition
  <2>2. PICK q \in Orderings(S) : partition' = Written(partition, q, Cardinality(S))
    BY <2>1
  <2>3. TypeOK'
    <3>1. partition' \in [Slots -> Cells] BY <2>2, WrittenBuffer DEF TypeOK
    <3>2. inputSize' \in Slots BY <2>1, InputFits
    <3>3. candidate' \in Ids /\ given' \in SUBSET Ids /\ equivalent' \in SUBSET Ids
      BY <2>1
    <3>4. calls' \in [Procs -> Nat] BY <1>1 DEF SetPartition
    <3>5. phase' = "testing" /\ rounds' \in Nat /\ completed' \in Nat
      BY <1>1 DEF SetPartition, TypeOK
    <3>6. result' \in SUBSET Ids BY <1>1 DEF SetPartition
    <3>7. killed' \in BOOLEAN BY <1>1, Zenon DEF SetPartition
    <3> QED BY <1>1, <3>1, <3>2, <3>3, <3>4, <3>5, <3>6, <3>7 DEF SetPartition, TypeOK
  <2>4. TerminatorKept'
    BY <2>1, <2>2, WrittenBuffer DEF TerminatorKept, TypeOK, Terminators
  <2>5. (\A p \in Procs : pc'[p] = "idle") /\ rounds' > 0
    BY <1>1 DEF SetPartition, EngineAlone, TypeOK
  <2> QED BY <2>3, <2>4, <2>5 DEF EngineAlone, Frames, InCall
<1>2. CASE TestEnds
  BY <1>2 DEF TestEnds, TypeOK, TerminatorKept, EngineAlone, Frames, InCall
<1>3. CASE Timeout
  BY <1>3 DEF Timeout, TypeOK, TerminatorKept, EngineAlone, Frames, InCall
<1>4. CASE GetPartition
  <2>1. Contents(partition) \in SUBSET Ids BY ReadBuffer DEF TypeOK
  <2> QED BY <1>4, <2>1
          DEF GetPartition, TypeOK, TerminatorKept, EngineAlone, Frames, InCall
<1>5. ASSUME NEW p \in Procs, BeginCall(p) PROVE IInv'
  <2>1. TypeOK' BY <1>5, NoOutcomeType DEF BeginCall, TypeOK, Cells
  <2>2. TerminatorKept' /\ EngineAlone'
    BY <1>5 DEF BeginCall, TypeOK, TerminatorKept, EngineAlone
  <2>3. Frames' BY <1>5 DEF BeginCall, TypeOK, Frames, InCall, Slots
  <2> QED BY <2>1, <2>2, <2>3
<1>6. ASSUME NEW p \in Procs, Dispatch(p) PROVE IInv'
  <2>1. current' \in [Procs -> [panic : BOOLEAN, value : Values]]
    BY <1>6, OutcomesType DEF Dispatch, TypeOK
  <2>2. TypeOK' BY <1>6, <2>1 DEF Dispatch, TypeOK
  <2>3. TerminatorKept' /\ EngineAlone' /\ Frames'
    BY <1>6 DEF Dispatch, TypeOK, TerminatorKept, EngineAlone, Frames, InCall
  <2> QED BY <2>2, <2>3
<1>7. ASSUME NEW p \in Procs, Compare(p) PROVE IInv'
  <2>1. CASE ~output_initialized[p]
    <3> USE DEF Records
    <3>1. TypeOK' BY <1>7, <2>1 DEF Compare, TypeOK
    <3>2. TerminatorKept' /\ EngineAlone' /\ Frames'
      BY <1>7, <2>1 DEF Compare, TypeOK, TerminatorKept, EngineAlone, Frames, InCall
    <3> QED BY <3>1, <3>2
  <2>2. CASE output_initialized[p] /\ ~Records(p)
    <3>1. TypeOK' BY <1>7, <2>2 DEF Compare, TypeOK
    <3>2. TerminatorKept' /\ EngineAlone' /\ Frames'
      BY <1>7, <2>2 DEF Compare, TypeOK, TerminatorKept, EngineAlone, Frames, InCall
    <3> QED BY <3>1, <3>2
  <2>3. CASE output_initialized[p] /\ Records(p)
    <3>1. /\ partition' = [partition EXCEPT ![output_index[p]] = id[p]]
          /\ output_index' = [output_index EXCEPT ![p] = @ + 1]
      BY <1>7, <2>3 DEF Compare
    <3>2. output_index[p] < inputSize /\ output_index[p] < input_index[p]
      BY <1>7, <2>3 DEF Compare, Frames, InCall, TypeOK, Slots
    <3>3. TypeOK'
      <4>1. partition' \in [Slots -> Cells] BY <3>1, <1>7 DEF TypeOK
      <4>2. output_index' \in [Procs -> Nat] BY <3>1, <1>7 DEF TypeOK
      <4> QED BY <1>7, <2>3, <4>1, <4>2 DEF Compare, TypeOK
    <3>4. TerminatorKept'
      BY <1>7, <3>1, <3>2 DEF Compare, TypeOK, TerminatorKept, Slots
    <3>5. EngineAlone'
      BY <1>7 DEF Compare, TypeOK, EngineAlone
    <3>6. Frames'
      BY <1>7, <2>3, <3>1, <3>2 DEF Compare, TypeOK, Frames, InCall, Slots
    <3> QED BY <3>3, <3>4, <3>5, <3>6
  <2> QED BY <2>1, <2>2, <2>3
<1>8. ASSUME NEW p \in Procs, CheckInput(p) PROVE IInv'
  <2>1. TypeOK' BY <1>8 DEF CheckInput, TypeOK
  <2>2. TerminatorKept' /\ EngineAlone'
    BY <1>8 DEF CheckInput, TypeOK, TerminatorKept, EngineAlone
  <2>3. Frames'
    BY <1>8 DEF CheckInput, TypeOK, TerminatorKept, EngineAlone, Frames, InCall, Slots
  <2> QED BY <2>1, <2>2, <2>3
<1>9. ASSUME NEW p \in Procs, LoadInput(p) PROVE IInv'
  <2>1. input_index[p] \in Slots
    <3>1. input_index[p] \in Nat /\ input_index[p] < inputSize
      BY <1>9 DEF LoadInput, TypeOK, Frames, InCall
    <3>2. inputSize \in 0 .. Capacity - 1 /\ Capacity \in Nat
      BY RuntimeAssumption DEF TypeOK, Slots
    <3> QED BY <3>1, <3>2 DEF Slots
  <2>2. TypeOK' BY <1>9, <2>1 DEF LoadInput, Advance, TypeOK
  <2>3. TerminatorKept' /\ EngineAlone'
    BY <1>9 DEF LoadInput, TypeOK, TerminatorKept, EngineAlone
  <2>4. Frames' BY <1>9 DEF LoadInput, Advance, TypeOK, Frames, InCall, Slots
  <2> QED BY <2>2, <2>3, <2>4
<1>10. ASSUME NEW p \in Procs, Terminate(p) PROVE IInv'
  <2>1. TypeOK'
    <3>1. OutputTerminator \in Cells BY DEF Cells, Terminators
    <3>2. partition' \in [Slots -> Cells] BY <1>10, <3>1 DEF Terminate, TypeOK
    <3> QED BY <1>10, <3>2 DEF Terminate, TypeOK
  <2>2. TerminatorKept' /\ EngineAlone'
    BY <1>10 DEF Terminate, TypeOK, TerminatorKept, EngineAlone, Terminators
  <2>3. Frames' BY <1>10 DEF Terminate, TypeOK, Frames, InCall
  <2> QED BY <2>1, <2>2, <2>3
<1>11. CASE UNCHANGED vars
  BY <1>11 DEF vars, TypeOK, TerminatorKept, EngineAlone, Frames, InCall
<1> QED
  BY <1>1, <1>2, <1>3, <1>4, <1>5, <1>6, <1>7, <1>8, <1>9, <1>10, <1>11
  DEF Next, CallStep

\* The strengthened invariant holds in every reachable state.
THEOREM Invariance == Spec => []IInv
BY InitInv, StepInv, PTL DEF Spec

\* Every variable of the protocol keeps its type.
THEOREM TypeCorrect == Spec => []TypeOK
<1>1. IInv => TypeOK BY DEF IInv
<1> QED BY Invariance, <1>1, PTL

\* For any number of processes and any timing of the kill, the slot that
\* setPartition terminated still holds a terminator, so both the loop of the
\* generated function and the loop of getPartition stop inside the buffer.
THEOREM BufferStaysTerminated == Spec => []TerminatorKept
<1>1. IInv => TerminatorKept BY DEF IInv
<1> QED BY Invariance, <1>1, PTL

\* For any number of processes, a call reads only up to the terminator and
\* writes only slots it has already read.
THEOREM RefinementInPlace == Spec => []InPlace
<1>1. IInv => InPlace BY DEF IInv, Frames, InPlace
<1> QED BY Invariance, <1>1, PTL
---------------------------------------------------------------------------
\* The ids from slot m on that a call has still to read.
Remaining(buf, m) ==
    {buf[j] : j \in {k \in Slots : m <= k /\ \A i \in m .. k : buf[i] \notin Terminators}}

Agrees(p, d) == Impact(eval[p][d]) = Impact(eval[p][candidate])

\* Where a call stands: what it has written, what it holds, and what it has
\* still to read and will keep, are together the ids that agree in this call
\* and in every call before.
CallAt(p) ==
    LET m == input_index[p]
        n == output_index[p]
        held == IF pc[p] \in {"dispatch", "compare"} /\ output_initialized[p]
                  THEN {id[p]} ELSE {}
    IN  /\ equivalent = {partition[j] : j \in 0 .. n - 1}
                          \cup {d \in held \cup Remaining(partition, m) : Agrees(p, d)}
        /\ \A j \in 0 .. n - 1 : partition[j] \in Ids
        /\ id[p] \in Ids
        /\ ~output_initialized[p] => /\ pc[p] \in {"dispatch", "compare"}
                                     /\ id[p] = candidate /\ n = 0
        /\ output_initialized[p] => output[p] = eval[p][candidate]
        /\ pc[p] = "compare" => current[p] = eval[p][id[p]]
        /\ pc[p] = "load" => partition[m] \in Ids
        /\ pc[p] = "terminate" => partition[m] \in Terminators

\* One call at a time.
Alone ==
    /\ phase = "testing" => ~killed
    /\ (phase = "testing" /\ ~overlapped) =>
         \A p, q \in Procs : InCall(p) /\ InCall(q) => p = q

CallsExact ==
    (phase = "testing" /\ ~overlapped) => \A p \in Procs : InCall(p) => CallAt(p)

\* Between calls the next one will read the equivalent ids, and getPartition
\* would, if there was one.
BetweenExact ==
    (phase # "ready" /\ ~killed /\ ~overlapped /\ \A p \in Procs : ~InCall(p)) =>
        /\ Remaining(partition, 0) = equivalent
        /\ completed > 0 => Contents(partition) = equivalent

ExactInv == Alone /\ CallsExact /\ BetweenExact /\ PartitionExact

---------------------------------------------------------------------------
\* Ids are no terminators.
LEMMA IdsAreNoTerminators == \A d \in Ids : d \notin Terminators
BY RuntimeAssumption DEF Terminators

\* Writing a slot that has been read leaves what is still to read.
LEMMA RemainingWrite ==
    ASSUME NEW buf \in [Slots -> Cells], NEW n \in Nat, NEW m \in Nat, n < m, NEW v
    PROVE  Remaining([buf EXCEPT ![n] = v], m) = Remaining(buf, m)
<1> DEFINE new == [buf EXCEPT ![n] = v]
<1>1. \A k \in Slots : \A i \in m .. k : i \in Slots /\ i # n
  BY RuntimeAssumption DEF Slots
<1>2. \A k \in Slots : m <= k => new[k] = buf[k] /\ \A i \in m .. k : new[i] = buf[i]
  BY <1>1 DEF Slots
<1> HIDE DEF new
<1>3. Remaining(new, m) = Remaining(buf, m) BY <1>2 DEF Remaining
<1> QED BY <1>3 DEF new

\* What is still to read, in front of an id and of a terminator.
LEMMA RemainingStep ==
    ASSUME NEW buf \in [Slots -> Cells], NEW m \in Slots, buf[m] \in Ids
    PROVE  Remaining(buf, m) = {buf[m]} \cup Remaining(buf, m + 1)
<1>0. Capacity \in Nat /\ m \in Nat BY RuntimeAssumption DEF Slots
<1>1. \A k \in Slots : m <= k <=> k = m \/ m + 1 <= k BY <1>0 DEF Slots
<1>2. \A k \in Slots : m + 1 <= k =>
         ((\A i \in m .. k : buf[i] \notin Terminators) <=>
          (\A i \in m + 1 .. k : buf[i] \notin Terminators))
  <2> TAKE k \in Slots
  <2> HAVE m + 1 <= k
  <2>1. \A i : i \in m .. k <=> i = m \/ i \in m + 1 .. k BY <1>0 DEF Slots
  <2>2. buf[m] \notin Terminators BY IdsAreNoTerminators
  <2> QED BY <2>1, <2>2
<1>3. \A i \in m .. m : i = m BY <1>0
<1>4. \A i \in m .. m : buf[i] \notin Terminators BY <1>3, IdsAreNoTerminators
<1>5. buf[m] \in Remaining(buf, m) BY <1>0, <1>4 DEF Remaining
<1>6. \A k \in Slots : m + 1 <= k /\ (\A i \in m + 1 .. k : buf[i] \notin Terminators) =>
         buf[k] \in Remaining(buf, m)
  BY <1>1, <1>2 DEF Remaining
<1>7. Remaining(buf, m + 1) \subseteq Remaining(buf, m) BY <1>6 DEF Remaining
<1>8. Remaining(buf, m) \subseteq {buf[m]} \cup Remaining(buf, m + 1)
  BY <1>1, <1>2 DEF Remaining
<1> QED BY <1>5, <1>7, <1>8

LEMMA RemainingStop ==
    ASSUME NEW buf \in [Slots -> Cells], NEW m \in Slots, buf[m] \in Terminators
    PROVE  Remaining(buf, m) = {}
<1>1. \A k \in Slots : m <= k => m \in m .. k BY RuntimeAssumption DEF Slots
<1> QED BY <1>1 DEF Remaining

\* A buffer that holds ids up to a terminator at n, and nothing else before it.
LEMMA PrefixRemains ==
    ASSUME NEW buf \in [Slots -> Cells], NEW n \in Slots, buf[n] \in Terminators,
           \A j \in 0 .. n - 1 : buf[j] \in Ids
    PROVE  Remaining(buf, 0) = {buf[j] : j \in 0 .. n - 1}
<1>0. Capacity \in Nat /\ n \in Nat BY RuntimeAssumption DEF Slots
<1>1. \A k \in Slots : (\A i \in 0 .. k : buf[i] \notin Terminators) => k \in 0 .. n - 1
  <2> TAKE k \in Slots
  <2>1. k \notin 0 .. n - 1 => n \in 0 .. k BY <1>0 DEF Slots
  <2> QED BY <2>1
<1>2. \A k \in 0 .. n - 1 : k \in Slots /\ 0 <= k /\ \A i \in 0 .. k : i \in 0 .. n - 1
  BY <1>0 DEF Slots
<1>3. \A k \in 0 .. n - 1 : \A i \in 0 .. k : buf[i] \notin Terminators
  BY <1>2, IdsAreNoTerminators
<1>4. \A k : (k \in Slots /\ 0 <= k /\ \A i \in 0 .. k : buf[i] \notin Terminators)
               <=> k \in 0 .. n - 1
  BY <1>1, <1>2, <1>3
<1> QED BY <1>4 DEF Remaining

LEMMA PrefixRead ==
    ASSUME NEW buf \in [Slots -> Cells], NEW n \in Slots, buf[n] = OutputTerminator,
           \A j \in 0 .. n - 1 : buf[j] \in Ids
    PROVE  Contents(buf) = {buf[j] : j \in 0 .. n - 1}
<1>0. Capacity \in Nat /\ n \in Nat BY RuntimeAssumption DEF Slots
<1>1. n \in Stops(buf) BY DEF Stops, Terminators
<1>2. \A j \in Stops(buf) : n <= j
  <2> SUFFICES ASSUME NEW j \in Slots, buf[j] \in Terminators PROVE n <= j
    BY DEF Stops
  <2>1. j \notin 0 .. n - 1 BY IdsAreNoTerminators
  <2> QED BY <1>0, <2>1 DEF Slots
<1>3. \A i \in FirstStop(buf) : i = n
  <2> TAKE i \in FirstStop(buf)
  <2>1. i \in Slots /\ n <= i /\ i <= n BY <1>1, <1>2 DEF FirstStop, Stops
  <2> QED BY <1>0, <2>1 DEF Slots
<1>4. n \in FirstStop(buf) BY <1>1, <1>2 DEF FirstStop
<1>5. \A k : (k \in Slots /\ \E i \in FirstStop(buf) : buf[i] = OutputTerminator /\ k < i)
               <=> k \in 0 .. n - 1
  BY <1>0, <1>3, <1>4 DEF Slots
<1> QED BY <1>5 DEF Contents

\* setPartition writes the ids it is given.
LEMMA WrittenRemains ==
    ASSUME NEW S \in SUBSET Ids, NEW q \in Orderings(S), NEW buf \in [Slots -> Cells]
    PROVE  Remaining(Written(buf, q, Cardinality(S)), 0) = S
<1> DEFINE n == Cardinality(S)
           new == Written(buf, q, n)
<1>1. n \in Slots BY InputFits
<1>2. new \in [Slots -> Cells] /\ new[n] = InputTerminator BY WrittenBuffer
<1>3. \A j \in 0 .. n - 1 : j \in Slots /\ j < n BY <1>1, RuntimeAssumption DEF Slots
<1>4. \A j \in 0 .. n - 1 : new[j] = q[j] BY <1>3 DEF Written
<1>5. q \in [0 .. n - 1 -> S] /\ {q[i] : i \in 0 .. n - 1} = S BY DEF Orderings
<1>6. \A j \in 0 .. n - 1 : new[j] \in Ids BY <1>4, <1>5
<1>7. {new[j] : j \in 0 .. n - 1} = S BY <1>4, <1>5
<1>8. new[n] \in Terminators BY <1>2 DEF Terminators
<1> HIDE DEF new, n
<1>9. Remaining(new, 0) = S BY <1>1, <1>2, <1>6, <1>7, <1>8, PrefixRemains
<1> QED BY <1>9 DEF new, n

\* The comparison of the generated function is what a caller can tell apart.
LEMMA SameImpact ==
    ASSUME NEW a \in Outcomes, NEW b \in Outcomes
    PROVE  SameOutput(a, b) <=> Impact(b) = Impact(a)
<1>1. a.panic \in BOOLEAN /\ b.panic \in BOOLEAN BY DEF Outcomes
<1>2. <<a.value>> # <<>> /\ <<b.value>> # <<>> OBVIOUS
<1>3. <<a.value>> = <<b.value>> <=> a.value = b.value OBVIOUS
<1> QED BY <1>1, <1>2, <1>3 DEF SameOutput, Impact

---------------------------------------------------------------------------
LEMMA InitExact == Init => ExactInv
<1> SUFFICES ASSUME Init PROVE ExactInv
  OBVIOUS
<1>1. phase = "ready" /\ completed = 0 BY DEF Init
<1> QED BY <1>1 DEF ExactInv, Alone, CallsExact, BetweenExact, PartitionExact

\* A step of a call leaves every other call alone, and there is none.
LEMMA OneCall ==
    ASSUME TypeOK, Alone, CallsExact, EngineAlone, NEW p \in Procs, InCall(p), ~overlapped
    PROVE  /\ phase = "testing" /\ ~killed /\ CallAt(p)
           /\ \A r \in Procs : r # p => pc[r] = "idle"
BY DEF EngineAlone, Alone, CallsExact, InCall

\* It is enough to look at that call while it goes on.
LEMMA InsideCall ==
    ASSUME TypeOK, TypeOK', ExactInv, EngineAlone, NEW p \in Procs, InCall(p),
           UNCHANGED <<phase, overlapped, killed>>, pc'[p] # "idle",
           \A r \in Procs : r # p => pc'[r] = pc[r],
           ~overlapped => CallAt(p)'
    PROVE  ExactInv'
<1>1. phase = "testing" BY DEF EngineAlone, InCall
<1>2. CASE overlapped
  BY <1>1, <1>2 DEF ExactInv, Alone, CallsExact, BetweenExact, PartitionExact
<1>3. CASE ~overlapped
  <2>1. /\ ~killed /\ \A r \in Procs : r # p => pc'[r] = "idle"
    BY <1>3, OneCall DEF ExactInv
  <2>2. Alone' BY <1>1, <1>3, <2>1 DEF Alone, InCall
  <2>3. CallsExact'
    <3> SUFFICES ASSUME NEW r \in Procs, InCall(r)' PROVE CallAt(r)'
      BY DEF CallsExact
    <3>1. r = p BY <2>1 DEF InCall
    <3> QED BY <1>3, <3>1
  <2>4. BetweenExact' BY DEF BetweenExact, InCall
  <2>5. PartitionExact' BY <1>1 DEF PartitionExact
  <2> QED BY <2>2, <2>3, <2>4, <2>5 DEF ExactInv
<1> QED BY <1>2, <1>3

LEMMA SetPartitionExact == ASSUME IInv, ExactInv, SetPartition PROVE ExactInv'
<1>1. PICK S \in SUBSET Ids, c \in Ids :
        /\ \E q \in Orderings(S) : partition' = Written(partition, q, Cardinality(S))
        /\ equivalent' = S
  BY DEF SetPartition
<1>2. Remaining(partition, 0)' = equivalent'
  BY <1>1, WrittenRemains DEF IInv, TypeOK
<1>3. /\ phase' = "testing" /\ ~killed' /\ completed' = 0
      /\ \A p \in Procs : pc'[p] = "idle"
  BY DEF SetPartition, IInv, EngineAlone
<1> QED BY <1>2, <1>3 DEF ExactInv, Alone, CallsExact, BetweenExact, PartitionExact, InCall

LEMMA EndsExact == ASSUME IInv, ExactInv, TestEnds \/ Timeout \/ GetPartition PROVE ExactInv'
<1>1. CASE TestEnds
  <2>1. /\ phase' = "read" /\ UNCHANGED <<partition, killed, completed, equivalent, overlapped, pc>>
        /\ phase = "testing"
    BY <1>1 DEF TestEnds, historyVars
  <2> QED BY <2>1 DEF ExactInv, Alone, CallsExact, BetweenExact, PartitionExact, InCall
<1>2. CASE Timeout
  <2>1. phase' = "read" /\ killed' BY <1>2, Zenon DEF Timeout
  <2> QED BY <2>1 DEF ExactInv, Alone, CallsExact, BetweenExact, PartitionExact
<1>3. CASE GetPartition
  <2>1. /\ phase = "read" /\ phase' = "ready" /\ result' = Contents(partition)
        /\ UNCHANGED <<killed, completed, equivalent, overlapped, pc>>
    BY <1>3 DEF GetPartition, historyVars
  <2>2. \A p \in Procs : ~InCall(p) BY <2>1 DEF IInv, EngineAlone, InCall
  <2> QED BY <2>1, <2>2 DEF ExactInv, Alone, CallsExact, BetweenExact, PartitionExact
<1> QED BY <1>1, <1>2, <1>3

LEMMA BeginCallExact == ASSUME IInv, IInv', ExactInv, NEW p \in Procs, BeginCall(p) PROVE ExactInv'
<1>1. PICK f \in [Ids -> Outcomes] :
        /\ eval' = [eval EXCEPT ![p] = f]
        /\ equivalent' = {q \in equivalent : Impact(f[q]) = Impact(f[candidate])}
  BY DEF BeginCall
<1>2. /\ phase = "testing" /\ phase' = "testing" /\ pc[p] = "idle"
      /\ overlapped' = (overlapped \/ \E r \in Procs : pc[r] # "idle")
      /\ pc' = [pc EXCEPT ![p] = "dispatch"] /\ id' = [id EXCEPT ![p] = candidate]
      /\ input_index' = [input_index EXCEPT ![p] = 0]
      /\ output_index' = [output_index EXCEPT ![p] = 0]
      /\ output_initialized' = [output_initialized EXCEPT ![p] = FALSE]
      /\ UNCHANGED <<partition, candidate, killed, completed>>
  BY DEF BeginCall, engineVars
<1>3. /\ eval'[p] = f /\ pc'[p] = "dispatch" /\ id'[p] = candidate /\ input_index'[p] = 0
      /\ output_index'[p] = 0 /\ ~output_initialized'[p] /\ candidate \in Ids
      /\ \A r \in Procs : r # p => pc'[r] = pc[r]
  BY <1>1, <1>2 DEF IInv, TypeOK
<1>4. CASE overlapped'
  BY <1>2, <1>3, <1>4 DEF ExactInv, Alone, CallsExact, BetweenExact, PartitionExact
<1>5. CASE ~overlapped'
  <2>1. ~overlapped /\ \A r \in Procs : ~InCall(r) BY <1>2, <1>5 DEF InCall
  <2>2. ~killed BY <1>2 DEF ExactInv, Alone
  <2>3. Remaining(partition, 0) = equivalent BY <1>2, <2>1, <2>2 DEF ExactInv, BetweenExact
  <2>4. CallAt(p)'
    <3>1. {partition'[j] : j \in 0 .. output_index'[p] - 1} = {} BY <1>3
    <3>2. equivalent' = {d \in {} \cup Remaining(partition, 0) : Agrees(p, d)'}
      BY <1>1, <1>2, <1>3, <2>3 DEF Agrees
    <3> QED BY <1>2, <1>3, <3>1, <3>2 DEF CallAt
  <2>5. Alone' BY <1>2, <1>3, <2>1, <2>2 DEF Alone, InCall
  <2>6. CallsExact' BY <1>3, <2>1, <2>4 DEF CallsExact, InCall
  <2>7. BetweenExact' /\ PartitionExact' BY <1>2, <1>3 DEF BetweenExact, PartitionExact, InCall
  <2> QED BY <2>5, <2>6, <2>7 DEF ExactInv
<1> QED BY <1>4, <1>5

LEMMA DispatchExact == ASSUME IInv, IInv', ExactInv, NEW p \in Procs, Dispatch(p) PROVE ExactInv'
<1>1. /\ pc[p] = "dispatch" /\ pc' = [pc EXCEPT ![p] = "compare"]
      /\ current' = [current EXCEPT ![p] =
                       IF id[p] \in Ids THEN eval[p][id[p]]
                                        ELSE [panic |-> FALSE, value |-> @.value]]
      /\ UNCHANGED <<partition, phase, candidate, killed, overlapped, equivalent, id, input_index,
                     output_index, output, output_initialized, eval>>
  BY DEF Dispatch, engineVars, historyVars
<1>2. /\ pc'[p] = "compare" /\ \A r \in Procs : r # p => pc'[r] = pc[r]
      /\ id[p] \in Ids => current'[p] = eval[p][id[p]]
  BY <1>1 DEF IInv, TypeOK
<1>3. ~overlapped => CallAt(p)'
  <2> SUFFICES ASSUME ~overlapped PROVE CallAt(p)'
    OBVIOUS
  <2>1. CallAt(p) BY <1>1, OneCall DEF IInv, ExactInv, InCall
  <2> QED BY <1>1, <1>2, <2>1 DEF CallAt, Agrees
<1> QED BY <1>1, <1>2, <1>3, InsideCall DEF IInv, InCall

LEMMA CompareExact == ASSUME IInv, IInv', ExactInv, NEW p \in Procs, Compare(p) PROVE ExactInv'
<1> DEFINE m == input_index[p]
           n == output_index[p]
<1>1. /\ pc[p] = "compare" /\ pc' = [pc EXCEPT ![p] = "check"]
      /\ UNCHANGED <<phase, candidate, killed, overlapped, equivalent, id, input_index, current, eval>>
  BY DEF Compare, engineVars, historyVars
<1>2. pc'[p] = "check" /\ \A r \in Procs : r # p => pc'[r] = pc[r]
  BY <1>1 DEF IInv, TypeOK
<1>3. /\ eval[p] \in [Ids -> Outcomes] /\ candidate \in Ids /\ m \in Nat /\ n \in Nat
      /\ partition \in [Slots -> Cells]
  BY DEF IInv, TypeOK
<1>4. ~overlapped => CallAt(p)'
  <2> SUFFICES ASSUME ~overlapped PROVE CallAt(p)'
    OBVIOUS
  <2>1. CallAt(p) BY <1>1, OneCall DEF IInv, ExactInv, InCall
  <2>2. id[p] \in Ids /\ current[p] = eval[p][id[p]] BY <1>1, <2>1 DEF CallAt
  <2>3. CASE ~output_initialized[p]
    <3>1. /\ output'[p] = current[p] /\ output_initialized'[p]
          /\ UNCHANGED <<partition, output_index>>
      BY <2>3 DEF Compare, Records, IInv, TypeOK
    <3>2. id[p] = candidate BY <2>1, <2>3 DEF CallAt
    <3> QED BY <1>1, <1>2, <2>1, <2>2, <2>3, <3>1, <3>2 DEF CallAt, Agrees
  <2>4. CASE output_initialized[p]
    <3>1. UNCHANGED <<output, output_initialized>> BY <2>4 DEF Compare
    <3>2. output[p] = eval[p][candidate] BY <2>1, <2>4 DEF CallAt
    <3>3. Records(p) <=> Agrees(p, id[p])
      BY <1>3, <2>2, <2>4, <3>2, SameImpact DEF Records, Agrees
    <3>4. equivalent = {partition[j] : j \in 0 .. n - 1}
                         \cup {d \in {id[p]} \cup Remaining(partition, m) : Agrees(p, d)}
      BY <1>1, <2>1, <2>4 DEF CallAt
    <3>5. CASE ~Records(p)
      <4>1. UNCHANGED <<partition, output_index>> BY <3>5 DEF Compare
      <4>2. equivalent = {partition[j] : j \in 0 .. n - 1}
                           \cup {d \in {} \cup Remaining(partition, m) : Agrees(p, d)}
        BY <3>3, <3>4, <3>5
      <4>3. \A j \in 0 .. n - 1 : partition[j] \in Ids BY <2>1 DEF CallAt
      <4> QED BY <1>1, <1>2, <2>2, <2>4, <3>1, <3>2, <4>1, <4>2, <4>3 DEF CallAt, Agrees
    <3>6. CASE Records(p)
      <4>1. partition' = [partition EXCEPT ![n] = id[p]] /\ output_index'[p] = n + 1
        BY <3>6 DEF Compare, IInv, TypeOK
      <4>2. n < m BY <1>1, <2>4 DEF IInv, Frames, InCall
      <4>3. Remaining(partition', m) = Remaining(partition, m)
        BY <1>3, <4>1, <4>2, RemainingWrite
      <4>4. n \in Slots
        BY <1>1, <1>3, <4>2, RuntimeAssumption DEF IInv, Frames, InCall, TypeOK, Slots
      <4>5. partition'[n] = id[p] /\ \A j \in 0 .. n - 1 : partition'[j] = partition[j]
        BY <1>3, <4>1, <4>4 DEF Slots
      <4>6. \A j : j \in 0 .. (n + 1) - 1 <=> j \in 0 .. n - 1 \/ j = n BY <1>3
      <4>7. {partition'[j] : j \in 0 .. (n + 1) - 1} = {partition[j] : j \in 0 .. n - 1} \cup {id[p]}
        BY <4>5, <4>6
      <4>8. equivalent = {partition'[j] : j \in 0 .. (n + 1) - 1}
                           \cup {d \in {} \cup Remaining(partition', m) : Agrees(p, d)}
        BY <3>3, <3>4, <3>6, <4>3, <4>7
      <4>9. \A j \in 0 .. (n + 1) - 1 : partition'[j] \in Ids
        BY <2>1, <2>2, <4>5, <4>6 DEF CallAt
      <4> QED BY <1>1, <1>2, <2>2, <2>4, <3>1, <3>2, <4>1, <4>8, <4>9 DEF CallAt, Agrees
    <3> QED BY <3>5, <3>6
  <2> QED BY <2>3, <2>4
<1> QED BY <1>1, <1>2, <1>4, InsideCall DEF IInv, InCall

LEMMA CheckInputExact == ASSUME IInv, IInv', ExactInv, NEW p \in Procs, CheckInput(p) PROVE ExactInv'
<1>1. /\ pc[p] = "check"
      /\ pc' = [pc EXCEPT ![p] = IF partition[input_index[p]] \in Terminators
                                   THEN "terminate" ELSE "load"]
      /\ UNCHANGED <<partition, phase, candidate, killed, overlapped, equivalent, id, input_index,
                     output_index, output, output_initialized, current, eval>>
  BY DEF CheckInput, engineVars, historyVars, frameVars
<1>2. /\ pc'[p] = IF partition[input_index[p]] \in Terminators THEN "terminate" ELSE "load"
      /\ \A r \in Procs : r # p => pc'[r] = pc[r]
  BY <1>1 DEF IInv, TypeOK
<1>3. partition[input_index[p]] \in Cells
  BY <1>1, RuntimeAssumption DEF IInv, Frames, InCall, TypeOK, Slots
<1>4. ~overlapped => CallAt(p)'
  <2> SUFFICES ASSUME ~overlapped PROVE CallAt(p)'
    OBVIOUS
  <2>1. CallAt(p) BY <1>1, OneCall DEF IInv, ExactInv, InCall
  <2> QED BY <1>1, <1>2, <1>3, <2>1 DEF CallAt, Agrees, Cells
<1> QED BY <1>1, <1>2, <1>4, InsideCall DEF IInv, InCall

LEMMA LoadInputExact == ASSUME IInv, IInv', ExactInv, NEW p \in Procs, LoadInput(p) PROVE ExactInv'
<1> DEFINE m == input_index[p]
<1>1. /\ pc[p] = "load" /\ pc' = [pc EXCEPT ![p] = "dispatch"]
      /\ id' = [id EXCEPT ![p] = partition[m]]
      /\ input_index' = [input_index EXCEPT ![p] = m + 1]
      /\ UNCHANGED <<partition, phase, candidate, killed, overlapped, equivalent,
                     output_index, output, output_initialized, current, eval>>
  BY DEF LoadInput, Advance, engineVars, historyVars
<1>2. /\ pc'[p] = "dispatch" /\ id'[p] = partition[m] /\ input_index'[p] = m + 1
      /\ \A r \in Procs : r # p => pc'[r] = pc[r]
  BY <1>1 DEF IInv, TypeOK
<1>3. m \in Slots /\ partition \in [Slots -> Cells]
  BY <1>1, RuntimeAssumption DEF IInv, Frames, InCall, TypeOK, Slots
<1>4. ~overlapped => CallAt(p)'
  <2> SUFFICES ASSUME ~overlapped PROVE CallAt(p)'
    OBVIOUS
  <2>1. CallAt(p) BY <1>1, OneCall DEF IInv, ExactInv, InCall
  <2>2. partition[m] \in Ids /\ output_initialized[p] BY <1>1, <2>1 DEF CallAt
  <2>3. {} \cup Remaining(partition, m) = {partition[m]} \cup Remaining(partition, m + 1)
    BY <1>3, <2>2, RemainingStep
  <2>4. equivalent = {partition[j] : j \in 0 .. output_index[p] - 1}
                       \cup {d \in {partition[m]} \cup Remaining(partition, m + 1) : Agrees(p, d)}
    BY <1>1, <2>1, <2>3 DEF CallAt
  <2> QED BY <1>1, <1>2, <2>1, <2>2, <2>4 DEF CallAt, Agrees
<1> QED BY <1>1, <1>2, <1>4, InsideCall DEF IInv, InCall

\* The last step of a call: what it has written is all it keeps.
LEMMA TerminateExact == ASSUME IInv, IInv', ExactInv, NEW p \in Procs, Terminate(p) PROVE ExactInv'
<1> DEFINE n == output_index[p]
<1>1. /\ pc[p] = "terminate" /\ pc' = [pc EXCEPT ![p] = "idle"]
      /\ partition' = [partition EXCEPT ![n] = OutputTerminator]
      /\ UNCHANGED <<phase, killed, overlapped, equivalent>>
  BY DEF Terminate, engineVars
<1>2. /\ phase = "testing" /\ pc'[p] = "idle" /\ \A r \in Procs : r # p => pc'[r] = pc[r]
  BY <1>1 DEF IInv, TypeOK, EngineAlone
<1>3. CASE overlapped
  BY <1>1, <1>2, <1>3 DEF ExactInv, Alone, CallsExact, BetweenExact, PartitionExact
<1>4. CASE ~overlapped
  <2>1. CallAt(p) /\ ~killed /\ \A r \in Procs : r # p => pc[r] = "idle"
    BY <1>1, <1>4, OneCall DEF IInv, ExactInv, InCall
  <2>2. /\ input_index[p] \in Slots /\ n \in Slots /\ partition \in [Slots -> Cells]
        /\ partition' \in [Slots -> Cells]
    <3>1. partition \in [Slots -> Cells] /\ partition' \in [Slots -> Cells] BY DEF IInv, TypeOK
    <3>2. /\ input_index[p] \in Nat /\ n \in Nat
          /\ input_index[p] <= inputSize /\ n <= input_index[p]
      BY <1>1 DEF IInv, Frames, InCall, TypeOK
    <3>3. inputSize \in 0 .. Capacity - 1 /\ Capacity \in Nat
      BY RuntimeAssumption DEF IInv, TypeOK, Slots
    <3>4. input_index[p] \in Slots /\ n \in Slots BY <3>2, <3>3 DEF Slots
    <3> QED BY <3>1, <3>4
  <2>3. Remaining(partition, input_index[p]) = {} BY <1>1, <2>1, <2>2, RemainingStop DEF CallAt
  <2>4. equivalent = {partition[j] : j \in 0 .. n - 1} BY <1>1, <2>1, <2>3 DEF CallAt
  <2>5. partition'[n] = OutputTerminator /\ \A j \in 0 .. n - 1 : partition'[j] = partition[j]
    BY <1>1, <2>2 DEF Slots
  <2>6. \A j \in 0 .. n - 1 : partition'[j] \in Ids BY <2>1, <2>5 DEF CallAt
  <2>7. equivalent = {partition'[j] : j \in 0 .. n - 1} BY <2>4, <2>5
  <2>8. Remaining(partition', 0) = equivalent
    BY <2>2, <2>5, <2>6, <2>7, PrefixRemains DEF Terminators
  <2>9. Contents(partition') = equivalent BY <2>2, <2>5, <2>6, <2>7, PrefixRead
  <2>10. \A r \in Procs : ~InCall(r)' BY <1>2, <2>1 DEF InCall
  <2> QED
    BY <1>1, <1>2, <2>1, <2>8, <2>9, <2>10
    DEF ExactInv, Alone, CallsExact, BetweenExact, PartitionExact
<1> QED BY <1>3, <1>4

LEMMA StepExact == IInv /\ IInv' /\ ExactInv /\ [Next]_vars => ExactInv'
<1> SUFFICES ASSUME IInv, IInv', ExactInv, [Next]_vars PROVE ExactInv'
  OBVIOUS
<1>1. CASE SetPartition BY <1>1, SetPartitionExact
<1>2. CASE TestEnds \/ Timeout \/ GetPartition BY <1>2, EndsExact
<1>3. ASSUME NEW p \in Procs, BeginCall(p) PROVE ExactInv' BY <1>3, BeginCallExact
<1>4. ASSUME NEW p \in Procs, CallStep(p) PROVE ExactInv'
  BY <1>4, DispatchExact, CompareExact, CheckInputExact, LoadInputExact, TerminateExact DEF CallStep
<1>5. CASE UNCHANGED vars
  BY <1>5 DEF vars, engineVars, historyVars, frameVars, ExactInv, Alone, CallsExact, CallAt, Agrees,
              BetweenExact, PartitionExact, InCall
<1> QED BY <1>1, <1>2, <1>3, <1>4, <1>5 DEF Next

\* After a test that was not killed and whose calls did not overlap, in however
\* many processes, getPartition returns exactly the ids that agreed with the
\* current candidate in every call: the reason why the engine may record the
\* outcome of the test for all of them.
THEOREM PartitionIsExact == Spec => []PartitionExact
<1>1. ExactInv => PartitionExact BY DEF ExactInv
<1> QED BY InitExact, StepExact, Invariance, <1>1, PTL DEF Spec
===========================================================================
