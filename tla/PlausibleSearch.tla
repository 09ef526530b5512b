-------------------------- MODULE PlausibleSearch --------------------------
(***************************************************************************)
(* What the search of f1x promises: going through the prioritised search   *)
(* space once, in order, it yields exactly the candidates that pass every  *)
(* test related to their location (README.md: it validates each of these   *)
(* programs until it finds one that passes all the tests).                 *)
(***************************************************************************)
EXTENDS Integers

CONSTANT SpaceSize      \* size of the search space

VARIABLES plausible,    \* which candidates pass their related tests
          next,         \* first candidate not decided yet
          found         \* candidates yielded so far

searchVars == <<plausible, next, found>>

Indexes == 0 .. SpaceSize - 1

Init == plausible \in SUBSET Indexes /\ next = 0 /\ found = {}

\* The next plausible candidate is yielded; the ones before it are not plausible.
Yield(i) ==
    /\ i \in next .. SpaceSize - 1
    /\ i \in plausible
    /\ \A j \in next .. i - 1 : j \notin plausible
    /\ found' = found \cup {i}
    /\ next' = i + 1
    /\ UNCHANGED plausible

\* No plausible candidate is left.
Exhaust ==
    /\ \A j \in next .. SpaceSize - 1 : j \notin plausible
    /\ next' = SpaceSize
    /\ UNCHANGED <<plausible, found>>

Next == (\E i \in Indexes : Yield(i)) \/ Exhaust

Spec == Init /\ [][Next]_searchVars
============================================================================
