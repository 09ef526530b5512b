------------------------- MODULE MCTestEquivalence -------------------------
(* Three candidates of one application, a test with up to two calls of the *)
(* function and a test with at most one.                                   *)
EXTENDS TestEquivalence

CONSTANTS l1, t1, t2

OneLocation == [c \in 0 .. SpaceSize - 1 |-> l1]
BothTests   == {[l \in {l1} |-> <<t1, t2>>]}
AllPatches  == {[valueTEQ |-> TRUE, maxFailing |-> TRUE, generateAll |-> TRUE]}
AnyVerdict  == [c \in AllPatches |-> {"PASS", "FAIL", "TIMEOUT"}]

Returns(v) == [panic |-> FALSE, value |-> v]
Panic      == [panic |-> TRUE, value |-> 0]

\* A buffer that an earlier run left: two ids and an output terminator.
Left == {[i \in 0 .. Capacity - 1 |-> IF i < 2 THEN i ELSE OutputTerminator]}

\* The first call of the first candidate returns 0, its second call too.
TwoCalls == {<<Returns(0), Returns(0)>>, <<Returns(0), Returns(1)>>, <<Returns(0), Panic>>, <<Returns(1)>>}
OneCall  == {<<>>, <<Returns(0)>>, <<Returns(1)>>}

\* Verdicts are drawn per candidate and kept where they are deterministic.
SomePrograms ==
    LET Calls(a, b) == [c \in Candidates |-> [t \in Tests |-> IF t = t1 THEN a[c] ELSE b[c]]]
        First  == [Candidates -> TwoCalls]
        Second == [Candidates -> OneCall]
    IN  [calls   : {Calls(a, b) : a \in {f \in First : f[0] = <<Returns(0), Returns(0)>>},
                                  b \in {f \in Second : f[0] # <<Returns(1)>>}},
         verdict : {[c \in Candidates |-> [t \in Tests |-> IF t = t1 THEN v[c] ELSE w[c]]] :
                      v \in [Candidates -> {"PASS", "FAIL", "TIMEOUT"}],
                      w \in [Candidates -> {"PASS", "FAIL"}]}]
===========================================================================
