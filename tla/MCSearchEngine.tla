-------------------------- MODULE MCSearchEngine --------------------------
(* A small instance of SearchEngine for TLC.                               *)
EXTENDS SearchEngine

CONSTANTS l1, l2, t1, t2, t3

\* Two candidates at one location, one at another, in mixed order.
ThreeAtTwo == [c \in 0 .. 2 |-> IF c = 1 THEN l2 ELSE l1]

\* Both locations share a test.
RelatedThree == {[l \in {l1, l2} |-> IF l = l1 THEN <<t1, t2, t3>> ELSE <<t2>>]}

\* The defaults with --all, prioritisation disabled, equivalence disabled.
Config(teq, prior, all) == [valueTEQ |-> teq, maxFailing |-> prior, generateAll |-> all]
ThreeConfigs ==
    {Config(TRUE, TRUE, TRUE), Config(TRUE, FALSE, FALSE), Config(FALSE, TRUE, FALSE)}

\* With equivalence no test is killed (SoundPartitions); without it, a test
\* that does not pass times out.
VerdictsOfConfigs ==
    [c \in ThreeConfigs |-> IF c.valueTEQ THEN {"PASS", "FAIL"} ELSE {"PASS", "TIMEOUT"}]
===========================================================================
