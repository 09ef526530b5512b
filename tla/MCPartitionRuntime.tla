------------------------ MODULE MCPartitionRuntime ------------------------
(* Small instances of PartitionRuntime for TLC.                            *)
EXTENDS PartitionRuntime

CONSTANTS p1, p2, id1, id2

\* A new object, or what a test of an earlier run of f1x left: a partition of
\* one or two ids, or an input that was never refined.
Buffer(a, b, c) == [i \in Slots |-> IF i = 0 THEN a ELSE IF i = 1 THEN b ELSE c]
LeftBehind ==
    {Buffer(InputTerminator, InputTerminator, InputTerminator)}
    \cup {Buffer(d, OutputTerminator, InputTerminator) : d \in Ids}
    \cup {Buffer(d, e, t) : d \in Ids, e \in Ids, t \in Terminators}
===========================================================================
