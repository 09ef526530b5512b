------------------------ MODULE MCFaultLocalization ------------------------
(* A small instance of FaultLocalization for TLC.                          *)
EXTENDS FaultLocalization

CONSTANTS f1, f2, startup, s1, s2

\* A statement per file; the compilation database lists the first file twice,
\* as it does for a file that is compiled for two targets, and an assembler file.
FileOfTwo  == [s \in {s1, s2} |-> IF s = s2 THEN f2 ELSE f1]
Commands   == <<f1, startup, f2, f1>>

\* Both files in one directory, or in two.
OneOrTwo     == {{f1, f2}, {f1}}
===========================================================================
