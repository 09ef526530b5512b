---------------------------- MODULE MCProfiler ----------------------------
(* Small instances of Profiler for TLC.                                    *)
EXTENDS Profiler

CONSTANTS l1, l2
===========================================================================
