---------------------------- MODULE MCExperiment ----------------------------
(* Small instances of Experiment: f1x with the configurations of MCRepair, *)
(* and f1x-bench with two defects.                                         *)
EXTENDS Experiment, MCRepair

TwoDefects == <<1, 2>>
=============================================================================
