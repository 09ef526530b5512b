------------------------------ MODULE MCRepair ------------------------------
(* Small instances of Repair for TLC.                                      *)
EXTENDS Repair

CONSTANTS l1, l2

\* Two of the candidates share a location.
ThreeAtTwo == [c \in 0 .. 2 |-> IF c = 1 THEN l2 ELSE l1]

Config(all, validate, one, top, files) ==
    [generateAll |-> all, validatePatches |-> validate,
     outputOnePerLocation |-> one, outputTop |-> top, filesGiven |-> files]

\* One patch, without and with validation.
Single          == Config(FALSE, FALSE, FALSE, 0, TRUE)
SingleValidated == Config(FALSE, TRUE, FALSE, 0, FALSE)

\* --all with validation: everything, the first two, one per location.
AllValidated  == Config(TRUE, TRUE, FALSE, 0, TRUE)
TopValidated  == Config(TRUE, TRUE, FALSE, 2, FALSE)
OnePerLoc     == Config(TRUE, FALSE, TRUE, 0, TRUE)
OneValidated  == Config(TRUE, TRUE, TRUE, 2, TRUE)

AllConfigs ==
    {Single, SingleValidated, AllValidated, TopValidated, OnePerLoc, OneValidated}
OnlySingleValidated == {SingleValidated}
=============================================================================
