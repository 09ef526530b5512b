SPECIFICATION Spec
CONSTANTS
    Units <- AllUnits
    Options <- TwoOptions
CHECK_DEADLOCK FALSE
INVARIANTS RewritesDisjoint InterestingCovered PatchHitsApplication  ContextSound
