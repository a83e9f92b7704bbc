\* A branch is created while a turn of main is in progress.
SPECIFICATION Spec
CONSTANTS
    Turns = {t1, t2, t3}
    MaxItems = 4
    MaxBranches = 1
    MayOverlap = TRUE
    MayRetry = FALSE
    MayCutForks = FALSE
    SaveOutcomes = {TRUE}
SYMMETRY TurnSymmetry
CHECK_DEADLOCK FALSE
INVARIANT WaitStateVisible
