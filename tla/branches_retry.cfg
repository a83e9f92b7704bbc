\* A message that led to a wait state is retried.
SPECIFICATION Spec
CONSTANTS
    Turns = {t1, t2}
    MaxItems = 3
    MaxBranches = 1
    MayOverlap = FALSE
    MayRetry = TRUE
    MayCutForks = FALSE
    SaveOutcomes = {TRUE}
SYMMETRY TurnSymmetry
CHECK_DEADLOCK FALSE
INVARIANT RetryForgets
