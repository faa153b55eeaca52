\* The shutdown, on several cores as well.
CONSTANTS
    N = 2
    Every <- MCEvery
    sequencePeriods = 3
SPECIFICATION Spec
INVARIANTS NoServiceStranded
CHECK_DEADLOCK FALSE
