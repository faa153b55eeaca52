\* Handler calls on several threads.  The shutdown may strand a service, as in
\* SeqThread_stranded, and then nothing moves.
CONSTANTS
    N = 2
    Every <- MCEvery
    sequencePeriods = 3
    MaxLoops = 4
SPECIFICATION Spec
INVARIANTS NotEarly ReleasesAccounted EndsAfterTimer
CHECK_DEADLOCK FALSE
