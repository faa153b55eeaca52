\* seqgen.c and seqgen2.c on several cores, seqgenex0.c on one.  On several cores
\* the shutdown may strand a service (SeqThread_stranded), and then nothing moves.
CONSTANTS
    N = 3
    Every <- MCEvery
    sequencePeriods = 6
SPECIFICATION FairSpec
INVARIANTS ReleasesAccounted NoneStrandedOnOneCore
PROPERTIES ReleaseIsAnswered Termination
CHECK_DEADLOCK FALSE
