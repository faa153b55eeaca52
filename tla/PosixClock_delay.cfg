\* A second of six nanoseconds; the request does not fit into what is left of the
\* second in five of the six phases, and a late sleep spans more than a second.
CONSTANTS
    NSEC_PER_SEC = 6
    TEST_NANOSECONDS = 5
    TEST_ITERATIONS = 3
    max_sleep_calls = 3
    MaxLate = 4
    MaxSlew = 1
SPECIFICATION Spec
INVARIANTS DtIsElapsed ErrorIsOfLastFullSleep ShortOnlyAtLimit
