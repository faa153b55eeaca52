\* A BlockedQueue and a BoundedBlockedQueue whose producers fill it and wait.  The
\* consumers call pop forever: with nothing left to push they wait, and only a
\* spontaneous wake-up moves them.
CONSTANTS
    Producers = {p1, p2}
    Consumers = {c1, c2, c3}
    Sizes <- QueueSizes
    MaxPush = 3
SPECIFICATION FairSpec
INVARIANTS TypeOK ConsumerIsWoken
PROPERTIES PoppedInOrder EverythingIsPopped
