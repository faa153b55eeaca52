\* Posts, owners and terminate_all race; idle executors may wait for ever.
CONSTANTS
    a = a
    b = b
    p = p
    wa = wa
    wb = wb
    wp = wp
    Execs = {a, b}
    Pools = {p}
    Workers = {wa, wb, wp}
    Home <- MCHome
    Clients = {c}
    Main = Main
    Ids = {1}
    None = None
    MaxPosts = 2
SPECIFICATION FairSpec
INVARIANTS NoUseAfterDestruction DestroyedOnlyTerminated
PROPERTIES CallReturns TerminateReturns DestructorReturns DeadlockStays
CHECK_DEADLOCK FALSE
