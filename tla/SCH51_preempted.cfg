\* The interrupt may strike anywhere; tasks may delete themselves and add to their own slot.
CONSTANTS
    SCH_MAX_TASKS = 2
    Tasks = {f}
    NULL = NULL
    Delays = {0}
    Periods = {0, 1}
    ByteMod = 3
    MaxCalls = 2
    MaxOwed = 3
    TickAnywhere = TRUE
    SelfDelete = TRUE
SPECIFICATION FairSpec
INVARIANTS FreeSlotIsClear NoSpuriousRun OneShotRunsOnce LostOnlyWhenHit
PROPERTIES RemovedOnlyAfterRun ActivationInterval RaisedIsServed
