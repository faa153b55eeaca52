\* Ticks come when all due work is done.
CONSTANTS
    SCH_MAX_TASKS = 3
    Tasks = {f}
    NULL = NULL
    Delays <- MCDelays
    Periods <- MCPeriods
    ByteMod = 4
    MaxCalls = 2
    MaxOwed = 2
    TickAnywhere = FALSE
    SelfDelete = FALSE
SPECIFICATION FairSpec
PROPERTIES ImplementsTimeTriggered WorkGetsDone
