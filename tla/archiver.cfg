CONSTANTS
    Original <- TheOriginal
    SourceLists <- TheSourceLists
    Sinks <- TheSinks
    Operations <- TheOperations
    MaxCalls = 2
SPECIFICATION FairSpec
INVARIANTS
    NilMeansDelivered
    ErrorsHaveACause
    NothingLeftOpen
PROPERTIES
    DestinationKept
    Termination
CHECK_DEADLOCK FALSE
