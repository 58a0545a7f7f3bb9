CONSTANTS
    N = 3
    Workers = {w1, w2}
    Archives <- TheArchives
    Blocks = 1
SPECIFICATION FairSpec
INVARIANTS
    NilMeansVerified
    ErrorsAreTold
    EventsTrue
PROPERTIES
    Termination
CHECK_DEADLOCK FALSE
