SPECIFICATION FairSpec
CONSTANTS
    w1 = w1
    w2 = w2
    Workers = {w1, w2}
    N = 3
    InOrder = TRUE
    Empty = {2}
    Misjudged = {1}
PROPERTIES ImplementsBulkWrite Termination
CHECK_DEADLOCK FALSE
