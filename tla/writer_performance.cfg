SPECIFICATION Spec
CONSTANTS
    w1 = w1
    w2 = w2
    Workers = {w1}
    N = 5
    InOrder = FALSE
    Empty = {}
    Misjudged = {}
INVARIANTS SnapshotsExclusive BuffersFreed PipelineBound
CHECK_DEADLOCK FALSE
