CONSTANTS
    Limit = 7
    MaxEntries = 2
    SpillThreshold = 3
    EndLength = 1
    Sources <- TheSources
    Archives <- TheArchives
    Options <- TheOptions
SPECIFICATION Spec
INVARIANT Zip64ReadsBack
CHECK_DEADLOCK FALSE
