SPECIFICATION FairSpec
CONSTANTS
    w1 = w1
    w2 = w2
    Workers = {w1, w2}
    root = root
    dir = dir
    other = other
    N = 6
    Directories = {1}
    Folders = {root, dir, other}
    Destination = root
    Folder <- EntryFolders
    Beforehand <- FolderSets
    Size <- EntrySizes
    Data <- EntryData
    Suspect = {3}
    Faulty = {1, 2}
    Configs <- Options
    BufferSize = 2
INVARIANTS BudgetKept NothingRefusedIfAllFits ToldOkIsWhole NilMeansAll
PROPERTIES Termination
CHECK_DEADLOCK FALSE
