SPECIFICATION FairSpec
CONSTANTS
    Getters = {"get"}
    FSUsers = {"open"}
    Adders = {"add"}
    Changers = {"remove"}
    Loaders = {"load"}
    Writers = {"write"}
INVARIANT FilesGuarded
PROPERTY CallsReturnUnlessNested
CHECK_DEADLOCK FALSE
