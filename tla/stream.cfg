CONSTANTS
    Limit = 9
    Archives <- TheArchives
SPECIFICATION Spec
INVARIANTS NextFindsNext ReadsContent DamageTold
CHECK_DEADLOCK FALSE
