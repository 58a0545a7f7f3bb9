CONSTANTS
    Size = 40
    Packed <- ThePacked
    Passwords = {"p", "q"}
    Times = {0, 1}
    Settings <- TheSettings
    Foreign <- TheForeign
    MaxSets = 2
    MaxWrites = 2
SPECIFICATION Spec
INVARIANTS
    WrittenReadsBack
    WrittenAsAsked
PROPERTIES
    OpensUntilEncodedAnew
CHECK_DEADLOCK FALSE
