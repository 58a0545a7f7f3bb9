SPECIFICATION Spec
CONSTANTS
    Letters <- TheLetters
    Names <- TheNames
    MaxStringLength = 5
    MaxEntries = 3
INVARIANTS LookupSound FilesListed TreeShaped FSListsTree TransformScope TransformAllOrNothing
CHECK_DEADLOCK FALSE
