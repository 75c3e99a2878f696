SPECIFICATION MCSpec
CONSTANTS
    Places = {1, 2, 3}
    Far = {3}
    Wanted <- SomeNames
    Defined <- InDocuments
    TooShort <- Short
    Roots = {"r"}
    Room = 1
    MaxCalls = 4
INVARIANTS NamesAreInverse NothingDangles EachUpdatedOnce ReferencesResolve
PROPERTIES KeepsNames
CHECK_DEADLOCK FALSE
