SPECIFICATION Spec
CONSTANTS
    Names = {s1}
    MaxId = 3
    MaxCalls = 4
INVARIANTS
    TypeOK
    ListFresh
    LoadsFollowWrites
