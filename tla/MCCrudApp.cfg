SPECIFICATION Spec
CONSTANTS
    MaxId = 2
    MaxRequests = 2
INVARIANTS
    ListFaithful
    SpinnerHasCause
PROPERTY
    UpdateClosesOwnScreen
