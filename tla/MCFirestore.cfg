SPECIFICATION Spec
CONSTANTS
    MaxScreens = 2
    MaxSubmits = 2
    MaxSaves = 2
INVARIANTS
    DuplicateNeedsOverlap
    MessageIsTrue
    CopyFollows
    ShowsStored
PROPERTY
    ReplacesOwnPage
