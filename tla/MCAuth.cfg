SPECIFICATION FairSpec
CONSTANTS
    MaxScreens = 4
    MaxDepth = 3
    MaxFlows = 2
    MaxEvents = 1
INVARIANTS
    WrapperFollows
    HomeNeedsSignIn
    SpinnerHasCause
PROPERTIES
    ReplacesOwnScreen
    ScreenFollowsUser
