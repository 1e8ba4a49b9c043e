SPECIFICATION FairSpec
CONSTANTS
    Amounts = {10}
    MaxPresses = 3
    MaxVisits = 2
INVARIANTS
    ShowsOwnPrice
    MessageIsTrue
    PaidOnce
PROPERTIES
    PressAnswered
