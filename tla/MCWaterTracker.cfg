SPECIFICATION FairWater
CONSTANTS
    Target = 7
    Adds = {2, 4}
    Removes = {2}
    MaxBars = 4
INVARIANTS
    FlagMeansBar
PROPERTY
    FlagClears
