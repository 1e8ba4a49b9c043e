SPECIFICATION Spec
CONSTANTS
    MaxEntries = 4
    MaxKills = 1
INVARIANTS
    ShownIsSaved
PROPERTIES
    StoredNeverLost
