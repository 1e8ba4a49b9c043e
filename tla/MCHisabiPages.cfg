SPECIFICATION FairSpec
CONSTANTS
    Barcodes = {b1}
    Categories = {c1, c2}
    Queries = {}
    Chips = {c1}
    None = None
    MaxSubmits = 2
    MaxScreens = 2
    MaxQueue = 2
    MaxScanners = 1
INVARIANTS
    ListFresh
    FilterMeaning
PROPERTIES
    PopsOwnPage
    PageFreed
