SPECIFICATION Spec
CONSTANTS
    Barcodes = {b1, b2}
    Categories = {c1}
    Queries = {}
    Chips = {}
    None = None
    MaxSubmits = 3
    MaxScreens = 3
    MaxQueue = 2
    MaxScanners = 0
SYMMETRY Symmetry
CONSTRAINT LoadsSucceed
INVARIANTS
    TypeOK
    BarcodesUnique
    CreatedAtKept
PROPERTY
    ImplementsProductStore
