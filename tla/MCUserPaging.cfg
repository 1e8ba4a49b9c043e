SPECIFICATION FairPaging
CONSTANTS
    PageSize = 2
    Totals = {0, 1, 2, 5, 6, 7}
INVARIANTS
    PagesInOrder
PROPERTY
    SpinnerEnds
