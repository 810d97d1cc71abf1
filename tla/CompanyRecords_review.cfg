SPECIFICATION Spec
CONSTANTS
    Ids = {1, 2, 3}
    n = n
    m = m
    x = x
    y = y
    i = i
    Names = {n, m}
    Sites = {x, y}
    Infos = {i}
    Bad = Bad
    None = None
    Brought <- Pairs
    Workers = 2
    Starts <- Starts3
SYMMETRY Symmetry
INVARIANTS FinishedIsSaved
PROPERTIES NamesApart NoCrossFill
CHECK_DEADLOCK FALSE
