SPECIFICATION Spec
CONSTANTS
    p1 = p1
    p2 = p2
    p3 = p3
    p4 = p4
    p5 = p5
    p6 = p6
    p7 = p7
    None = None
    Postings <- SevenPostings
    Untitled = {p1}
    Nameless = {p2}
    PageSize = 2
    MaxPages = 3
    Cap = 6
    MaxChurn = 2
    MaxFaults = 1
SYMMETRY Plain
INVARIANTS
    NoUncertainZero
